\* One replica whose runtime is open while its project is edited.
CONSTANTS
    Replicas = {r1}
    Attempts = {a1}
    Edits = {e1}
    NoOne = NoOne
    GateRow = TRUE
    Budgets <- OneTask
SPECIFICATION Spec
INVARIANTS
    RuntimeIsConfigured
CHECK_DEADLOCK FALSE
