\* A project that has never been edited: no gate row, one admission and one edit.
CONSTANTS
    Replicas = {r1, r2}
    Attempts = {a1}
    Edits = {e1}
    NoOne = NoOne
    GateRow = FALSE
    Budgets <- OneTask
SPECIFICATION Spec
PROPERTIES
    EditExcludesTasks
CHECK_DEADLOCK FALSE
