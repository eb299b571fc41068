\* Two replicas, two attempts and one edit of a hosted project.
CONSTANTS
    Replicas = {r1, r2}
    Attempts = {a1, a2}
    Edits = {e1}
    NoOne = NoOne
    GateRow = TRUE
    Budgets <- WritesOrTasks
SPECIFICATION FairSpec
INVARIANTS
    OneGenerationWrites
PROPERTIES
    LeaseEndsByItsHolder
    EditExcludes
    EditEnds
CHECK_DEADLOCK FALSE
