\* Two callers sync one memory that changes twice.
CONSTANTS
    c1 = c1
    c2 = c2
    m1 = m1
    m2 = m2
    Callers = {c1, c2}
    Memories = {m1, m2}
    Limit = 2
    Budgets <- TwoSyncs
SPECIFICATION Spec
INVARIANTS
    IndexNotBehindQueue
CHECK_DEADLOCK FALSE
