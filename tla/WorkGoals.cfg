\* One goal with a budget of three iterations, two processes that drive it and two reporters.
CONSTANTS
    Drivers = {d1, d2}
    Reporters = {a, b}
    Budget = 3
    MaxEvents = 5
SPECIFICATION GoalSpec
SYMMETRY Symmetry
INVARIANTS
    SlotUsedOnce
    TerminalEvidenceStays
CHECK_DEADLOCK FALSE
