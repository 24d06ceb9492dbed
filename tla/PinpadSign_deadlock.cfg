\* Refuted: a signing thread and the main thread never wait for one another.
SPECIFICATION Spec
CONSTANTS
    p1 = p1
    p2 = p2
    Pages = {p1, p2}
    MaxRequests = 1
    MaxTries = 1
    Habits = {"any"}
INVARIANTS
    NoLockCycle
\* The pages are closed, or have made their calls.
CHECK_DEADLOCK FALSE
