\* Quiet pages, and pages that call and close whenever they can.
SPECIFICATION FairSpec
CONSTANTS
    p1 = p1
    p2 = p2
    Pages = {p1, p2}
    MaxRequests = 2
    MaxTries = 2
    Habits = {"quiet", "any"}
INVARIANTS
    TypeOK
    CardUsedByOne
    NothingOutlivesItsOwner
    QuietPagesDoNotBlock
PROPERTIES
    RequestsAnswered
\* The pages are closed, or have made their calls.
CHECK_DEADLOCK FALSE
