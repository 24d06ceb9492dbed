\* A page that waits for each answer, and one that calls whenever its code runs.
SPECIFICATION FairSpec
CONSTANTS
    MaxRequests = 3
    MaxTries = 2
    Apis = {"async", "sync"}
    Disciplines = {"sequential", "any"}
INVARIANTS
    TypeOK
    TriesShownAreTrue
    PromptIsFresh
PROPERTIES
    RequestsAnswered
\* The page has made its calls and every window is closed.
CHECK_DEADLOCK FALSE
