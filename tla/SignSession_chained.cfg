\* Refuted: a request made in a callback is answered.
SPECIFICATION FairSpec
CONSTANTS
    MaxRequests = 2
    MaxTries = 2
    Apis = {"async"}
    Disciplines = {"chained"}
PROPERTIES
    AnsweredThroughCallback
\* The page has made its calls and every window is closed.
CHECK_DEADLOCK FALSE
