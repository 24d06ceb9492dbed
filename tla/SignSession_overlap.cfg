\* Refuted: the dialog shows what the PIN signs, for overlapping requests.
SPECIFICATION Spec
CONSTANTS
    MaxRequests = 2
    MaxTries = 2
    Apis = {"async"}
    Disciplines = {"any"}
INVARIANTS
    PromptShowsDocument
\* The page has made its calls and every window is closed.
CHECK_DEADLOCK FALSE
