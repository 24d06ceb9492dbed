\* Two plugin objects on the thread of one browser window.
SPECIFICATION Spec
CONSTANTS
    A = A
    B = B
    browser = browser
    other = other
    NULL = NULL
    Objects = {A, B}
    Browsers = {browser, other}
    MaxTries = 2
    Timeout = 1
    MaxBoxes = 2
    MaxLate = 0
SYMMETRY Symmetry
INVARIANTS
    TypeOK
    NoWindowLeftDisabled
    ParentWaits
    HookFollowsDialog
    RequestIsPrompted
    PromptHasRequest
    PinNotKept
PROPERTY
    StraysAreUnprompted
\* Every page has been left.
CHECK_DEADLOCK FALSE
