\* A page with four elements in each browser.
SPECIFICATION Spec
CONSTANTS
    a = a
    b = b
    c = c
    d = d
    Elements = {a, b, c, d}
    Shapes <- MCShapes
    Browsers = {"mozilla", "safari"}
SYMMETRY Symmetry
INVARIANTS
    TypeOK
    OneForOne
    FlagMeansPass
    OldOnesAreConverted
    BlockerInSync
\* The page is complete.
CHECK_DEADLOCK FALSE
