\* Mozilla, and an applet whose classid is that of a Java runtime.
SPECIFICATION Spec
CONSTANTS
    a = a
    b = b
    c = c
    d = d
    Elements = {a}
    Shapes <- RuntimeShapes
    Browsers = {"mozilla"}
INVARIANTS
    BlockerInSync
CHECK_DEADLOCK FALSE
