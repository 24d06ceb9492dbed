\* Two windows in four kinds of browser.
SPECIFICATION Spec
CONSTANTS
    w1 = w1
    w2 = w2
    onepin = onepin
    opensc = opensc
    NULL = NULL
    Windows = {w1, w2}
    Names = {"esteid", "other"}
    EstEidModName = "esteid"
    Libs = {onepin, opensc}
    Recognized = {onepin}
    ModuleDlls <- MCModuleDlls
    CaCerts = {"ca"}
    CertDirs <- MCCertDirs
    Versions <- MCVersions
SYMMETRY Symmetry
INVARIANTS
    TypeOK
    Settled
    QuietMeansLoaded
PROPERTIES
    OthersLeftAlone
