--------------------------- MODULE MCPkcs11Config ---------------------------
(* Small instances of Pkcs11Config: two windows, two libraries of which    *)
(* the platform knows one, four kinds of browser.                          *)
EXTENDS Pkcs11Config, TLC

CONSTANTS w1, w2, onepin, opensc

(* A mail reader of the time, Firefox 3.0, Firefox 3.5, and the same on an *)
(* unknown platform.                                                       *)
MCVersions ==
    {[shared |-> FALSE, sane |-> FALSE, gBrowser |-> FALSE, known |-> TRUE],
     [shared |-> TRUE, sane |-> FALSE, gBrowser |-> TRUE, known |-> TRUE],
     [shared |-> TRUE, sane |-> TRUE, gBrowser |-> TRUE, known |-> TRUE],
     [shared |-> TRUE, sane |-> TRUE, gBrowser |-> TRUE, known |-> FALSE]}

MCCertDirs == {NULL, {"ca"}, {"ca", "bad"}}
MCModuleDlls == <<onepin>>
Symmetry == Permutations({w1, w2})
=============================================================================
