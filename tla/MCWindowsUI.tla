----------------------------- MODULE MCWindowsUI -----------------------------
(* Small instances of WindowsUI: plugin objects and top-level windows.     *)
EXTENDS WindowsUI, TLC

CONSTANTS
    A, B,            \* plugin objects
    browser, other   \* top-level windows

Symmetry == Permutations({A, B}) \union Permutations({browser, other})
=============================================================================
