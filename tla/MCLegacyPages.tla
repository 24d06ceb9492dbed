---------------------------- MODULE MCLegacyPages ----------------------------
(* Small instances of LegacyPages: four elements of several shapes.       *)
EXTENDS LegacyPages, TLC

CONSTANTS a, b, c, d   \* elements

Plain == [tag |-> "applet", code |-> "", java_code |-> "", classid |-> "", param |-> "",
          java |-> TRUE, script |-> FALSE]

MCShapes ==
    {[Plain EXCEPT !.code = "signer"],
     [Plain EXCEPT !.code = "signer", !.script = TRUE],
     [Plain EXCEPT !.code = "other"],
     [Plain EXCEPT !.tag = "embed", !.java_code = "signer"],
     [Plain EXCEPT !.tag = "object", !.classid = "java:signer", !.script = TRUE],
     [Plain EXCEPT !.tag = "object", !.classid = "activex", !.java = FALSE],
     [Plain EXCEPT !.tag = "object", !.param = "code"],
     [Plain EXCEPT !.tag = "object", !.param = "java_code"]}

(* An applet by the class of a Java runtime, its code in a parameter.      *)
RuntimeShapes == {[Plain EXCEPT !.tag = "object", !.classid = "other", !.param = "java_code"]}

Symmetry == Permutations({a, b, c, d})
=============================================================================
