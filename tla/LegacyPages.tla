----------------------------- MODULE LegacyPages -----------------------------
(***************************************************************************)
(* The converter of the browser extensions (Mozilla/chrome/content/        *)
(* convertLegacy.js, Safari/convertLegacy.js, Safari/start.js): it         *)
(* replaces the applets and ActiveX objects of old signing pages by the    *)
(* plugin, and OldJavaBlocker.js keeps Mozilla from starting the applets.  *)
(*                                                                         *)
(* Everything is JavaScript on one thread, but nested: a conversion can    *)
(* run a script of the page, an insertion by that script starts a pass     *)
(* over the page, and in Safari an element about to be loaded is converted *)
(* on the spot.  The page's elements have one parent; pages that take      *)
(* elements out again are left out.                                        *)
(***************************************************************************)
EXTENDS Naturals, Sequences, FiniteSets, SequencesExt

CONSTANTS
    Elements,   \* the elements a page can insert
    Shapes,     \* what they can look like, see Shape
    Browsers    \* "mozilla", "safari"

(* The Java class that an attribute names: none, an old signing applet or  *)
(* another; and the name of a parameter that has a signing applet's name.  *)
Shape == [tag : {"applet", "embed", "object"},
          code : {"", "signer", "other"},
          java_code : {"", "signer", "other"},
          classid : {"", "java:signer", "java:other", "activex", "other"},
          param : {"", "java_code", "code"},
          java : BOOLEAN,      \* loaded as application/x-java-...
          script : BOOLEAN]    \* FUNC_INIT or OPERATION: a script to inject

ASSUME LegacyAssumption ==
    /\ IsFiniteSet(Elements)
    /\ Shapes \subseteq Shape /\ Browsers \subseteq {"mozilla", "safari"}

VARIABLES
    browser,   \* never changed
    shape,     \* of each element
    dom,       \* the page's elements, each as it was inserted or converted
    loaded,    \* has DOMContentLoaded come
    running,   \* doc.esteidConvertLegacyRunning
    stack,     \* what the thread has to return to, innermost last
    started,   \* the elements whose Java applet Mozilla has started
    missed     \* history: the elements that the last pass could not see

vars == <<browser, shape, dom, loaded, running, stack, started, missed>>

Init ==
    /\ browser \in Browsers
    /\ shape \in [Elements -> Shapes]
    /\ dom = <<>>
    /\ loaded = FALSE /\ running = FALSE
    /\ stack = <<>>
    /\ started = {} /\ missed = {}

-----------------------------------------------------------------------------
(***************************************************************************)
(* Which elements are old ones.                                            *)
(***************************************************************************)

FirstOf(codes) == IF \E i \in DOMAIN codes : codes[i] # ""
                  THEN SelectSeq(codes, LAMBDA c : c # "")[1] ELSE ""

ClassidCode(s) == CASE s.classid = "java:signer" -> "signer"
                    [] s.classid = "java:other"  -> "other"
                    [] OTHER                     -> ""

ParamCode(s, names) == IF s.param \in names THEN "signer" ELSE ""

(* Mozilla's finds a java_code parameter, Safari's a code parameter too.   *)
esteidFindJavaCodeAttr(s) ==
    FirstOf(<<s.code, s.java_code, ClassidCode(s),
              ParamCode(s, IF browser = "safari" THEN {"code", "java_code"} ELSE {"java_code"})>>)

(* That of OldJavaBlocker.js, which takes every classid for a Java one and *)
(* throws if it is not.  (Mutant: it does not look at parameters.)         *)
JavaCodeToBlock_NoParams(s) == FirstOf(<<s.code, s.java_code, ClassidCode(s)>>)

JavaCodeToBlock(s) ==
    IF s.code = "" /\ s.java_code = "" /\ s.classid \in {"activex", "other"} THEN "thrown"
    ELSE FirstOf(<<s.code, s.java_code, ClassidCode(s), ParamCode(s, {"java_code"})>>)

(* (Mutant: the ActiveX class is not looked for.)                          *)
esteidInspectObject_JavaOnly(s) == esteidFindJavaCodeAttr(s) = "signer"

esteidInspectObject(s) == esteidFindJavaCodeAttr(s) = "signer" \/ s.classid = "activex"

Old(e) == [el |-> e, converted |-> FALSE]
New(e) == [el |-> e, converted |-> TRUE]

Legacy(node) == ~node.converted /\ esteidInspectObject(shape[node.el])
Tag(node)    == IF node.converted THEN "object" ELSE shape[node.el].tag

-----------------------------------------------------------------------------
(***************************************************************************)
(* Passes and conversions.                                                 *)
(***************************************************************************)

ot == <<"applet", "embed", "object">>

(* getElementsByTagName(ot[i]), as it is at the moment it is looked at:    *)
(* where its elements are in the page, and where els[j] is, if it exists.  *)
els(i)     == {k \in DOMAIN dom : Tag(dom[k]) = ot[i]}
Rank(i, k) == Cardinality({l \in els(i) : l <= k})
Item(i, j) == {k \in els(i) : Rank(i, k) = j + 1}

Pass       == [kind |-> "pass", i |-> 1, j |-> 0]
Script     == [kind |-> "script", i |-> 0, j |-> 0]
Event      == [kind |-> "event", i |-> 0, j |-> 0]
Top        == stack[Len(stack)]
Below      == SubSeq(stack, 1, Len(stack) - 1)
In(kind)   == stack # <<>> /\ Top.kind = kind
PageRuns   == IF stack = <<>> THEN TRUE ELSE Top.kind = "script"

(* DOMNodeInserted: a pass, unless one is running.  (Mutant: the flag is   *)
(* not looked at.)                                                         *)
Inserted_Always == IF loaded THEN <<Pass>> ELSE <<>>

Inserted == IF loaded /\ ~running THEN <<Pass>> ELSE <<>>

Push(frames) ==
    /\ stack' = stack \o frames
    /\ running' = (running \/ \E k \in DOMAIN frames : frames[k].kind = "pass")

(* esteidConvertObject(): the new object goes to the end of the parent.    *)
(* (Mutant: the old one is not removed.)                                   *)
Replaced_Kept(k) == Append(dom, New(dom[k].el))

Replaced(k) == Append(RemoveAt(dom, k), New(dom[k].el))

(* esteidInjectJS(): the script runs when it is inserted, and the event of *)
(* its insertion follows.                                                  *)
Injected(e) == IF shape[e].script THEN <<Event, Script>> ELSE <<>>

(* What the running pass misses when the page around it changes: it has    *)
(* passed position k of elements with a tag if it has done with that tag,  *)
(* or with as many of its elements as precede k.                           *)
RunningPasses == {f \in ToSet(stack) : f.kind = "pass"}

Precede(tag, k) == {l \in DOMAIN dom : l < k /\ Tag(dom[l]) = tag}

HasPassed(f, tag, k) ==
    \/ \E n \in 1..(f.i - 1) : ot[n] = tag
    \/ ot[f.i] = tag /\ Cardinality(Precede(tag, k)) < f.j

MissedByInsertion(e, k) == {x \in {e} : \E f \in RunningPasses : HasPassed(f, shape[e].tag, k)}

MissedByRemoval(k) ==
    UNION {{dom[l].el : l \in Item(f.i, f.j)} :
               f \in {g \in RunningPasses : ot[g.i] = Tag(dom[k]) /\ HasPassed(g, Tag(dom[k]), k)}}

(* esteidConvertLegacy(), one element at a time; an index of a live list   *)
(* passes over the element that takes a removed one's place.               *)
ConvertNext ==
    /\ In("pass")
    /\ \E k \in Item(Top.i, Top.j) :
          LET next == Append(Below, [Top EXCEPT !.j = @ + 1])
          IN  IF Legacy(dom[k])
              THEN /\ dom' = Replaced(k)
                   /\ stack' = next \o Injected(dom[k].el)
                   /\ missed' = missed \union {dom[l].el : l \in Item(Top.i, Top.j + 1)}
              ELSE /\ stack' = next
                   /\ UNCHANGED <<dom, missed>>
    /\ UNCHANGED <<browser, shape, loaded, running, started>>

(* (Mutant: one tag too many.)                                             *)
NextTag_Beyond ==
    /\ In("pass") /\ Top.j >= Cardinality(els(Top.i))
    /\ stack' = Append(Below, [Top EXCEPT !.i = @ + 1, !.j = 0])
    /\ UNCHANGED <<browser, shape, dom, loaded, running, started, missed>>

NextTag ==
    /\ In("pass") /\ Top.j >= Cardinality(els(Top.i))
    /\ IF Top.i < Len(ot)
       THEN stack' = Append(Below, [Top EXCEPT !.i = @ + 1, !.j = 0]) /\ UNCHANGED running
       ELSE stack' = Below /\ running' = FALSE
    /\ UNCHANGED <<browser, shape, dom, loaded, started, missed>>

(* DOMContentLoaded.                                                       *)
Load ==
    /\ ~loaded /\ stack = <<>>
    /\ loaded' = TRUE
    /\ Push(<<Pass>>)
    /\ missed' = {}
    /\ UNCHANGED <<browser, shape, dom, started>>

(* The parser before DOMContentLoaded or the page's code insert an         *)
(* element, the page anywhere.                                             *)
Insert(e) ==
    /\ PageRuns
    /\ \A k \in DOMAIN dom : dom[k].el # e
    /\ \E k \in (IF loaded THEN 1 ELSE Len(dom) + 1)..(Len(dom) + 1) :
          /\ dom' = InsertAt(dom, k, Old(e))
          /\ missed' = IF Inserted # <<>> THEN {} ELSE missed \union MissedByInsertion(e, k)
    /\ Push(Inserted)
    /\ UNCHANGED <<browser, shape, loaded, started>>

(* The event of an injected script.                                        *)
DOMNodeInserted ==
    /\ In("event")
    /\ stack' = Below \o Inserted
    /\ running' = (running \/ Inserted # <<>>)
    /\ missed' = IF Inserted # <<>> THEN {} ELSE missed
    /\ UNCHANGED <<browser, shape, dom, loaded, started>>

ScriptEnds ==
    /\ In("script")
    /\ stack' = Below
    /\ UNCHANGED <<browser, shape, dom, loaded, running, started, missed>>

(* Safari: blockResource() converts an element that is about to be loaded. *)
blockResource(e) ==
    /\ browser = "safari" /\ PageRuns
    /\ \E k \in DOMAIN dom :
          /\ dom[k] = Old(e) /\ Legacy(dom[k])
          /\ dom' = Replaced(k)
          /\ missed' = IF Inserted # <<>> THEN {} ELSE missed \union MissedByRemoval(k)
    /\ Push(Injected(e) \o Inserted)
    /\ UNCHANGED <<browser, shape, loaded, started>>

(* Mozilla: OldJavaBlocker.js is asked before a Java applet is started;    *)
(* when it throws, the applet starts.                                      *)
shouldLoad(e) ==
    /\ browser = "mozilla" /\ PageRuns
    /\ shape[e].java /\ e \notin started
    /\ \E k \in DOMAIN dom : dom[k] = Old(e)
    /\ started' = IF JavaCodeToBlock(shape[e]) = "signer" THEN started ELSE started \union {e}
    /\ UNCHANGED <<browser, shape, dom, loaded, running, stack, missed>>

Next ==
    \/ ConvertNext \/ NextTag \/ Load \/ DOMNodeInserted \/ ScriptEnds
    \/ \E e \in Elements : Insert(e) \/ blockResource(e) \/ shouldLoad(e)

Spec == Init /\ [][Next]_vars

-----------------------------------------------------------------------------
(* Every variable has its type; a pass comes to an end, since conversions  *)
(* do not make the lists longer that it goes over.                         *)
TypeOK ==
    /\ browser \in Browsers
    /\ shape \in [Elements -> Shapes]
    /\ dom \in Seq([el : Elements, converted : BOOLEAN])
    /\ loaded \in BOOLEAN /\ running \in BOOLEAN
    /\ stack \in Seq([kind : {"pass", "script", "event"}, i : 0..Len(ot),
                     j : 0..Cardinality(Elements)])
    /\ started \subseteq Elements /\ missed \subseteq Elements

(* esteidConvertObject(): however passes, scripts and loads nest, an       *)
(* element is in the page once: as it was or, once, converted.             *)
OneForOne == \A k, l \in DOMAIN dom : k # l => dom[k].el # dom[l].el

(* esteidConvertLegacyRunning: passes do not nest, and the flag is set     *)
(* while one runs.                                                         *)
FlagMeansPass ==
    LET passes == {k \in DOMAIN stack : stack[k].kind = "pass"} IN
    /\ \A k, l \in passes : k = l
    /\ running <=> passes # {}

(* esteidConvertLegacy(): what the page is left with was not old, or the   *)
(* last pass could not see it: it took the place of an element converted   *)
(* just before it, or was inserted where the pass had been, or took such a *)
(* place when Safari converted another.                                    *)
OldOnesAreConverted ==
    loaded /\ stack = <<>> =>
        \A k \in DOMAIN dom :
            LET s == shape[dom[k].el] IN
            ~dom[k].converted =>
                \/ dom[k].el \in missed
                \/ ~(esteidFindJavaCodeAttr(s) = "signer" \/ s.classid = "activex")

(* convertLegacy.js:135 "Please keep this code in sync with components/    *)
(* OldJavaBlocker.js": Mozilla starts no applet that is then converted.    *)
BlockerInSync == \A k \in DOMAIN dom : dom[k].converted => dom[k].el \notin started
=============================================================================
