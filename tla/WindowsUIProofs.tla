--------------------------- MODULE WindowsUIProofs ---------------------------
(***************************************************************************)
(* What is proved about WindowsUI, for any sets of plugin objects and of   *)
(* other windows, and any number of tries, of ticks and of message boxes.  *)
(***************************************************************************)
EXTENDS WindowsUI, TLAPS, SequenceTheorems

-----------------------------------------------------------------------------
(***************************************************************************)
(* The windows: their types, and what is true of them at any time.         *)
(***************************************************************************)

Parents == Windows \union {NULL}
Abouts  == {"blocked", "wrong", "saved"}
Boxes   == [object : Objects, parent : Parents, about : Abouts, shown : BOOLEAN]
WinType ==
    [open : SUBSET Dialogs, m_hParent : [Dialogs -> Parents], disabled : SUBSET Windows,
     s_hWnd : Dialogs \union {NULL}, hooks : SUBSET (Dialogs \union {NULL}),
     edit : [Objects -> BOOLEAN], made : SUBSET Objects,
     time : [Objects -> 0..Timeout], strays : BOOLEAN, boxes : Seq(Boxes)]

(* The bound on message boxes, so that each has its window.                *)
Fits(w) == Len(w.boxes) <= MaxBoxes

(* Nothing takes no input for no reason.                                   *)
NoneLeft(w) == \A x \in w.disabled : \E y \in Shown(w) : owner(w, y) = x
OnePerObject(w) == \A c, d \in w.open : c[1] = d[1] => c = d
EntryShown(w)   == \A o \in Objects : w.edit[o] => <<o, "pin">> \in w.open
BoxesOver(w)    ==   \* a message about an object's PIN is over its PIN dialog, if that is open
    \A i \in DOMAIN w.boxes :
        LET pin == <<w.boxes[i].object, "pin">> IN
        w.boxes[i].shown =>
            /\ w.boxes[i].about = "wrong" => w.boxes[i].parent = pin /\ pin \in w.open
            /\ w.boxes[i].about = "blocked" /\ pin \in w.open => w.boxes[i].parent = pin

Good(w) == Fits(w) /\ NoneLeft(w) /\ OnePerObject(w) /\ EntryShown(w) /\ BoxesOver(w)

(* What is true as long as every dialog could be made: no two windows      *)
(* have been opened over the same one, so closing one enables no other's   *)
(* parent.                                                                 *)
Tidy(w)     == \A d \in Dialogs \ w.open : w.m_hParent[d] = NULL
Waits(w)    == \A y \in Shown(w) : owner(w, y) # NULL => owner(w, y) \in w.disabled
Distinct(w) == \A x, y \in Shown(w) : owner(w, x) = owner(w, y) /\ owner(w, x) # NULL => x = y
NoPinBehind(w) ==
    \A o \in Objects, i \in DOMAIN w.boxes :
        w.edit[o] /\ w.boxes[i].shown /\ w.boxes[i].about # "saved" => w.boxes[i].object # o

Neat(w) == Tidy(w) /\ Waits(w) /\ Distinct(w) /\ NoPinBehind(w)

(* What is true as long as only one object has a dialog open.              *)
Hooked(w) == w.hooks = w.open /\ \A d \in w.open : w.s_hWnd = d

(* From u to w everything is kept.                                         *)
Holds(u, w) ==
    /\ w \in WinType /\ Good(w)
    /\ Neat(u) => Neat(w)
    /\ Hooked(u) => Hooked(w)

Keeps(u, w) == Holds(u, w) /\ w.made = u.made /\ w.strays = u.strays

LEMMA DialogTypes ==
    ASSUME NEW o \in Objects
    PROVE  /\ <<o, "pin">> \in Dialogs /\ <<o, "pinpad">> \in Dialogs /\ <<o, "list">> \in Dialogs
           /\ <<o, "pin">>[1] = o /\ <<o, "pinpad">>[1] = o /\ <<o, "list">>[1] = o
           /\ <<o, "pin">> # <<o, "pinpad">> /\ <<o, "pin">> # <<o, "list">>
           /\ <<o, "pinpad">> # <<o, "list">>
           /\ \A d \in Dialogs : d[1] = o => d \in {<<o, "pin">>, <<o, "pinpad">>, <<o, "list">>}
           /\ \A p \in Objects : <<p, "pin">> = <<o, "pin">> => p = o
           /\ NULL \notin Dialogs /\ <<o, "pin">> \in Parents /\ <<o, "pin">> # NULL
<1> QED BY WindowsAssumption DEF Dialogs, Windows, Parents

LEMMA BoxOfSeq ==
    ASSUME NEW s \in Seq(Boxes)
    PROVE  /\ Len(s) \in Nat /\ DOMAIN s = 1..Len(s)
           /\ \A i \in DOMAIN s : s[i] \in Boxes
<1>1. Len(s) \in Nat /\ DOMAIN s = 1..Len(s)
  BY LenProperties
<1>2. \A i \in 1..Len(s) : s[i] \in Boxes
  BY ElementOfSeq
<1> QED BY <1>1, <1>2

(* The windows of message boxes are not dialogs, and have names of their   *)
(* own.                                                                    *)
LEMMA BoxNames ==
    /\ \A i : Box(i) \notin Dialogs /\ Box(i)[1] = i
    /\ \A i, j : Box(i) = Box(j) => i = j
<1> QED BY DEF Box, Dialogs

LEMMA ShownTyped ==
    ASSUME NEW w \in WinType, Fits(w)
    PROVE  /\ Shown(w) \subseteq Windows /\ NULL \notin Windows
           /\ w.open \subseteq Shown(w) /\ w.open \subseteq Dialogs
           /\ \A y \in Shown(w) \ w.open :
                \E i \in DOMAIN w.boxes : y = Box(i) /\ w.boxes[i].shown
           /\ \A i \in DOMAIN w.boxes : w.boxes[i].shown => Box(i) \in Shown(w)
           /\ \A y \in Shown(w) : y \in Dialogs => y \in w.open
           /\ \A y \in Shown(w) : owner(w, y) \in Parents
<1>1. w.open \subseteq Dialogs /\ w.boxes \in Seq(Boxes) /\ w.m_hParent \in [Dialogs -> Parents]
  BY DEF WinType
<1>2. Len(w.boxes) \in Nat /\ DOMAIN w.boxes = 1..Len(w.boxes)
      /\ \A i \in DOMAIN w.boxes : w.boxes[i] \in Boxes
  BY <1>1, BoxOfSeq
<1>3. \A i \in DOMAIN w.boxes : i \in 1..MaxBoxes
  BY <1>2, WindowsAssumption DEF Fits
<1>4. \A i \in DOMAIN w.boxes : Box(i) \in Windows
  BY <1>3 DEF Windows
<1>5. \A y \in Shown(w) \ w.open : \E i \in DOMAIN w.boxes : y = Box(i) /\ w.boxes[i].shown
  BY DEF Shown
<1>6. Shown(w) \subseteq Windows
  BY <1>1, <1>4, <1>5 DEF Windows
<1>7. \A i \in DOMAIN w.boxes : w.boxes[i].shown => Box(i) \in Shown(w)
  BY DEF Shown
<1>8. \A y \in Shown(w) : y \in Dialogs => y \in w.open
  BY <1>5, BoxNames
<1>9. ASSUME NEW y \in Shown(w) PROVE owner(w, y) \in Parents
  <2>1. CASE y \in Dialogs
    BY <1>1, <2>1 DEF owner
  <2>2. CASE y \notin Dialogs
    <3>1. PICK i \in DOMAIN w.boxes : y = Box(i) /\ w.boxes[i].shown
      BY <1>1, <1>5, <2>2
    <3>2. owner(w, y) = w.boxes[i].parent
      BY <2>2, <3>1, BoxNames DEF owner
    <3> QED BY <1>2, <3>2 DEF Boxes
  <2> QED BY <2>1, <2>2
<1>10. NULL \notin Windows
  BY WindowsAssumption
<1>11. w.open \subseteq Shown(w)
  BY DEF Shown
<1> QED BY <1>1, <1>5, <1>6, <1>7, <1>8, <1>9, <1>10, <1>11

LEMMA OwnerOfBox ==
    ASSUME NEW w, NEW i
    PROVE  owner(w, Box(i)) = w.boxes[i].parent
<1> QED BY BoxNames DEF owner

LEMMA OwnerOfDialog ==
    ASSUME NEW w, NEW d \in Dialogs
    PROVE  owner(w, d) = w.m_hParent[d]
<1> QED BY DEF owner

-----------------------------------------------------------------------------
(***************************************************************************)
(* Closing.                                                                *)
(***************************************************************************)

(* DestroyWindow() leaves no window whose owner is gone, and takes none    *)
(* but the first whose owner stays.                                        *)
LEMMA FamilyOwns ==
    ASSUME NEW w, NEW x \in Shown(w)
    PROVE  /\ x \in Family(w, x) /\ Family(w, x) \subseteq Shown(w) /\ Owning(w, Family(w, x))
           /\ \A y \in Family(w, x) : y # x => owner(w, y) \in Family(w, x)
<1> DEFINE F == Family(w, x)
<1>1. x \in F /\ F \subseteq Shown(w)
  BY DEF Family
<1>2. ASSUME NEW y \in Shown(w), owner(w, y) \in F PROVE y \in F
  <2> SUFFICES ASSUME NEW S \in SUBSET Shown(w), x \in S, Owning(w, S) PROVE y \in S
    BY DEF Family
  <2>1. owner(w, y) \in S
    BY <1>2 DEF Family
  <2> QED BY <2>1 DEF Owning
<1>3. ASSUME NEW y \in F, y # x, owner(w, y) \notin F PROVE FALSE
  <2> DEFINE S == F \ {y}
  <2>1. S \in SUBSET Shown(w) /\ x \in S
    BY <1>1, <1>3
  <2>2. Owning(w, S)
    BY <1>2, <1>3 DEF Owning
  <2>3. y \in S
    <3>1. \A T \in SUBSET Shown(w) : x \in T /\ Owning(w, T) => y \in T
      BY DEF Family
    <3> HIDE DEF S, F
    <3> QED BY <2>1, <2>2, <3>1
  <2> QED BY <2>3
<1> HIDE DEF F
<1>4. Owning(w, F)
  BY <1>2 DEF Owning
<1> QED BY <1>1, <1>3, <1>4 DEF F

(* The fields after a close, when these windows are gone and these are     *)
(* enabled.                                                                *)
Closes(w, v, gone, enabled) ==
    /\ v \in WinType
    /\ v.open = w.open \ gone
    /\ v.disabled = (w.disabled \ enabled) \ gone
    /\ v.s_hWnd = IF w.s_hWnd \in gone THEN NULL ELSE w.s_hWnd
    /\ gone \intersect w.open # {} =>
         v.hooks = {IF e \in gone THEN NULL ELSE e : e \in w.hooks \ ({w.s_hWnd} \ {NULL})}
    /\ gone \intersect w.open = {} => v.hooks = w.hooks
    /\ v.made = w.made /\ v.strays = w.strays
    /\ DOMAIN v.boxes = DOMAIN w.boxes /\ Len(v.boxes) = Len(w.boxes)
    /\ \A o \in Objects : v.edit[o] = (w.edit[o] /\ <<o, "pin">> \notin gone)
    /\ \A i \in DOMAIN w.boxes :
         /\ v.boxes[i].object = w.boxes[i].object /\ v.boxes[i].about = w.boxes[i].about
         /\ v.boxes[i].parent = w.boxes[i].parent
         /\ v.boxes[i].shown = (w.boxes[i].shown /\ Box(i) \notin gone)
    /\ \A e \in Dialogs : v.m_hParent[e] = w.m_hParent[e] \/ v.m_hParent[e] = NULL
    /\ \A e \in w.open \ gone : v.m_hParent[e] = w.m_hParent[e]
    /\ \A e \in gone \intersect Dialogs : v.m_hParent[e] = NULL

LEMMA EnableTyped ==
    ASSUME NEW w \in WinType, NEW d \in Dialogs
    PROVE  LET v == enableParent(w, d) IN
           /\ v \in WinType /\ v.open = w.open /\ v.disabled = w.disabled \ {w.m_hParent[d]}
           /\ v.s_hWnd = w.s_hWnd /\ v.hooks = w.hooks /\ v.edit = w.edit /\ v.made = w.made
           /\ v.time = w.time /\ v.strays = w.strays /\ v.boxes = w.boxes
           /\ v.m_hParent = [w.m_hParent EXCEPT ![d] = NULL]
<1>1. [w.m_hParent EXCEPT ![d] = NULL] \in [Dialogs -> Parents]
  BY DEF WinType, Parents
<1>2. w.disabled \ {w.m_hParent[d]} \in SUBSET Windows
  BY DEF WinType
<1> QED BY <1>1, <1>2 DEF WinType, enableParent

(* The boxes when some are no longer shown.                                *)
LEMMA HiddenBoxes ==
    ASSUME NEW s \in Seq(Boxes), NEW gone
    PROVE  LET t == [i \in DOMAIN s |->
                        [s[i] EXCEPT !.shown = s[i].shown /\ Box(i) \notin gone]] IN
           /\ t \in Seq(Boxes) /\ DOMAIN t = DOMAIN s /\ Len(t) = Len(s)
           /\ \A i \in DOMAIN s :
                /\ t[i].object = s[i].object /\ t[i].about = s[i].about
                /\ t[i].parent = s[i].parent
                /\ t[i].shown = (s[i].shown /\ Box(i) \notin gone)
<1> DEFINE t == [i \in DOMAIN s |->
                        [s[i] EXCEPT !.shown = s[i].shown /\ Box(i) \notin gone]]
<1>1. Len(s) \in Nat /\ DOMAIN s = 1..Len(s) /\ \A i \in DOMAIN s : s[i] \in Boxes
  BY BoxOfSeq
<1>2. ASSUME NEW i \in DOMAIN s
      PROVE  /\ t[i] \in Boxes
             /\ t[i].object = s[i].object /\ t[i].about = s[i].about
             /\ t[i].parent = s[i].parent
             /\ t[i].shown = (s[i].shown /\ Box(i) \notin gone)
  <2>1. PICK b \in BOOLEAN : b = (s[i].shown /\ Box(i) \notin gone)
    OBVIOUS
  <2>2. t[i] = [s[i] EXCEPT !.shown = b]
    BY <2>1, Zenon
  <2>3. s[i] \in Boxes
    BY <1>1
  <2> HIDE DEF t
  <2>4. t[i] \in Boxes /\ t[i].object = s[i].object /\ t[i].about = s[i].about
        /\ t[i].parent = s[i].parent /\ t[i].shown = b
    BY <2>2, <2>3 DEF Boxes
  <2> QED BY <2>1, <2>4, Zenon
<1>3. t \in [1..Len(s) -> Boxes]
  BY <1>1, <1>2
<1>4. DOMAIN t = DOMAIN s /\ DOMAIN t = 1..Len(s)
  BY <1>1
<1> HIDE DEF t
<1>5. t \in Seq(Boxes) /\ Len(t) = Len(s)
  BY <1>1, <1>3, <1>4
<1>6. \A i \in DOMAIN s :
        /\ t[i].object = s[i].object /\ t[i].about = s[i].about
        /\ t[i].parent = s[i].parent
        /\ t[i].shown = (s[i].shown /\ Box(i) \notin gone)
  BY <1>2, Zenon
<1> QED BY <1>4, <1>5, <1>6, Zenon DEF t

LEMMA DestroyedEffect ==
    ASSUME NEW w \in WinType, Fits(w), NEW gone \in SUBSET Shown(w)
    PROVE  Closes(w, Destroyed(w, gone), gone, {w.m_hParent[d] : d \in gone \intersect w.open})
<1> DEFINE edits  == [o \in Objects |-> w.edit[o] /\ <<o, "pin">> \notin gone]
           times  == [o \in Objects |-> IF <<o, "pinpad">> \in gone THEN Timeout ELSE w.time[o]]
           owners == [d \in Dialogs |-> IF d \in gone THEN NULL ELSE w.m_hParent[d]]
           boxes  == [i \in DOMAIN w.boxes |->
                        [w.boxes[i] EXCEPT
                            !.shown = w.boxes[i].shown /\ Box(i) \notin gone]]
           unhook == IF gone \intersect w.open = {} THEN {} ELSE {w.s_hWnd} \ {NULL}
           hooks  == {IF d \in gone THEN NULL ELSE d : d \in w.hooks \ unhook}
           off    == (w.disabled \ {w.m_hParent[d] : d \in gone \intersect w.open}) \ gone
           last   == IF w.s_hWnd \in gone THEN NULL ELSE w.s_hWnd
<1>1. edits \in [Objects -> BOOLEAN]
      /\ \A o \in Objects : edits[o] = (w.edit[o] /\ <<o, "pin">> \notin gone)
  OBVIOUS
<1>2. times \in [Objects -> 0..Timeout]
  <2>1. Timeout \in 0..Timeout /\ \A o \in Objects : w.time[o] \in 0..Timeout
    BY WindowsAssumption DEF WinType
  <2> QED BY <2>1
<1>3. /\ owners \in [Dialogs -> Parents]
      /\ \A d \in Dialogs : owners[d] = w.m_hParent[d] \/ owners[d] = NULL
      /\ \A d \in w.open \ gone : owners[d] = w.m_hParent[d]
      /\ \A d \in gone \intersect Dialogs : owners[d] = NULL
  BY DEF WinType, Parents
<1>4. /\ boxes \in Seq(Boxes) /\ DOMAIN boxes = DOMAIN w.boxes /\ Len(boxes) = Len(w.boxes)
      /\ \A i \in DOMAIN w.boxes :
           /\ boxes[i].object = w.boxes[i].object /\ boxes[i].about = w.boxes[i].about
           /\ boxes[i].parent = w.boxes[i].parent
           /\ boxes[i].shown = (w.boxes[i].shown /\ Box(i) \notin gone)
  <2>1. w.boxes \in Seq(Boxes)
    BY DEF WinType
  <2> QED BY <2>1, HiddenBoxes, Zenon
<1>5. hooks \in SUBSET (Dialogs \union {NULL}) /\ last \in Dialogs \union {NULL}
      /\ off \in SUBSET Windows /\ w.open \ gone \in SUBSET Dialogs
  BY DEF WinType
<1>6. gone \intersect w.open = {} => hooks = w.hooks
  <2> SUFFICES ASSUME gone \intersect w.open = {} PROVE hooks = w.hooks
    OBVIOUS
  <2>1. gone \intersect Dialogs = {} /\ NULL \notin gone
    BY ShownTyped
  <2>2. \A d \in w.hooks : d \notin gone
    BY <2>1 DEF WinType
  <2> QED BY <2>2
<1>7. gone \intersect w.open # {} =>
        hooks = {IF d \in gone THEN NULL ELSE d : d \in w.hooks \ ({w.s_hWnd} \ {NULL})}
  OBVIOUS
<1>8. PICK v : v = Destroyed(w, gone)
  OBVIOUS
<1>9. v = [w EXCEPT !.open = w.open \ gone, !.s_hWnd = last, !.hooks = hooks, !.disabled = off,
                    !.m_hParent = owners, !.edit = edits, !.time = times, !.boxes = boxes]
  BY <1>8, Zenon DEF Destroyed
<1>10. off = (w.disabled \ {w.m_hParent[d] : d \in gone \intersect w.open}) \ gone
       /\ last = IF w.s_hWnd \in gone THEN NULL ELSE w.s_hWnd
  OBVIOUS
<1> HIDE DEF edits, times, owners, boxes, unhook, hooks, off, last
<1>11. /\ v.open = w.open \ gone /\ v.s_hWnd = last /\ v.hooks = hooks
       /\ v.disabled = off /\ v.m_hParent = owners /\ v.edit = edits
       /\ v.boxes = boxes /\ v.made = w.made /\ v.strays = w.strays
  BY <1>9 DEF WinType
<1>12. v \in WinType
  BY <1>1, <1>2, <1>3, <1>4, <1>5, <1>9 DEF WinType
<1>13. Closes(w, v, gone, {w.m_hParent[d] : d \in gone \intersect w.open})
  BY <1>1, <1>3, <1>4, <1>6, <1>7, <1>10, <1>11, <1>12, Zenon DEF Closes
<1> QED BY <1>8, <1>13

(* What a request has to know of a close.                                  *)
Less(w, v) ==
    /\ v.open \subseteq w.open
    /\ DOMAIN v.boxes = DOMAIN w.boxes /\ Len(v.boxes) = Len(w.boxes)
    /\ \A i \in DOMAIN w.boxes :
         v.boxes[i].object = w.boxes[i].object /\ v.boxes[i].about = w.boxes[i].about

LEMMA ClosesKeep ==
    ASSUME NEW w \in WinType, Good(w), NEW v, NEW gone \in SUBSET Shown(w), NEW enabled,
           Closes(w, v, gone, enabled), Owning(w, gone),
           \A y \in gone : owner(w, y) \in gone \union enabled \union {NULL},
           Neat(w) => \A x \in enabled : x = NULL \/ \E y \in gone : owner(w, y) = x
    PROVE  Keeps(w, v) /\ Less(w, v)
<1>1. /\ Shown(w) \subseteq Windows /\ NULL \notin Windows
      /\ w.open \subseteq Shown(w) /\ w.open \subseteq Dialogs
      /\ \A y \in Shown(w) \ w.open : \E i \in DOMAIN w.boxes : y = Box(i) /\ w.boxes[i].shown
      /\ \A i \in DOMAIN w.boxes : w.boxes[i].shown => Box(i) \in Shown(w)
      /\ \A y \in Shown(w) : y \in Dialogs => y \in w.open
  BY ShownTyped DEF Good
<1>2. v \in WinType /\ v.open = w.open \ gone /\ Fits(v) /\ v.made = w.made /\ v.strays = w.strays
  BY DEF Closes, Good, Fits
<1>3. Shown(v) = Shown(w) \ gone /\ \A y \in Shown(v) : owner(v, y) = owner(w, y)
  <2>1. /\ DOMAIN v.boxes = DOMAIN w.boxes
        /\ \A i \in DOMAIN w.boxes :
             /\ v.boxes[i].parent = w.boxes[i].parent
             /\ v.boxes[i].shown = (w.boxes[i].shown /\ Box(i) \notin gone)
        /\ \A e \in w.open \ gone : v.m_hParent[e] = w.m_hParent[e]
    BY Zenon DEF Closes
  <2>2. \A i \in DOMAIN w.boxes : v.boxes[i].shown <=> (w.boxes[i].shown /\ Box(i) \notin gone)
    BY <2>1, Zenon
  <2>3. Shown(v) = Shown(w) \ gone
    BY <1>2, <2>1, <2>2 DEF Shown
  <2>4. ASSUME NEW y \in Shown(v) PROVE owner(v, y) = owner(w, y)
    <3>1. CASE y \in w.open
      BY <1>1, <2>1, <2>3, <3>1 DEF owner
    <3>2. CASE y \notin w.open
      <4>1. PICK i \in DOMAIN w.boxes : y = Box(i)
        BY <1>1, <2>3, <3>2
      <4> QED BY <2>1, <4>1, OwnerOfBox
    <3> QED BY <3>1, <3>2
  <2> QED BY <2>3, <2>4
<1>4. v.disabled = (w.disabled \ enabled) \ gone /\ NULL \notin w.disabled
  BY <1>1 DEF Closes, WinType
<1>5. Less(w, v)
  BY <1>2 DEF Closes, Less
<1>6. NoneLeft(v)
  <2> SUFFICES ASSUME NEW x \in v.disabled PROVE \E y \in Shown(v) : owner(v, y) = x
    BY DEF NoneLeft
  <2>1. x \in w.disabled /\ x \notin enabled /\ x \notin gone /\ x # NULL
    BY <1>4
  <2>2. PICK y \in Shown(w) : owner(w, y) = x
    BY <2>1 DEF Good, NoneLeft
  <2>3. y \notin gone
    BY <2>1, <2>2
  <2> QED BY <1>3, <2>2, <2>3
<1>7. OnePerObject(v)
  BY <1>2 DEF Good, OnePerObject
<1>8. EntryShown(v)
  BY <1>2, Zenon DEF Closes, Good, EntryShown
<1>9. BoxesOver(v)
  <2> SUFFICES ASSUME NEW i \in DOMAIN v.boxes, v.boxes[i].shown
               PROVE  LET pin == <<v.boxes[i].object, "pin">> IN
                      /\ v.boxes[i].about = "wrong" => v.boxes[i].parent = pin /\ pin \in v.open
                      /\ v.boxes[i].about = "blocked" /\ pin \in v.open => v.boxes[i].parent = pin
    BY DEF BoxesOver
  <2>1. /\ i \in DOMAIN w.boxes
        /\ v.boxes[i].object = w.boxes[i].object /\ v.boxes[i].about = w.boxes[i].about
        /\ v.boxes[i].parent = w.boxes[i].parent
        /\ w.boxes[i].shown /\ Box(i) \notin gone
    BY Zenon DEF Closes
  <2>2. w.boxes[i].parent \notin gone
    BY <1>1, <2>1, OwnerOfBox DEF Owning
  <2> QED BY <1>2, <2>1, <2>2 DEF Good, BoxesOver
<1>10. ASSUME Neat(w) PROVE Neat(v)
  <2>1. Tidy(v)
    <3> SUFFICES ASSUME NEW d \in Dialogs \ v.open PROVE v.m_hParent[d] = NULL
      BY DEF Tidy
    <3>1. CASE d \in gone
      BY <3>1 DEF Closes
    <3>2. CASE d \notin gone
      BY <1>2, <1>10, <3>2 DEF Closes, Neat, Tidy
    <3> QED BY <3>1, <3>2
  <2>2. Distinct(v)
    BY <1>3, <1>10 DEF Neat, Distinct
  <2>3. Waits(v)
    <3> SUFFICES ASSUME NEW y \in Shown(v), owner(v, y) # NULL PROVE owner(v, y) \in v.disabled
      BY DEF Waits
    <3>1. y \in Shown(w) /\ y \notin gone /\ owner(v, y) = owner(w, y)
          /\ owner(w, y) \in w.disabled
      BY <1>3, <1>10 DEF Neat, Waits
    <3>2. owner(w, y) \notin gone
      BY <3>1 DEF Owning
    <3>3. owner(w, y) \notin enabled
      BY <1>10, <3>1 DEF Neat, Distinct
    <3> QED BY <1>4, <3>1, <3>2, <3>3
  <2>4. NoPinBehind(v)
    <3> SUFFICES ASSUME NEW o \in Objects, NEW i \in DOMAIN v.boxes,
                        v.edit[o], v.boxes[i].shown, v.boxes[i].about # "saved"
                 PROVE  v.boxes[i].object # o
      BY DEF NoPinBehind
    <3>1. /\ i \in DOMAIN w.boxes /\ w.edit[o] /\ w.boxes[i].shown
          /\ v.boxes[i].object = w.boxes[i].object /\ v.boxes[i].about = w.boxes[i].about
      BY Zenon DEF Closes
    <3> QED BY <1>10, <3>1 DEF Neat, NoPinBehind
  <2> QED BY <2>1, <2>2, <2>3, <2>4 DEF Neat
<1>11. ASSUME Hooked(w) PROVE Hooked(v)
  <2>1. CASE gone \intersect w.open = {}
    <3>1. v.hooks = w.hooks /\ v.open = w.open
      BY <1>2, <2>1 DEF Closes
    <3>2. \A d \in w.open : w.s_hWnd \notin gone
      BY <1>11, <2>1 DEF Hooked
    <3>3. \A d \in w.open : v.s_hWnd = w.s_hWnd
      BY <3>2 DEF Closes
    <3> QED BY <1>11, <3>1, <3>3 DEF Hooked
  <2>2. CASE gone \intersect w.open # {}
    <3>1. PICK d \in w.open : d \in gone
      BY <2>2
    <3>2. w.s_hWnd = d /\ w.hooks = {d} /\ w.open = {d} /\ d # NULL
      BY <1>1, <1>11, <3>1 DEF Hooked, Windows
    <3>3. v.open = {} /\ v.hooks = {}
      BY <1>2, <2>2, <3>1, <3>2 DEF Closes
    <3> QED BY <3>3 DEF Hooked
  <2> QED BY <2>1, <2>2
<1> QED BY <1>2, <1>5, <1>6, <1>7, <1>8, <1>9, <1>10, <1>11 DEF Keeps, Holds, Good

(* closePinDialog(), closePinpadDialog(), closeWhitelistDialog().          *)
LEMMA CloseKeeps ==
    ASSUME NEW w \in WinType, Good(w), NEW d \in Dialogs
    PROVE  /\ Keeps(w, close(w, d)) /\ Less(w, close(w, d))
           /\ d \notin close(w, d).open
<1>1. PICK u : u = enableParent(w, d)
  OBVIOUS
<1>2. /\ u \in WinType /\ u.open = w.open /\ u.disabled = w.disabled \ {w.m_hParent[d]}
      /\ u.s_hWnd = w.s_hWnd /\ u.hooks = w.hooks /\ u.edit = w.edit /\ u.made = w.made
      /\ u.strays = w.strays /\ u.boxes = w.boxes
      /\ u.m_hParent = [w.m_hParent EXCEPT ![d] = NULL]
  BY <1>1, EnableTyped
<1>3. w.m_hParent \in [Dialogs -> Parents] /\ w.open \subseteq Dialogs
  BY DEF WinType
<1>4. u.m_hParent[d] = NULL /\ \A e \in Dialogs : e # d => u.m_hParent[e] = w.m_hParent[e]
  BY <1>2, <1>3
<1>5. CASE d \notin w.open
  <2>1. w.boxes \in Seq(Boxes) /\ w.edit \in [Objects -> BOOLEAN]
    BY DEF WinType
  <2>2. \A i \in DOMAIN w.boxes : w.boxes[i].shown \in BOOLEAN
    BY <2>1, BoxOfSeq DEF Boxes
  <2>3. /\ \A o \in Objects : u.edit[o] = (w.edit[o] /\ <<o, "pin">> \notin {})
        /\ \A i \in DOMAIN w.boxes : u.boxes[i].shown = (w.boxes[i].shown /\ Box(i) \notin {})
    BY <1>2, <2>1, <2>2, Zenon
  <2>4. Closes(w, u, {}, {w.m_hParent[d]})
    BY <1>2, <1>3, <1>4, <1>5, <2>3 DEF Closes
  <2>5. Owning(w, {}) /\ \A y \in {} : owner(w, y) \in {} \union {w.m_hParent[d]} \union {NULL}
    BY DEF Owning
  <2>6. Neat(w) => \A x \in {w.m_hParent[d]} : x = NULL \/ \E y \in {} : owner(w, y) = x
    BY <1>5 DEF Neat, Tidy
  <2>7. Keeps(w, u) /\ Less(w, u)
    BY <2>4, <2>5, <2>6, ClosesKeep
  <2>8. close(w, d) = u
    BY <1>1, <1>5 DEF close, visible
  <2> QED BY <1>2, <1>5, <2>7, <2>8
<1>6. CASE d \in w.open
  <2>1. Fits(u) /\ Shown(u) = Shown(w)
    BY <1>2 DEF Good, Fits, Shown
  <2>2. PICK F : F = Family(u, d)
    OBVIOUS
  <2>3. d \in Shown(u)
    BY <1>6, <2>1 DEF Shown
  <2>4. /\ d \in F /\ F \subseteq Shown(w) /\ Owning(u, F)
        /\ \A y \in F : y # d => owner(u, y) \in F
    BY <2>1, <2>2, <2>3, FamilyOwns
  <2>5. \A y \in Shown(w) : y # d => owner(u, y) = owner(w, y)
    <3>1. \A y \in Shown(w) : y \in Dialogs => y \in w.open
      BY ShownTyped DEF Good
    <3> QED BY <1>2, <1>3, <1>4, <3>1 DEF owner
  <2>6. owner(w, d) = w.m_hParent[d]
    BY OwnerOfDialog
  <2>7. PICK v : v = Destroyed(u, F)
    OBVIOUS
  <2>8. PICK on : on = {u.m_hParent[e] : e \in F \intersect u.open}
    OBVIOUS
  <2>9. Closes(u, v, F, on)
    BY <1>2, <2>1, <2>4, <2>7, <2>8, DestroyedEffect
  <2>10. PICK enabled : enabled = {w.m_hParent[d]} \union on
    OBVIOUS
  <2>11. Closes(w, v, F, enabled)
    <3>1. v.disabled = (w.disabled \ enabled) \ F
      BY <1>2, <2>9, <2>10 DEF Closes
    <3>2. /\ \A e \in Dialogs : v.m_hParent[e] = w.m_hParent[e] \/ v.m_hParent[e] = NULL
          /\ \A e \in w.open \ F : v.m_hParent[e] = w.m_hParent[e]
      BY <1>2, <1>3, <1>4, <2>4, <2>9 DEF Closes
    <3> QED BY <1>2, <2>9, <3>1, <3>2, Zenon DEF Closes
  <2>12. Owning(w, F)
    BY <2>1, <2>4, <2>5 DEF Owning
  <2>13. \A y \in F : owner(w, y) \in F \union enabled \union {NULL}
    BY <2>4, <2>5, <2>6, <2>10
  <2>14. \A x \in enabled : x = NULL \/ \E y \in F : owner(w, y) = x
    BY <1>2, <1>3, <1>4, <2>4, <2>6, <2>8, <2>10, OwnerOfDialog
  <2>15. Keeps(w, v) /\ Less(w, v)
    BY <2>4, <2>11, <2>12, <2>13, <2>14, ClosesKeep
  <2>16. close(w, d) = v /\ d \notin v.open
    BY <1>1, <1>6, <2>2, <2>4, <2>7, <2>11 DEF close, visible, Closes
  <2> QED BY <2>15, <2>16
<1> QED BY <1>5, <1>6

(* The user closes a message box.                                          *)
LEMMA EndBoxKeeps ==
    ASSUME NEW w \in WinType, Good(w), NEW i \in DOMAIN w.boxes, w.boxes[i].shown
    PROVE  Keeps(w, EndBox(w, i)) /\ Less(w, EndBox(w, i))
<1>1. PICK u : u = [w EXCEPT !.disabled = @ \ {w.boxes[i].parent}]
  OBVIOUS
<1>2. PICK off \in SUBSET Windows : off = w.disabled \ {w.boxes[i].parent}
  BY DEF WinType
<1>3. /\ u \in WinType /\ u.open = w.open /\ u.disabled = w.disabled \ {w.boxes[i].parent}
      /\ u.s_hWnd = w.s_hWnd /\ u.hooks = w.hooks /\ u.edit = w.edit /\ u.made = w.made
      /\ u.strays = w.strays /\ u.boxes = w.boxes /\ u.m_hParent = w.m_hParent
  BY <1>1, <1>2 DEF WinType
<1>4. Fits(u) /\ Shown(u) = Shown(w)
  BY <1>3 DEF Good, Fits, Shown
<1>5. PICK x : x = Box(i)
  OBVIOUS
<1>6. PICK F : F = Family(u, x)
  OBVIOUS
<1>7. x \in Shown(u)
  BY <1>4, <1>5 DEF Shown
<1>8. /\ x \in F /\ F \subseteq Shown(w) /\ Owning(u, F)
      /\ \A y \in F : y # x => owner(u, y) \in F
  BY <1>4, <1>6, <1>7, FamilyOwns
<1>9. \A y : owner(u, y) = owner(w, y)
  BY <1>3 DEF owner
<1>10. owner(w, x) = w.boxes[i].parent
  BY <1>5, OwnerOfBox
<1>11. PICK v : v = Destroyed(u, F)
  OBVIOUS
<1>12. PICK on : on = {u.m_hParent[e] : e \in F \intersect u.open}
  OBVIOUS
<1>13. Closes(u, v, F, on)
  BY <1>3, <1>4, <1>8, <1>11, <1>12, DestroyedEffect
<1>14. PICK enabled : enabled = {w.boxes[i].parent} \union on
  OBVIOUS
<1>15. Closes(w, v, F, enabled)
  <2>1. v.disabled = (w.disabled \ enabled) \ F
    BY <1>3, <1>13, <1>14 DEF Closes
  <2>2. /\ \A e \in Dialogs : v.m_hParent[e] = w.m_hParent[e] \/ v.m_hParent[e] = NULL
        /\ \A e \in w.open \ F : v.m_hParent[e] = w.m_hParent[e]
    BY <1>3, <1>13 DEF Closes
  <2>3. u.open = w.open /\ u.s_hWnd = w.s_hWnd /\ u.hooks = w.hooks /\ u.edit = w.edit
        /\ u.made = w.made /\ u.strays = w.strays /\ u.boxes = w.boxes
    BY <1>3
  <2>4. /\ v \in WinType /\ v.open = w.open \ F
        /\ v.s_hWnd = IF w.s_hWnd \in F THEN NULL ELSE w.s_hWnd
        /\ F \intersect w.open # {} =>
             v.hooks = {IF e \in F THEN NULL ELSE e : e \in w.hooks \ ({w.s_hWnd} \ {NULL})}
        /\ F \intersect w.open = {} => v.hooks = w.hooks
        /\ v.made = w.made /\ v.strays = w.strays
    BY <1>13, <2>3 DEF Closes
  <2>5. DOMAIN v.boxes = DOMAIN w.boxes /\ Len(v.boxes) = Len(w.boxes)
        /\ \A e \in F \intersect Dialogs : v.m_hParent[e] = NULL
    BY <1>13, <2>3 DEF Closes
  <2>6. \A o \in Objects : v.edit[o] = (w.edit[o] /\ <<o, "pin">> \notin F)
    BY <1>13, <2>3, Zenon DEF Closes
  <2>7. \A j \in DOMAIN w.boxes :
          /\ v.boxes[j].object = w.boxes[j].object /\ v.boxes[j].about = w.boxes[j].about
          /\ v.boxes[j].parent = w.boxes[j].parent
    BY <1>13, <2>3 DEF Closes
  <2>8. \A j \in DOMAIN w.boxes : v.boxes[j].shown = (w.boxes[j].shown /\ Box(j) \notin F)
    BY <1>13, <2>3, Zenon DEF Closes
  <2> QED BY <2>1, <2>2, <2>4, <2>5, <2>6, <2>7, <2>8, Zenon DEF Closes
<1>16. Owning(w, F)
  BY <1>4, <1>8, <1>9 DEF Owning
<1>17. \A y \in F : owner(w, y) \in F \union enabled \union {NULL}
  BY <1>8, <1>9, <1>10, <1>14
<1>18. \A e \in enabled : e = NULL \/ \E y \in F : owner(w, y) = e
  <2>1. w.open \subseteq Dialogs
    BY DEF WinType
  <2> QED BY <1>3, <1>8, <1>10, <1>12, <1>14, <2>1, OwnerOfDialog
<1>19. Keeps(w, v) /\ Less(w, v)
  BY <1>8, <1>15, <1>16, <1>17, <1>18, ClosesKeep
<1>20. EndBox(w, i) = v
  BY <1>1, <1>5, <1>6, <1>11 DEF EndBox
<1> QED BY <1>19, <1>20

LEMMA KeepsChain ==
    ASSUME NEW u, NEW v, NEW w, Keeps(u, v), Keeps(v, w)
    PROVE  Keeps(u, w)
<1> QED BY DEF Keeps, Holds

(* closePinDialog() and closePinpadDialog().                               *)
LEMMA ClosePromptsKeeps ==
    ASSUME NEW w \in WinType, Good(w), NEW o \in Objects
    PROVE  /\ Keeps(w, closePrompts(w, o)) /\ Less(w, closePrompts(w, o))
           /\ Prompts(o) \intersect closePrompts(w, o).open = {}
<1>1. PICK u : u = close(w, <<o, "pin">>)
  OBVIOUS
<1>2. PICK v : v = close(u, <<o, "pinpad">>)
  OBVIOUS
<1>3. <<o, "pin">> \in Dialogs /\ <<o, "pinpad">> \in Dialogs
  BY DialogTypes
<1>4. Keeps(w, u) /\ Less(w, u) /\ <<o, "pin">> \notin u.open
  BY <1>1, <1>3, CloseKeeps
<1>5. u \in WinType /\ Good(u)
  BY <1>4 DEF Keeps, Holds
<1>6. Keeps(u, v) /\ Less(u, v) /\ <<o, "pinpad">> \notin v.open
  BY <1>2, <1>3, <1>5, CloseKeeps
<1>7. Keeps(w, v) /\ Less(w, v)
  BY <1>4, <1>6, KeepsChain DEF Less
<1>8. <<o, "pin">> \notin v.open
  BY <1>4, <1>6 DEF Less
<1>9. closePrompts(w, o) = v
  BY <1>1, <1>2 DEF closePrompts
<1> QED BY <1>6, <1>7, <1>8, <1>9 DEF Prompts

-----------------------------------------------------------------------------
(***************************************************************************)
(* The other operators on windows.                                         *)
(***************************************************************************)

(* The same windows over the same ones, with other details.                *)
LEMMA SameWindows ==
    ASSUME NEW u, NEW v, Good(u), Shown(v) = Shown(u), \A y \in Shown(u) : owner(v, y) = owner(u, y),
           v.open = u.open, v.m_hParent = u.m_hParent, v.disabled = u.disabled,
           v.s_hWnd = u.s_hWnd, v.hooks = u.hooks
    PROVE  /\ NoneLeft(v) /\ OnePerObject(v)
           /\ Neat(u) => Tidy(v) /\ Waits(v) /\ Distinct(v)
           /\ Hooked(u) => Hooked(v)
<1>1. NoneLeft(v) /\ OnePerObject(v)
  BY DEF Good, NoneLeft, OnePerObject
<1>2. Neat(u) => Tidy(v) /\ Waits(v) /\ Distinct(v)
  BY DEF Neat, Tidy, Waits, Distinct
<1>3. Hooked(u) => Hooked(v)
  BY DEF Hooked
<1> QED BY <1>1, <1>2, <1>3

(* Fields that neither the parents nor the hook depend on.                 *)
LEMMA DetailsHold ==
    ASSUME NEW u \in WinType, NEW v \in WinType, Good(u),
           v.open = u.open, v.m_hParent = u.m_hParent, v.disabled = u.disabled,
           v.s_hWnd = u.s_hWnd, v.hooks = u.hooks, v.boxes = u.boxes,
           EntryShown(v), Neat(u) => NoPinBehind(v)
    PROVE  Holds(u, v)
<1>1. Shown(v) = Shown(u) /\ \A y : owner(v, y) = owner(u, y)
  BY DEF Shown, owner
<1>2. /\ NoneLeft(v) /\ OnePerObject(v)
      /\ Neat(u) => Tidy(v) /\ Waits(v) /\ Distinct(v)
      /\ Hooked(u) => Hooked(v)
  BY <1>1, SameWindows
<1>3. Fits(v) /\ BoxesOver(v)
  BY DEF Good, Fits, BoxesOver
<1> QED BY <1>2, <1>3, Zenon DEF Holds, Good, Neat

(* The entry: the user types only where no message box is in front.        *)
LEMMA EntryKeeps ==
    ASSUME NEW u \in WinType, Good(u), NEW o \in Objects, NEW typed \in BOOLEAN,
           typed => <<o, "pin">> \in u.open /\ <<o, "pin">> \notin u.disabled
    PROVE  LET v == [u EXCEPT !.edit[o] = typed] IN
           /\ Keeps(u, v) /\ v.open = u.open /\ v.boxes = u.boxes /\ v.disabled = u.disabled
           /\ v.edit[o] = typed
<1>1. PICK v : v = [u EXCEPT !.edit[o] = typed]
  OBVIOUS
<1>2. u.edit \in [Objects -> BOOLEAN]
  BY DEF WinType
<1>3. PICK e : e = [u.edit EXCEPT ![o] = typed]
  OBVIOUS
<1>4. /\ e \in [Objects -> BOOLEAN] /\ e[o] = typed
      /\ \A p \in Objects : p # o => e[p] = u.edit[p]
  BY <1>2, <1>3
<1>5. /\ v \in WinType /\ v.open = u.open /\ v.m_hParent = u.m_hParent
      /\ v.disabled = u.disabled /\ v.s_hWnd = u.s_hWnd /\ v.hooks = u.hooks
      /\ v.boxes = u.boxes /\ v.made = u.made /\ v.strays = u.strays /\ v.edit = e
  BY <1>1, <1>3, <1>4 DEF WinType
<1>6. EntryShown(v)
  BY <1>4, <1>5 DEF Good, EntryShown
<1>7. ASSUME Neat(u) PROVE NoPinBehind(v)
  <2> SUFFICES ASSUME NEW p \in Objects, NEW i \in DOMAIN u.boxes, e[p],
                      u.boxes[i].shown, u.boxes[i].about # "saved", u.boxes[i].object = p
               PROVE  FALSE
    BY <1>5 DEF NoPinBehind
  <2>1. p = o
    BY <1>4, <1>7 DEF Neat, NoPinBehind
  <2>2. PICK pin : pin = <<o, "pin">>
    OBVIOUS
  <2>3. pin \in u.open /\ pin \notin u.disabled /\ pin # NULL
    BY <1>4, <2>1, <2>2, DialogTypes
  <2>4. u.boxes[i].about \in Abouts
    BY BoxOfSeq DEF WinType, Boxes
  <2>5. u.boxes[i].parent = pin
    BY <2>1, <2>2, <2>3, <2>4 DEF Good, BoxesOver, Abouts
  <2>6. Box(i) \in Shown(u) /\ owner(u, Box(i)) = pin
    BY <2>5, OwnerOfBox DEF Shown
  <2> QED BY <1>7, <2>3, <2>6 DEF Neat, Waits
<1>8. Holds(u, v)
  BY <1>5, <1>6, <1>7, DetailsHold
<1>9. Keeps(u, v)
  BY <1>5, <1>8 DEF Keeps
<1> QED BY <1>1, <1>4, <1>5, <1>9

(* on_timer().                                                             *)
LEMMA TickKeeps ==
    ASSUME NEW u \in WinType, Good(u), NEW o \in Objects, u.time[o] > 0
    PROVE  LET v == [u EXCEPT !.time[o] = @ - 1] IN
           Keeps(u, v) /\ v.open = u.open /\ v.boxes = u.boxes
<1>1. PICK v : v = [u EXCEPT !.time[o] = @ - 1]
  OBVIOUS
<1>2. PICK t : t = [u.time EXCEPT ![o] = @ - 1]
  OBVIOUS
<1>3. t \in [Objects -> 0..Timeout]
  <2>1. u.time \in [Objects -> 0..Timeout] /\ Timeout \in Nat
    BY WindowsAssumption DEF WinType
  <2>2. u.time[o] - 1 \in 0..Timeout
    BY <2>1
  <2> QED BY <1>2, <2>1, <2>2
<1>4. /\ v \in WinType /\ v.open = u.open /\ v.m_hParent = u.m_hParent
      /\ v.disabled = u.disabled /\ v.s_hWnd = u.s_hWnd /\ v.hooks = u.hooks
      /\ v.boxes = u.boxes /\ v.edit = u.edit /\ v.made = u.made /\ v.strays = u.strays
  BY <1>1, <1>2, <1>3 DEF WinType
<1>5. EntryShown(v) /\ (Neat(u) => NoPinBehind(v))
  BY <1>4 DEF Good, EntryShown, Neat, NoPinBehind
<1>6. Holds(u, v)
  BY <1>4, <1>5, DetailsHold
<1> QED BY <1>1, <1>4, <1>6 DEF Keeps

(* What resetProgressbar() sets, also in a dialog that is being opened.    *)
LEMMA ResetTyped ==
    ASSUME NEW u \in WinType, NEW o \in Objects
    PROVE  LET v == resetProgressbar(u, o) IN
           /\ v \in WinType /\ v.open = u.open /\ v.m_hParent = u.m_hParent
           /\ v.disabled = u.disabled /\ v.s_hWnd = u.s_hWnd /\ v.hooks = u.hooks
           /\ v.boxes = u.boxes /\ v.edit = u.edit /\ v.made = u.made
           /\ o \in u.made => v.strays = u.strays
<1>1. PICK v : v = resetProgressbar(u, o)
  OBVIOUS
<1>2. u.time \in [Objects -> 0..Timeout] /\ u.strays \in BOOLEAN
  BY DEF WinType
<1>3. PICK t : t = [u.time EXCEPT ![o] = Timeout]
  OBVIOUS
<1>4. t \in [Objects -> 0..Timeout]
  <2>1. Timeout \in 0..Timeout
    BY WindowsAssumption
  <2> QED BY <1>2, <1>3, <2>1
<1>5. PICK b \in BOOLEAN : b = (u.strays \/ o \notin u.made)
  OBVIOUS
<1>6. v = [u EXCEPT !.time = t, !.strays = b]
  <2>1. v = [u EXCEPT !.time[o] = Timeout, !.strays = u.strays \/ o \notin u.made]
    BY <1>1 DEF resetProgressbar
  <2>2. v = [u EXCEPT !.time[o] = Timeout, !.strays = b]
    BY <1>5, <2>1, Zenon
  <2> QED BY <1>3, <2>2
<1>7. o \in u.made => b = u.strays
  BY <1>2, <1>5, Zenon
<1>8. /\ v \in WinType /\ v.open = u.open /\ v.m_hParent = u.m_hParent
      /\ v.disabled = u.disabled /\ v.s_hWnd = u.s_hWnd /\ v.hooks = u.hooks
      /\ v.boxes = u.boxes /\ v.edit = u.edit /\ v.made = u.made /\ v.strays = b
  BY <1>4, <1>6 DEF WinType
<1> QED BY <1>1, <1>7, <1>8

LEMMA ResetHolds ==
    ASSUME NEW u \in WinType, Good(u), NEW o \in Objects
    PROVE  LET v == resetProgressbar(u, o) IN
           /\ Holds(u, v) /\ v.open = u.open /\ v.boxes = u.boxes /\ v.made = u.made
           /\ o \in u.made => v.strays = u.strays
<1>1. PICK v : v = resetProgressbar(u, o)
  OBVIOUS
<1>2. /\ v \in WinType /\ v.open = u.open /\ v.m_hParent = u.m_hParent
      /\ v.disabled = u.disabled /\ v.s_hWnd = u.s_hWnd /\ v.hooks = u.hooks
      /\ v.boxes = u.boxes /\ v.edit = u.edit /\ v.made = u.made
      /\ o \in u.made => v.strays = u.strays
  BY <1>1, ResetTyped
<1>3. EntryShown(v) /\ (Neat(u) => NoPinBehind(v))
  BY <1>2 DEF Good, EntryShown, Neat, NoPinBehind
<1>4. Holds(u, v)
  BY <1>2, <1>3, DetailsHold
<1> QED BY <1>1, <1>2, <1>4

(* MessageBox() over a window that takes input, or over none.              *)
LEMMA BoxKeeps ==
    ASSUME NEW u \in WinType, Good(u), NEW o \in Objects, NEW parent \in Parents,
           NEW about \in Abouts,
           parent \notin u.disabled, Len(u.boxes) < MaxBoxes,
           about = "wrong" => parent = <<o, "pin">> /\ <<o, "pin">> \in u.open,
           about = "blocked" /\ <<o, "pin">> \in u.open => parent = <<o, "pin">>,
           about # "saved" => ~u.edit[o]
    PROVE  LET v == MessageBox(u, o, parent, about) IN
           /\ Keeps(u, v) /\ v.open = u.open
           /\ DOMAIN v.boxes = DOMAIN u.boxes \union {Len(u.boxes) + 1}
           /\ \A i \in DOMAIN u.boxes : v.boxes[i] = u.boxes[i]
           /\ v.boxes[Len(u.boxes) + 1].object = o /\ v.boxes[Len(u.boxes) + 1].about = about
<1>1. PICK v : v = MessageBox(u, o, parent, about)
  OBVIOUS
<1>2. PICK b : b = [object |-> o, parent |-> parent, about |-> about, shown |-> TRUE]
  OBVIOUS
<1>3. b \in Boxes /\ b.object = o /\ b.parent = parent /\ b.about = about /\ b.shown
  BY <1>2 DEF Boxes
<1>4. PICK s : s = Append(u.boxes, b)
  OBVIOUS
<1>5. PICK off : off = u.disabled \union ({parent} \ {NULL})
  OBVIOUS
<1>6. PICK n : n = Len(u.boxes) + 1
  OBVIOUS
<1>7. u.boxes \in Seq(Boxes) /\ Len(u.boxes) \in Nat /\ DOMAIN u.boxes = 1..Len(u.boxes)
  BY BoxOfSeq DEF WinType
<1>8. /\ s \in Seq(Boxes) /\ DOMAIN s = DOMAIN u.boxes \union {n} /\ n \notin DOMAIN u.boxes
      /\ s[n] = b /\ (\A i \in DOMAIN u.boxes : s[i] = u.boxes[i]) /\ Len(s) = n
      /\ n \in 1..MaxBoxes
  <2>1. s \in Seq(Boxes) /\ Len(s) = Len(u.boxes) + 1 /\ s[Len(u.boxes) + 1] = b
        /\ \A i \in 1..Len(u.boxes) : s[i] = u.boxes[i]
    BY <1>3, <1>4, <1>7, AppendProperties
  <2>2. DOMAIN s = 1..Len(s)
    BY <2>1, BoxOfSeq
  <2>3. 1..(Len(u.boxes) + 1) = 1..Len(u.boxes) \union {Len(u.boxes) + 1}
        /\ Len(u.boxes) + 1 \notin 1..Len(u.boxes) /\ Len(u.boxes) + 1 \in 1..MaxBoxes
    BY <1>7, WindowsAssumption
  <2> QED BY <1>6, <1>7, <2>1, <2>2, <2>3
<1>9. off \in SUBSET Windows
  BY <1>5 DEF WinType, Parents
<1>10. /\ v \in WinType /\ v.open = u.open /\ v.m_hParent = u.m_hParent
       /\ v.disabled = off /\ v.s_hWnd = u.s_hWnd /\ v.hooks = u.hooks
       /\ v.boxes = s /\ v.edit = u.edit /\ v.made = u.made /\ v.strays = u.strays
  BY <1>1, <1>2, <1>4, <1>5, <1>8, <1>9 DEF WinType, MessageBox
<1>11. /\ u.open \subseteq Dialogs /\ NULL \notin u.disabled
       /\ \A y \in Shown(u) \ u.open : \E i \in DOMAIN u.boxes : y = Box(i)
       /\ \A y \in Shown(u) : y \in Dialogs => y \in u.open
  BY ShownTyped DEF Good, WinType
<1>12. PICK x : x = Box(n)
  OBVIOUS
<1>13. Shown(v) = Shown(u) \union {x}
  <2>1. {j \in DOMAIN s : s[j].shown} = {j \in DOMAIN u.boxes : u.boxes[j].shown} \union {n}
    BY <1>3, <1>8
  <2> QED BY <1>10, <1>12, <2>1 DEF Shown
<1>14. owner(v, x) = parent
  BY <1>3, <1>8, <1>10, <1>12, OwnerOfBox
<1>15. \A y \in Shown(u) : owner(v, y) = owner(u, y)
  <2> TAKE y \in Shown(u)
  <2>1. CASE y \in u.open
    BY <1>10, <1>11, <2>1 DEF owner
  <2>2. CASE y \notin u.open
    <3>1. PICK i \in DOMAIN u.boxes : y = Box(i)
      BY <1>11, <2>2
    <3> QED BY <1>8, <1>10, <3>1, OwnerOfBox
  <2> QED BY <2>1, <2>2
<1>16. NoneLeft(v)
  <2> SUFFICES ASSUME NEW z \in v.disabled PROVE \E y \in Shown(v) : owner(v, y) = z
    BY DEF NoneLeft
  <2>1. CASE z = parent
    BY <1>13, <1>14, <2>1
  <2>2. CASE z \in u.disabled
    BY <1>13, <1>15, <2>2 DEF Good, NoneLeft
  <2> QED BY <1>5, <1>10, <2>1, <2>2
<1>17. Fits(v) /\ OnePerObject(v) /\ EntryShown(v)
  BY <1>8, <1>10 DEF Good, Fits, OnePerObject, EntryShown
<1>18. BoxesOver(v)
  <2> SUFFICES ASSUME NEW i \in DOMAIN s, s[i].shown
               PROVE  LET pin == <<s[i].object, "pin">> IN
                      /\ s[i].about = "wrong" => s[i].parent = pin /\ pin \in u.open
                      /\ s[i].about = "blocked" /\ pin \in u.open => s[i].parent = pin
    BY <1>10 DEF BoxesOver
  <2>1. CASE i = n
    BY <1>3, <1>8, <2>1
  <2>2. CASE i \in DOMAIN u.boxes
    BY <1>8, <2>2 DEF Good, BoxesOver
  <2> QED BY <1>8, <2>1, <2>2
<1>19. ASSUME Neat(u) PROVE Neat(v)
  <2>1. Tidy(v)
    BY <1>10, <1>19 DEF Neat, Tidy
  <2>2. \A y \in Shown(u) : owner(u, y) # NULL => owner(u, y) # parent
    BY <1>19 DEF Neat, Waits
  <2>3. Waits(v)
    BY <1>5, <1>10, <1>13, <1>14, <1>15, <1>19 DEF Neat, Waits
  <2>4. Distinct(v)
    <3> SUFFICES ASSUME NEW y \in Shown(v), NEW z \in Shown(v),
                        owner(v, y) = owner(v, z), owner(v, y) # NULL
                 PROVE  y = z
      BY DEF Distinct
    <3>1. CASE y = x /\ z = x
      BY <3>1
    <3>2. CASE y = x /\ z \in Shown(u)
      BY <1>14, <1>15, <2>2, <3>2
    <3>3. CASE y \in Shown(u) /\ z = x
      BY <1>14, <1>15, <2>2, <3>3
    <3>4. CASE y \in Shown(u) /\ z \in Shown(u)
      BY <1>15, <1>19, <3>4 DEF Neat, Distinct
    <3> QED BY <1>13, <3>1, <3>2, <3>3, <3>4
  <2>5. NoPinBehind(v)
    <3> SUFFICES ASSUME NEW p \in Objects, NEW i \in DOMAIN s, u.edit[p],
                        s[i].shown, s[i].about # "saved"
                 PROVE  s[i].object # p
      BY <1>10 DEF NoPinBehind
    <3>1. CASE i = n
      BY <1>3, <1>8, <3>1
    <3>2. CASE i \in DOMAIN u.boxes
      BY <1>8, <1>19, <3>2 DEF Neat, NoPinBehind
    <3> QED BY <1>8, <3>1, <3>2
  <2> QED BY <2>1, <2>3, <2>4, <2>5 DEF Neat
<1>20. Hooked(u) => Hooked(v)
  BY <1>10 DEF Hooked
<1>21. Keeps(u, v)
  BY <1>10, <1>16, <1>17, <1>18, <1>19, <1>20 DEF Keeps, Holds, Good
<1> QED BY <1>1, <1>3, <1>6, <1>8, <1>10, <1>21, Zenon

(* The innermost MessageBox(), whose window is gone, returns.              *)
LEMMA PopKeeps ==
    ASSUME NEW u \in WinType, Good(u), u.boxes # <<>>, ~u.boxes[Len(u.boxes)].shown
    PROVE  LET v == [u EXCEPT !.boxes = SubSeq(@, 1, Len(@) - 1)]
           IN  /\ Keeps(u, v) /\ v.open = u.open /\ Len(u.boxes) \in DOMAIN u.boxes
               /\ DOMAIN v.boxes = DOMAIN u.boxes \ {Len(u.boxes)}
               /\ \A i \in DOMAIN v.boxes : v.boxes[i] = u.boxes[i]
<1>1. PICK n : n = Len(u.boxes)
  OBVIOUS
<1>2. PICK s : s = SubSeq(u.boxes, 1, n - 1)
  OBVIOUS
<1>3. PICK v : v = [u EXCEPT !.boxes = s]
  OBVIOUS
<1>4. u.boxes \in Seq(Boxes) /\ n \in Nat /\ DOMAIN u.boxes = 1..n
  BY <1>1, BoxOfSeq DEF WinType
<1>5. n # 0
  BY <1>1, <1>4, EmptySeq
<1>6. s \in Seq(Boxes) /\ DOMAIN s = DOMAIN u.boxes \ {n} /\ n \in DOMAIN u.boxes
      /\ (\A i \in DOMAIN s : s[i] = u.boxes[i]) /\ Len(s) = n - 1
  <2>1. s \in Seq(Boxes) /\ Len(s) = n - 1 /\ \A i \in 1..(n - 1) : s[i] = u.boxes[i]
    BY <1>1, <1>2, <1>4, <1>5
  <2>2. DOMAIN s = 1..Len(s)
    BY <2>1, BoxOfSeq
  <2>3. 1..(n - 1) = (1..n) \ {n} /\ n \in 1..n
    BY <1>4, <1>5
  <2> QED BY <1>4, <2>1, <2>2, <2>3
<1>7. /\ v \in WinType /\ v.open = u.open /\ v.m_hParent = u.m_hParent
      /\ v.disabled = u.disabled /\ v.s_hWnd = u.s_hWnd /\ v.hooks = u.hooks
      /\ v.boxes = s /\ v.edit = u.edit /\ v.made = u.made /\ v.strays = u.strays
  BY <1>3, <1>6 DEF WinType
<1>8. Shown(v) = Shown(u)
  <2>1. {j \in DOMAIN s : s[j].shown} = {j \in DOMAIN u.boxes : u.boxes[j].shown}
    BY <1>1, <1>6
  <2> QED BY <1>7, <2>1 DEF Shown
<1>9. \A y \in Shown(u) : owner(v, y) = owner(u, y)
  <2>1. /\ \A y \in Shown(v) \ v.open : \E i \in DOMAIN s : y = Box(i)
        /\ u.open \subseteq Dialogs
    BY <1>7 DEF Shown, WinType
  <2> TAKE y \in Shown(u)
  <2>2. CASE y \in u.open
    BY <1>7, <2>1, <2>2 DEF owner
  <2>3. CASE y \notin u.open
    <3>1. PICK i \in DOMAIN s : y = Box(i)
      BY <1>7, <1>8, <2>1, <2>3
    <3> QED BY <1>6, <1>7, <3>1, OwnerOfBox
  <2> QED BY <2>2, <2>3
<1>10. /\ NoneLeft(v) /\ OnePerObject(v)
       /\ Neat(u) => Tidy(v) /\ Waits(v) /\ Distinct(v)
       /\ Hooked(u) => Hooked(v)
  BY <1>7, <1>8, <1>9, SameWindows
<1>11. Fits(v) /\ EntryShown(v) /\ BoxesOver(v) /\ (Neat(u) => NoPinBehind(v))
  <2>1. Len(s) <= MaxBoxes
    BY <1>1, <1>4, <1>6, WindowsAssumption DEF Good, Fits
  <2>2. EntryShown(v)
    BY <1>7 DEF Good, EntryShown
  <2>3. BoxesOver(v)
    <3> SUFFICES ASSUME NEW i \in DOMAIN s, s[i].shown
                 PROVE  LET pin == <<s[i].object, "pin">> IN
                        /\ s[i].about = "wrong" => s[i].parent = pin /\ pin \in u.open
                        /\ s[i].about = "blocked" /\ pin \in u.open => s[i].parent = pin
      BY <1>7 DEF BoxesOver
    <3> QED BY <1>6 DEF Good, BoxesOver
  <2>4. ASSUME Neat(u) PROVE NoPinBehind(v)
    BY <1>6, <1>7, <2>4 DEF Neat, NoPinBehind
  <2> QED BY <1>7, <2>1, <2>2, <2>3, <2>4 DEF Fits
<1>12. Keeps(u, v)
  BY <1>7, <1>10, <1>11, Zenon DEF Keeps, Holds, Good, Neat
<1>13. v = [u EXCEPT !.boxes = SubSeq(@, 1, Len(@) - 1)]
  BY <1>1, <1>2, <1>3 DEF WinType
<1> QED BY <1>1, <1>6, <1>7, <1>12, <1>13, Zenon

(* A dialog that could not be made, or a second object's, may break what   *)
(* the others keep, and then the history says so.                          *)
Alone(w) == \A c, d \in w.open : c[1] = d[1]

Follows(u, w) ==
    /\ w \in WinType /\ Good(w)
    /\ Neat(u) /\ Tidy(w) => Neat(w)
    /\ Hooked(u) /\ Alone(w) => Hooked(w)

LEMMA HoldsFollows ==
    ASSUME NEW u, NEW v, Holds(u, v)
    PROVE  Follows(u, v)
<1> QED BY DEF Holds, Follows

LEMMA KeepsFollows ==
    ASSUME NEW u, NEW v, Keeps(u, v)
    PROVE  Follows(u, v)
<1> QED BY HoldsFollows DEF Keeps

(* A dialog is opened, or its window could not be made.                    *)
NoneOf(u, o) == \A c \in u.open : c[1] # o

DialogOpens(u, d, created, v) ==
    /\ Follows(u, v) /\ v.boxes = u.boxes /\ v.strays = u.strays
    /\ v.open = IF created THEN u.open \union {d} ELSE u.open
    /\ d[2] # "pinpad" => v.made = u.made
    /\ d[2] = "pinpad" => v.made = IF created THEN u.made \union {d[1]} ELSE u.made \ {d[1]}

LEMMA DialogFollows ==
    ASSUME NEW u \in WinType, Good(u), NEW d \in Dialogs, NEW parent \in Parents,
           NEW created \in BOOLEAN,
           NoneOf(u, d[1]), parent \notin u.disabled,
           d[2] = "pin" => ~Failing(u, d[1])
    PROVE  DialogOpens(u, d, created, doDialog(u, d, parent, created))
<1>1. PICK v : v = doDialog(u, d, parent, created)
  OBVIOUS
<1>2. PICK o \in Objects : d[1] = o /\ d = <<o, d[2]>> /\ d[2] \in {"pin", "pinpad", "list"}
  BY DEF Dialogs
<1>3. PICK made : made = IF d[2] # "pinpad" THEN u.made
                         ELSE IF created THEN u.made \union {d[1]} ELSE u.made \ {d[1]}
  OBVIOUS
<1>4. made \in SUBSET Objects
  BY <1>2, <1>3 DEF WinType
<1>5. PICK a : a = [u EXCEPT !.m_hParent[d] = parent, !.made = made]
  OBVIOUS
<1>6. /\ a \in WinType /\ a.open = u.open /\ a.m_hParent = [u.m_hParent EXCEPT ![d] = parent]
      /\ a.disabled = u.disabled /\ a.s_hWnd = u.s_hWnd /\ a.hooks = u.hooks
      /\ a.boxes = u.boxes /\ a.edit = u.edit /\ a.made = made /\ a.strays = u.strays
      /\ d \notin Shown(u) /\ a.m_hParent[d] = parent
      /\ \A y \in Shown(u) : y # d /\ owner(u, y) = owner(a, y)
  <2>1. PICK h : h = [u.m_hParent EXCEPT ![d] = parent]
    OBVIOUS
  <2>2. u.m_hParent \in [Dialogs -> Parents] /\ u.open \subseteq Dialogs
    BY DEF WinType
  <2>3. /\ h \in [Dialogs -> Parents] /\ h[d] = parent
        /\ \A e \in Dialogs : e # d => h[e] = u.m_hParent[e]
    BY <2>1, <2>2
  <2>4. a = [u EXCEPT !.m_hParent = h, !.made = made]
    BY <1>5, <2>1
  <2>5. /\ a \in WinType /\ a.open = u.open /\ a.m_hParent = h
        /\ a.disabled = u.disabled /\ a.s_hWnd = u.s_hWnd /\ a.hooks = u.hooks
        /\ a.boxes = u.boxes /\ a.edit = u.edit /\ a.made = made /\ a.strays = u.strays
    BY <1>4, <2>3, <2>4 DEF WinType
  <2>6. d \notin Shown(u)
    <3>1. \A y \in Shown(u) : y \in Dialogs => y \in u.open
      BY ShownTyped DEF Good
    <3> QED BY <3>1 DEF NoneOf
  <2>7. \A y \in Shown(u) : y # d /\ owner(u, y) = owner(a, y)
    BY <2>3, <2>5, <2>6 DEF owner
  <2> QED BY <2>1, <2>3, <2>5, <2>6, <2>7
<1>7. v = doDialog_(u, d, parent, created, made)
  BY <1>1, <1>3 DEF doDialog
<1>8. d[2] # "pinpad" => made = u.made
  BY <1>3
<1>9. d[2] = "pinpad" => made = IF created THEN u.made \union {d[1]} ELSE u.made \ {d[1]}
  BY <1>3
<1>10. CASE ~created
  <2>1. v = a
    BY <1>5, <1>7, <1>10 DEF doDialog_
  <2>2. Shown(a) = Shown(u)
    BY <1>6 DEF Shown
  <2>3. NoneLeft(a)
    BY <1>6, <2>2 DEF Good, NoneLeft
  <2>4. Fits(a) /\ OnePerObject(a) /\ EntryShown(a) /\ BoxesOver(a)
    BY <1>6 DEF Good, Fits, OnePerObject, EntryShown, BoxesOver
  <2>5. Waits(u) => Waits(a)
    BY <1>6, <2>2 DEF Waits
  <2>6. Distinct(u) => Distinct(a)
    BY <1>6, <2>2 DEF Distinct
  <2>7. NoPinBehind(u) => NoPinBehind(a)
    BY <1>6 DEF NoPinBehind
  <2>8. Hooked(u) => Hooked(a)
    BY <1>6 DEF Hooked
  <2>9. Follows(u, v)
    BY <1>6, <2>1, <2>3, <2>4, <2>5, <2>6, <2>7, <2>8, Zenon DEF Follows, Good, Neat
  <2> QED BY <1>1, <1>6, <1>8, <1>9, <1>10, <2>1, <2>9 DEF DialogOpens
<1>11. CASE created
  <2>1. PICK b : b = [a EXCEPT !.open = @ \union {d}, !.s_hWnd = d, !.hooks = @ \union {d}]
    OBVIOUS
  <2>2. /\ b \in WinType /\ b.open = u.open \union {d} /\ b.m_hParent = a.m_hParent
        /\ b.disabled = u.disabled /\ b.s_hWnd = d /\ b.hooks = u.hooks \union {d}
        /\ b.boxes = u.boxes /\ b.edit = u.edit /\ b.made = made /\ b.strays = u.strays
    <3>1. u.open \union {d} \in SUBSET Dialogs /\ u.hooks \union {d} \in SUBSET (Dialogs \union {NULL})
      BY DEF WinType
    <3> QED BY <1>6, <2>1, <3>1 DEF WinType
  <2>3. PICK c : c = IF d[2] = "pinpad" THEN resetProgressbar(b, d[1]) ELSE b
    OBVIOUS
  <2>4. /\ c \in WinType /\ c.open = u.open \union {d} /\ c.m_hParent = a.m_hParent
        /\ c.disabled = u.disabled /\ c.s_hWnd = d /\ c.hooks = u.hooks \union {d}
        /\ c.boxes = u.boxes /\ c.edit = u.edit /\ c.made = made /\ c.strays = u.strays
    <3>1. CASE d[2] # "pinpad"
      BY <2>2, <2>3, <3>1
    <3>2. CASE d[2] = "pinpad"
      <4>1. c = resetProgressbar(b, o) /\ o \in b.made
        BY <1>2, <1>9, <1>11, <2>2, <2>3, <3>2
      <4> QED BY <2>2, <4>1, ResetTyped
    <3> QED BY <3>1, <3>2
  <2>5. v = disableParent(c, d)
    BY <1>5, <1>7, <1>11, <2>1, <2>3 DEF doDialog_
  <2>6. PICK off : off = u.disabled \union ({parent} \ {NULL})
    OBVIOUS
  <2>7. off \in SUBSET Windows
    BY <2>6 DEF Parents, WinType
  <2>8. /\ v \in WinType /\ v.open = u.open \union {d} /\ v.m_hParent = a.m_hParent
        /\ v.disabled = off /\ v.s_hWnd = d /\ v.hooks = u.hooks \union {d}
        /\ v.boxes = u.boxes /\ v.edit = u.edit /\ v.made = made /\ v.strays = u.strays
    BY <1>6, <2>4, <2>5, <2>6, <2>7 DEF WinType, disableParent
  <2>9. Shown(v) = Shown(u) \union {d}
    BY <2>8 DEF Shown
  <2>10. owner(v, d) = parent
    BY <1>6, <2>8 DEF owner
  <2>11. \A y \in Shown(u) : owner(v, y) = owner(u, y)
    BY <1>6, <2>8 DEF owner
  <2>12. NoneLeft(v)
    <3> SUFFICES ASSUME NEW x \in v.disabled PROVE \E y \in Shown(v) : owner(v, y) = x
      BY DEF NoneLeft
    <3>1. CASE x = parent
      BY <2>9, <2>10, <3>1
    <3>2. CASE x \in u.disabled
      BY <2>9, <2>11, <3>2 DEF Good, NoneLeft
    <3> QED BY <2>6, <2>8, <3>1, <3>2
  <2>13. Fits(v) /\ OnePerObject(v) /\ EntryShown(v)
    BY <2>8 DEF Good, Fits, OnePerObject, EntryShown, NoneOf
  <2>14. BoxesOver(v)
    <3> SUFFICES ASSUME NEW i \in DOMAIN u.boxes, u.boxes[i].shown, NEW pin,
                        pin = <<u.boxes[i].object, "pin">>
                 PROVE  /\ u.boxes[i].about = "wrong" => u.boxes[i].parent = pin /\ pin \in v.open
                        /\ u.boxes[i].about = "blocked" /\ pin \in v.open => u.boxes[i].parent = pin
      BY <2>8 DEF BoxesOver
    <3>1. u.boxes[i].about = "wrong" => u.boxes[i].parent = pin /\ pin \in u.open
      BY DEF Good, BoxesOver
    <3>2. u.boxes[i].about = "blocked" /\ pin \in u.open => u.boxes[i].parent = pin
      BY DEF Good, BoxesOver
    <3>3. u.boxes[i].about = "blocked" => pin # d
      <4>1. pin = d => d[2] = "pin" /\ d[1] = u.boxes[i].object
        OBVIOUS
      <4> QED BY <4>1 DEF Failing
    <3> QED BY <2>8, <3>1, <3>2, <3>3
  <2>15. ASSUME Neat(u) PROVE Neat(v)
    <3>1. Tidy(v)
      BY <1>6, <2>8, <2>15 DEF Neat, Tidy, WinType
    <3>2. \A y \in Shown(u) : owner(u, y) # NULL => owner(u, y) # parent
      BY <2>15 DEF Neat, Waits
    <3>3. Waits(v)
      BY <2>6, <2>8, <2>9, <2>10, <2>11, <2>15 DEF Neat, Waits
    <3>4. Distinct(v)
      <4> SUFFICES ASSUME NEW y \in Shown(v), NEW z \in Shown(v),
                          owner(v, y) = owner(v, z), owner(v, y) # NULL
                   PROVE  y = z
        BY DEF Distinct
      <4>1. CASE y = d /\ z = d
        BY <4>1
      <4>2. CASE y = d /\ z \in Shown(u)
        BY <2>10, <2>11, <3>2, <4>2
      <4>3. CASE y \in Shown(u) /\ z = d
        BY <2>10, <2>11, <3>2, <4>3
      <4>4. CASE y \in Shown(u) /\ z \in Shown(u)
        BY <2>11, <2>15, <4>4 DEF Neat, Distinct
      <4> QED BY <2>9, <4>1, <4>2, <4>3, <4>4
    <3>5. NoPinBehind(v)
      BY <2>8, <2>15 DEF Neat, NoPinBehind
    <3> QED BY <3>1, <3>3, <3>4, <3>5 DEF Neat
  <2>16. ASSUME Hooked(u), Alone(v) PROVE Hooked(v)
    <3>1. u.open = {} /\ u.hooks = {}
      BY <2>8, <2>16 DEF Hooked, Alone, NoneOf
    <3> QED BY <2>8, <3>1 DEF Hooked
  <2>17. Follows(u, v)
    BY <2>8, <2>12, <2>13, <2>14, <2>15, <2>16, Zenon DEF Follows, Good
  <2> QED BY <1>1, <1>8, <1>9, <1>11, <2>8, <2>17 DEF DialogOpens
<1> QED BY <1>10, <1>11

-----------------------------------------------------------------------------
(***************************************************************************)
(* The inductive invariant.                                                *)
(***************************************************************************)

(* Is the object's request before the user in a dialog.                    *)
Asked(w, o) == Prompts(o) \intersect w.open # {}

Types ==
    /\ win \in WinType
    /\ alive \subseteq Objects
    /\ tries \in 0..MaxTries
    /\ pending \in [Objects -> BOOLEAN]
    /\ reading \in [Objects -> BOOLEAN]
    /\ unprompted \in [Objects -> BOOLEAN]
    /\ unmade \in BOOLEAN /\ overlapped \in BOOLEAN /\ orphaned \in BOOLEAN

WindowsInv == Good(win) /\ (~unmade => Neat(win)) /\ (~overlapped => Hooked(win))

RequestsInv ==
    /\ \A o \in Objects : pending[o] => unprompted[o] \/ Asked(win, o) \/ Failing(win, o)
    /\ \A o \in alive : Asked(win, o) => pending[o]
    /\ \A o \in Objects :   \* the signing thread waits for the pinpad
         reading[o] =>
             /\ pending[o] /\ <<o, "pin">> \notin win.open /\ ~Failing(win, o)
             /\ unprompted[o] \/ o \in win.made

Inv == Types /\ WindowsInv /\ RequestsInv

(* A new timer without a window is due to a request without a dialog.      *)
Accounted == win'.strays # win.strays => \E o \in Objects : unprompted[o] /\ reading[o]

(* What the step of an object leaves as it is for the others.              *)
Elsewhere(u, w, o) ==
    \A p \in Objects \ {o} :
        /\ Prompts(p) \intersect w.open \subseteq u.open
        /\ Failing(w, p) <=> Failing(u, p)
        /\ p \in w.made <=> p \in u.made

LEMMA InvInit == Init => Inv
<1> SUFFICES ASSUME Init PROVE Inv
  OBVIOUS
<1>1. PICK e : e = [o \in Objects |-> FALSE]
  OBVIOUS
<1>2. PICK h : h = [d \in Dialogs |-> NULL]
  OBVIOUS
<1>3. PICK t : t = [o \in Objects |-> Timeout]
  OBVIOUS
<1>4. PICK s : s = <<>>
  OBVIOUS
<1>5. e \in [Objects -> BOOLEAN] /\ \A o \in Objects : ~e[o]
  BY <1>1
<1>6. h \in [Dialogs -> Parents] /\ \A d \in Dialogs : h[d] = NULL
  BY <1>2 DEF Parents
<1>7. t \in [Objects -> 0..Timeout]
  BY <1>3, WindowsAssumption
<1>8. s \in Seq(Boxes) /\ DOMAIN s = {} /\ Len(s) = 0
  BY <1>4
<1>9. win = [open |-> {}, m_hParent |-> h, disabled |-> {}, s_hWnd |-> NULL, hooks |-> {},
             edit |-> e, made |-> {}, time |-> t, strays |-> FALSE, boxes |-> s]
  BY <1>1, <1>2, <1>3, <1>4 DEF Init
<1>10. /\ win \in WinType /\ win.open = {} /\ win.m_hParent = h /\ win.disabled = {}
       /\ win.s_hWnd = NULL /\ win.hooks = {} /\ win.edit = e /\ win.boxes = s
  BY <1>5, <1>6, <1>7, <1>8, <1>9 DEF WinType
<1>11. Good(win)
  <2>1. Fits(win)
    BY <1>8, <1>10, WindowsAssumption DEF Fits
  <2> QED BY <1>5, <1>8, <1>10, <2>1
          DEF Good, NoneLeft, OnePerObject, EntryShown, BoxesOver
<1>12. Neat(win)
  <2>1. Shown(win) = {}
    BY <1>8, <1>10 DEF Shown
  <2> QED BY <1>5, <1>6, <1>8, <1>10, <2>1 DEF Neat, Tidy, Waits, Distinct, NoPinBehind
<1>13. Hooked(win)
  BY <1>10 DEF Hooked
<1>14. /\ pending = e /\ reading = e /\ unprompted = e /\ tries \in 0..MaxTries
       /\ alive = Objects /\ unmade = FALSE /\ overlapped = FALSE /\ orphaned = FALSE
  BY <1>1 DEF Init
<1>15. Types
  BY <1>5, <1>10, <1>14 DEF Types
<1>16. RequestsInv
  BY <1>5, <1>10, <1>14 DEF RequestsInv, Asked
<1> QED BY <1>11, <1>12, <1>13, <1>15, <1>16 DEF Inv, WindowsInv

LEMMA WindowsStep ==
    ASSUME Inv, NEW w, Follows(win, w), Becomes(w)
    PROVE  /\ WindowsInv' /\ win' = w /\ win' \in WinType
           /\ unmade' \in BOOLEAN /\ overlapped' \in BOOLEAN
<1>1. /\ win' = w
      /\ unmade' = (unmade \/ \E d \in Dialogs \ w.open : w.m_hParent[d] # NULL)
      /\ overlapped' = (overlapped \/ \E c, d \in w.open : c[1] # d[1])
  BY DEF Becomes
<1>2. unmade' \in BOOLEAN /\ overlapped' \in BOOLEAN
  BY <1>1, Zenon DEF Inv, Types
<1>3. ~unmade' => ~unmade /\ Tidy(w)
  BY <1>1, Zenon DEF Tidy
<1>4. ~overlapped' => ~overlapped /\ Alone(w)
  BY <1>1, Zenon DEF Alone
<1>5. (~unmade' => Neat(w)) /\ (~overlapped' => Hooked(w)) /\ Good(w) /\ w \in WinType
  BY <1>3, <1>4, Zenon DEF Inv, WindowsInv, Follows
<1>6. Good(win') /\ (~unmade' => Neat(win')) /\ (~overlapped' => Hooked(win'))
  BY <1>1, <1>5
<1> QED BY <1>1, <1>2, <1>5, <1>6, Zenon DEF WindowsInv

(* A step that asks nothing and answers nothing.                           *)
LEMMA QuietStep ==
    ASSUME Inv, NEW w, Follows(win, w), Becomes(w),
           \A o \in Objects : Asked(w, o) <=> Asked(win, o),
           \A o \in Objects : Failing(w, o) <=> Failing(win, o),
           w.made = win.made, w.strays = win.strays,
           \A o \in Objects : <<o, "pin">> \in w.open => <<o, "pin">> \in win.open,
           tries' \in 0..MaxTries,
           UNCHANGED <<pending, reading, unprompted, alive, orphaned>>
    PROVE  Inv' /\ Accounted
<1>1. /\ WindowsInv' /\ win' = w /\ win' \in WinType
      /\ unmade' \in BOOLEAN /\ overlapped' \in BOOLEAN
  BY WindowsStep
<1>2. Types'
  BY <1>1 DEF Inv, Types
<1>3. RequestsInv'
  <2>1. \A o \in Objects : Asked(win', o) <=> Asked(win, o)
    BY <1>1
  <2>2. \A o \in Objects : Failing(win', o) <=> Failing(win, o)
    BY <1>1
  <2>3. \A o \in Objects : <<o, "pin">> \in win'.open => <<o, "pin">> \in win.open
    BY <1>1
  <2>4. /\ pending' = pending /\ reading' = reading /\ unprompted' = unprompted /\ alive' = alive
        /\ alive \subseteq Objects
    BY DEF Inv, Types
  <2>5. RequestsInv
    BY DEF Inv
  <2>6. win'.made = win.made
    BY <1>1
  <2> HIDE DEF Asked, Failing
  <2> QED BY <2>1, <2>2, <2>3, <2>4, <2>5, <2>6 DEF RequestsInv
<1>4. Accounted
  BY <1>1 DEF Accounted
<1> QED BY <1>1, <1>2, <1>3, <1>4 DEF Inv

(* A step of an object's request.                                          *)
LEMMA GoesStep ==
    ASSUME Inv, NEW o \in Objects, NEW open \in BOOLEAN, NEW w, NEW missing \in BOOLEAN,
           Goes(o, open, w, missing), Follows(win, w), Elsewhere(win, w, o),
           Others, tries' \in 0..MaxTries, reading' \in [Objects -> BOOLEAN],
           \A p \in Objects \ {o} : reading'[p] = reading[p],
           open /\ ~missing => Asked(w, o) \/ Failing(w, o),
           Asked(w, o) => open,
           reading'[o] => open /\ <<o, "pin">> \notin w.open /\ ~Failing(w, o),
           reading'[o] => missing \/ o \in w.made
    PROVE  Inv' /\ win' = w
<1>1. /\ WindowsInv' /\ win' = w /\ win' \in WinType
      /\ unmade' \in BOOLEAN /\ overlapped' \in BOOLEAN
  BY WindowsStep DEF Goes
<1>2. /\ pending' = [pending EXCEPT ![o] = open]
      /\ unprompted' = [p \in Objects |->
            IF p = o THEN open /\ missing
            ELSE unprompted[p] \/ (pending[p] /\ TakenAway(w, p))]
      /\ alive' = alive /\ orphaned' = orphaned
  BY DEF Goes, Others
<1>3. /\ pending \in [Objects -> BOOLEAN] /\ unprompted \in [Objects -> BOOLEAN]
      /\ alive \subseteq Objects /\ orphaned \in BOOLEAN /\ RequestsInv
  BY DEF Inv, Types
<1>4. /\ pending' \in [Objects -> BOOLEAN] /\ pending'[o] = open
      /\ \A p \in Objects \ {o} : pending'[p] = pending[p]
  BY <1>2, <1>3
<1>5. /\ unprompted' \in [Objects -> BOOLEAN]
      /\ unprompted'[o] = (open /\ missing)
      /\ \A p \in Objects \ {o} :
           unprompted'[p] = (unprompted[p] \/ (pending[p] /\ TakenAway(w, p)))
  <2>1. \A p \in Objects :
          (IF p = o THEN open /\ missing
           ELSE unprompted[p] \/ (pending[p] /\ TakenAway(w, p))) \in BOOLEAN
    BY <1>3, Zenon
  <2>2. unprompted' \in [Objects -> BOOLEAN]
    BY <1>2, <2>1, Zenon
  <2> QED BY <1>2, <2>2, Zenon
<1>6. Types'
  BY <1>1, <1>2, <1>3, <1>4, <1>5, Zenon DEF Types
<1>7. \A p \in Objects \ {o} :
        /\ Asked(w, p) => Asked(win, p)
        /\ <<p, "pin">> \in w.open => <<p, "pin">> \in win.open
        /\ Failing(w, p) <=> Failing(win, p)
        /\ p \in w.made <=> p \in win.made
  BY DEF Elsewhere, Asked, Prompts
<1>8. \A p \in Objects \ {o} : TakenAway(w, p) <=> Asked(win, p) /\ ~Asked(w, p)
  BY DEF TakenAway, Asked
<1>9. RequestsInv'
  <2>1. ASSUME NEW p \in Objects, pending'[p]
        PROVE  unprompted'[p] \/ Asked(w, p) \/ Failing(w, p)
    <3>1. CASE p = o
      BY <1>4, <1>5, <2>1, <3>1, Zenon
    <3>2. CASE p # o
      <4>1. p \in Objects \ {o}
        BY <3>2
      <4>2. unprompted[p] \/ Asked(win, p) \/ Failing(win, p)
        BY <1>3, <1>4, <2>1, <4>1, Zenon DEF RequestsInv
      <4> QED BY <1>4, <1>5, <1>7, <1>8, <2>1, <4>1, <4>2, Zenon
    <3> QED BY <3>1, <3>2
  <2>2. ASSUME NEW p \in alive, Asked(w, p) PROVE pending'[p]
    <3>1. CASE p = o
      BY <1>4, <2>2, <3>1, Zenon
    <3>2. CASE p # o
      <4>1. p \in Objects \ {o}
        BY <1>3, <3>2
      <4> QED BY <1>3, <1>4, <1>7, <2>2, <4>1, Zenon DEF RequestsInv
    <3> QED BY <3>1, <3>2
  <2>3. ASSUME NEW p \in Objects, reading'[p]
        PROVE  /\ pending'[p] /\ <<p, "pin">> \notin w.open /\ ~Failing(w, p)
               /\ unprompted'[p] \/ p \in w.made
    <3>1. CASE p = o
      BY <1>4, <1>5, <2>3, <3>1, Zenon
    <3>2. CASE p # o
      <4>1. p \in Objects \ {o}
        BY <3>2
      <4>2. reading[p]
        BY <2>3, <4>1
      <4>3. pending[p] /\ <<p, "pin">> \notin win.open /\ ~Failing(win, p)
            /\ (unprompted[p] \/ p \in win.made)
        BY <1>3, <4>2, Zenon DEF RequestsInv
      <4> QED BY <1>4, <1>5, <1>7, <4>1, <4>3, Zenon
    <3> QED BY <3>1, <3>2
  <2> QED BY <1>1, <1>2, <2>1, <2>2, <2>3, Zenon DEF RequestsInv
<1> QED BY <1>1, <1>6, <1>9 DEF Inv

-----------------------------------------------------------------------------
(***************************************************************************)
(* Parts of actions.                                                       *)
(***************************************************************************)

LEMMA SpentTyped == tries \in 0..MaxTries => Spent \in 0..MaxTries
<1>1. \A m \in Nat : \A t \in 0..m : (IF t = 0 THEN 0 ELSE t - 1) \in 0..m
  OBVIOUS
<1> QED BY <1>1, WindowsAssumption DEF Spent

LEMMA ForegroundTyped ==
    ASSUME NEW w \in WinType, Fits(w), NEW parent \in Foreground(w)
    PROVE  /\ parent \in Parents /\ parent \notin w.disabled
<1>1. Shown(w) \subseteq Windows /\ NULL \notin w.disabled
  BY ShownTyped DEF WinType
<1>2. Browsers \subseteq Windows
  BY DEF Windows
<1> QED BY <1>1, <1>2 DEF Foreground, Parents

LEMMA NoneVisible ==
    ASSUME NEW w \in WinType, NEW o \in Objects, ~dialogVisible(w, o)
    PROVE  NoneOf(w, o)
<1>1. w.open \subseteq Dialogs
  BY DEF WinType
<1> QED BY <1>1, DialogTypes DEF dialogVisible, visible, NoneOf

(* Windows that are closed or left, message boxes that are closed or left. *)
LEMMA LessElsewhere ==
    ASSUME NEW u, NEW v, NEW w, NEW o \in Objects, Elsewhere(u, v, o), Less(v, w),
           w.made = v.made
    PROVE  Elsewhere(u, w, o)
<1>1. \A p \in Objects : Failing(w, p) <=> Failing(v, p)
  BY DEF Less, Failing
<1>2. w.open \subseteq v.open
  BY DEF Less
<1> QED BY <1>1, <1>2 DEF Elsewhere

LEMMA SameElsewhere ==
    ASSUME NEW u, NEW v, NEW o \in Objects, v.open = u.open, v.boxes = u.boxes,
           v.made = u.made
    PROVE  Elsewhere(u, v, o)
<1> QED BY DEF Elsewhere, Failing

(* returnSignedData(), returnSignFailure().                                *)
LEMMA ReturnStep ==
    ASSUME Inv, NEW o \in Objects, NEW w, Keeps(win, w), Elsewhere(win, w, o),
           Return(o, w), Others, tries' \in 0..MaxTries,
           reading' \in [Objects -> BOOLEAN], ~reading'[o],
           \A p \in Objects \ {o} : reading'[p] = reading[p]
    PROVE  Inv' /\ Accounted
<1>1. PICK v : v = closePrompts(w, o)
  OBVIOUS
<1>2. w \in WinType /\ Good(w)
  BY DEF Keeps, Holds
<1>3. Keeps(w, v) /\ Less(w, v) /\ Prompts(o) \intersect v.open = {}
  BY <1>1, <1>2, ClosePromptsKeeps
<1>4. Follows(win, v)
  BY <1>3, KeepsChain, KeepsFollows
<1>5. Elsewhere(win, v, o)
  BY <1>3, LessElsewhere DEF Keeps, Holds
<1>6. Goes(o, FALSE, v, FALSE) /\ ~Asked(v, o)
  BY <1>1, <1>3 DEF Return, Asked
<1>7. v.strays = win.strays
  BY <1>3 DEF Keeps, Holds
<1>8. Inv' /\ win' = v
  BY <1>4, <1>5, <1>6, GoesStep
<1> QED BY <1>7, <1>8 DEF Accounted

(* A message box over a window of the thread, of the object or not.        *)
LEMMA BoxElsewhere ==
    ASSUME NEW u \in WinType, Good(u), NEW o \in Objects, NEW parent \in Parents,
           NEW about \in Abouts,
           parent \notin u.disabled, Len(u.boxes) < MaxBoxes,
           about = "wrong" => parent = <<o, "pin">> /\ <<o, "pin">> \in u.open,
           about = "blocked" /\ <<o, "pin">> \in u.open => parent = <<o, "pin">>,
           about # "saved" => ~u.edit[o]
    PROVE  LET v == MessageBox(u, o, parent, about) IN
           /\ Keeps(u, v) /\ v.open = u.open /\ Elsewhere(u, v, o)
           /\ Failing(v, o) <=> (about = "blocked" \/ Failing(u, o))
<1>1. PICK v : v = MessageBox(u, o, parent, about)
  OBVIOUS
<1>2. PICK n : n = Len(u.boxes) + 1
  OBVIOUS
<1>3. /\ Keeps(u, v) /\ v.open = u.open
      /\ DOMAIN v.boxes = DOMAIN u.boxes \union {n}
      /\ \A i \in DOMAIN u.boxes : v.boxes[i] = u.boxes[i]
      /\ v.boxes[n].object = o /\ v.boxes[n].about = about
  <2>1. LET x == MessageBox(u, o, parent, about) IN
        /\ Keeps(u, x) /\ x.open = u.open
        /\ DOMAIN x.boxes = DOMAIN u.boxes \union {Len(u.boxes) + 1}
        /\ \A i \in DOMAIN u.boxes : x.boxes[i] = u.boxes[i]
        /\ x.boxes[Len(u.boxes) + 1].object = o /\ x.boxes[Len(u.boxes) + 1].about = about
    BY BoxKeeps
  <2> QED BY <1>1, <1>2, <2>1, Zenon
<1>4. \A p \in Objects \ {o} : Failing(v, p) <=> Failing(u, p)
  BY <1>3 DEF Failing
<1>5. Failing(v, o) <=> (about = "blocked" \/ Failing(u, o))
  BY <1>3 DEF Failing
<1>6. Elsewhere(u, v, o)
  BY <1>3, <1>4 DEF Elsewhere, Keeps
<1> QED BY <1>1, <1>3, <1>5, <1>6

LEMMA RoomFor == Inv /\ Room => Len(win.boxes) \in Nat /\ Len(win.boxes) < MaxBoxes
<1>1. ASSUME Inv, Room PROVE Len(win.boxes) < MaxBoxes /\ Len(win.boxes) \in Nat
  <2>1. Len(win.boxes) \in Nat /\ unmade \in BOOLEAN
    BY <1>1, BoxOfSeq DEF Inv, Types, WinType
  <2> QED BY <1>1, <2>1, WindowsAssumption DEF Room
<1> QED BY <1>1

(* pinBlockedMessage(), whose end answers the request.                     *)
LEMMA BlockedStep ==
    ASSUME Inv, NEW o \in Objects, NEW w, Keeps(win, w),
           w.open = win.open, w.boxes = win.boxes, ~w.edit[o],
           <<o, "pin">> \in w.open => <<o, "pin">> \notin w.disabled,
           Blocked(o, w), Others, tries' \in 0..MaxTries,
           reading' \in [Objects -> BOOLEAN], ~reading'[o],
           \A p \in Objects \ {o} : reading'[p] = reading[p]
    PROVE  Inv' /\ Accounted
<1>1. PICK parent \in BlockedParents(w, o) :
        Goes(o, TRUE, MessageBox(w, o, parent, "blocked"), unprompted[o])
  BY DEF Blocked
<1>2. PICK v : v = MessageBox(w, o, parent, "blocked")
  OBVIOUS
<1>3. w \in WinType /\ Good(w) /\ Fits(w) /\ w.made = win.made /\ w.strays = win.strays
  BY DEF Keeps, Holds, Good
<1>4. Len(w.boxes) < MaxBoxes
  BY RoomFor DEF Blocked
<1>5. /\ parent \in Parents /\ parent \notin w.disabled
      /\ <<o, "pin">> \in w.open => parent = <<o, "pin">>
  BY <1>3, ForegroundTyped, DialogTypes DEF BlockedParents, visible
<1>6. Keeps(w, v) /\ v.open = w.open /\ Elsewhere(w, v, o) /\ Failing(v, o)
  <2>1. "blocked" \in Abouts
    BY DEF Abouts
  <2> QED BY <1>2, <1>3, <1>4, <1>5, <2>1, BoxElsewhere
<1>7. Follows(win, v) /\ v.strays = win.strays
  BY <1>3, <1>6, KeepsChain, KeepsFollows DEF Keeps
<1>8. Elsewhere(win, v, o)
  BY <1>3, <1>6 DEF Elsewhere, Failing
<1>9. PICK missing \in BOOLEAN : missing = unprompted[o]
  BY DEF Inv, Types
<1>10. Goes(o, TRUE, v, missing)
  BY <1>1, <1>2, <1>9
<1>11. Inv' /\ win' = v
  BY <1>6, <1>7, <1>8, <1>10, GoesStep
<1> QED BY <1>7, <1>11 DEF Accounted

(* What the actions of an object start from.                               *)
LEMMA Before ==
    ASSUME Inv, NEW o \in Objects
    PROVE  /\ win \in WinType /\ Good(win) /\ Keeps(win, win) /\ Elsewhere(win, win, o)
           /\ win.edit[o] => <<o, "pin">> \in win.open
           /\ reading \in [Objects -> BOOLEAN] /\ pending \in [Objects -> BOOLEAN]
           /\ unprompted \in [Objects -> BOOLEAN]
           /\ <<o, "pin">> \in win.open => ~reading[o]
           /\ win.made \subseteq Objects /\ Fits(win)
<1>1. /\ win \in WinType /\ Good(win) /\ RequestsInv
      /\ reading \in [Objects -> BOOLEAN] /\ pending \in [Objects -> BOOLEAN]
      /\ unprompted \in [Objects -> BOOLEAN]
  BY DEF Inv, Types, WindowsInv
<1>2. Keeps(win, win)
  BY <1>1, Zenon DEF Keeps, Holds
<1>3. Elsewhere(win, win, o)
  BY SameElsewhere
<1>4. win.edit[o] => <<o, "pin">> \in win.open
  BY <1>1 DEF Good, EntryShown
<1>5. <<o, "pin">> \in win.open => ~reading[o]
  BY <1>1, Zenon DEF RequestsInv
<1>6. win.made \subseteq Objects /\ Fits(win)
  BY <1>1 DEF WinType, Good
<1> QED BY <1>1, <1>2, <1>3, <1>4, <1>5, <1>6, Zenon

-----------------------------------------------------------------------------
(***************************************************************************)
(* One lemma for each action.                                              *)
(***************************************************************************)

LEMMA PromptStep ==
    ASSUME Inv, NEW o \in Objects, NEW kind \in {"pin", "pinpad"}, Prompt(o, kind),
           Others, tries' \in 0..MaxTries, ~reading[o],
           reading' = [reading EXCEPT ![o] = kind = "pinpad"],
           Prompts(o) \intersect win.open = {},
           ~Failing(win, o)
    PROVE  Inv' /\ Accounted
<1>1. /\ win \in WinType /\ Good(win) /\ Keeps(win, win) /\ Elsewhere(win, win, o)
      /\ reading \in [Objects -> BOOLEAN] /\ Fits(win)
  BY Before
<1>2. PICK r \in BOOLEAN : r <=> kind = "pinpad"
  OBVIOUS
<1>3. reading' = [reading EXCEPT ![o] = r]
  BY <1>2, Zenon
<1>4. /\ reading' \in [Objects -> BOOLEAN] /\ (reading'[o] <=> kind = "pinpad")
      /\ \A p \in Objects \ {o} : reading'[p] = reading[p]
  BY <1>1, <1>2, <1>3
<1>5. <<o, "pin">> \notin win.open /\ ~Failing(win, o) /\ ~Asked(win, o)
  BY DEF Asked, Prompts
<1>6. CASE dialogVisible(win, o)
  <2>1. Goes(o, TRUE, win, TRUE)
    BY <1>6 DEF Prompt
  <2>2. Inv' /\ win' = win
    BY <1>1, <1>4, <1>5, <2>1, KeepsFollows, GoesStep
  <2> QED BY <2>2 DEF Accounted
<1>7. CASE ~dialogVisible(win, o)
  <2>1. PICK parent \in Foreground(win), created \in BOOLEAN :
          Goes(o, TRUE, doDialog(win, <<o, kind>>, parent, created), ~created)
    BY <1>7 DEF Prompt, Creations
  <2>2. PICK d \in Dialogs : d = <<o, kind>> /\ d[1] = o /\ d[2] = kind
    <3>1. <<o, kind>> \in Dialogs /\ <<o, kind>>[1] = o /\ <<o, kind>>[2] = kind
      BY DEF Dialogs
    <3> QED BY <3>1, Zenon
  <2>3. PICK v : v = doDialog(win, d, parent, created)
    OBVIOUS
  <2>4. NoneOf(win, d[1])
    BY <1>1, <1>7, <2>2, NoneVisible
  <2>5. parent \in Parents /\ parent \notin win.disabled
    BY <1>1, ForegroundTyped
  <2>6. /\ Follows(win, v) /\ v.boxes = win.boxes /\ v.strays = win.strays
        /\ v.open = IF created THEN win.open \union {d} ELSE win.open
        /\ kind # "pinpad" => v.made = win.made
        /\ kind = "pinpad" => v.made = IF created THEN win.made \union {o} ELSE win.made \ {o}
    <3>1. d[2] = "pin" => ~Failing(win, d[1])
      BY <2>2
    <3>2. DialogOpens(win, d, created, v)
      BY <1>1, <2>3, <2>4, <2>5, <3>1, DialogFollows, Zenon
    <3> QED BY <2>2, <3>2 DEF DialogOpens
  <2>7. \A p \in Objects \ {o} : d \notin Prompts(p)
    BY <2>2 DEF Prompts
  <2>8. Failing(v, o) <=> Failing(win, o)
    BY <2>6 DEF Failing
  <2>9. Elsewhere(win, v, o)
    <3>1. \A p \in Objects \ {o} : p \in v.made <=> p \in win.made
      BY <2>6
    <3> QED BY <2>6, <2>7, <3>1 DEF Elsewhere, Failing
  <2>10. created => Asked(v, o)
    BY <2>2, <2>6 DEF Asked, Prompts
  <2>11. kind = "pinpad" => <<o, "pin">> \notin v.open
    BY <1>5, <2>2, <2>6
  <2>12. PICK missing \in BOOLEAN : missing <=> ~created
    OBVIOUS
  <2>13. Goes(o, TRUE, v, missing)
    <3>1. missing = ~created
      BY <2>12, Zenon
    <3> QED BY <2>1, <2>2, <2>3, <3>1, Zenon
  <2>14. reading'[o] => missing \/ o \in v.made
    BY <1>4, <2>6, <2>12
  <2>15. Inv' /\ win' = v
    BY <1>4, <1>5, <2>6, <2>8, <2>9, <2>10, <2>11, <2>12, <2>13, <2>14, GoesStep
  <2> QED BY <2>6, <2>15 DEF Accounted
<1> QED BY <1>6, <1>7

LEMMA signAsyncStep ==
    ASSUME Inv, NEW o \in Objects, signAsync(o)
    PROVE  Inv' /\ Accounted
<1>1. /\ Prompts(o) \intersect win.open = {} /\ ~reading[o] /\ Others
      /\ ~Failing(win, o) /\ tries' = tries /\ tries' \in 0..MaxTries
  BY DEF signAsync, Inv, Types
<1>2. /\ win \in WinType /\ Good(win) /\ Keeps(win, win) /\ Elsewhere(win, win, o)
      /\ win.edit[o] => <<o, "pin">> \in win.open
      /\ reading \in [Objects -> BOOLEAN]
  BY Before
<1>3. <<o, "pin">> \notin win.open /\ ~win.edit[o]
  BY <1>1, <1>2 DEF Prompts
<1>4. CASE Return(o, win) /\ UNCHANGED reading
  BY <1>1, <1>2, <1>4, ReturnStep
<1>5. CASE Blocked(o, win) /\ UNCHANGED reading
  BY <1>1, <1>2, <1>3, <1>5, BlockedStep
<1>6. CASE \E kind \in {"pin", "pinpad"} :
             Prompt(o, kind) /\ reading' = [reading EXCEPT ![o] = kind = "pinpad"]
  BY <1>1, <1>6, PromptStep
<1> QED BY <1>4, <1>5, <1>6 DEF signAsync

LEMMA PinpadResultStep ==
    ASSUME Inv, NEW o \in Objects, PinpadResult(o)
    PROVE  Inv' /\ Accounted
<1>1. reading[o] /\ Others /\ tries \in 0..MaxTries
  BY DEF PinpadResult, Inv, Types
<1>2. /\ win \in WinType /\ Good(win) /\ Keeps(win, win) /\ Elsewhere(win, win, o)
      /\ win.edit[o] => <<o, "pin">> \in win.open
      /\ reading \in [Objects -> BOOLEAN] /\ unprompted \in [Objects -> BOOLEAN]
      /\ <<o, "pin">> \notin win.open
  BY <1>1, Before
<1>3. Spent \in 0..MaxTries /\ MaxTries \in 0..MaxTries
  BY <1>1, SpentTyped, WindowsAssumption
<1>4. ASSUME reading' = [reading EXCEPT ![o] = FALSE]
      PROVE  /\ reading' \in [Objects -> BOOLEAN] /\ ~reading'[o]
             /\ \A p \in Objects \ {o} : reading'[p] = reading[p]
  BY <1>2, <1>4
<1>5. CASE /\ tries' \in 0..MaxTries /\ reading' = [reading EXCEPT ![o] = FALSE]
           /\ Return(o, win)
  BY <1>1, <1>2, <1>4, <1>5, ReturnStep
<1>6. CASE /\ tries' \in 0..MaxTries /\ reading' = [reading EXCEPT ![o] = FALSE]
           /\ Blocked(o, win)
  BY <1>1, <1>2, <1>4, <1>6, BlockedStep
<1>7. CASE /\ tries' \in 0..MaxTries /\ UNCHANGED reading
           /\ Goes(o, TRUE, resetProgressbar(win, o), unprompted[o])
  <2>1. PICK v : v = resetProgressbar(win, o)
    OBVIOUS
  <2>2. /\ Holds(win, v) /\ v.open = win.open /\ v.boxes = win.boxes /\ v.made = win.made
        /\ o \in win.made => v.strays = win.strays
    BY <1>2, <2>1, ResetHolds
  <2>3. Elsewhere(win, v, o)
    BY <2>2, SameElsewhere
  <2>4. (Asked(v, o) <=> Asked(win, o)) /\ (Failing(v, o) <=> Failing(win, o))
    BY <2>2 DEF Asked, Failing
  <2>5. PICK missing \in BOOLEAN : missing = unprompted[o]
    BY <1>2
  <2>6. ~missing => Asked(win, o) \/ Failing(win, o)
    BY <1>1, <2>5, Zenon DEF Inv, RequestsInv
  <2>7. ~Failing(win, o)
    BY <1>1, Zenon DEF Inv, RequestsInv
  <2>8. Goes(o, TRUE, v, missing)
    BY <1>7, <2>1, <2>5
  <2>9. reading' \in [Objects -> BOOLEAN] /\ \A p \in Objects \ {o} : reading'[p] = reading[p]
    BY <1>2, <1>7
  <2>10. unprompted[o] \/ o \in win.made
    BY <1>1, Zenon DEF Inv, RequestsInv
  <2>11. Inv' /\ win' = v
    <3>1. Follows(win, v)
      BY <2>2, HoldsFollows
    <3>2. reading'[o] => missing \/ o \in v.made
      BY <2>2, <2>5, <2>10, Zenon
    <3> QED BY <1>1, <1>2, <1>7, <2>2, <2>3, <2>4, <2>6, <2>7, <2>8, <2>9, <3>1, <3>2, GoesStep
  <2> QED BY <1>1, <2>2, <2>10, <2>11 DEF Accounted
<1>8. tries' \in 0..MaxTries
  BY <1>1, <1>3 DEF PinpadResult
<1> QED BY <1>5, <1>6, <1>7, <1>8 DEF PinpadResult

LEMMA TypeStep ==
    ASSUME Inv, NEW o \in Objects, Type(o)
    PROVE  Inv' /\ Accounted
<1>1. PICK typed \in BOOLEAN : Becomes([win EXCEPT !.edit[o] = typed])
  BY DEF Type
<1>2. PICK v : v = [win EXCEPT !.edit[o] = typed]
  OBVIOUS
<1>3. win \in WinType /\ Good(win)
  BY Before
<1>4. <<o, "pin">> \in win.open /\ <<o, "pin">> \notin win.disabled
  BY DEF Type, CanInput, visible
<1>5. Keeps(win, v) /\ v.open = win.open /\ v.boxes = win.boxes
  BY <1>2, <1>3, <1>4, EntryKeeps
<1>6. Follows(win, v) /\ Becomes(v) /\ v.made = win.made /\ v.strays = win.strays
  BY <1>1, <1>2, <1>5, KeepsFollows DEF Keeps
<1>7. \A p \in Objects : (Asked(v, p) <=> Asked(win, p)) /\ (Failing(v, p) <=> Failing(win, p))
  BY <1>5 DEF Asked, Failing
<1>8. UNCHANGED <<tries, pending, reading, unprompted, alive, orphaned>> /\ tries \in 0..MaxTries
  BY DEF Type, Others, Inv, Types
<1> QED BY <1>5, <1>6, <1>7, <1>8, QuietStep

LEMMA PinOkStep ==
    ASSUME Inv, NEW o \in Objects, PinOk(o)
    PROVE  Inv' /\ Accounted
<1>1. /\ <<o, "pin">> \in win.open /\ <<o, "pin">> \notin win.disabled
      /\ Others /\ UNCHANGED reading /\ tries \in 0..MaxTries
  BY DEF PinOk, CanInput, visible, Inv, Types
<1>2. /\ win \in WinType /\ Good(win) /\ reading \in [Objects -> BOOLEAN] /\ ~reading[o]
      /\ unprompted \in [Objects -> BOOLEAN]
  BY <1>1, Before
<1>3. reading' \in [Objects -> BOOLEAN] /\ ~reading'[o]
      /\ \A p \in Objects \ {o} : reading'[p] = reading[p]
  BY <1>1, <1>2
<1>4. PICK w : w = Taken(win, o)
  OBVIOUS
<1>5. /\ Keeps(win, w) /\ w.open = win.open /\ w.boxes = win.boxes /\ w.disabled = win.disabled
      /\ ~w.edit[o]
  BY <1>2, <1>4, EntryKeeps DEF Taken
<1>6. Elsewhere(win, w, o) /\ w.made = win.made /\ w.strays = win.strays
  BY <1>5, SameElsewhere DEF Keeps
<1>7. tries' \in 0..MaxTries
  <2>1. tries' = MaxTries \/ tries' = Spent \/ tries' = tries
    BY DEF PinOk
  <2>2. MaxTries \in 0..MaxTries
    BY WindowsAssumption
  <2> QED BY <1>1, <2>1, <2>2, SpentTyped
<1>8. w \in WinType /\ Good(w) /\ Asked(w, o)
  BY <1>1, <1>5 DEF Keeps, Holds, Asked, Prompts
<1>9. CASE Return(o, w)
  BY <1>1, <1>3, <1>5, <1>6, <1>7, <1>9, ReturnStep
<1>10. CASE Blocked(o, w)
  BY <1>1, <1>3, <1>5, <1>7, <1>10, BlockedStep
<1>11. CASE Goes(o, TRUE, w, FALSE)
  <2>1. Inv' /\ win' = w
    BY <1>1, <1>3, <1>5, <1>6, <1>7, <1>8, <1>11, KeepsFollows, GoesStep
  <2> QED BY <1>6, <2>1 DEF Accounted
<1>12. CASE Room /\ Goes(o, TRUE, MessageBox(w, o, <<o, "pin">>, "wrong"), FALSE)
  <2>1. PICK parent \in Parents : parent = <<o, "pin">>
    BY DialogTypes
  <2>2. PICK v : v = MessageBox(w, o, parent, "wrong")
    OBVIOUS
  <2>3. Keeps(w, v) /\ v.open = w.open /\ Elsewhere(w, v, o)
    <3>1. "wrong" \in Abouts /\ Len(w.boxes) < MaxBoxes
      BY <1>5, <1>12, RoomFor DEF Abouts
    <3> QED BY <1>1, <1>5, <1>8, <2>1, <2>2, <3>1, BoxElsewhere
  <2>4. Follows(win, v) /\ v.strays = win.strays
    BY <1>5, <1>6, <2>3, KeepsChain, KeepsFollows DEF Keeps
  <2>5. Elsewhere(win, v, o)
    BY <1>5, <1>6, <2>3 DEF Elsewhere, Failing
  <2>6. Asked(v, o)
    BY <1>8, <2>3 DEF Asked
  <2>7. Goes(o, TRUE, v, FALSE)
    BY <1>12, <2>1, <2>2
  <2>8. Inv' /\ win' = v
    BY <1>1, <1>3, <1>7, <2>4, <2>5, <2>6, <2>7, GoesStep
  <2> QED BY <2>4, <2>8 DEF Accounted
<1> QED BY <1>4, <1>9, <1>10, <1>11, <1>12 DEF PinOk

LEMMA PinCancelStep ==
    ASSUME Inv, NEW o \in Objects, PinCancel(o)
    PROVE  Inv' /\ Accounted
<1>1. /\ <<o, "pin">> \in win.open /\ Others /\ UNCHANGED <<tries, reading>>
      /\ tries \in 0..MaxTries
  BY DEF PinCancel, CanInput, visible, Inv, Types
<1>2. /\ win \in WinType /\ Good(win) /\ reading \in [Objects -> BOOLEAN] /\ ~reading[o]
  BY <1>1, Before
<1>3. PICK w : w = Taken(win, o)
  OBVIOUS
<1>4. Keeps(win, w) /\ w.open = win.open /\ w.boxes = win.boxes
  BY <1>2, <1>3, EntryKeeps DEF Taken
<1>5. Elsewhere(win, w, o)
  BY <1>4, SameElsewhere DEF Keeps
<1>6. Return(o, w)
  BY <1>3 DEF PinCancel
<1> QED BY <1>1, <1>2, <1>4, <1>5, <1>6, ReturnStep

LEMMA settingsDialogStep ==
    ASSUME Inv, NEW o \in Objects, settingsDialog(o)
    PROVE  Inv' /\ Accounted
<1>1. /\ ~dialogVisible(win, o) /\ tries \in 0..MaxTries
      /\ UNCHANGED <<tries, pending, reading, unprompted, alive, orphaned>>
  BY DEF settingsDialog, Others, Inv, Types
<1>2. win \in WinType /\ Good(win) /\ Fits(win)
  BY Before
<1>3. PICK parent \in Foreground(win), created \in BOOLEAN :
        Becomes(doDialog(win, <<o, "list">>, parent, created))
  BY DEF settingsDialog, Creations
<1>4. PICK d : d = <<o, "list">>
  OBVIOUS
<1>5. /\ d \in Dialogs /\ d[1] = o /\ d[2] = "list"
      /\ \A p \in Objects : d # <<p, "pin">> /\ d \notin Prompts(p)
  BY <1>4 DEF Dialogs, Prompts
<1>6. PICK v : v = doDialog(win, d, parent, created)
  OBVIOUS
<1>7. NoneOf(win, d[1])
  BY <1>1, <1>2, <1>5, NoneVisible
<1>8. /\ Follows(win, v) /\ v.boxes = win.boxes
      /\ v.strays = win.strays /\ v.made = win.made
      /\ v.open = IF created THEN win.open \union {d} ELSE win.open
  <2>1. parent \in Parents /\ parent \notin win.disabled
    BY <1>2, ForegroundTyped
  <2>2. d[2] = "pin" => ~Failing(win, d[1])
    BY <1>5
  <2>3. DialogOpens(win, d, created, v)
    BY <1>2, <1>5, <1>6, <1>7, <2>1, <2>2, DialogFollows, Zenon
  <2> QED BY <1>5, <2>3 DEF DialogOpens
<1>9. \A p \in Objects : Asked(v, p) <=> Asked(win, p)
  BY <1>5, <1>8 DEF Asked
<1>10. \A p \in Objects : Failing(v, p) <=> Failing(win, p)
  BY <1>8 DEF Failing
<1>11. \A p \in Objects : <<p, "pin">> \in v.open => <<p, "pin">> \in win.open
  BY <1>5, <1>8
<1>12. Becomes(v)
  BY <1>3, <1>4, <1>6
<1> QED BY <1>1, <1>8, <1>9, <1>10, <1>11, <1>12, QuietStep

LEMMA ListResponseStep ==
    ASSUME Inv, NEW o \in Objects, ListResponse(o)
    PROVE  Inv' /\ Accounted
<1>1. /\ <<o, "list">> \in win.open /\ Others /\ UNCHANGED <<tries, reading>>
      /\ tries \in 0..MaxTries
  BY DEF ListResponse, CanInput, visible, Inv, Types
<1>2. /\ win \in WinType /\ Good(win) /\ Elsewhere(win, win, o)
      /\ win.edit[o] => <<o, "pin">> \in win.open
      /\ reading \in [Objects -> BOOLEAN] /\ pending \in [Objects -> BOOLEAN]
      /\ unprompted \in [Objects -> BOOLEAN]
  BY Before
<1>3. Prompts(o) \intersect win.open = {} /\ <<o, "pin">> \notin win.open /\ ~Asked(win, o)
  BY <1>1, <1>2, DialogTypes DEF Good, OnePerObject, Prompts, Asked
<1>4. PICK w : w = close(win, <<o, "list">>)
  OBVIOUS
<1>5. Keeps(win, w) /\ Less(win, w)
  BY <1>2, <1>4, CloseKeeps, DialogTypes
<1>6. Elsewhere(win, w, o) /\ w.made = win.made /\ w.strays = win.strays
  BY <1>2, <1>5, LessElsewhere DEF Keeps
<1>7. /\ w \in WinType /\ Good(w) /\ Fits(w) /\ <<o, "pin">> \notin w.open /\ ~w.edit[o]
      /\ ~Asked(w, o) /\ (Failing(w, o) <=> Failing(win, o))
  <2>1. w \in WinType /\ Good(w)
    BY <1>5 DEF Keeps, Holds
  <2>2. <<o, "pin">> \notin w.open /\ ~Asked(w, o)
    BY <1>3, <1>5 DEF Less, Asked
  <2>3. Failing(w, o) <=> Failing(win, o)
    BY <1>5 DEF Less, Failing
  <2> QED BY <2>1, <2>2, <2>3 DEF Good, EntryShown
<1>8. PICK open \in BOOLEAN : open = pending[o]
  BY <1>2
<1>9. PICK missing \in BOOLEAN : missing = unprompted[o]
  BY <1>2
<1>10. /\ open /\ ~missing => Failing(win, o)
       /\ reading[o] => open /\ ~Failing(win, o)
       /\ reading[o] => missing \/ o \in win.made
  BY <1>3, <1>8, <1>9, Zenon DEF Inv, RequestsInv
<1>11. /\ reading' = reading /\ reading' \in [Objects -> BOOLEAN] /\ tries' \in 0..MaxTries
       /\ \A p \in Objects \ {o} : reading'[p] = reading[p]
  BY <1>1, <1>2
<1>12. CASE Goes(o, pending[o], w, unprompted[o])
  <2>1. Goes(o, open, w, missing)
    BY <1>8, <1>9, <1>12
  <2>2. Inv' /\ win' = w
    BY <1>1, <1>5, <1>6, <1>7, <1>10, <1>11, <2>1, KeepsFollows, GoesStep
  <2> QED BY <1>6, <2>2 DEF Accounted
<1>13. CASE /\ Room
            /\ \E parent \in Foreground(w) :
                  Goes(o, pending[o], MessageBox(w, o, parent, "saved"), unprompted[o])
  <2>1. PICK parent \in Foreground(w) :
          Goes(o, pending[o], MessageBox(w, o, parent, "saved"), unprompted[o])
    BY <1>13
  <2>2. PICK v : v = MessageBox(w, o, parent, "saved")
    OBVIOUS
  <2>3. parent \in Parents /\ parent \notin w.disabled
    BY <1>7, ForegroundTyped
  <2>4. /\ Keeps(w, v) /\ v.open = w.open /\ Elsewhere(w, v, o)
        /\ Failing(v, o) <=> Failing(w, o)
    <3>1. "saved" \in Abouts /\ Len(w.boxes) < MaxBoxes
      <4>1. Len(w.boxes) = Len(win.boxes)
        BY <1>5 DEF Less
      <4> QED BY <1>13, <4>1, RoomFor DEF Abouts
    <3> QED BY <1>7, <2>2, <2>3, <3>1, BoxElsewhere
  <2>5. Follows(win, v) /\ v.strays = win.strays
    BY <1>5, <1>6, <2>4, KeepsChain, KeepsFollows DEF Keeps
  <2>6. Elsewhere(win, v, o) /\ v.made = win.made
    BY <1>6, <2>4 DEF Elsewhere, Keeps
  <2>7. ~Asked(v, o) /\ <<o, "pin">> \notin v.open
    BY <1>7, <2>4 DEF Asked
  <2>8. Goes(o, open, v, missing)
    BY <1>8, <1>9, <2>1, <2>2
  <2>9. Inv' /\ win' = v
    BY <1>1, <1>7, <1>10, <1>11, <2>4, <2>5, <2>6, <2>7, <2>8, GoesStep
  <2> QED BY <2>5, <2>9 DEF Accounted
<1> QED BY <1>4, <1>12, <1>13 DEF ListResponse

LEMMA CloseBoxStep ==
    ASSUME Inv, CloseBox
    PROVE  Inv' /\ Accounted
<1>1. PICK i \in DOMAIN win.boxes :
        /\ win.boxes[i].shown /\ Becomes(EndBox(win, i))
        /\ unprompted' = [p \in Objects |->
              unprompted[p] \/ (pending[p] /\ TakenAway(EndBox(win, i), p))]
  BY DEF CloseBox
<1>2. PICK w : w = EndBox(win, i)
  OBVIOUS
<1>3. /\ win \in WinType /\ Good(win) /\ alive \subseteq Objects /\ RequestsInv
      /\ tries' = tries /\ pending' = pending /\ reading' = reading
      /\ alive' = alive /\ orphaned' = orphaned
      /\ unprompted \in [Objects -> BOOLEAN]
  BY DEF CloseBox, Others, Inv, Types, WindowsInv
<1>4. Keeps(win, w) /\ Less(win, w)
  BY <1>1, <1>2, <1>3, EndBoxKeeps
<1>5. w.made = win.made /\ w.strays = win.strays
  BY <1>4 DEF Keeps
<1>6. /\ WindowsInv' /\ win' = w /\ win' \in WinType
      /\ unmade' \in BOOLEAN /\ overlapped' \in BOOLEAN
  BY <1>1, <1>2, <1>4, KeepsFollows, WindowsStep
<1>7. /\ unprompted' \in [Objects -> BOOLEAN]
      /\ \A p \in Objects : unprompted'[p] = (unprompted[p] \/ (pending[p] /\ TakenAway(w, p)))
  <2>1. \A p \in Objects : (unprompted[p] \/ (pending[p] /\ TakenAway(w, p))) \in BOOLEAN
    BY <1>3, Zenon
  <2>2. unprompted' = [p \in Objects |-> unprompted[p] \/ (pending[p] /\ TakenAway(w, p))]
    BY <1>1, <1>2
  <2> QED BY <2>1, <2>2, Zenon
<1>8. Types'
  BY <1>3, <1>6, <1>7, Zenon DEF Inv, Types
<1>9. \A p \in Objects :
        /\ Asked(w, p) => Asked(win, p)
        /\ <<p, "pin">> \in w.open => <<p, "pin">> \in win.open
        /\ Failing(w, p) <=> Failing(win, p)
        /\ TakenAway(w, p) <=> Asked(win, p) /\ ~Asked(w, p)
  BY <1>4 DEF Less, Asked, Failing, TakenAway
<1>10. RequestsInv'
  <2>1. ASSUME NEW p \in Objects, pending[p]
        PROVE  unprompted'[p] \/ Asked(w, p) \/ Failing(w, p)
    <3>1. unprompted[p] \/ Asked(win, p) \/ Failing(win, p)
      BY <1>3, <2>1, Zenon DEF RequestsInv
    <3> QED BY <1>7, <1>9, <2>1, <3>1, Zenon
  <2>2. ASSUME NEW p \in alive, Asked(w, p) PROVE pending[p]
    <3>1. p \in Objects
      BY <1>3
    <3> QED BY <1>3, <1>9, <2>2, <3>1, Zenon DEF RequestsInv
  <2>3. ASSUME NEW p \in Objects, reading[p]
        PROVE  /\ pending[p] /\ <<p, "pin">> \notin w.open /\ ~Failing(w, p)
               /\ unprompted'[p] \/ p \in w.made
    <3>1. pending[p] /\ <<p, "pin">> \notin win.open /\ ~Failing(win, p)
          /\ (unprompted[p] \/ p \in win.made)
      BY <1>3, <2>3, Zenon DEF RequestsInv
    <3> QED BY <1>5, <1>7, <1>9, <3>1, Zenon
  <2> QED BY <1>3, <1>6, <2>1, <2>2, <2>3, Zenon DEF RequestsInv
<1> QED BY <1>5, <1>6, <1>8, <1>10 DEF Inv, Accounted

LEMMA BoxReturnsStep ==
    ASSUME Inv, BoxReturns
    PROVE  Inv' /\ Accounted
<1>1. /\ win.boxes # <<>> /\ ~win.boxes[Len(win.boxes)].shown
      /\ Others /\ UNCHANGED <<tries, reading>> /\ tries \in 0..MaxTries
  BY DEF BoxReturns, Inv, Types
<1>2. win \in WinType /\ Good(win) /\ reading \in [Objects -> BOOLEAN]
  BY DEF Inv, Types, WindowsInv
<1>3. PICK n : n = Len(win.boxes)
  OBVIOUS
<1>4. PICK w : w = [win EXCEPT !.boxes = SubSeq(@, 1, Len(@) - 1)]
  OBVIOUS
<1>5. /\ Keeps(win, w) /\ w.open = win.open /\ n \in DOMAIN win.boxes
      /\ DOMAIN w.boxes = DOMAIN win.boxes \ {n}
      /\ \A i \in DOMAIN w.boxes : w.boxes[i] = win.boxes[i]
  BY <1>1, <1>2, <1>3, <1>4, PopKeeps
<1>6. w.made = win.made /\ w.strays = win.strays
  BY <1>5 DEF Keeps
<1>7. PICK o \in Objects : o = win.boxes[n].object
  <2>1. win.boxes[n] \in Boxes
    BY <1>2, <1>5, BoxOfSeq DEF WinType
  <2> QED BY <2>1 DEF Boxes
<1>8. \A p \in Objects \ {o} : Failing(w, p) <=> Failing(win, p)
  BY <1>5, <1>7 DEF Failing
<1>9. CASE win.boxes[n].about = "blocked"
  <2>1. Return(o, w)
    BY <1>3, <1>4, <1>7, <1>9 DEF BoxReturns
  <2>2. Failing(win, o)
    BY <1>5, <1>7, <1>9 DEF Failing
  <2>3. ~reading[o]
    BY <2>2, Zenon DEF Inv, RequestsInv
  <2>4. Elsewhere(win, w, o)
    BY <1>5, <1>6, <1>8 DEF Elsewhere
  <2> QED BY <1>1, <1>2, <1>5, <2>1, <2>3, <2>4, ReturnStep
<1>10. CASE win.boxes[n].about # "blocked"
  <2>1. Becomes(w) /\ UNCHANGED <<pending, unprompted>>
    BY <1>3, <1>4, <1>10 DEF BoxReturns
  <2>2. \A p \in Objects : Failing(w, p) <=> Failing(win, p)
    BY <1>5, <1>10 DEF Failing
  <2>3. \A p \in Objects : Asked(w, p) <=> Asked(win, p)
    BY <1>5 DEF Asked
  <2>4. Follows(win, w)
    BY <1>5, KeepsFollows
  <2>5. UNCHANGED <<pending, reading, unprompted, alive, orphaned>> /\ tries' \in 0..MaxTries
    BY <1>1, <2>1 DEF Others
  <2> QED BY <1>5, <1>6, <2>1, <2>2, <2>3, <2>4, <2>5, QuietStep
<1> QED BY <1>9, <1>10

LEMMA TickStep ==
    ASSUME Inv, NEW o \in Objects, Tick(o)
    PROVE  Inv' /\ Accounted
<1>1. PICK v : v = [win EXCEPT !.time[o] = @ - 1]
  OBVIOUS
<1>2. win \in WinType /\ Good(win) /\ win.time[o] > 0
  BY Before DEF Tick
<1>3. Keeps(win, v) /\ v.open = win.open /\ v.boxes = win.boxes
  BY <1>1, <1>2, TickKeeps
<1>4. Follows(win, v) /\ Becomes(v) /\ v.made = win.made /\ v.strays = win.strays
  BY <1>1, <1>3, KeepsFollows DEF Tick, Keeps
<1>5. \A p \in Objects : (Asked(v, p) <=> Asked(win, p)) /\ (Failing(v, p) <=> Failing(win, p))
  BY <1>3 DEF Asked, Failing
<1>6. UNCHANGED <<tries, pending, reading, unprompted, alive, orphaned>> /\ tries \in 0..MaxTries
  BY DEF Tick, Others, Inv, Types
<1> QED BY <1>3, <1>4, <1>5, <1>6, QuietStep

LEMMA LeaveStep ==
    ASSUME Inv, NEW o \in Objects, Leave(o)
    PROVE  Inv' /\ Accounted
<1>1. /\ ~reading[o] /\ alive' = alive \ {o} /\ orphaned' = dialogVisible(win, o)
      /\ win' = [win EXCEPT !.made = @ \ {o}]
      /\ pending' = [pending EXCEPT ![o] = FALSE]
      /\ unprompted' = [unprompted EXCEPT ![o] = FALSE]
      /\ UNCHANGED <<tries, reading, unmade, overlapped>>
  BY DEF Leave
<1>2. /\ Types /\ WindowsInv /\ RequestsInv
  BY DEF Inv
<1>3. PICK w : w = [win EXCEPT !.made = @ \ {o}]
  OBVIOUS
<1>4. /\ win \in WinType /\ Good(win)
      /\ w \in WinType /\ w.open = win.open /\ w.m_hParent = win.m_hParent
      /\ w.disabled = win.disabled /\ w.s_hWnd = win.s_hWnd /\ w.hooks = win.hooks
      /\ w.boxes = win.boxes /\ w.edit = win.edit /\ w.strays = win.strays
      /\ w.made = win.made \ {o}
  <2>1. win \in WinType /\ Good(win)
    BY <1>2 DEF Types, WindowsInv
  <2>2. win.made \ {o} \in SUBSET Objects
    BY <2>1 DEF WinType
  <2> QED BY <1>3, <2>1, <2>2 DEF WinType
<1>5. Holds(win, w)
  <2>1. EntryShown(w) /\ (Neat(win) => NoPinBehind(w))
    BY <1>4 DEF Good, EntryShown, Neat, NoPinBehind
  <2> QED BY <1>4, <2>1, DetailsHold
<1>6. /\ pending' \in [Objects -> BOOLEAN] /\ ~pending'[o]
      /\ \A p \in Objects : p # o => pending'[p] = pending[p]
      /\ unprompted' \in [Objects -> BOOLEAN]
      /\ \A p \in Objects : p # o => unprompted'[p] = unprompted[p]
  BY <1>1, <1>2 DEF Types
<1>7. orphaned' \in BOOLEAN
  BY <1>1, Zenon DEF dialogVisible
<1>8. win' = w /\ unmade' = unmade /\ overlapped' = overlapped
  BY <1>1, <1>3
<1>9. Types'
  BY <1>1, <1>2, <1>4, <1>6, <1>7, <1>8 DEF Types
<1>10. WindowsInv'
  <2>1. Good(w) /\ (~unmade => Neat(w)) /\ (~overlapped => Hooked(w))
    BY <1>2, <1>5, Zenon DEF WindowsInv, Holds
  <2>2. Good(win') /\ (~unmade' => Neat(win')) /\ (~overlapped' => Hooked(win'))
    BY <1>8, <2>1
  <2> QED BY <2>2, Zenon DEF WindowsInv
<1>11. RequestsInv'
  <2>1. reading' = reading /\ alive \subseteq Objects
    BY <1>1, <1>2 DEF Types
  <2>2. \A p \in Objects : (Asked(w, p) <=> Asked(win, p)) /\ (Failing(w, p) <=> Failing(win, p))
    BY <1>4 DEF Asked, Failing
  <2>3. ASSUME NEW p \in Objects, pending'[p]
        PROVE  unprompted'[p] \/ Asked(w, p) \/ Failing(w, p)
    <3>1. p # o /\ pending[p]
      BY <1>6, <2>3
    <3>2. unprompted[p] \/ Asked(win, p) \/ Failing(win, p)
      BY <1>2, <3>1, Zenon DEF RequestsInv
    <3> QED BY <1>6, <2>2, <3>1, <3>2, Zenon
  <2>4. ASSUME NEW p \in alive', Asked(w, p) PROVE pending'[p]
    <3>1. p \in alive /\ p # o /\ p \in Objects
      BY <1>1, <2>1
    <3>2. pending[p]
      BY <1>2, <2>2, <2>4, <3>1, Zenon DEF RequestsInv
    <3> QED BY <1>6, <3>1, <3>2, Zenon
  <2>5. ASSUME NEW p \in Objects, reading[p]
        PROVE  /\ pending'[p] /\ <<p, "pin">> \notin w.open /\ ~Failing(w, p)
               /\ unprompted'[p] \/ p \in w.made
    <3>1. p # o
      BY <1>1, <2>5
    <3>2. pending[p] /\ <<p, "pin">> \notin win.open /\ ~Failing(win, p)
          /\ (unprompted[p] \/ p \in win.made)
      BY <1>2, <2>5, Zenon DEF RequestsInv
    <3>3. <<p, "pin">> \notin w.open /\ (p \in win.made => p \in w.made)
      BY <1>4, <3>1, <3>2
    <3> QED BY <1>6, <2>2, <3>1, <3>2, <3>3, Zenon
  <2> QED BY <1>8, <2>1, <2>3, <2>4, <2>5, Zenon DEF RequestsInv
<1>12. Accounted
  BY <1>4, <1>8 DEF Accounted
<1> QED BY <1>9, <1>10, <1>11, <1>12 DEF Inv

LEMMA InvStutter == Inv /\ UNCHANGED vars => Inv' /\ Accounted
<1> SUFFICES ASSUME Inv, UNCHANGED vars PROVE Inv' /\ Accounted
  OBVIOUS
<1>1. /\ win' = win /\ alive' = alive /\ tries' = tries /\ pending' = pending
      /\ reading' = reading /\ unprompted' = unprompted /\ unmade' = unmade
      /\ overlapped' = overlapped /\ orphaned' = orphaned
  BY DEF vars
<1> QED BY <1>1, Zenon DEF Inv, Types, WindowsInv, RequestsInv, Accounted

LEMMA InvStep == Inv /\ [Next]_vars => Inv' /\ Accounted
<1> SUFFICES ASSUME Inv, [Next]_vars PROVE Inv' /\ Accounted
  OBVIOUS
<1>1. ASSUME NEW o \in Objects, signAsync(o) PROVE Inv' /\ Accounted
  BY <1>1, signAsyncStep
<1>2. ASSUME NEW o \in Objects, PinpadResult(o) PROVE Inv' /\ Accounted
  BY <1>2, PinpadResultStep
<1>3. ASSUME NEW o \in Objects, Type(o) PROVE Inv' /\ Accounted
  BY <1>3, TypeStep
<1>4. ASSUME NEW o \in Objects, PinOk(o) PROVE Inv' /\ Accounted
  BY <1>4, PinOkStep
<1>5. ASSUME NEW o \in Objects, PinCancel(o) PROVE Inv' /\ Accounted
  BY <1>5, PinCancelStep
<1>6. ASSUME NEW o \in Objects, settingsDialog(o) PROVE Inv' /\ Accounted
  BY <1>6, settingsDialogStep
<1>7. ASSUME NEW o \in Objects, ListResponse(o) PROVE Inv' /\ Accounted
  BY <1>7, ListResponseStep
<1>8. ASSUME NEW o \in Objects, Tick(o) PROVE Inv' /\ Accounted
  BY <1>8, TickStep
<1>9. ASSUME NEW o \in Objects, Leave(o) PROVE Inv' /\ Accounted
  BY <1>9, LeaveStep
<1>10. CASE CloseBox
  BY <1>10, CloseBoxStep
<1>11. CASE BoxReturns
  BY <1>11, BoxReturnsStep
<1>12. CASE UNCHANGED vars
  BY <1>12, InvStutter
<1> QED BY <1>1, <1>2, <1>3, <1>4, <1>5, <1>6, <1>7, <1>8, <1>9, <1>10, <1>11,
           <1>12 DEF Next

LEMMA InvHolds == Spec => []Inv
<1> QED BY InvInit, InvStep, PTL DEF Spec

-----------------------------------------------------------------------------
(* Every variable has its type.                                            *)
THEOREM TypeCorrect == Spec => []TypeOK
<1>1. Inv => TypeOK
  BY Zenon DEF Inv, Types, TypeOK, WinType, Boxes, Parents, Abouts, WindowsInv, Good, Fits
<1> QED BY <1>1, InvHolds, PTL

(* enableParent() is called for every window that disableParent() has      *)
(* disabled: none is left without input, in whichever order the dialogs    *)
(* and message boxes of any number of objects open over and close each     *)
(* other, and whether or not their windows could be made.                  *)
THEOREM NoneStaysDisabled == Spec => []NoWindowLeftDisabled
<1>1. Inv => NoWindowLeftDisabled
  BY DEF Inv, WindowsInv, Good, NoneLeft, NoWindowLeftDisabled
<1> QED BY <1>1, InvHolds, PTL

(* A window that a dialog or a message box was opened over takes no input  *)
(* until that is closed, as long as no dialog failed to open.              *)
THEOREM ParentsWait == Spec => []ParentWaits
<1>1. Inv => ParentWaits
  BY DEF Inv, WindowsInv, Neat, Waits, ParentWaits
<1> QED BY <1>1, InvHolds, PTL

(* The one hook of the thread is that of the open dialog, as long as no    *)
(* two objects have dialogs open together.                                 *)
THEOREM HookCorrect == Spec => []HookFollowsDialog
<1>1. Inv => HookFollowsDialog
  BY DEF Inv, WindowsInv, Hooked, HookFollowsDialog
<1> QED BY <1>1, InvHolds, PTL

(* A request that is not answered is before the user, unless its dialog    *)
(* was not opened or was closed with its owner.                            *)
THEOREM RequestsPrompted == Spec => []RequestIsPrompted
<1>1. Inv => RequestIsPrompted
  BY DEF Inv, RequestsInv, Asked, RequestIsPrompted
<1> QED BY <1>1, InvHolds, PTL

(* No PIN dialog is open for a request that has been answered.             *)
THEOREM PromptsWanted == Spec => []PromptHasRequest
<1>1. Inv => PromptHasRequest
  BY DEF Inv, RequestsInv, Asked, PromptHasRequest
<1> QED BY <1>1, InvHolds, PTL

(* The entry keeps no PIN behind a message box or after the dialog, as     *)
(* long as no dialog failed to open.                                       *)
THEOREM EntryCleared == Spec => []PinNotKept
<1>1. Inv => PinNotKept
  BY DEF Inv, WindowsInv, Good, EntryShown, Neat, NoPinBehind, PinNotKept, visible
<1> QED BY <1>1, InvHolds, PTL

(* A timer that no window has, and that nobody kills, is only ever added   *)
(* for a request that waits for the pinpad without its dialog: a dialog    *)
(* that was made for it, shown or closed since, takes the timer.           *)
THEOREM StraysUnprompted == Spec => StraysAreUnprompted
<1>1. Inv /\ [Next]_vars
        => [win'.strays # win.strays => \E o \in Objects : unprompted[o] /\ reading[o]]_vars
  BY InvStep DEF Accounted
<1> QED BY <1>1, InvHolds, PTL DEF Spec, StraysAreUnprompted
=============================================================================
