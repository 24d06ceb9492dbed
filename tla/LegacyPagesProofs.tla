-------------------------- MODULE LegacyPagesProofs --------------------------
(***************************************************************************)
(* What is proved about LegacyPages, for any finite page and any shapes of *)
(* its elements.                                                           *)
(***************************************************************************)
EXTENDS LegacyPages, TLAPS, SequenceTheorems, FiniteSetTheorems

-----------------------------------------------------------------------------
(***************************************************************************)
(* The inductive invariant.                                                *)
(***************************************************************************)

Node  == [el : Elements, converted : BOOLEAN]
Frame == [kind : {"pass", "script", "event"}, i : 0..Len(ot), j : 0..Cardinality(Elements)]

(* A pass's frame names the list it goes over.                             *)
Passes(s) == {k \in DOMAIN s : s[k].kind = "pass"}
Lists(s)  == \A k \in Passes(s) : s[k].i \in 1..3

TypeInv == TypeOK /\ Lists(stack)

(* The running pass has before it what is old and not missed, and nothing  *)
(* of that is left when none runs.                                         *)
Left(m)     == Legacy(dom[m]) /\ dom[m].el \notin missed
Ahead(f, m) == \E t \in f.i..3 : Tag(dom[m]) = ot[t] /\ (t = f.i => f.j < Rank(t, m))
Swept ==
    /\ \A k \in Passes(stack), m \in DOMAIN dom : Left(m) => Ahead(stack[k], m)
    /\ loaded /\ ~running => \A m \in DOMAIN dom : ~Left(m)

Inv == TypeInv /\ OneForOne /\ FlagMeansPass /\ Swept

LEMMA Flag ==
    FlagMeansPass <=> /\ \A k, l \in Passes(stack) : k = l
                      /\ running <=> Passes(stack) # {}
<1> QED BY DEF FlagMeansPass, Passes

LEMMA Tags ==
    /\ Len(ot) = 3 /\ ot[1] = "applet" /\ ot[2] = "embed" /\ ot[3] = "object"
    /\ \A t, u \in 1..3 : ot[t] = ot[u] => t = u
    /\ 0..Len(ot) = 0..3
<1>1. Len(ot) = 3 /\ ot[1] = "applet" /\ ot[2] = "embed" /\ ot[3] = "object"
  BY DEF ot
<1>2. \A t \in 1..3 : t = 1 \/ t = 2 \/ t = 3
  OBVIOUS
<1> HIDE DEF ot
<1>3. \A t, u \in 1..3 : ot[t] = ot[u] => t = u
  BY <1>1, <1>2
<1> QED BY <1>1, <1>3

LEMMA NodeTags ==
    ASSUME TypeInv, NEW node \in Node
    PROVE  \E t \in 1..3 : Tag(node) = ot[t]
<1>1. shape[node.el].tag \in {"applet", "embed", "object"}
  <2>1. node.el \in Elements /\ shape \in [Elements -> Shapes]
    BY DEF TypeInv, TypeOK, Node
  <2>2. shape[node.el] \in Shape
    BY <2>1, LegacyAssumption
  <2> QED BY <2>2 DEF Shape
<1>2. Tag(node) \in {"applet", "embed", "object"}
  BY <1>1 DEF Tag
<1> QED BY <1>2, Tags

-----------------------------------------------------------------------------
(***************************************************************************)
(* Sequences: the page and the stack.                                      *)
(***************************************************************************)

LEMMA PageTypes ==
    ASSUME TypeInv
    PROVE  /\ dom \in Seq(Node) /\ Len(dom) \in Nat /\ DOMAIN dom = 1..Len(dom)
           /\ \A k \in DOMAIN dom : dom[k] \in Node
<1>1. dom \in Seq(Node)
  BY DEF TypeInv, TypeOK, Node
<1>2. Len(dom) \in Nat /\ DOMAIN dom = 1..Len(dom)
  BY <1>1, LenProperties
<1>3. \A k \in 1..Len(dom) : dom[k] \in Node
  BY <1>1, ElementOfSeq
<1> QED BY <1>1, <1>2, <1>3

LEMMA ConcatNodes ==
    ASSUME NEW a \in Seq(Node), NEW b \in Seq(Node)
    PROVE  LET c == a \o b IN
           /\ c \in Seq(Node) /\ Len(c) = Len(a) + Len(b)
           /\ \A m \in 1..Len(a) : c[m] = a[m]
           /\ \A m \in 1..Len(b) : c[Len(a) + m] = b[m]
<1>1. Len(a) \in Nat /\ Len(b) \in Nat
  OBVIOUS
<1>2. a \o b \in Seq(Node) /\ Len(a \o b) = Len(a) + Len(b)
  OBVIOUS
<1>3. \A m \in 1..Len(a) : (a \o b)[m] = a[m]
  BY <1>1
<1>4. \A m \in 1..Len(b) : (a \o b)[Len(a) + m] = b[m]
  BY <1>1
<1> QED BY <1>2, <1>3, <1>4

LEMMA ReplacedPage ==
    ASSUME TypeInv, NEW k \in DOMAIN dom
    PROVE  /\ Replaced(k) \in Seq(Node) /\ DOMAIN Replaced(k) = 1..Len(dom)
           /\ \A m \in 1..Len(dom) :
                Replaced(k)[m] = IF m < k THEN dom[m]
                                 ELSE IF m < Len(dom) THEN dom[m + 1] ELSE New(dom[k].el)
<1>1. PICK n : n = Len(dom)
  OBVIOUS
<1>2. dom \in Seq(Node) /\ n \in Nat /\ k \in 1..n /\ dom[k] \in Node
  BY <1>1, PageTypes
<1>3. PICK a : a = SubSeq(dom, 1, k - 1)
  OBVIOUS
<1>4. PICK b : b = SubSeq(dom, k + 1, n)
  OBVIOUS
<1>5. PICK c : c = a \o b
  OBVIOUS
<1>6. PICK x : x = New(dom[k].el)
  OBVIOUS
<1>7. PICK d : d = Append(c, x)
  OBVIOUS
<1>8. x \in Node
  BY <1>2, <1>6 DEF Node, New
<1>9. a \in Seq(Node) /\ Len(a) = k - 1 /\ \A m \in 1..(k - 1) : a[m] = dom[m]
  BY <1>1, <1>2, <1>3
<1>10. b \in Seq(Node) /\ Len(b) = n - k /\ \A m \in 1..(n - k) : b[m] = dom[k + m]
  BY <1>1, <1>2, <1>4
<1>11. /\ c \in Seq(Node) /\ Len(c) = n - 1
       /\ \A m \in 1..(k - 1) : c[m] = a[m]
       /\ \A m \in 1..(n - k) : c[(k - 1) + m] = b[m]
  <2>1. /\ c \in Seq(Node) /\ Len(c) = Len(a) + Len(b)
        /\ \A m \in 1..Len(a) : c[m] = a[m]
        /\ \A m \in 1..Len(b) : c[Len(a) + m] = b[m]
    BY <1>5, <1>9, <1>10, ConcatNodes
  <2>2. (k - 1) + (n - k) = n - 1
    BY <1>2
  <2> QED BY <1>9, <1>10, <2>1, <2>2
<1>12. \A m \in 1..(n - 1) : c[m] = IF m < k THEN dom[m] ELSE dom[m + 1]
  <2> TAKE m \in 1..(n - 1)
  <2>1. CASE m < k
    BY <1>2, <1>9, <1>11, <2>1
  <2>2. CASE m >= k
    <3>1. /\ m - (k - 1) \in 1..(n - k) /\ k + (m - (k - 1)) = m + 1
          /\ (k - 1) + (m - (k - 1)) = m /\ ~(m < k)
      BY <1>2, <2>2
    <3> QED BY <1>10, <1>11, <2>2, <3>1
  <2> QED BY <1>2, <2>1, <2>2
<1>13. d \in Seq(Node) /\ Len(d) = n /\ d[n] = x /\ \A m \in 1..(n - 1) : d[m] = c[m]
  BY <1>2, <1>7, <1>8, <1>11, AppendProperties
<1>14. DOMAIN d = 1..n
  BY <1>13, LenProperties
<1>15. \A m \in 1..n : d[m] = IF m < k THEN dom[m] ELSE IF m < n THEN dom[m + 1] ELSE x
  <2> TAKE m \in 1..n
  <2>1. CASE m = n
    BY <1>2, <1>13, <2>1
  <2>2. CASE m \in 1..(n - 1)
    BY <1>2, <1>12, <1>13, <2>2
  <2> QED BY <1>2, <2>1, <2>2
<1>16. Replaced(k) = d
  BY <1>1, <1>3, <1>4, <1>5, <1>6, <1>7 DEF Replaced, RemoveAt
<1> QED BY <1>1, <1>6, <1>13, <1>14, <1>15, <1>16

LEMMA InsertedPage ==
    ASSUME TypeInv, NEW k \in 1..(Len(dom) + 1), NEW e \in Elements
    PROVE  LET d == InsertAt(dom, k, Old(e)) IN
           /\ d \in Seq(Node) /\ DOMAIN d = 1..(Len(dom) + 1)
           /\ \A m \in 1..(Len(dom) + 1) :
                d[m] = IF m < k THEN dom[m] ELSE IF m = k THEN Old(e) ELSE dom[m - 1]
<1>1. PICK n : n = Len(dom)
  OBVIOUS
<1>2. dom \in Seq(Node) /\ n \in Nat /\ k \in 1..(n + 1)
  BY <1>1, PageTypes
<1>3. PICK a : a = SubSeq(dom, 1, k - 1)
  OBVIOUS
<1>4. PICK b : b = SubSeq(dom, k, n)
  OBVIOUS
<1>5. PICK x : x = Old(e)
  OBVIOUS
<1>6. PICK c : c = a \o <<x>>
  OBVIOUS
<1>7. PICK d : d = c \o b
  OBVIOUS
<1>8. x \in Node
  BY <1>5 DEF Node, Old
<1>9. a \in Seq(Node) /\ Len(a) = k - 1 /\ \A m \in 1..(k - 1) : a[m] = dom[m]
  BY <1>1, <1>2, <1>3
<1>10. b \in Seq(Node) /\ Len(b) = n + 1 - k /\ \A m \in 1..(n + 1 - k) : b[m] = dom[k + m - 1]
  BY <1>1, <1>2, <1>4
<1>11. c \in Seq(Node) /\ Len(c) = k /\ c[k] = x /\ \A m \in 1..(k - 1) : c[m] = a[m]
  <2>1. <<x>> \in Seq(Node) /\ Len(<<x>>) = 1 /\ <<x>>[1] = x
    BY <1>8
  <2>2. PICK y : y = <<x>>
    OBVIOUS
  <2>3. /\ c \in Seq(Node) /\ Len(c) = Len(a) + Len(y)
        /\ \A m \in 1..Len(a) : c[m] = a[m]
        /\ \A m \in 1..Len(y) : c[Len(a) + m] = y[m]
    BY <1>6, <1>9, <2>1, <2>2, ConcatNodes
  <2>4. (k - 1) + 1 = k /\ 1 \in 1..1
    BY <1>2
  <2> QED BY <1>9, <2>1, <2>2, <2>3, <2>4
<1>12. /\ d \in Seq(Node) /\ Len(d) = n + 1
       /\ \A m \in 1..k : d[m] = c[m]
       /\ \A m \in 1..(n + 1 - k) : d[k + m] = b[m]
  <2>1. /\ d \in Seq(Node) /\ Len(d) = Len(c) + Len(b)
        /\ \A m \in 1..Len(c) : d[m] = c[m]
        /\ \A m \in 1..Len(b) : d[Len(c) + m] = b[m]
    BY <1>7, <1>10, <1>11, ConcatNodes
  <2>2. k + (n + 1 - k) = n + 1
    BY <1>2
  <2> QED BY <1>10, <1>11, <2>1, <2>2
<1>13. DOMAIN d = 1..(n + 1)
  BY <1>12, LenProperties
<1>14. \A m \in 1..(n + 1) : d[m] = IF m < k THEN dom[m] ELSE IF m = k THEN x ELSE dom[m - 1]
  <2> TAKE m \in 1..(n + 1)
  <2>1. CASE m < k
    BY <1>2, <1>9, <1>11, <1>12, <2>1
  <2>2. CASE m = k
    BY <1>2, <1>11, <1>12, <2>2
  <2>3. CASE m > k
    <3>1. /\ m - k \in 1..(n + 1 - k) /\ k + (m - k) - 1 = m - 1
          /\ k + (m - k) = m /\ ~(m < k) /\ m # k
      BY <1>2, <2>3
    <3>2. d[k + (m - k)] = b[m - k] /\ b[m - k] = dom[k + (m - k) - 1]
      BY <1>10, <1>12, <3>1
    <3> QED BY <3>1, <3>2
  <2> QED BY <1>2, <2>1, <2>2, <2>3
<1>15. InsertAt(dom, k, Old(e)) = d
  BY <1>1, <1>3, <1>4, <1>5, <1>6, <1>7 DEF InsertAt
<1> QED BY <1>1, <1>5, <1>12, <1>13, <1>14, <1>15

LEMMA FrameTypes ==
    /\ Cardinality(Elements) \in Nat
    /\ Pass \in Frame /\ Script \in Frame /\ Event \in Frame
    /\ Pass.kind = "pass" /\ Script.kind # "pass" /\ Event.kind # "pass"
    /\ Pass.i = 1 /\ Pass.j = 0
    /\ \A f \in Frame : f.i \in 0..3 /\ f.j \in 0..Cardinality(Elements) /\ f.j \in Nat
<1>1. Cardinality(Elements) \in Nat
  BY LegacyAssumption, FS_CardinalityType
<1>2. 0..Len(ot) = 0..3
  BY Tags
<1> QED BY <1>1, <1>2 DEF Frame, Pass, Script, Event

LEMMA StackTypes ==
    ASSUME TypeInv
    PROVE  /\ stack \in Seq(Frame) /\ Len(stack) \in Nat /\ DOMAIN stack = 1..Len(stack)
           /\ \A k \in DOMAIN stack : stack[k] \in Frame
<1>1. stack \in Seq(Frame)
  BY DEF TypeInv, TypeOK, Frame
<1>2. Len(stack) \in Nat /\ DOMAIN stack = 1..Len(stack)
  BY <1>1, LenProperties
<1>3. \A k \in 1..Len(stack) : stack[k] \in Frame
  BY <1>1, ElementOfSeq
<1> QED BY <1>1, <1>2, <1>3

(* The passes of a stack that frames are put on.                           *)
LEMMA Concat ==
    ASSUME NEW s \in Seq(Frame), NEW f \in Seq(Frame)
    PROVE  /\ s \o f \in Seq(Frame)
           /\ Passes(s \o f) = Passes(s) \union {Len(s) + n : n \in Passes(f)}
           /\ \A k \in Passes(s) : (s \o f)[k] = s[k]
           /\ \A n \in Passes(f) : (s \o f)[Len(s) + n] = f[n]
<1>1. PICK t : t = s \o f
  OBVIOUS
<1>2. PICK m : m = Len(s)
  OBVIOUS
<1>3. PICK n : n = Len(f)
  OBVIOUS
<1>4. m \in Nat /\ n \in Nat /\ DOMAIN s = 1..m /\ DOMAIN f = 1..n
  BY <1>2, <1>3
<1>5. t \in Seq(Frame) /\ Len(t) = m + n /\ DOMAIN t = 1..(m + n)
  BY <1>1, <1>2, <1>3
<1>6. \A k \in 1..m : t[k] = s[k]
  BY <1>1, <1>2, <1>4
<1>7. \A k \in 1..n : t[m + k] = f[k]
  BY <1>1, <1>2, <1>3, <1>4
<1>8. ASSUME NEW k
      PROVE  k \in Passes(t) <=> k \in Passes(s) \union {m + l : l \in Passes(f)}
  <2>1. ASSUME k \in Passes(t) PROVE k \in Passes(s) \union {m + l : l \in Passes(f)}
    <3>1. k \in 1..(m + n) /\ t[k].kind = "pass"
      BY <1>5, <2>1 DEF Passes
    <3>2. CASE k \in 1..m
      BY <1>4, <1>6, <3>1, <3>2 DEF Passes
    <3>3. CASE k \notin 1..m
      <4>1. PICK l : l = k - m
        OBVIOUS
      <4>2. l \in 1..n /\ k = m + l
        BY <1>4, <3>1, <3>3, <4>1
      <4> QED BY <1>4, <1>7, <3>1, <4>2 DEF Passes
    <3> QED BY <3>2, <3>3
  <2>2. ASSUME k \in Passes(s) PROVE k \in Passes(t)
    <3>1. k \in 1..m /\ k \in 1..(m + n) /\ s[k].kind = "pass"
      BY <1>4, <2>2 DEF Passes
    <3> QED BY <1>5, <1>6, <3>1 DEF Passes
  <2>3. ASSUME NEW l \in Passes(f), k = m + l PROVE k \in Passes(t)
    <3>1. l \in 1..n /\ m + l \in 1..(m + n) /\ f[l].kind = "pass"
      BY <1>4 DEF Passes
    <3> QED BY <1>5, <1>7, <2>3, <3>1 DEF Passes
  <2> QED BY <2>1, <2>2, <2>3
<1>9. Passes(t) = Passes(s) \union {m + l : l \in Passes(f)}
  BY <1>8
<1>10. \A k \in Passes(s) : t[k] = s[k]
  BY <1>4, <1>6 DEF Passes
<1>11. \A l \in Passes(f) : t[m + l] = f[l]
  BY <1>4, <1>7 DEF Passes
<1> QED BY <1>1, <1>2, <1>5, <1>9, <1>10, <1>11

(* What is put on the stack has one pass, its first list's, or none.       *)
LEMMA Frames ==
    /\ \A e : Injected(e) \in Seq(Frame) /\ Passes(Injected(e)) = {}
    /\ Inserted \in Seq(Frame)
    /\ Passes(Inserted) = IF Inserted # <<>> THEN {1} ELSE {}
    /\ Inserted # <<>> => Inserted[1] = Pass
    /\ Inserted # <<>> <=> loaded /\ ~running
    /\ <<Pass>> \in Seq(Frame) /\ Passes(<<Pass>>) = {1} /\ <<Pass>>[1] = Pass
<1>1. PICK a : a = <<Pass>>
  OBVIOUS
<1>2. PICK b : b = <<Event, Script>>
  OBVIOUS
<1>3. PICK c : c = <<>>
  OBVIOUS
<1>4. a \in Seq(Frame) /\ DOMAIN a = 1..1 /\ a[1] = Pass /\ a # <<>>
  BY <1>1, FrameTypes
<1>5. b \in Seq(Frame) /\ DOMAIN b = 1..2 /\ b[1] = Event /\ b[2] = Script
  BY <1>2, FrameTypes
<1>6. c \in Seq(Frame) /\ DOMAIN c = {}
  BY <1>3
<1>7. Passes(a) = {1} /\ Passes(b) = {} /\ Passes(c) = {}
  <2>1. 1..1 = {1} /\ 1..2 = {1, 2}
    OBVIOUS
  <2> QED BY <1>4, <1>5, <1>6, <2>1, FrameTypes DEF Passes
<1>8. \A e : Injected(e) = b \/ Injected(e) = c
  BY <1>2, <1>3 DEF Injected
<1>9. Inserted = IF loaded /\ ~running THEN a ELSE c
  BY <1>1, <1>3 DEF Inserted
<1> QED BY <1>1, <1>3, <1>4, <1>5, <1>6, <1>7, <1>8, <1>9

(* What the thread returns to.                                             *)
LEMMA BelowTypes ==
    ASSUME TypeInv, stack # <<>>
    PROVE  /\ Len(stack) \in DOMAIN stack /\ Top \in Frame
           /\ Below \in Seq(Frame)
           /\ Passes(Below) = Passes(stack) \ {Len(stack)}
           /\ \A k \in Passes(Below) : Below[k] = stack[k]
           /\ Top.kind = "pass" <=> Len(stack) \in Passes(stack)
<1>1. PICK n : n = Len(stack)
  OBVIOUS
<1>2. PICK b : b = Below
  OBVIOUS
<1>3. /\ stack \in Seq(Frame) /\ n \in Nat /\ DOMAIN stack = 1..n
      /\ \A k \in DOMAIN stack : stack[k] \in Frame
  BY <1>1, StackTypes
<1>4. n # 0
  BY <1>1, <1>3, EmptySeq
<1>5. b \in Seq(Frame) /\ Len(b) = n - 1 /\ \A k \in 1..(n - 1) : b[k] = stack[k]
  BY <1>1, <1>2, <1>3, <1>4 DEF Below
<1>6. DOMAIN b = 1..(n - 1)
  BY <1>5, LenProperties
<1>7. 1..(n - 1) = (1..n) \ {n} /\ n \in 1..n
  BY <1>3, <1>4
<1>8. Passes(b) = Passes(stack) \ {n}
  BY <1>3, <1>5, <1>6, <1>7 DEF Passes
<1>9. \A k \in Passes(b) : b[k] = stack[k]
  BY <1>5, <1>6 DEF Passes
<1>10. Top = stack[n]
  BY <1>1 DEF Top
<1> QED BY <1>1, <1>2, <1>3, <1>5, <1>7, <1>8, <1>9, <1>10 DEF Passes

(* The innermost frame goes on.                                            *)
LEMMA NextTypes ==
    ASSUME TypeInv, stack # <<>>, NEW c \in Frame, c.kind = "pass", Top.kind = "pass"
    PROVE  /\ Append(Below, c) \in Seq(Frame)
           /\ Passes(Append(Below, c)) = Passes(stack)
           /\ Append(Below, c)[Len(stack)] = c
<1>1. PICK n : n = Len(stack)
  OBVIOUS
<1>2. PICK b : b = Below
  OBVIOUS
<1>3. PICK s : s = Append(b, c)
  OBVIOUS
<1>4. /\ n \in Nat /\ n # 0 /\ DOMAIN stack = 1..n /\ b \in Seq(Frame) /\ n \in Passes(stack)
      /\ Passes(b) = Passes(stack) \ {n}
  BY <1>1, <1>2, StackTypes, BelowTypes, EmptySeq
<1>5. Len(b) = n - 1
  BY <1>1, <1>2, <1>4, StackTypes DEF Below
<1>6. s \in Seq(Frame) /\ Len(s) = n /\ s[n] = c /\ \A k \in 1..(n - 1) : s[k] = b[k]
  BY <1>3, <1>4, <1>5, AppendProperties
<1>7. DOMAIN s = 1..n /\ DOMAIN b = 1..(n - 1) /\ 1..n = 1..(n - 1) \union {n}
      /\ n \notin 1..(n - 1)
  BY <1>4, <1>5, <1>6, LenProperties
<1>8. Passes(s) = Passes(b) \union {n}
  BY <1>6, <1>7 DEF Passes
<1>9. Passes(s) = Passes(stack)
  BY <1>4, <1>8
<1> QED BY <1>1, <1>2, <1>3, <1>6, <1>9

-----------------------------------------------------------------------------
(***************************************************************************)
(* Lists: where an element is in that of its tag.                          *)
(***************************************************************************)

LEMMA CountTo ==
    ASSUME NEW n \in Nat
    PROVE  IsFiniteSet(1..n) /\ Cardinality(1..n) = n
<1>1. 1 \in Int /\ n \in Int
  OBVIOUS
<1>2. IsFiniteSet(1..n) /\ Cardinality(1..n) = IF 1 > n THEN 0 ELSE n - 1 + 1
  BY <1>1, FS_Interval
<1>3. (IF 1 > n THEN 0 ELSE n - 1 + 1) = n
  OBVIOUS
<1> QED BY <1>2, <1>3

LEMMA RankTypes ==
    ASSUME TypeInv, NEW i
    PROVE  /\ IsFiniteSet(els(i)) /\ Cardinality(els(i)) \in Nat
           /\ Cardinality(els(i)) <= Len(dom)
           /\ \A k \in Nat : Rank(i, k) \in Nat /\ Rank(i, k) <= Cardinality(els(i))
           /\ \A k \in els(i) : Rank(i, k) > 0
<1>a. PICK n : n = Len(dom)
  OBVIOUS
<1>1. DOMAIN dom = 1..n /\ n \in Nat
  BY <1>a, PageTypes
<1>2. IsFiniteSet(1..n) /\ Cardinality(1..n) = n
  BY <1>1, CountTo
<1>3. els(i) \subseteq 1..n
  BY <1>1 DEF els
<1>4. /\ IsFiniteSet(els(i)) /\ Cardinality(els(i)) <= n /\ Cardinality(els(i)) \in Nat
  BY <1>2, <1>3, FS_Subset, FS_CardinalityType
<1>5. ASSUME NEW k \in Nat
      PROVE  /\ Rank(i, k) \in Nat /\ Rank(i, k) <= Cardinality(els(i))
             /\ k \in els(i) => Rank(i, k) > 0
  <2>1. PICK S : S = {l \in els(i) : l <= k}
    OBVIOUS
  <2>2. S \subseteq els(i)
    BY <2>1
  <2>3. IsFiniteSet(S) /\ Cardinality(S) <= Cardinality(els(i)) /\ Cardinality(S) \in Nat
    BY <1>4, <2>2, FS_Subset, FS_CardinalityType
  <2>4. k \in els(i) => S # {}
    BY <2>1
  <2>5. Cardinality(S) = 0 <=> S = {}
    BY <2>3, FS_EmptySet
  <2>6. Rank(i, k) = Cardinality(S)
    BY <2>1 DEF Rank
  <2> QED BY <2>3, <2>4, <2>5, <2>6
<1>6. \A k \in els(i) : k \in Nat
  BY <1>1, <1>3
<1> QED BY <1>a, <1>4, <1>5, <1>6

LEMMA RankOrder ==
    ASSUME TypeInv, NEW i, NEW k \in els(i), NEW l \in els(i), k < l
    PROVE  Rank(i, k) < Rank(i, l)
<1>1. /\ IsFiniteSet(els(i)) /\ els(i) \subseteq Nat
  BY RankTypes, PageTypes DEF els
<1>2. PICK S : S = {m \in els(i) : m <= k}
  OBVIOUS
<1>3. PICK T : T = {m \in els(i) : m <= l}
  OBVIOUS
<1>4. T \subseteq els(i) /\ l \in T /\ S \subseteq T \ {l}
  BY <1>1, <1>2, <1>3
<1>5. IsFiniteSet(T) /\ Cardinality(T) \in Nat
  BY <1>1, <1>4, FS_Subset, FS_CardinalityType
<1>6. IsFiniteSet(T \ {l}) /\ Cardinality(T \ {l}) = Cardinality(T) - 1
  BY <1>4, <1>5, FS_RemoveElement
<1>7. Cardinality(S) <= Cardinality(T) - 1 /\ Cardinality(S) \in Nat
  BY <1>4, <1>6, FS_Subset, FS_CardinalityType
<1>8. Rank(i, k) = Cardinality(S) /\ Rank(i, l) = Cardinality(T)
  BY <1>2, <1>3 DEF Rank
<1> QED BY <1>5, <1>7, <1>8

LEMMA RankDistinct ==
    ASSUME TypeInv, NEW i, NEW k \in els(i), NEW l \in els(i), k # l
    PROVE  Rank(i, k) # Rank(i, l)
<1>1. k \in Nat /\ l \in Nat
  BY PageTypes DEF els
<1>2. Rank(i, k) \in Nat /\ Rank(i, l) \in Nat
  BY <1>1, RankTypes
<1>3. CASE k < l
  BY <1>2, <1>3, RankOrder
<1>4. CASE l < k
  BY <1>2, <1>4, RankOrder
<1> QED BY <1>1, <1>3, <1>4

(* A page has no more elements than there are.                             *)
LEMMA PageSize ==
    ASSUME TypeInv, OneForOne
    PROVE  Len(dom) <= Cardinality(Elements)
<1>1. PICK n : n = Len(dom)
  OBVIOUS
<1>2. n \in Nat /\ DOMAIN dom = 1..n /\ \A k \in DOMAIN dom : dom[k] \in Node
  BY <1>1, PageTypes
<1>3. PICK f : f = [k \in 1..n |-> dom[k].el]
  OBVIOUS
<1>4. f \in [1..n -> Elements]
  BY <1>2, <1>3 DEF Node
<1>5. \A k, l \in 1..n : f[k] = f[l] => k = l
  BY <1>2, <1>3 DEF OneForOne
<1>6. f \in Injection(1..n, Elements)
  BY <1>4, <1>5 DEF Injection, IsInjective
<1>7. Cardinality(1..n) <= Cardinality(Elements)
  BY <1>6, LegacyAssumption, FS_Injection
<1>8. Cardinality(1..n) = n
  BY <1>2, CountTo
<1> QED BY <1>1, <1>7, <1>8

(* An element behind a removed one of its list goes one place ahead, and   *)
(* others do not.                                                          *)
LEMMA RankReplaced ==
    ASSUME TypeInv, NEW i, NEW k \in DOMAIN dom, shape' = shape, dom' = Replaced(k),
           NEW m \in DOMAIN dom', NEW l \in els(i), l # k,
           l = IF m < k THEN m ELSE m + 1
    PROVE  /\ Rank(i, m)' \in Nat /\ Rank(i, l) <= Rank(i, m)' + 1
           /\ k \notin els(i) \/ l < k => Rank(i, l) <= Rank(i, m)'
<1>1. PICK n : n = Len(dom)
  OBVIOUS
<1>2. /\ n \in Nat /\ DOMAIN dom = 1..n /\ k \in 1..n /\ l \in 1..n
  BY <1>1, PageTypes DEF els
<1>3. /\ DOMAIN dom' = 1..n
      /\ \A q \in 1..n : q < n =>
            dom'[q] = IF q < k THEN dom[q] ELSE dom[q + 1]
  BY <1>1, <1>2, ReplacedPage
<1>4. m \in 1..n
  BY <1>3
<1>5. PICK S : S = {q \in els(i) : q <= l}
  OBVIOUS
<1>6. PICK T : T = {q \in els(i)' : q <= m}
  OBVIOUS
<1>7. \A q \in els(i) : q \in 1..n /\ Tag(dom[q]) = ot[i]
  BY <1>2 DEF els
<1>8. PICK U : U = S \ {k}
  OBVIOUS
<1>9. PICK f : f = [q \in U |-> IF q < k THEN q ELSE q - 1]
  OBVIOUS
<1>10. \A q \in U : q \in 1..n /\ q # k /\ q <= l /\ q \in els(i) /\ Tag(dom[q]) = ot[i]
  BY <1>5, <1>7, <1>8
<1>11. ASSUME NEW q \in U PROVE f[q] \in T
  <2>1. /\ q \in 1..n /\ q # k /\ q <= l /\ q \in els(i) /\ Tag(dom[q]) = ot[i]
    BY <1>10
  <2>2. PICK p : p = f[q]
    OBVIOUS
  <2>3. p = IF q < k THEN q ELSE q - 1
    BY <1>9, <2>2
  <2>4. p \in 1..n /\ p <= m
    BY <1>2, <1>4, <2>1, <2>3
  <2>5. dom'[p] = dom[q]
    <3>1. CASE q < k
      BY <1>2, <1>3, <2>1, <2>3, <2>4, <3>1
    <3>2. CASE ~(q < k)
      <4>1. p < n /\ ~(p < k) /\ p + 1 = q
        BY <1>2, <2>1, <2>3, <3>2
      <4> QED BY <1>3, <2>4, <4>1
    <3> QED BY <3>1, <3>2
  <2>6. p \in els(i)'
    <3>1. PICK node : node = dom[q]
      OBVIOUS
    <3>2. Tag(node)' = Tag(node)
      BY DEF Tag
    <3>3. Tag(dom[p])' = Tag(node)'
      BY <2>5, <3>1
    <3> QED BY <1>3, <2>1, <2>4, <3>1, <3>2, <3>3 DEF els
  <2> QED BY <1>6, <2>2, <2>4, <2>6
<1>12. f \in [U -> T]
  BY <1>9, <1>11
<1>13. \A p, q \in U : f[p] = f[q] => p = q
  BY <1>2, <1>9, <1>10
<1>14. f \in Injection(U, T)
  BY <1>12, <1>13 DEF Injection, IsInjective
<1>15. T \subseteq 1..n
  BY <1>3, <1>6 DEF els
<1>16. IsFiniteSet(T) /\ Cardinality(T) \in Nat
  <2>1. IsFiniteSet(1..n)
    BY <1>2, CountTo
  <2>2. IsFiniteSet(T)
    BY <1>15, <2>1, FS_Subset
  <2> QED BY <2>2, FS_CardinalityType
<1>17. Cardinality(U) <= Cardinality(T)
  BY <1>14, <1>16, FS_Injection
<1>18. IsFiniteSet(S) /\ Cardinality(S) \in Nat
  <2>1. IsFiniteSet(els(i)) /\ S \subseteq els(i)
    BY <1>5, RankTypes
  <2>2. IsFiniteSet(S)
    BY <2>1, FS_Subset
  <2> QED BY <2>2, FS_CardinalityType
<1>19. Cardinality(S) <= Cardinality(U) + 1 /\ Cardinality(U) \in Nat
  <2>1. IsFiniteSet(U)
    BY <1>8, <1>18, FS_Subset
  <2>2. Cardinality(U) \in Nat
    BY <2>1, FS_CardinalityType
  <2>3. CASE k \in S
    <3>1. Cardinality(U) = Cardinality(S) - 1
      BY <1>8, <1>18, <2>3, FS_RemoveElement
    <3> QED BY <1>18, <2>2, <3>1
  <2>4. CASE k \notin S
    <3>1. U = S
      BY <1>8, <2>4
    <3> QED BY <2>2, <3>1
  <2> QED BY <2>3, <2>4
<1>20. Rank(i, l) = Cardinality(S) /\ Rank(i, m)' = Cardinality(T)
  BY <1>5, <1>6 DEF Rank
<1>21. k \notin els(i) \/ l < k => U = S
  <2>1. k \notin els(i) \/ l < k => k \notin S
    BY <1>2, <1>5
  <2> QED BY <1>8, <2>1
<1> QED BY <1>16, <1>17, <1>18, <1>19, <1>20, <1>21

(* How many of its list an element has before it.                          *)
LEMMA Preceding ==
    ASSUME TypeInv, NEW i, NEW k \in Nat
    PROVE  /\ IsFiniteSet(Precede(ot[i], k)) /\ Cardinality(Precede(ot[i], k)) \in Nat
           /\ k \in els(i) => Cardinality(Precede(ot[i], k)) < Rank(i, k)
<1>1. PICK S : S = Precede(ot[i], k)
  OBVIOUS
<1>2. PICK T : T = {l \in els(i) : l <= k}
  OBVIOUS
<1>3. \A l \in els(i) : l \in Nat
  BY PageTypes DEF els
<1>4. S \subseteq els(i) /\ \A l \in S : l < k
  BY <1>1 DEF Precede, els
<1>5. IsFiniteSet(els(i)) /\ T \subseteq els(i)
  BY <1>2, RankTypes
<1>6. IsFiniteSet(S)
  BY <1>4, <1>5, FS_Subset
<1>7. Cardinality(S) \in Nat
  BY <1>6, FS_CardinalityType
<1>8. ASSUME k \in els(i) PROVE Cardinality(S) < Rank(i, k)
  <2>1. IsFiniteSet(T)
    BY <1>5, FS_Subset
  <2>2. Cardinality(T) \in Nat
    BY <2>1, FS_CardinalityType
  <2>3. k \in T /\ S \subseteq T \ {k}
    BY <1>2, <1>3, <1>4, <1>8
  <2>4. IsFiniteSet(T \ {k}) /\ Cardinality(T \ {k}) = Cardinality(T) - 1
    BY <2>1, <2>3, FS_RemoveElement
  <2>5. Cardinality(S) <= Cardinality(T) - 1
    <3>1. Cardinality(S) <= Cardinality(T \ {k})
      BY <2>3, <2>4, FS_Subset
    <3> QED BY <2>4, <3>1
  <2>6. Rank(i, k) = Cardinality(T)
    BY <1>2 DEF Rank
  <2> QED BY <1>7, <2>2, <2>5, <2>6
<1> QED BY <1>1, <1>6, <1>7, <1>8

(* An insertion takes no element ahead in its list, and the new one comes  *)
(* behind those of its list that are before it in the page.                *)
LEMMA RankInserted ==
    ASSUME TypeInv, NEW i, NEW k \in 1..(Len(dom) + 1), NEW e \in Elements,
           shape' = shape, dom' = InsertAt(dom, k, Old(e)), NEW l \in els(i), NEW m,
           m = IF l < k THEN l ELSE l + 1
    PROVE  Rank(i, m)' \in Nat /\ Rank(i, l) <= Rank(i, m)'
<1>1. PICK n : n = Len(dom)
  OBVIOUS
<1>2. /\ n \in Nat /\ DOMAIN dom = 1..n /\ k \in 1..(n + 1) /\ l \in 1..n
  BY <1>1, PageTypes DEF els
<1>3. /\ DOMAIN dom' = 1..(n + 1)
      /\ \A q \in 1..(n + 1) : q # k =>
            dom'[q] = IF q < k THEN dom[q] ELSE dom[q - 1]
  <2>1. PICK d : d = InsertAt(dom, k, Old(e))
    OBVIOUS
  <2>2. LET c == InsertAt(dom, k, Old(e)) IN
        /\ c \in Seq(Node) /\ DOMAIN c = 1..(Len(dom) + 1)
        /\ \A q \in 1..(Len(dom) + 1) :
             c[q] = IF q < k THEN dom[q] ELSE IF q = k THEN Old(e) ELSE dom[q - 1]
    BY InsertedPage
  <2>3. /\ DOMAIN d = 1..(n + 1)
        /\ \A q \in 1..(n + 1) :
             d[q] = IF q < k THEN dom[q] ELSE IF q = k THEN Old(e) ELSE dom[q - 1]
    BY <1>1, <2>1, <2>2, Zenon
  <2> QED BY <2>1, <2>3
<1>4. m \in 1..(n + 1)
  BY <1>2
<1>5. PICK S : S = {q \in els(i) : q <= l}
  OBVIOUS
<1>6. PICK T : T = {q \in els(i)' : q <= m}
  OBVIOUS
<1>7. \A q \in S : q \in 1..n /\ q <= l /\ Tag(dom[q]) = ot[i]
  BY <1>2, <1>5 DEF els
<1>8. PICK f : f = [q \in S |-> IF q < k THEN q ELSE q + 1]
  OBVIOUS
<1>9. ASSUME NEW q \in S PROVE f[q] \in T
  <2>1. q \in 1..n /\ q <= l /\ Tag(dom[q]) = ot[i]
    BY <1>7
  <2>2. PICK p : p = f[q]
    OBVIOUS
  <2>3. p = IF q < k THEN q ELSE q + 1
    BY <1>8, <2>2
  <2>4. p \in 1..(n + 1) /\ p <= m /\ p # k
    BY <1>2, <2>1, <2>3
  <2>5. dom'[p] = dom[q]
    <3>1. CASE q < k
      BY <1>2, <1>3, <2>1, <2>3, <2>4, <3>1
    <3>2. CASE ~(q < k)
      <4>1. ~(p < k) /\ p - 1 = q
        BY <1>2, <2>1, <2>3, <3>2
      <4> QED BY <1>3, <2>4, <4>1
    <3> QED BY <3>1, <3>2
  <2>6. p \in els(i)'
    <3>1. PICK node : node = dom[q]
      OBVIOUS
    <3>2. Tag(node)' = Tag(node)
      BY DEF Tag
    <3>3. Tag(dom[p])' = Tag(node)'
      BY <2>5, <3>1
    <3> QED BY <1>3, <2>1, <2>4, <3>1, <3>2, <3>3 DEF els
  <2> QED BY <1>6, <2>2, <2>4, <2>6
<1>10. f \in [S -> T]
  BY <1>8, <1>9
<1>11. \A p, q \in S : f[p] = f[q] => p = q
  BY <1>2, <1>7, <1>8
<1>12. f \in Injection(S, T)
  BY <1>10, <1>11 DEF Injection, IsInjective
<1>13. T \subseteq 1..(n + 1)
  BY <1>3, <1>6 DEF els
<1>14. IsFiniteSet(T) /\ Cardinality(T) \in Nat
  <2>1. IsFiniteSet(1..(n + 1))
    <3>1. n + 1 \in Nat
      BY <1>2
    <3> QED BY <3>1, CountTo
  <2>2. IsFiniteSet(T)
    BY <1>13, <2>1, FS_Subset
  <2> QED BY <2>2, FS_CardinalityType
<1>15. Cardinality(S) <= Cardinality(T)
  BY <1>12, <1>14, FS_Injection
<1>16. Rank(i, l) = Cardinality(S) /\ Rank(i, m)' = Cardinality(T)
  BY <1>5, <1>6 DEF Rank
<1> QED BY <1>14, <1>15, <1>16

LEMMA RankOfNew ==
    ASSUME TypeInv, NEW i, NEW k \in 1..(Len(dom) + 1), NEW e \in Elements,
           shape' = shape, dom' = InsertAt(dom, k, Old(e)), shape[e].tag = ot[i]
    PROVE  Rank(i, k)' \in Nat /\ Cardinality(Precede(ot[i], k)) < Rank(i, k)'
<1>1. PICK n : n = Len(dom)
  OBVIOUS
<1>2. n \in Nat /\ DOMAIN dom = 1..n /\ k \in 1..(n + 1)
  BY <1>1, PageTypes
<1>3. /\ DOMAIN dom' = 1..(n + 1) /\ dom'[k] = Old(e)
      /\ \A q \in 1..(n + 1) : q < k => dom'[q] = dom[q]
  <2>1. PICK d : d = InsertAt(dom, k, Old(e))
    OBVIOUS
  <2>2. LET c == InsertAt(dom, k, Old(e)) IN
        /\ c \in Seq(Node) /\ DOMAIN c = 1..(Len(dom) + 1)
        /\ \A q \in 1..(Len(dom) + 1) :
             c[q] = IF q < k THEN dom[q] ELSE IF q = k THEN Old(e) ELSE dom[q - 1]
    BY InsertedPage
  <2>3. /\ DOMAIN d = 1..(n + 1)
        /\ \A q \in 1..(n + 1) :
             d[q] = IF q < k THEN dom[q] ELSE IF q = k THEN Old(e) ELSE dom[q - 1]
    BY <1>1, <2>1, <2>2, Zenon
  <2>4. d[k] = Old(e)
    BY <1>2, <2>3
  <2>5. \A q \in 1..(n + 1) : q < k => d[q] = dom[q]
    BY <2>3
  <2> QED BY <2>1, <2>3, <2>4, <2>5, Zenon
<1>4. PICK S : S = Precede(ot[i], k)
  OBVIOUS
<1>5. PICK T : T = {q \in els(i)' : q <= k}
  OBVIOUS
<1>6. IsFiniteSet(S) /\ Cardinality(S) \in Nat
  <2>1. k \in Nat
    BY <1>2
  <2> QED BY <1>4, <2>1, Preceding
<1>7. k \in T
  <2>1. PICK node : node = Old(e)
    OBVIOUS
  <2>2. Tag(node)' = shape[e].tag
    BY <2>1 DEF Tag, Old
  <2>3. Tag(dom[k])' = Tag(node)'
    BY <1>3, <2>1
  <2> QED BY <1>2, <1>3, <1>5, <2>2, <2>3 DEF els
<1>8. ASSUME NEW q \in S PROVE q \in T \ {k}
  <2>1. q \in 1..n /\ q < k /\ Tag(dom[q]) = ot[i]
    BY <1>2, <1>4 DEF Precede
  <2>2. q \in 1..(n + 1) /\ q <= k /\ q # k
    BY <1>2, <2>1
  <2>3. dom'[q] = dom[q]
    BY <1>3, <2>1, <2>2
  <2>4. PICK node : node = dom[q]
    OBVIOUS
  <2>5. Tag(node)' = Tag(node)
    BY DEF Tag
  <2>6. Tag(dom[q])' = Tag(node)'
    BY <2>3, <2>4
  <2> QED BY <1>3, <1>5, <2>1, <2>2, <2>4, <2>5, <2>6 DEF els
<1>9. T \subseteq 1..(n + 1)
  BY <1>3, <1>5 DEF els
<1>10. IsFiniteSet(T) /\ Cardinality(T) \in Nat
  <2>1. IsFiniteSet(1..(n + 1))
    <3>1. n + 1 \in Nat
      BY <1>2
    <3> QED BY <3>1, CountTo
  <2>2. IsFiniteSet(T)
    BY <1>9, <2>1, FS_Subset
  <2> QED BY <2>2, FS_CardinalityType
<1>11. IsFiniteSet(T \ {k}) /\ Cardinality(T \ {k}) = Cardinality(T) - 1
  BY <1>7, <1>10, FS_RemoveElement
<1>12. Cardinality(S) <= Cardinality(T \ {k})
  <2>1. S \subseteq T \ {k}
    BY <1>8
  <2> QED BY <1>11, <2>1, FS_Subset
<1>13. Rank(i, k)' = Cardinality(T)
  BY <1>5 DEF Rank
<1> QED BY <1>4, <1>6, <1>10, <1>11, <1>12, <1>13

LEMMA Unchanged ==
    ASSUME UNCHANGED <<browser, shape>>, NEW node
    PROVE  Legacy(node)' = Legacy(node) /\ Tag(node)' = Tag(node)
<1>1. esteidFindJavaCodeAttr(shape[node.el])' = esteidFindJavaCodeAttr(shape[node.el])
  BY DEF esteidFindJavaCodeAttr
<1>2. esteidInspectObject(shape[node.el])' = esteidInspectObject(shape[node.el])
  BY <1>1 DEF esteidInspectObject
<1> QED BY <1>2 DEF Legacy, Tag

(* An element's number in a list is that of no other.                      *)
LEMMA Items ==
    ASSUME TypeInv, NEW i, NEW j \in Nat, NEW k \in Item(i, j)
    PROVE  /\ k \in DOMAIN dom /\ Tag(dom[k]) = ot[i] /\ Rank(i, k) = j + 1
           /\ j + 1 <= Cardinality(els(i)) /\ j + 1 <= Len(dom)
           /\ \A l \in DOMAIN dom : l # k /\ Tag(dom[l]) = ot[i] => Rank(i, l) # j + 1
<1>1. k \in els(i) /\ Rank(i, k) = j + 1
  BY DEF Item
<1>2. k \in DOMAIN dom /\ Tag(dom[k]) = ot[i]
  BY <1>1 DEF els
<1>3. k \in Nat
  BY <1>2, PageTypes
<1>4. j + 1 <= Cardinality(els(i)) /\ j + 1 <= Len(dom)
  <2>1. PICK c : c = Cardinality(els(i))
    OBVIOUS
  <2>2. PICK n : n = Len(dom)
    OBVIOUS
  <2>3. n \in Nat
    BY <2>2, PageTypes
  <2>4. c \in Nat /\ c <= n /\ Rank(i, k) <= c
    BY <1>3, <2>1, <2>2, RankTypes
  <2> QED BY <1>1, <2>1, <2>2, <2>3, <2>4
<1>5. ASSUME NEW l \in DOMAIN dom, l # k, Tag(dom[l]) = ot[i] PROVE Rank(i, l) # j + 1
  <2>1. l \in els(i)
    BY <1>5 DEF els
  <2> QED BY <1>1, <1>5, <2>1, RankDistinct
<1> QED BY <1>1, <1>2, <1>4, <1>5

(* A pass that begins has the whole page before it.                        *)
AllAhead == \A m \in DOMAIN dom : Ahead(Pass, m)

LEMMA FreshPass == TypeInv => AllAhead
<1> SUFFICES ASSUME TypeInv, NEW m \in DOMAIN dom
             PROVE  Ahead(Pass, m)
  BY DEF AllAhead
<1>1. PICK node : node = dom[m]
  OBVIOUS
<1>2. PICK t \in 1..3 : Tag(node) = ot[t]
  BY <1>1, PageTypes, NodeTags
<1>3. m \in els(t)
  BY <1>1, <1>2 DEF els
<1>4. 0 < Rank(t, m)
  <2>1. m \in Nat
    BY PageTypes
  <2>2. Rank(t, m) \in Nat /\ Rank(t, m) > 0
    BY <1>3, <2>1, RankTypes
  <2> QED BY <2>2
<1>5. PICK f : f = Pass
  OBVIOUS
<1>6. f.i = 1 /\ f.j = 0
  BY <1>5, FrameTypes
<1>7. Ahead(f, m)
  BY <1>1, <1>2, <1>4, <1>6 DEF Ahead
<1> QED BY <1>5, <1>7

-----------------------------------------------------------------------------
(***************************************************************************)
(* What steps do to the stack and to the page.                             *)
(***************************************************************************)

(* Frames are put on the stack, a pass among them only if none runs.       *)
LEMMA PushStep ==
    ASSUME TypeInv, FlagMeansPass, NEW f \in Seq(Frame), Push(f),
           \/ Passes(f) = {}
           \/ ~running /\ \E n : Passes(f) = {n} /\ f[n] = Pass
    PROVE  /\ stack' \in Seq(Frame) /\ running' \in BOOLEAN /\ Lists(stack)' /\ FlagMeansPass'
           /\ \A k \in Passes(stack') :
                stack'[k] = Pass \/ (running /\ k \in Passes(stack) /\ stack'[k] = stack[k])
           /\ running' <=> (running \/ Passes(f) # {})
<1>1. PICK s : s = stack'
  OBVIOUS
<1>2. PICK len : len = Len(stack)
  OBVIOUS
<1>3. stack \in Seq(Frame) /\ len \in Nat /\ DOMAIN stack = 1..len
  BY <1>2, StackTypes
<1>4. /\ s \in Seq(Frame)
      /\ Passes(s) = Passes(stack) \union {len + n : n \in Passes(f)}
      /\ \A k \in Passes(stack) : s[k] = stack[k]
      /\ \A n \in Passes(f) : s[len + n] = f[n]
  <2>1. /\ stack \o f \in Seq(Frame)
        /\ Passes(stack \o f) = Passes(stack) \union {Len(stack) + n : n \in Passes(f)}
        /\ \A k \in Passes(stack) : (stack \o f)[k] = stack[k]
        /\ \A n \in Passes(f) : (stack \o f)[Len(stack) + n] = f[n]
    BY <1>3, Concat
  <2>2. s = stack \o f
    BY <1>1 DEF Push
  <2> QED BY <1>2, <2>1, <2>2
<1>5. running' <=> (running \/ Passes(f) # {})
  BY DEF Push, Passes
<1>6. running' \in BOOLEAN
  BY DEF Push, TypeInv, TypeOK
<1>7. /\ \A k, l \in Passes(stack) : k = l
      /\ running <=> Passes(stack) # {}
  BY Flag
<1>8. \/ Passes(f) = {} /\ Passes(s) = Passes(stack)
      \/ Passes(stack) = {} /\ \E n : Passes(f) = {n} /\ f[n] = Pass /\ Passes(s) = {len + n}
  <2>1. CASE Passes(f) = {}
    BY <1>4, <2>1
  <2>2. CASE ~running /\ \E n : Passes(f) = {n} /\ f[n] = Pass
    BY <1>4, <1>7, <2>2
  <2> QED BY <2>1, <2>2
<1>9. \A k \in Passes(s) :
        s[k] = Pass \/ (running /\ k \in Passes(stack) /\ s[k] = stack[k])
  BY <1>4, <1>7, <1>8
<1>10. Lists(s)
  <2> SUFFICES ASSUME NEW k \in Passes(s) PROVE s[k].i \in 1..3
    BY DEF Lists
  <2>1. CASE s[k] = Pass
    BY <2>1, FrameTypes
  <2>2. CASE k \in Passes(stack) /\ s[k] = stack[k]
    BY <2>2 DEF TypeInv, Lists
  <2> QED BY <1>9, <2>1, <2>2
<1>11. /\ \A k, l \in Passes(s) : k = l
       /\ running' <=> Passes(s) # {}
  BY <1>5, <1>7, <1>8
<1>12. /\ \A k, l \in Passes(stack)' : k = l
       /\ running' <=> Passes(stack)' # {}
  BY <1>1, <1>11 DEF Passes
<1>13. FlagMeansPass'
  BY <1>12 DEF FlagMeansPass, Passes
<1>14. Lists(stack)'
  BY <1>1, <1>10 DEF Lists, Passes
<1> QED BY <1>1, <1>4, <1>5, <1>6, <1>9, <1>13, <1>14

(* No element gets in twice.                                               *)
LEMMA ReplacedOnce ==
    ASSUME TypeInv, OneForOne, NEW k \in DOMAIN dom, dom' = Replaced(k)
    PROVE  dom' \in Seq(Node) /\ OneForOne'
<1>1. PICK n : n = Len(dom)
  OBVIOUS
<1>2. n \in Nat /\ DOMAIN dom = 1..n /\ k \in 1..n
  BY <1>1, PageTypes
<1>3. /\ dom' \in Seq(Node) /\ DOMAIN dom' = 1..n
      /\ \A m \in 1..n :
           dom'[m] = IF m < k THEN dom[m] ELSE IF m < n THEN dom[m + 1] ELSE New(dom[k].el)
  BY <1>1, ReplacedPage
<1> DEFINE From(a, m) ==
        \/ a = m /\ m < k
        \/ a = m + 1 /\ k <= m
        \/ a = k /\ m = n
<1>5. ASSUME NEW m \in 1..n PROVE \E a \in 1..n : dom'[m].el = dom[a].el /\ From(a, m)
  <2>1. CASE m < k
    <3>1. dom'[m] = dom[m]
      BY <1>3, <2>1
    <3> QED BY <2>1, <3>1
  <2>2. CASE k <= m /\ m < n
    <3>1. m + 1 \in 1..n /\ dom'[m] = dom[m + 1]
      BY <1>2, <1>3, <2>2
    <3> QED BY <2>2, <3>1
  <2>3. CASE m = n
    <3>1. dom'[m] = New(dom[k].el)
      BY <1>2, <1>3, <2>3
    <3> QED BY <1>2, <2>3, <3>1 DEF New
  <2> QED BY <1>2, <2>1, <2>2, <2>3
<1>6. ASSUME NEW l \in 1..n, NEW m \in 1..n, l # m, NEW a \in 1..n, From(a, l), From(a, m)
      PROVE  FALSE
  BY <1>2, <1>6
<1>7. \A l, m \in 1..n : l # m => dom'[l].el # dom'[m].el
  <2> SUFFICES ASSUME NEW l \in 1..n, NEW m \in 1..n, l # m, dom'[l].el = dom'[m].el
               PROVE  FALSE
    OBVIOUS
  <2>1. PICK a \in 1..n : dom'[l].el = dom[a].el /\ From(a, l)
    BY <1>5
  <2>2. PICK b \in 1..n : dom'[m].el = dom[b].el /\ From(b, m)
    BY <1>5
  <2>3. a = b
    BY <1>2, <2>1, <2>2 DEF OneForOne
  <2> QED BY <1>6, <2>1, <2>2, <2>3
<1> QED BY <1>3, <1>7 DEF OneForOne

LEMMA InsertedOnce ==
    ASSUME TypeInv, OneForOne, NEW k \in 1..(Len(dom) + 1), NEW e \in Elements,
           \A m \in DOMAIN dom : dom[m].el # e, dom' = InsertAt(dom, k, Old(e))
    PROVE  dom' \in Seq(Node) /\ OneForOne'
<1>1. PICK n : n = Len(dom)
  OBVIOUS
<1>2. n \in Nat /\ DOMAIN dom = 1..n /\ k \in 1..(n + 1)
  BY <1>1, PageTypes
<1>3. PICK d : d = InsertAt(dom, k, Old(e))
  OBVIOUS
<1>4. LET c == InsertAt(dom, k, Old(e)) IN
      /\ c \in Seq(Node) /\ DOMAIN c = 1..(Len(dom) + 1)
      /\ \A m \in 1..(Len(dom) + 1) :
           c[m] = IF m < k THEN dom[m] ELSE IF m = k THEN Old(e) ELSE dom[m - 1]
  BY InsertedPage
<1>5. /\ d \in Seq(Node) /\ DOMAIN d = 1..(n + 1)
      /\ \A m \in 1..(n + 1) :
           d[m] = IF m < k THEN dom[m] ELSE IF m = k THEN Old(e) ELSE dom[m - 1]
  BY <1>1, <1>3, <1>4, Zenon
<1>6. PICK g : g = [m \in 1..(n + 1) |-> IF m < k THEN m ELSE m - 1]
  OBVIOUS
<1>7. ASSUME NEW m \in 1..(n + 1), m # k PROVE g[m] \in 1..n /\ d[m].el = dom[g[m]].el
  <2>1. g[m] = IF m < k THEN m ELSE m - 1
    BY <1>6
  <2>2. g[m] \in 1..n
    BY <1>2, <1>7, <2>1
  <2>3. d[m].el = dom[g[m]].el
    BY <1>5, <1>7, <2>1
  <2> QED BY <2>2, <2>3
<1>8. \A l, m \in 1..(n + 1) : l # m /\ l # k /\ m # k => g[l] # g[m]
  BY <1>2, <1>6
<1>9. d[k].el = e
  <2>1. d[k] = Old(e)
    BY <1>2, <1>5
  <2> QED BY <2>1 DEF Old
<1>10. \A l, m \in 1..(n + 1) : l # m => d[l].el # d[m].el
  BY <1>2, <1>7, <1>8, <1>9 DEF OneForOne
<1>11. \A l, m \in DOMAIN d : l # m => d[l].el # d[m].el
  BY <1>5, <1>10
<1> QED BY <1>3, <1>5, <1>11 DEF OneForOne

-----------------------------------------------------------------------------
(***************************************************************************)
(* The invariant, one action at a time.                                    *)
(***************************************************************************)

(* The types of a step that leaves the page's make alone.                  *)
LEMMA StepTypes ==
    ASSUME TypeInv, UNCHANGED <<browser, shape>>, dom' \in Seq(Node), loaded' \in BOOLEAN,
           running' \in BOOLEAN, stack' \in Seq(Frame), missed' \subseteq Elements,
           started' \subseteq Elements, Lists(stack)'
    PROVE  TypeInv'
<1> QED BY DEF TypeInv, TypeOK, Node, Frame

LEMMA Running == RunningPasses = {stack[k] : k \in Passes(stack)}
<1> QED BY DEF RunningPasses, Passes, ToSet

(* What is left is still before the passes of a set.                       *)
Before(G) == \A m \in DOMAIN dom : Left(m) => \A g \in G : Ahead(g, m)

(* After a step of the page's: a pass has just begun, or one goes on that  *)
(* still has before it what is left, or DOMContentLoaded has not come.     *)
LEMMA PageStep ==
    ASSUME TypeInv', (running' <=> Passes(stack') # {}), NEW G, Before(G)',
           \A k \in Passes(stack') : stack'[k] = Pass \/ stack'[k] \in G,
           running' \/ ~loaded'
    PROVE  Swept'
<1>1. AllAhead'
  BY FreshPass, PTL
<1>2. ASSUME NEW k \in Passes(stack'), NEW m \in DOMAIN dom', Left(m)'
      PROVE  Ahead(stack[k], m)'
  <2>1. PICK f : f = stack'[k]
    OBVIOUS
  <2>2. CASE f = Pass
    <3>1. PICK g : g = Pass
      OBVIOUS
    <3>2. Ahead(g, m)' /\ f = g
      BY <1>1, <2>2, <3>1 DEF AllAhead
    <3> QED BY <2>1, <3>2 DEF Ahead
  <2>3. CASE f \in G
    <3>1. Ahead(f, m)'
      BY <1>2, <2>3 DEF Before
    <3> QED BY <2>1, <3>1 DEF Ahead
  <2> QED BY <2>1, <2>2, <2>3
<1> QED BY <1>2 DEF Swept, Passes

LEMMA LoadStep ==
    ASSUME Inv, Load
    PROVE  Inv'
<1>1. TypeInv /\ FlagMeansPass /\ OneForOne
  BY DEF Inv
<1>2. PICK f : f = <<Pass>>
  OBVIOUS
<1>3. f \in Seq(Frame) /\ Passes(f) = {1} /\ f[1] = Pass
  <2>1. f \in Seq(Frame) /\ DOMAIN f = 1..1 /\ f[1] = Pass /\ 1..1 = {1}
    BY <1>2, FrameTypes
  <2> QED BY <2>1, FrameTypes DEF Passes
<1>4. Push(f) /\ stack = <<>> /\ loaded' = TRUE /\ missed' = {}
     /\ UNCHANGED <<browser, shape, dom, started>>
  BY <1>2 DEF Load
<1>5. Passes(stack) = {} /\ ~running
  <2>1. Passes(stack) = {}
    BY <1>4 DEF Passes
  <2> QED BY <1>1, <2>1, Flag
<1>6. /\ stack' \in Seq(Frame) /\ running' \in BOOLEAN /\ Lists(stack)' /\ FlagMeansPass'
      /\ \A k \in Passes(stack') :
           stack'[k] = Pass \/ (running /\ k \in Passes(stack) /\ stack'[k] = stack[k])
      /\ running' <=> (running \/ Passes(f) # {})
  BY <1>1, <1>3, <1>4, <1>5, PushStep
<1>7. TypeInv'
  <2>1. dom' \in Seq(Node) /\ started' \subseteq Elements
    BY <1>1, <1>4, PageTypes DEF TypeInv, TypeOK
  <2> QED BY <1>1, <1>4, <1>6, <2>1, StepTypes
<1>8. running' <=> Passes(stack') # {}
  BY <1>6 DEF FlagMeansPass, Passes
<1>9. running' /\ \A k \in Passes(stack') : stack'[k] = Pass
  BY <1>3, <1>5, <1>6
<1>10. Swept'
  <2>1. Before({})'
    BY DEF Before
  <2> QED BY <1>7, <1>8, <1>9, <2>1, PageStep
<1>11. OneForOne'
  BY <1>1, <1>4 DEF OneForOne
<1> QED BY <1>6, <1>7, <1>10, <1>11 DEF Inv

(* An insertion by the page, or an object that replaces another's and the  *)
(* script that goes with it.                                               *)
LEMMA PageChanges ==
    ASSUME Inv, NEW e \in Elements, NEW f \in Seq(Frame), Push(f),
           Passes(f) = {} <=> Inserted = <<>>,
           \A n \in Passes(f) : Passes(f) = {n} /\ f[n] = Pass,
           UNCHANGED <<browser, shape, loaded, started>>, dom' \in Seq(Node), OneForOne',
           missed' \subseteq Elements, NEW G, G = RunningPasses, running => Before(G)'
    PROVE  Inv'
<1>1. TypeInv /\ FlagMeansPass
  BY DEF Inv
<1>2. Inserted # <<>> <=> loaded /\ ~running
  BY Frames
<1>3. \/ Passes(f) = {}
      \/ ~running /\ \E n : Passes(f) = {n} /\ f[n] = Pass
  <2>1. CASE Passes(f) = {}
    BY <2>1
  <2>2. CASE Passes(f) # {}
    <3>1. PICK n : n \in Passes(f)
      BY <2>2
    <3>2. Passes(f) = {n} /\ f[n] = Pass
      BY <3>1
    <3> QED BY <1>2, <2>2, <3>2
  <2> QED BY <2>1, <2>2
<1>4. /\ stack' \in Seq(Frame) /\ running' \in BOOLEAN /\ Lists(stack)' /\ FlagMeansPass'
      /\ \A k \in Passes(stack') :
           stack'[k] = Pass \/ (running /\ k \in Passes(stack) /\ stack'[k] = stack[k])
      /\ running' <=> (running \/ Passes(f) # {})
  BY <1>1, <1>3, PushStep
<1>5. TypeInv'
  <2>1. started' \subseteq Elements /\ loaded' \in BOOLEAN
    BY <1>1 DEF TypeInv, TypeOK
  <2> QED BY <1>1, <1>4, <2>1, StepTypes
<1>6. running' <=> Passes(stack') # {}
  BY <1>4 DEF FlagMeansPass, Passes
<1>7. running' \/ ~loaded'
  BY <1>2, <1>4
<1>8. Swept'
  <2>1. CASE running
    <3>1. \A k \in Passes(stack') : stack'[k] = Pass \/ stack'[k] \in G
      BY <1>4, Running
    <3> QED BY <1>5, <1>6, <1>7, <2>1, <3>1, PageStep
  <2>2. CASE ~running
    <3>1. Before({})'
      BY DEF Before
    <3> QED BY <1>4, <1>5, <1>6, <1>7, <2>2, <3>1, PageStep
  <2> QED BY <2>1, <2>2
<1> QED BY <1>4, <1>5, <1>8 DEF Inv

(* The lists stay the same while the page does.                            *)
LEMMA SamePage ==
    ASSUME UNCHANGED <<browser, shape, dom, missed>>
    PROVE  /\ \A m : Left(m)' <=> Left(m)
           /\ \A f, m : Ahead(f, m)' <=> Ahead(f, m)
<1>1. ASSUME NEW m PROVE Left(m)' <=> Left(m)
  <2>1. PICK node : node = dom[m]
    OBVIOUS
  <2>2. Legacy(node)' <=> Legacy(node)
    BY Unchanged
  <2> QED BY <2>1, <2>2 DEF Left
<1>2. ASSUME NEW m PROVE Tag(dom[m])' = Tag(dom[m])
  <2>1. PICK node : node = dom[m]
    OBVIOUS
  <2>2. Tag(node)' = Tag(node)
    BY Unchanged
  <2> QED BY <2>1, <2>2
<1>3. ASSUME NEW i, NEW m PROVE Rank(i, m)' = Rank(i, m)
  BY <1>2 DEF Rank, els
<1>4. ASSUME NEW f, NEW m PROVE Ahead(f, m)' <=> Ahead(f, m)
  BY <1>2, <1>3 DEF Ahead
<1> QED BY <1>1, <1>4

(* What the page inserts is before a pass that has not passed its place,   *)
(* and takes nothing out of the lists of the others.                       *)
LEMMA InsertLeaves ==
    ASSUME Inv, NEW k \in 1..(Len(dom) + 1), NEW e \in Elements, UNCHANGED <<browser, shape>>,
           dom' = InsertAt(dom, k, Old(e)), missed' = missed \union MissedByInsertion(e, k),
           NEW g \in RunningPasses, NEW m \in DOMAIN dom', Left(m)'
    PROVE  Ahead(g, m)'
<1>1. TypeInv /\ Swept
  BY DEF Inv
<1>2. PICK n : n = Len(dom)
  OBVIOUS
<1>3. n \in Nat /\ DOMAIN dom = 1..n /\ k \in 1..(n + 1) /\ \A q \in DOMAIN dom : dom[q] \in Node
  BY <1>1, <1>2, PageTypes
<1>4. PICK d : d = InsertAt(dom, k, Old(e))
  OBVIOUS
<1>5. /\ DOMAIN d = 1..(n + 1)
      /\ \A q \in 1..(n + 1) :
           d[q] = IF q < k THEN dom[q] ELSE IF q = k THEN Old(e) ELSE dom[q - 1]
  <2>1. LET c == InsertAt(dom, k, Old(e)) IN
        /\ c \in Seq(Node) /\ DOMAIN c = 1..(Len(dom) + 1)
        /\ \A q \in 1..(Len(dom) + 1) :
             c[q] = IF q < k THEN dom[q] ELSE IF q = k THEN Old(e) ELSE dom[q - 1]
    BY <1>1, InsertedPage
  <2> QED BY <1>2, <1>4, <2>1, Zenon
<1>6. PICK z \in Passes(stack) : g = stack[z]
  BY Running
<1>7. PICK i : i = g.i
  OBVIOUS
<1>8. PICK j : j = g.j
  OBVIOUS
<1>9. g.i = i /\ g.j = j /\ i \in 1..3 /\ j \in Nat
  <2>1. g \in Frame
    BY <1>1, <1>6, StackTypes DEF Passes
  <2>2. g.i \in 1..3
    BY <1>1, <1>6 DEF TypeInv, Lists
  <2> QED BY <1>7, <1>8, <2>1, <2>2, FrameTypes
<1>10. PICK node : node = dom'[m]
  OBVIOUS
<1>11. Legacy(node) /\ node.el \notin missed' /\ Tag(node)' = Tag(node) /\ Tag(dom[m])' = Tag(node)'
  <2>1. Legacy(node)' /\ node.el \notin missed'
    BY <1>10 DEF Left
  <2> QED BY <1>10, <2>1, Unchanged
<1>12. m \in 1..(n + 1) /\ node = d[m]
  BY <1>4, <1>5, <1>10
<1>13. CASE m = k
  <2>1. node = Old(e)
    BY <1>5, <1>12, <1>13
  <2>2. node \in Node /\ Tag(node) = shape[e].tag /\ node.el = e
    BY <2>1 DEF Old, Node, Tag
  <2>3. PICK t \in 1..3 : Tag(node) = ot[t]
    BY <1>1, <2>2, NodeTags
  <2>4. ~HasPassed(g, ot[t], k)
    <3>1. e \notin MissedByInsertion(e, k)
      BY <1>11, <2>2
    <3> QED BY <2>2, <2>3, <3>1 DEF MissedByInsertion
  <2>5. /\ \A q \in 1..(i - 1) : ot[q] # ot[t]
        /\ ot[i] = ot[t] => ~(Cardinality(Precede(ot[t], k)) < j)
    BY <1>9, <2>4 DEF HasPassed
  <2>6. t \in i..3
    <3>1. t \notin 1..(i - 1)
      BY <2>5
    <3> QED BY <1>9, <2>3, <3>1
  <2>7. PICK p : p = Cardinality(Precede(ot[t], k))
    OBVIOUS
  <2>8. PICK r : r = Rank(t, k)'
    OBVIOUS
  <2>9. p \in Nat /\ r \in Nat /\ p < r
    <3>1. k \in Nat
      BY <1>3
    <3>2. p \in Nat
      BY <1>1, <2>7, <3>1, Preceding
    <3>3. r \in Nat /\ p < r
      BY <1>1, <2>2, <2>3, <2>7, <2>8, RankOfNew
    <3> QED BY <3>2, <3>3
  <2>10. t = i => j < r
    BY <1>9, <2>5, <2>7, <2>9
  <2>11. Tag(dom[m])' = ot[t] /\ Rank(t, m)' = r
    BY <1>11, <1>13, <2>3, <2>8
  <2> QED BY <1>9, <2>6, <2>10, <2>11 DEF Ahead
<1>14. CASE m # k
  <2>1. PICK l : l = IF m < k THEN m ELSE m - 1
    OBVIOUS
  <2>2. l \in 1..n /\ m = IF l < k THEN l ELSE l + 1
    BY <1>3, <1>12, <1>14, <2>1
  <2>3. node = dom[l]
    BY <1>5, <1>12, <1>14, <2>1
  <2>4. Left(l)
    BY <1>11, <2>3 DEF Left
  <2>5. Ahead(g, l)
    BY <1>1, <1>3, <1>6, <2>2, <2>4 DEF Swept
  <2>6. PICK t \in i..3 : Tag(dom[l]) = ot[t] /\ (t = i => j < Rank(t, l))
    BY <1>9, <2>5 DEF Ahead
  <2>7. l \in els(t) /\ l \in Nat
    BY <1>3, <2>2, <2>6 DEF els
  <2>8. PICK r : r = Rank(t, m)'
    OBVIOUS
  <2>9. PICK q : q = Rank(t, l)
    OBVIOUS
  <2>10. q \in Nat /\ r \in Nat /\ q <= r
    <3>1. q \in Nat
      BY <1>1, <2>7, <2>9, RankTypes
    <3>2. r \in Nat /\ q <= r
      BY <1>1, <2>2, <2>7, <2>8, <2>9, RankInserted
    <3> QED BY <3>1, <3>2
  <2>11. t = i => j < r
    BY <1>9, <2>6, <2>9, <2>10
  <2>12. Tag(dom[m])' = ot[t]
    BY <1>11, <2>3, <2>6
  <2> QED BY <1>9, <2>6, <2>8, <2>11, <2>12 DEF Ahead
<1> QED BY <1>13, <1>14

LEMMA InsertStep ==
    ASSUME Inv, NEW e \in Elements, Insert(e)
    PROVE  Inv'
<1>1. TypeInv /\ FlagMeansPass /\ OneForOne
  BY DEF Inv
<1>2. PICK f : f = Inserted
  OBVIOUS
<1>3. /\ f \in Seq(Frame) /\ (Passes(f) = {} <=> f = <<>>)
      /\ \A n \in Passes(f) : Passes(f) = {n} /\ f[n] = Pass
  BY <1>2, Frames
<1>4. Push(f) /\ UNCHANGED <<browser, shape, loaded, started>>
  BY <1>2 DEF Insert
<1>5. PICK k \in (IF loaded THEN 1 ELSE Len(dom) + 1)..(Len(dom) + 1) :
        /\ dom' = InsertAt(dom, k, Old(e))
        /\ missed' = IF Inserted # <<>> THEN {} ELSE missed \union MissedByInsertion(e, k)
  BY DEF Insert
<1>6. k \in 1..(Len(dom) + 1)
  <2>1. PICK n : n = Len(dom)
    OBVIOUS
  <2>2. n \in Nat
    BY <1>1, <2>1, PageTypes
  <2>3. k \in (IF loaded THEN 1 ELSE n + 1)..(n + 1)
    BY <1>5, <2>1
  <2>4. k \in 1..(n + 1)
    BY <2>2, <2>3
  <2> QED BY <2>1, <2>4
<1>7. dom' \in Seq(Node) /\ OneForOne'
  <2>1. \A m \in DOMAIN dom : dom[m].el # e
    BY DEF Insert
  <2> QED BY <1>1, <1>5, <1>6, <2>1, InsertedOnce
<1>8. missed' \subseteq Elements
  BY <1>1, <1>5 DEF MissedByInsertion, TypeInv, TypeOK
<1>9. PICK G : G = RunningPasses
  OBVIOUS
<1>10. running => Before(G)'
  <2> SUFFICES ASSUME running, NEW m \in DOMAIN dom', Left(m)', NEW g \in G
               PROVE  Ahead(g, m)'
    BY DEF Before
  <2>1. missed' = missed \union MissedByInsertion(e, k)
    BY <1>5, Frames
  <2> QED BY <1>4, <1>5, <1>6, <1>9, <2>1, InsertLeaves
<1> QED BY <1>2, <1>3, <1>4, <1>7, <1>8, <1>9, <1>10, PageChanges

(* An element that Safari converts below a pass makes the pass step over   *)
(* the one that takes its place, if the pass has passed it.                *)
LEMMA BlockLeaves ==
    ASSUME Inv, NEW k \in DOMAIN dom, UNCHANGED <<browser, shape>>,
           dom' = Replaced(k), missed' = missed \union MissedByRemoval(k),
           NEW g \in RunningPasses, NEW m \in DOMAIN dom', Left(m)'
    PROVE  Ahead(g, m)'
<1>1. TypeInv /\ Swept
  BY DEF Inv
<1>2. PICK n : n = Len(dom)
  OBVIOUS
<1>3. /\ n \in Nat /\ DOMAIN dom = 1..n /\ k \in 1..n /\ DOMAIN dom' = 1..n /\ m \in 1..n
      /\ dom'[m] = IF m < k THEN dom[m] ELSE IF m < n THEN dom[m + 1] ELSE New(dom[k].el)
  BY <1>1, <1>2, PageTypes, ReplacedPage
<1>4. PICK z \in Passes(stack) : g = stack[z]
  BY Running
<1>5. PICK i : i = g.i
  OBVIOUS
<1>6. PICK j : j = g.j
  OBVIOUS
<1>7. g.i = i /\ g.j = j /\ i \in 1..3 /\ j \in Nat
  <2>1. g \in Frame
    BY <1>1, <1>4, StackTypes DEF Passes
  <2>2. g.i \in 1..3
    BY <1>1, <1>4 DEF TypeInv, Lists
  <2> QED BY <1>5, <1>6, <2>1, <2>2, FrameTypes
<1>8. PICK node : node = dom'[m]
  OBVIOUS
<1>9. Legacy(node) /\ node.el \notin missed' /\ Tag(node)' = Tag(node) /\ Tag(dom[m])' = Tag(node)'
  <2>1. Legacy(node)' /\ node.el \notin missed'
    BY <1>8 DEF Left
  <2> QED BY <1>8, <2>1, Unchanged
<1>10. m < k \/ m < n
  <2>1. ~New(dom[k].el).converted => FALSE
    BY DEF New
  <2> QED BY <1>3, <1>8, <1>9, <2>1 DEF Legacy
<1>11. PICK l : l = IF m < k THEN m ELSE m + 1
  OBVIOUS
<1>12. l \in DOMAIN dom /\ l # k /\ node = dom[l]
  <2>1. CASE m < k
    BY <1>3, <1>8, <1>11, <2>1
  <2>2. CASE ~(m < k)
    BY <1>3, <1>8, <1>10, <1>11, <2>2
  <2> QED BY <2>1, <2>2
<1>13. Left(l)
  BY <1>9, <1>12 DEF Left
<1>14. Ahead(g, l)
  BY <1>1, <1>4, <1>12, <1>13 DEF Swept
<1>15. PICK t \in i..3 : Tag(dom[l]) = ot[t] /\ (t = i => j < Rank(t, l))
  BY <1>7, <1>14 DEF Ahead
<1>16. l \in els(t) /\ l \in Nat /\ k \in Nat
  BY <1>3, <1>12, <1>15 DEF els
<1>17. PICK q : q = Rank(t, l)
  OBVIOUS
<1>18. PICK r : r = Rank(t, m)'
  OBVIOUS
<1>19. /\ q \in Nat /\ r \in Nat /\ q <= r + 1
       /\ k \notin els(t) \/ l < k => q <= r
  <2>1. q \in Nat
    BY <1>1, <1>16, <1>17, RankTypes
  <2>2. /\ r \in Nat /\ q <= r + 1
        /\ k \notin els(t) \/ l < k => q <= r
    BY <1>1, <1>11, <1>12, <1>16, <1>17, <1>18, RankReplaced
  <2> QED BY <2>1, <2>2
<1>20. ASSUME t = i, k \in els(t), ~(l < k) PROVE (j + 1) < q
  <2>1. Tag(dom[k]) = ot[i]
    BY <1>20 DEF els
  <2>2. PICK p : p = Cardinality(Precede(ot[i], k))
    OBVIOUS
  <2>3. PICK s : s = Rank(i, k)
    OBVIOUS
  <2>4. p \in Nat /\ s \in Nat /\ p < s /\ s < q
    <3>1. p \in Nat /\ p < s
      BY <1>1, <1>16, <1>20, <2>2, <2>3, Preceding
    <3>2. s \in Nat
      BY <1>1, <1>16, <2>3, RankTypes
    <3>3. k < l
      BY <1>12, <1>16, <1>20
    <3>4. s < q
      BY <1>1, <1>16, <1>17, <1>20, <2>3, <3>3, RankOrder
    <3> QED BY <3>1, <3>2, <3>4
  <2>5. CASE p < j
    <3>1. HasPassed(g, Tag(dom[k]), k)
      BY <1>7, <2>1, <2>2, <2>5 DEF HasPassed
    <3>2. q # j + 1
      <4>1. ASSUME q = j + 1 PROVE FALSE
        <5>1. l \in Item(g.i, g.j)
          BY <1>7, <1>16, <1>17, <1>20, <4>1 DEF Item
        <5>2. dom[l].el \in MissedByRemoval(k)
          BY <1>7, <2>1, <3>1, <5>1 DEF MissedByRemoval
        <5> QED BY <1>9, <1>12, <5>2
      <4> QED BY <4>1
    <3>3. j < q
      BY <1>15, <1>17, <1>20
    <3> QED BY <1>7, <1>19, <3>2, <3>3
  <2>6. CASE ~(p < j)
    BY <1>7, <1>19, <2>4, <2>6
  <2> QED BY <2>5, <2>6
<1>21. t = i => j < r
  <2>1. ASSUME t = i PROVE j < r
    <3>1. j < q
      BY <1>15, <1>17, <2>1
    <3>2. CASE k \notin els(t) \/ l < k
      BY <1>7, <1>19, <3>1, <3>2
    <3>3. CASE k \in els(t) /\ ~(l < k)
      <4>1. (j + 1) < q
        BY <1>20, <2>1, <3>3
      <4> QED BY <1>7, <1>19, <4>1
    <3> QED BY <3>2, <3>3
  <2> QED BY <2>1
<1>22. Tag(dom[m])' = ot[t]
  BY <1>9, <1>12, <1>15
<1> QED BY <1>7, <1>15, <1>18, <1>21, <1>22 DEF Ahead

LEMMA BlockStep ==
    ASSUME Inv, NEW e \in Elements, blockResource(e)
    PROVE  Inv'
<1>1. TypeInv /\ FlagMeansPass /\ OneForOne
  BY DEF Inv
<1>2. PICK g : g = Injected(e)
  OBVIOUS
<1>3. PICK h : h = Inserted
  OBVIOUS
<1>4. PICK f : f = g \o h
  OBVIOUS
<1>5. /\ g \in Seq(Frame) /\ Passes(g) = {} /\ h \in Seq(Frame)
      /\ Passes(h) = IF h # <<>> THEN {1} ELSE {}
      /\ h # <<>> => h[1] = Pass
  BY <1>2, <1>3, Frames
<1>6. /\ f \in Seq(Frame)
      /\ Passes(f) = Passes(g) \union {Len(g) + n : n \in Passes(h)}
      /\ \A n \in Passes(h) : f[Len(g) + n] = h[n]
  BY <1>4, <1>5, Concat
<1>7. /\ Passes(f) = {} <=> h = <<>>
      /\ \A n \in Passes(f) : Passes(f) = {n} /\ f[n] = Pass
  <2>1. CASE h = <<>>
    BY <1>5, <1>6, <2>1
  <2>2. CASE h # <<>>
    <3>1. Passes(f) = {Len(g) + 1} /\ f[Len(g) + 1] = Pass
      BY <1>5, <1>6, <2>2
    <3> QED BY <2>2, <3>1
  <2> QED BY <2>1, <2>2
<1>8. Push(f) /\ UNCHANGED <<browser, shape, loaded, started>>
  BY <1>2, <1>3, <1>4 DEF blockResource
<1>9. PICK k \in DOMAIN dom :
        /\ dom' = Replaced(k)
        /\ missed' = IF Inserted # <<>> THEN {} ELSE missed \union MissedByRemoval(k)
  BY DEF blockResource
<1>10. dom' \in Seq(Node) /\ OneForOne'
  BY <1>1, <1>9, ReplacedOnce
<1>11. missed' \subseteq Elements
  <2>1. \A l \in DOMAIN dom : dom[l].el \in Elements
    BY <1>1, PageTypes DEF Node
  <2>2. MissedByRemoval(k) \subseteq Elements
    BY <2>1 DEF MissedByRemoval, Item, els
  <2> QED BY <1>1, <1>9, <2>2 DEF TypeInv, TypeOK
<1>12. PICK G : G = RunningPasses
  OBVIOUS
<1>13. running => Before(G)'
  <2> SUFFICES ASSUME running, NEW m \in DOMAIN dom', Left(m)', NEW q \in G
               PROVE  Ahead(q, m)'
    BY DEF Before
  <2>1. missed' = missed \union MissedByRemoval(k)
    BY <1>9, Frames
  <2> QED BY <1>8, <1>9, <1>12, <2>1, BlockLeaves
<1> QED BY <1>3, <1>6, <1>7, <1>8, <1>10, <1>11, <1>12, <1>13, PageChanges

(* The thread returns to what it had interrupted.                          *)
LEMMA ReturnStep ==
    ASSUME Inv, UNCHANGED <<browser, shape, dom, loaded, running, missed>>,
           started' \subseteq Elements, stack' \in Seq(Frame), Passes(stack') = Passes(stack),
           \A k \in Passes(stack) : stack'[k] = stack[k]
    PROVE  Inv'
<1>1. TypeInv /\ FlagMeansPass /\ OneForOne /\ Swept
  BY DEF Inv
<1>2. \A k \in Passes(stack') : stack'[k].i \in 1..3
  BY <1>1 DEF TypeInv, Lists
<1>3. TypeInv'
  <2>1. Lists(stack)'
    BY <1>2 DEF Lists, Passes
  <2>2. dom' \in Seq(Node) /\ loaded' \in BOOLEAN /\ running' \in BOOLEAN
        /\ missed' \subseteq Elements
    BY <1>1, PageTypes DEF TypeInv, TypeOK
  <2> QED BY <1>1, <2>1, <2>2, StepTypes
<1>4. FlagMeansPass'
  BY <1>1 DEF FlagMeansPass, Passes
<1>5. OneForOne'
  BY <1>1 DEF OneForOne
<1>6. ASSUME NEW k \in Passes(stack'), NEW m \in DOMAIN dom, Left(m)
      PROVE  \E f : f = stack'[k] /\ Ahead(f, m)'
  <2>1. PICK f : f = stack[k]
    OBVIOUS
  <2>2. Ahead(f, m)
    BY <1>1, <1>6, <2>1 DEF Swept
  <2>3. Ahead(f, m)'
    BY <2>2, SamePage
  <2> QED BY <1>6, <2>1, <2>3
<1>7. ASSUME NEW k \in Passes(stack'), NEW m \in DOMAIN dom', Left(m)'
      PROVE  Ahead(stack[k], m)'
  <2>1. Left(m)
    BY <1>7, SamePage
  <2>2. PICK f : f = stack'[k] /\ Ahead(f, m)'
    BY <1>6, <2>1
  <2> QED BY <2>2 DEF Ahead
<1>8. loaded' /\ ~running' => \A m \in DOMAIN dom' : ~Left(m)'
  BY <1>1, SamePage DEF Swept
<1>9. Swept'
  BY <1>7, <1>8 DEF Swept, Passes
<1> QED BY <1>3, <1>4, <1>5, <1>9 DEF Inv

LEMMA ScriptStep ==
    ASSUME Inv, ScriptEnds
    PROVE  Inv'
<1>1. stack # <<>> /\ Top.kind = "script"
  BY DEF ScriptEnds, In
<1>2. TypeInv
  BY DEF Inv
<1>3. /\ Below \in Seq(Frame) /\ Passes(Below) = Passes(stack) \ {Len(stack)}
      /\ \A k \in Passes(Below) : Below[k] = stack[k]
      /\ Len(stack) \notin Passes(stack)
  BY <1>1, <1>2, BelowTypes
<1>4. stack' = Below /\ UNCHANGED <<browser, shape, dom, loaded, running, missed>>
      /\ started' \subseteq Elements
  BY <1>2 DEF ScriptEnds, TypeInv, TypeOK
<1>5. /\ stack' \in Seq(Frame) /\ Passes(stack') = Passes(stack)
      /\ \A k \in Passes(stack) : stack'[k] = stack[k]
  BY <1>3, <1>4
<1> QED BY <1>4, <1>5, ReturnStep

LEMMA EventStep ==
    ASSUME Inv, DOMNodeInserted
    PROVE  Inv'
<1>1. stack # <<>> /\ Top.kind = "event"
  BY DEF DOMNodeInserted, In
<1>2. TypeInv /\ FlagMeansPass /\ OneForOne
  BY DEF Inv
<1>3. PICK b : b = Below
  OBVIOUS
<1>4. PICK h : h = Inserted
  OBVIOUS
<1>5. /\ b \in Seq(Frame) /\ Passes(b) = Passes(stack)
      /\ \A k \in Passes(b) : b[k] = stack[k]
  BY <1>1, <1>2, <1>3, BelowTypes
<1>6. /\ stack' = b \o h /\ running' = (running \/ h # <<>>)
      /\ missed' = (IF h # <<>> THEN {} ELSE missed)
      /\ UNCHANGED <<browser, shape, dom, loaded>> /\ started' \subseteq Elements
  BY <1>2, <1>3, <1>4 DEF DOMNodeInserted, TypeInv, TypeOK
<1>7. /\ h \in Seq(Frame) /\ Passes(h) = (IF h # <<>> THEN {1} ELSE {})
      /\ h # <<>> => h[1] = Pass
      /\ h # <<>> <=> loaded /\ ~running
  BY <1>4, Frames
<1>8. PICK s : s = stack'
  OBVIOUS
<1>9. PICK n : n = Len(b)
  OBVIOUS
<1>10. /\ b \o h \in Seq(Frame)
       /\ Passes(b \o h) = Passes(b) \union {Len(b) + k : k \in Passes(h)}
       /\ \A k \in Passes(b) : (b \o h)[k] = b[k]
       /\ \A k \in Passes(h) : (b \o h)[Len(b) + k] = h[k]
  BY <1>5, <1>7, Concat
<1>11. /\ s \in Seq(Frame) /\ Passes(s) = Passes(b) \union {n + k : k \in Passes(h)}
       /\ \A k \in Passes(b) : s[k] = b[k]
       /\ \A k \in Passes(h) : s[n + k] = h[k]
  BY <1>6, <1>8, <1>9, <1>10
<1>12. CASE h = <<>>
  <2>1. Passes(s) = Passes(stack) /\ \A k \in Passes(stack) : s[k] = stack[k]
    BY <1>5, <1>7, <1>11, <1>12
  <2>2. running' = running
    <3>1. PICK r \in BOOLEAN : r = running
      BY <1>2 DEF TypeInv, TypeOK
    <3>2. running' = (r \/ FALSE)
      BY <1>6, <1>12, <3>1
    <3>3. (r \/ FALSE) = r
      OBVIOUS
    <3> QED BY <3>1, <3>2, <3>3, Zenon
  <2> QED BY <1>6, <1>8, <1>11, <1>12, <2>1, <2>2, ReturnStep
<1>13. CASE h # <<>>
  <2>1. loaded /\ ~running
    BY <1>7, <1>13
  <2>2. Passes(stack) = {}
    BY <1>2, <2>1, Flag
  <2>3. Passes(s) = {n + 1} /\ s[n + 1] = Pass
    BY <1>5, <1>7, <1>11, <1>13, <2>2
  <2>4. running' = TRUE
    BY <1>6, <1>13
  <2>5. /\ \A k, l \in Passes(s) : k = l
        /\ \A k \in Passes(s) : s[k] = Pass
    BY <2>3
  <2>6. FlagMeansPass'
    BY <1>8, <2>3, <2>4, <2>5 DEF FlagMeansPass, Passes
  <2>7. TypeInv'
    <3>1. Lists(s)
      BY <2>5, FrameTypes DEF Lists
    <3>2. Lists(stack)'
      BY <1>8, <3>1 DEF Lists, Passes
    <3>3. dom' \in Seq(Node) /\ loaded' \in BOOLEAN /\ missed' \subseteq Elements
      BY <1>2, <1>6, <1>13, PageTypes DEF TypeInv, TypeOK
    <3> QED BY <1>2, <1>6, <1>8, <1>11, <2>4, <3>2, <3>3, StepTypes
  <2>8. OneForOne'
    BY <1>2, <1>6 DEF OneForOne
  <2>9. Swept'
    <3>1. running' <=> Passes(stack') # {}
      BY <1>8, <2>3, <2>4
    <3>2. running' /\ \A k \in Passes(stack') : stack'[k] = Pass
      BY <1>8, <2>4, <2>5
    <3>3. Before({})'
      BY DEF Before
    <3> QED BY <2>7, <3>1, <3>2, <3>3, PageStep
  <2> QED BY <2>6, <2>7, <2>8, <2>9 DEF Inv
<1> QED BY <1>12, <1>13

(* The frame that goes on is the only pass's.                              *)
LEMMA OnePass ==
    ASSUME TypeInv, FlagMeansPass, In("pass")
    PROVE  /\ stack # <<>> /\ Top = stack[Len(stack)] /\ Top.kind = "pass" /\ Top \in Frame
           /\ Passes(stack) = {Len(stack)} /\ running
           /\ Top.i \in 1..3 /\ Top.j \in Nat
<1>1. stack # <<>> /\ Top.kind = "pass"
  BY DEF In
<1>2. Top \in Frame /\ Len(stack) \in Passes(stack)
  BY <1>1, BelowTypes
<1>3. Passes(stack) = {Len(stack)} /\ running
  BY <1>2, Flag
<1>4. Top = stack[Len(stack)]
  BY DEF Top
<1>5. Top.i \in 1..3
  BY <1>2, <1>4 DEF TypeInv, Lists
<1> QED BY <1>1, <1>2, <1>3, <1>4, <1>5, FrameTypes

(* A pass goes on to where it has before it all that is left.              *)
LEMMA PassGoesOn ==
    ASSUME TypeInv, FlagMeansPass, In("pass"),
           UNCHANGED <<browser, shape, loaded, running, started>>,
           dom' \in Seq(Node), OneForOne', missed' \subseteq Elements,
           NEW c \in Frame, c.kind = "pass", c.i \in 1..3,
           stack' \in Seq(Frame), Passes(stack') = Passes(stack), stack'[Len(stack)] = c,
           \A m \in DOMAIN dom' : Left(m)' => Ahead(c, m)'
    PROVE  Inv'
<1>1. PICK s : s = stack'
  OBVIOUS
<1>2. PICK n : n = Len(stack)
  OBVIOUS
<1>3. Passes(s) = {n} /\ s[n] = c /\ running
  BY <1>1, <1>2, OnePass
<1>4. Lists(stack)'
  <2>1. Lists(s)
    BY <1>3 DEF Lists
  <2> QED BY <1>1, <2>1 DEF Lists, Passes
<1>5. TypeInv'
  <2>1. loaded' \in BOOLEAN /\ running' \in BOOLEAN /\ started' \subseteq Elements
    BY DEF TypeInv, TypeOK
  <2> QED BY <1>4, <2>1, StepTypes
<1>6. FlagMeansPass'
  BY <1>1, <1>3 DEF FlagMeansPass, Passes
<1>7. ASSUME NEW k \in Passes(stack'), NEW m \in DOMAIN dom', Left(m)'
      PROVE  Ahead(stack[k], m)'
  <2>1. stack'[k] = c
    BY <1>1, <1>3
  <2>2. Ahead(c, m)'
    BY <1>7
  <2> QED BY <2>1, <2>2 DEF Ahead
<1>8. Swept'
  BY <1>3, <1>7 DEF Swept, Passes
<1> QED BY <1>5, <1>6, <1>8 DEF Inv

LEMMA TagStep ==
    ASSUME Inv, NextTag
    PROVE  Inv'
<1>1. TypeInv /\ FlagMeansPass /\ OneForOne /\ Swept /\ In("pass")
  BY DEF Inv, NextTag
<1>2. PICK c : c = Top
  OBVIOUS
<1>3. PICK n : n = Len(stack)
  OBVIOUS
<1>4. PICK i : i = c.i
  OBVIOUS
<1>5. PICK j : j = c.j
  OBVIOUS
<1>6. /\ stack # <<>> /\ c = stack[n] /\ c.kind = "pass" /\ c \in Frame
      /\ Passes(stack) = {n} /\ running /\ i \in 1..3 /\ j \in Nat
  BY <1>1, <1>2, <1>3, <1>4, <1>5, OnePass
<1>7. ASSUME NEW m \in DOMAIN dom, Left(m)
      PROVE  \E t \in (i + 1)..3 : Tag(dom[m]) = ot[t] /\ 0 < Rank(t, m)
  <2>1. Ahead(c, m)
    BY <1>1, <1>6, <1>7 DEF Swept
  <2>2. PICK t \in i..3 : Tag(dom[m]) = ot[t] /\ (t = i => j < Rank(t, m))
    BY <1>4, <1>5, <2>1 DEF Ahead
  <2>3. m \in els(t) /\ m \in Nat
    BY <1>1, <2>2, PageTypes DEF els
  <2>4. PICK r : r = Rank(t, m)
    OBVIOUS
  <2>5. PICK len : len = Cardinality(els(t))
    OBVIOUS
  <2>6. r \in Nat /\ len \in Nat /\ r <= len /\ 0 < r
    BY <1>1, <2>3, <2>4, <2>5, RankTypes
  <2>7. t # i
    <3>1. ASSUME t = i PROVE FALSE
      <4>1. j >= len
        BY <1>2, <1>4, <1>5, <2>5, <3>1 DEF NextTag
      <4> QED BY <1>6, <2>2, <2>4, <2>6, <3>1, <4>1
    <3> QED BY <3>1
  <2>8. t \in (i + 1)..3
    BY <1>6, <2>2, <2>7
  <2> QED BY <2>2, <2>4, <2>6, <2>8
<1>8. UNCHANGED <<browser, shape, dom, loaded, started, missed>>
  BY DEF NextTag
<1>9. dom' \in Seq(Node) /\ OneForOne' /\ missed' \subseteq Elements
  BY <1>1, <1>8, PageTypes DEF OneForOne, TypeInv, TypeOK
<1>10. CASE i < 3
  <2>1. PICK d : d = [Top EXCEPT !.i = @ + 1, !.j = 0]
    OBVIOUS
  <2>2. d.kind = "pass" /\ d.i = i + 1 /\ d.j = 0 /\ d \in Frame /\ d.i \in 1..3
    <3>1. 0 \in 0..Cardinality(Elements) /\ 0..Len(ot) = 0..3
      BY FrameTypes, Tags
    <3>2. i + 1 \in 0..3 /\ i + 1 \in 1..3
      BY <1>6, <1>10
    <3>3. d.kind = "pass" /\ d.i = i + 1 /\ d.j = 0
      BY <1>2, <1>4, <1>6, <2>1 DEF Frame
    <3>4. d \in Frame
      BY <1>2, <1>4, <1>6, <2>1, <3>1, <3>2 DEF Frame
    <3> QED BY <3>2, <3>3, <3>4
  <2>3. stack' = Append(Below, d) /\ running' = running
    BY <1>2, <1>4, <1>10, <2>1, Tags DEF NextTag
  <2>4. /\ stack' \in Seq(Frame) /\ Passes(stack') = Passes(stack)
        /\ stack'[Len(stack)] = d
    BY <1>1, <1>2, <1>6, <2>2, <2>3, NextTypes
  <2>5. ASSUME NEW m \in DOMAIN dom', Left(m)' PROVE Ahead(d, m)'
    <3>1. m \in DOMAIN dom /\ Left(m)
      BY <1>8, <2>5, SamePage
    <3>2. Ahead(d, m)
      BY <1>7, <2>2, <3>1 DEF Ahead
    <3> QED BY <1>8, <3>2, SamePage
  <2> QED BY <1>1, <1>8, <1>9, <2>2, <2>3, <2>4, <2>5, PassGoesOn
<1>11. CASE i = 3
  <2>1. stack' = Below /\ running' = FALSE
    BY <1>2, <1>4, <1>11, Tags DEF NextTag
  <2>2. stack' \in Seq(Frame) /\ Passes(stack') = {}
    BY <1>1, <1>3, <1>6, <2>1, BelowTypes
  <2>3. \A m \in DOMAIN dom : ~Left(m)
    BY <1>7, <1>11
  <2>4. TypeInv'
    <3>1. Lists(stack)'
      BY <2>2 DEF Lists, Passes
    <3>2. loaded' \in BOOLEAN /\ started' \subseteq Elements
      BY <1>1, <1>8 DEF TypeInv, TypeOK
    <3> QED BY <1>1, <1>8, <1>9, <2>1, <2>2, <3>1, <3>2, StepTypes
  <2>5. FlagMeansPass'
    BY <2>1, <2>2 DEF FlagMeansPass, Passes
  <2>6. Swept'
    <3>1. \A m \in DOMAIN dom' : ~Left(m)'
      BY <1>8, <2>3, SamePage
    <3> QED BY <3>1 DEF Swept
  <2> QED BY <1>9, <2>4, <2>5, <2>6 DEF Inv
<1> QED BY <1>6, <1>10, <1>11

(* Nothing is passed over: what takes the place of an element that is     *)
(* converted is one ahead, unless it is the next of its list, which is     *)
(* the one that is missed.                                                 *)
LEMMA ConvertStep ==
    ASSUME Inv, ConvertNext
    PROVE  Inv'
<1>1. TypeInv /\ FlagMeansPass /\ OneForOne /\ Swept /\ In("pass")
  BY DEF Inv, ConvertNext
<1>2. PICK c : c = Top
  OBVIOUS
<1>3. PICK n : n = Len(stack)
  OBVIOUS
<1>4. PICK i : i = c.i
  OBVIOUS
<1>5. PICK j : j = c.j
  OBVIOUS
<1>6. /\ stack # <<>> /\ c = stack[n] /\ c.kind = "pass" /\ c \in Frame
      /\ Passes(stack) = {n} /\ running /\ i \in 1..3 /\ j \in Nat
  BY <1>1, <1>2, <1>3, <1>4, <1>5, OnePass
<1>7. PICK d : d = [Top EXCEPT !.j = @ + 1]
  OBVIOUS
<1>8. PICK next : next = Append(Below, d)
  OBVIOUS
<1>9. PICK k \in Item(i, j) :
        IF Legacy(dom[k])
        THEN /\ dom' = Replaced(k)
             /\ stack' = next \o Injected(dom[k].el)
             /\ missed' = missed \union {dom[l].el : l \in Item(i, j + 1)}
        ELSE /\ stack' = next
             /\ UNCHANGED <<dom, missed>>
  BY <1>2, <1>4, <1>5, <1>7, <1>8 DEF ConvertNext
<1>10. UNCHANGED <<browser, shape, loaded, running, started>>
  BY DEF ConvertNext
<1>11. /\ k \in DOMAIN dom /\ Tag(dom[k]) = ot[i] /\ j + 1 <= Len(dom)
       /\ \A l \in DOMAIN dom : l # k /\ Tag(dom[l]) = ot[i] => Rank(i, l) # j + 1
  BY <1>1, <1>6, Items
<1>12. d.kind = "pass" /\ d.i = i /\ d.j = j + 1 /\ d \in Frame
  <2>1. PICK len : len = Len(dom)
    OBVIOUS
  <2>2. PICK all : all = Cardinality(Elements)
    OBVIOUS
  <2>3. len \in Nat /\ all \in Nat /\ len <= all /\ j + 1 <= len
    BY <1>1, <1>11, <2>1, <2>2, PageTypes, PageSize, FrameTypes
  <2>4. j + 1 \in 0..Cardinality(Elements)
    BY <1>6, <2>2, <2>3
  <2> QED BY <1>2, <1>4, <1>5, <1>6, <1>7, <2>4 DEF Frame
<1>13. /\ next \in Seq(Frame) /\ Passes(next) = Passes(stack) /\ next[n] = d
  BY <1>1, <1>2, <1>3, <1>6, <1>8, <1>12, NextTypes
<1>14. ASSUME NEW m \in DOMAIN dom, Left(m)
       PROVE  \E t \in i..3 : Tag(dom[m]) = ot[t] /\ (t = i => j < Rank(t, m))
  <2>1. Ahead(c, m)
    BY <1>1, <1>6, <1>14 DEF Swept
  <2> QED BY <1>4, <1>5, <2>1 DEF Ahead
<1>15. CASE ~Legacy(dom[k])
  <2>1. stack' = next /\ UNCHANGED <<dom, missed>>
    BY <1>9, <1>15
  <2>2. /\ stack' \in Seq(Frame) /\ Passes(stack') = Passes(stack) /\ stack'[Len(stack)] = d
    BY <1>3, <1>13, <2>1
  <2>3. dom' \in Seq(Node) /\ OneForOne' /\ missed' \subseteq Elements
    BY <1>1, <2>1, PageTypes DEF OneForOne, TypeInv, TypeOK
  <2>4. ASSUME NEW m \in DOMAIN dom', Left(m)' PROVE Ahead(d, m)'
    <3>1. m \in DOMAIN dom /\ Left(m)
      BY <1>10, <2>1, <2>4, SamePage
    <3>2. PICK t \in i..3 : Tag(dom[m]) = ot[t] /\ (t = i => j < Rank(t, m))
      BY <1>14, <3>1
    <3>3. m # k
      BY <1>15, <3>1 DEF Left
    <3>4. PICK r : r = Rank(i, m)
      OBVIOUS
    <3>5. t = i => j + 1 < r
      <4>1. ASSUME t = i PROVE j + 1 < r
        <5>1. m \in els(i) /\ m \in Nat
          BY <1>1, <3>1, <3>2, <4>1, PageTypes DEF els
        <5>2. r \in Nat
          BY <1>1, <3>4, <5>1, RankTypes
        <5>3. r # j + 1
          BY <1>11, <3>1, <3>2, <3>3, <3>4, <4>1
        <5>4. j < r
          BY <3>2, <3>4, <4>1
        <5> QED BY <1>6, <5>2, <5>3, <5>4
      <4> QED BY <4>1
    <3>6. Ahead(d, m)
      BY <1>12, <3>2, <3>4, <3>5 DEF Ahead
    <3> QED BY <1>10, <2>1, <3>6, SamePage
  <2> QED BY <1>1, <1>6, <1>10, <1>12, <2>2, <2>3, <2>4, PassGoesOn
<1>16. CASE Legacy(dom[k])
  <2>1. PICK h : h = Injected(dom[k].el)
    OBVIOUS
  <2>2. /\ dom' = Replaced(k) /\ stack' = next \o h
        /\ missed' = missed \union {dom[l].el : l \in Item(i, j + 1)}
    BY <1>9, <1>16, <2>1
  <2>3. h \in Seq(Frame) /\ Passes(h) = {}
    BY <2>1, Frames
  <2>4. /\ stack' \in Seq(Frame) /\ Passes(stack') = Passes(stack)
        /\ stack'[Len(stack)] = d
    <3>1. /\ next \o h \in Seq(Frame)
          /\ Passes(next \o h) = Passes(next) \union {Len(next) + l : l \in Passes(h)}
          /\ \A l \in Passes(next) : (next \o h)[l] = next[l]
      BY <1>13, <2>3, Concat
    <3>2. Passes(next \o h) = Passes(next)
      BY <2>3, <3>1
    <3> QED BY <1>3, <1>6, <1>13, <2>2, <3>1, <3>2
  <2>5. dom' \in Seq(Node) /\ OneForOne'
    BY <1>1, <1>11, <2>2, ReplacedOnce
  <2>6. missed' \subseteq Elements
    <3>1. \A l \in Item(i, j + 1) : dom[l].el \in Elements
      BY <1>1, PageTypes DEF Item, els, Node
    <3> QED BY <1>1, <2>2, <3>1 DEF TypeInv, TypeOK
  <2>7. ASSUME NEW m \in DOMAIN dom', Left(m)' PROVE Ahead(d, m)'
    <3>1. PICK len : len = Len(dom)
      OBVIOUS
    <3>2. /\ len \in Nat /\ DOMAIN dom = 1..len /\ DOMAIN dom' = 1..len
          /\ dom'[m] = IF m < k THEN dom[m]
                       ELSE IF m < len THEN dom[m + 1] ELSE New(dom[k].el)
      BY <1>1, <1>11, <2>2, <2>7, <3>1, PageTypes, ReplacedPage
    <3>3. PICK node : node = dom'[m]
      OBVIOUS
    <3>4. Legacy(node) /\ node.el \notin missed' /\ Tag(node)' = Tag(node)
      <4>1. Legacy(node)' /\ node.el \notin missed'
        BY <2>7, <3>3 DEF Left
      <4> QED BY <1>10, <4>1, Unchanged
    <3>5. m < k \/ m < len
      <4>1. ~New(dom[k].el).converted => FALSE
        BY DEF New
      <4> QED BY <3>2, <3>3, <3>4, <4>1 DEF Legacy
    <3>6. PICK l : l = IF m < k THEN m ELSE m + 1
      OBVIOUS
    <3>7. l \in DOMAIN dom /\ l # k /\ node = dom[l]
      <4>1. m \in 1..len /\ k \in 1..len
        BY <1>11, <2>7, <3>2
      <4>2. CASE m < k
        BY <3>2, <3>3, <3>6, <4>1, <4>2
      <4>3. CASE ~(m < k)
        BY <3>2, <3>3, <3>5, <3>6, <4>1, <4>3
      <4> QED BY <4>2, <4>3
    <3>8. Left(l)
      BY <2>2, <3>4, <3>7 DEF Left
    <3>9. PICK t \in i..3 : Tag(dom[l]) = ot[t] /\ (t = i => j < Rank(t, l))
      BY <1>14, <3>7, <3>8
    <3>10. Tag(dom[m])' = ot[t]
      <4>1. Tag(dom[m])' = Tag(node)'
        BY <3>3
      <4> QED BY <3>4, <3>7, <3>9, <4>1
    <3>11. ASSUME t = i PROVE j + 1 < Rank(i, m)'
      <4>1. l \in els(i) /\ l \in Nat /\ k \in DOMAIN dom
        BY <1>1, <1>11, <3>7, <3>9, <3>11, PageTypes DEF els
      <4>2. PICK r : r = Rank(i, l)
        OBVIOUS
      <4>3. PICK q : q = Rank(i, m)'
        OBVIOUS
      <4>4. r \in Nat
        BY <1>1, <4>1, <4>2, RankTypes
      <4>5. r # j + 1
        BY <1>11, <3>7, <3>9, <3>11, <4>2
      <4>6. r # (j + 1) + 1
        <5>1. ASSUME r = (j + 1) + 1 PROVE FALSE
          <6>1. l \in Item(i, j + 1)
            BY <4>1, <4>2, <5>1 DEF Item
          <6>2. dom[l].el \in missed'
            BY <2>2, <6>1
          <6> QED BY <3>4, <3>7, <6>2
        <5> QED BY <5>1
      <4>7. q \in Nat /\ r <= q + 1
        BY <1>1, <1>10, <2>2, <2>7, <3>6, <3>7, <4>1, <4>2, <4>3, RankReplaced
      <4>8. j < r
        BY <3>9, <3>11, <4>2
      <4>9. j + 1 < q
        BY <1>6, <4>4, <4>5, <4>6, <4>7, <4>8
      <4> QED BY <4>3, <4>9
    <3> QED BY <1>12, <3>9, <3>10, <3>11 DEF Ahead
  <2> QED BY <1>1, <1>6, <1>10, <1>12, <2>4, <2>5, <2>6, <2>7, PassGoesOn
<1> QED BY <1>15, <1>16

LEMMA Begins == Init => Inv
<1> SUFFICES ASSUME Init PROVE Inv
  OBVIOUS
<1>1. dom = <<>> /\ stack = <<>> /\ ~loaded /\ running = FALSE /\ missed = {}
     /\ started = {}
  BY DEF Init
<1>2. Passes(stack) = {} /\ DOMAIN dom = {}
  BY <1>1 DEF Passes
<1>3. TypeInv
  <2>1. dom \in Seq([el : Elements, converted : BOOLEAN])
    BY <1>1
  <2>2. stack \in Seq([kind : {"pass", "script", "event"}, i : 0..Len(ot),
                       j : 0..Cardinality(Elements)])
    BY <1>1
  <2>3. TypeOK
    BY <1>1, <2>1, <2>2 DEF Init, TypeOK
  <2>4. Lists(stack)
    BY <1>2 DEF Lists
  <2> QED BY <2>3, <2>4 DEF TypeInv
<1>4. OneForOne
  BY <1>2 DEF OneForOne
<1>5. FlagMeansPass
  BY <1>1, <1>2, Flag
<1>6. Swept
  BY <1>1, <1>2 DEF Swept
<1> QED BY <1>3, <1>4, <1>5, <1>6 DEF Inv

LEMMA Steps == Inv /\ [Next]_vars => Inv'
<1> SUFFICES ASSUME Inv, [Next]_vars PROVE Inv'
  OBVIOUS
<1>1. CASE ConvertNext
  BY <1>1, ConvertStep
<1>2. CASE NextTag
  BY <1>2, TagStep
<1>3. CASE Load
  BY <1>3, LoadStep
<1>4. CASE DOMNodeInserted
  BY <1>4, EventStep
<1>5. CASE ScriptEnds
  BY <1>5, ScriptStep
<1>6. ASSUME NEW e \in Elements, Insert(e) PROVE Inv'
  BY <1>6, InsertStep
<1>7. ASSUME NEW e \in Elements, blockResource(e) PROVE Inv'
  BY <1>7, BlockStep
<1>8. CASE UNCHANGED vars
  <2>1. UNCHANGED <<browser, shape, dom, loaded, running, missed>> /\ stack' = stack
        /\ started' = started
    BY <1>8 DEF vars
  <2>2. TypeInv /\ started \subseteq Elements
    BY DEF Inv, TypeInv, TypeOK
  <2>3. /\ stack' \in Seq(Frame) /\ Passes(stack') = Passes(stack)
        /\ \A k \in Passes(stack) : stack'[k] = stack[k]
    BY <2>1, <2>2, StackTypes
  <2> QED BY <2>1, <2>2, <2>3, ReturnStep
<1>9. ASSUME NEW e \in Elements, shouldLoad(e) PROVE Inv'
  <2>1. UNCHANGED <<browser, shape, dom, loaded, running, missed>> /\ stack' = stack
    BY <1>9 DEF shouldLoad
  <2>2. TypeInv /\ started' \subseteq Elements
    BY <1>9 DEF shouldLoad, Inv, TypeInv, TypeOK
  <2>3. /\ stack' \in Seq(Frame) /\ Passes(stack') = Passes(stack)
        /\ \A k \in Passes(stack) : stack'[k] = stack[k]
    BY <2>1, <2>2, StackTypes
  <2> QED BY <2>1, <2>2, <2>3, ReturnStep
<1> QED BY <1>1, <1>2, <1>3, <1>4, <1>5, <1>6, <1>7, <1>8, <1>9 DEF Next

LEMMA Invariant == Spec => []Inv
<1> QED BY Begins, Steps, PTL DEF Spec

-----------------------------------------------------------------------------
(***************************************************************************)
(* The properties.                                                         *)
(***************************************************************************)

(* A pass never goes beyond the elements that there are, however often the *)
(* lists it goes over change below it (esteidConvertLegacy()).             *)
THEOREM TypeCorrect == Spec => []TypeOK
<1>1. Inv => TypeOK
  BY DEF Inv, TypeInv
<1> QED BY <1>1, Invariant, PTL

(* However passes, injected scripts and Safari's loads nest, an element is *)
(* replaced by one object (esteidConvertObject()).                         *)
THEOREM ReplacedOneForOne == Spec => []OneForOne
<1>1. Inv => OneForOne
  BY DEF Inv
<1> QED BY <1>1, Invariant, PTL

(* Passes do not nest: esteidConvertLegacyRunning is set while one is on   *)
(* the stack, and at no other time.                                        *)
THEOREM PassesDoNotNest == Spec => []FlagMeansPass
<1>1. Inv => FlagMeansPass
  BY DEF Inv
<1> QED BY <1>1, Invariant, PTL

(* Once DOMContentLoaded has come and nothing runs, an old element is left *)
(* only where a conversion made the pass step over it, or the page put it  *)
(* where the pass had been: a pass has all others before it until it is    *)
(* done, whatever is inserted or converted below it.                       *)
THEOREM OnlyMissedOnesAreLeft == Spec => []OldOnesAreConverted
<1>1. Inv => OldOnesAreConverted
  <2> SUFFICES ASSUME Inv, loaded, stack = <<>>, NEW k \in DOMAIN dom,
                      ~dom[k].converted, dom[k].el \notin missed
               PROVE  LET s == shape[dom[k].el]
                      IN  ~(esteidFindJavaCodeAttr(s) = "signer" \/ s.classid = "activex")
    BY DEF OldOnesAreConverted
  <2>1. Passes(stack) = {}
    BY DEF Passes
  <2>2. ~running
    BY <2>1, Flag DEF Inv
  <2>3. ~Left(k)
    BY <2>2 DEF Inv, Swept
  <2>4. ~Legacy(dom[k])
    BY <2>3 DEF Left
  <2>5. ~esteidInspectObject(shape[dom[k].el])
    BY <2>4 DEF Legacy
  <2> QED BY <2>5 DEF esteidInspectObject
<1> QED BY <1>1, Invariant, PTL

(* Elements on which OldJavaBlocker.js fails: Java, but their classid is   *)
(* not that of a Java class.                                               *)
RuntimeClass(s) == s.java /\ s.classid \in {"activex", "other"}

(* Only old elements are converted, and Mozilla starts only applets that   *)
(* OldJavaBlocker.js let pass.                                             *)
ConvertedWasOld == \A k \in DOMAIN dom : dom[k].converted => esteidInspectObject(shape[dom[k].el])
StartedPassed   == \A e \in started : /\ browser = "mozilla" /\ shape[e] \in Shapes
                                      /\ JavaCodeToBlock(shape[e]) # "signer" /\ shape[e].java

LEMMA SameVerdict ==
    ASSUME UNCHANGED <<browser, shape>>, NEW e
    PROVE  esteidInspectObject(shape[e])' = esteidInspectObject(shape[e])
<1>1. esteidFindJavaCodeAttr(shape[e])' = esteidFindJavaCodeAttr(shape[e])
  BY DEF esteidFindJavaCodeAttr
<1> QED BY <1>1 DEF esteidInspectObject

LEMMA ReplacedWasOld ==
    ASSUME TypeInv, ConvertedWasOld, UNCHANGED <<browser, shape>>,
           NEW k \in DOMAIN dom, Legacy(dom[k]), dom' = Replaced(k)
    PROVE  ConvertedWasOld'
<1>1. PICK n : n = Len(dom)
  OBVIOUS
<1>2. /\ n \in Nat /\ DOMAIN dom = 1..n /\ k \in 1..n /\ DOMAIN dom' = 1..n
      /\ \A m \in 1..n :
           dom'[m] = IF m < k THEN dom[m] ELSE IF m < n THEN dom[m + 1] ELSE New(dom[k].el)
  BY <1>1, PageTypes, ReplacedPage
<1>3. ASSUME NEW m \in 1..n, dom'[m].converted PROVE esteidInspectObject(shape[dom[m].el])'
  <2>1. PICK l \in 1..n : dom'[m] = dom[l] \/ (l = k /\ dom'[m] = New(dom[k].el))
    <3>1. CASE m < k
      BY <1>2, <3>1
    <3>2. CASE ~(m < k) /\ m < n
      <4>1. m + 1 \in 1..n /\ dom'[m] = dom[m + 1]
        BY <1>2, <3>2
      <4> QED BY <4>1
    <3>3. CASE ~(m < k) /\ ~(m < n)
      BY <1>2, <3>3
    <3> QED BY <3>1, <3>2, <3>3
  <2>2. PICK e : e = dom[l].el
    OBVIOUS
  <2>3. dom'[m].el = e
    BY <2>1, <2>2 DEF New
  <2>4. esteidInspectObject(shape[e])
    <3>1. CASE dom'[m] = dom[l]
      BY <1>2, <1>3, <2>2, <3>1 DEF ConvertedWasOld
    <3>2. CASE l = k
      BY <2>2, <3>2 DEF Legacy
    <3> QED BY <2>1, <3>1, <3>2
  <2>5. esteidInspectObject(shape[e])'
    BY <2>4, SameVerdict
  <2>6. PICK d : d = dom'[m].el
    OBVIOUS
  <2>7. esteidInspectObject(shape[d])'
    BY <2>3, <2>5, <2>6
  <2> QED BY <2>6, <2>7
<1> QED BY <1>2, <1>3 DEF ConvertedWasOld

LEMMA InsertedNotConverted ==
    ASSUME TypeInv, ConvertedWasOld, UNCHANGED <<browser, shape>>, NEW e \in Elements,
           NEW k \in 1..(Len(dom) + 1), dom' = InsertAt(dom, k, Old(e))
    PROVE  ConvertedWasOld'
<1>1. PICK n : n = Len(dom)
  OBVIOUS
<1>2. n \in Nat /\ DOMAIN dom = 1..n
  BY <1>1, PageTypes
<1>3. PICK d : d = InsertAt(dom, k, Old(e))
  OBVIOUS
<1>4. /\ DOMAIN d = 1..(n + 1)
      /\ \A m \in 1..(n + 1) :
           d[m] = IF m < k THEN dom[m] ELSE IF m = k THEN Old(e) ELSE dom[m - 1]
  <2>1. LET c == InsertAt(dom, k, Old(e)) IN
        /\ c \in Seq(Node) /\ DOMAIN c = 1..(Len(dom) + 1)
        /\ \A m \in 1..(Len(dom) + 1) :
             c[m] = IF m < k THEN dom[m] ELSE IF m = k THEN Old(e) ELSE dom[m - 1]
    BY InsertedPage
  <2> QED BY <1>1, <1>3, <2>1, Zenon
<1>5. ASSUME NEW m \in 1..(n + 1), d[m].converted PROVE \E l \in 1..n : d[m] = dom[l]
  <2>1. m # k
    BY <1>4, <1>5 DEF Old
  <2>2. CASE m < k
    <3>1. m \in 1..n /\ d[m] = dom[m]
      BY <1>1, <1>2, <1>4, <2>2
    <3> QED BY <3>1
  <2>3. CASE k < m
    <3>1. m - 1 \in 1..n /\ d[m] = dom[m - 1]
      BY <1>1, <1>2, <1>4, <2>3
    <3> QED BY <3>1
  <2> QED BY <1>1, <1>2, <2>1, <2>2, <2>3
<1>6. ASSUME NEW m \in DOMAIN dom', dom'[m].converted PROVE esteidInspectObject(shape[dom[m].el])'
  <2>1. PICK l \in 1..n : dom'[m] = dom[l]
    BY <1>3, <1>4, <1>5, <1>6
  <2>2. PICK x : x = dom[l].el
    OBVIOUS
  <2>3. esteidInspectObject(shape[x])
    BY <1>2, <1>6, <2>1, <2>2 DEF ConvertedWasOld
  <2>4. esteidInspectObject(shape[x])'
    BY <2>3, SameVerdict
  <2>5. PICK y : y = dom'[m].el
    OBVIOUS
  <2>6. x = y
    BY <2>1, <2>2, <2>5
  <2>7. esteidInspectObject(shape[y])'
    BY <2>4, <2>6
  <2> QED BY <2>5, <2>7
<1> QED BY <1>6 DEF ConvertedWasOld

LEMMA OnlyOldOnesConverted ==
    ASSUME TypeInv, ConvertedWasOld, [Next]_vars
    PROVE  ConvertedWasOld'
<1>1. UNCHANGED <<browser, shape>>
  BY DEF Next, vars, ConvertNext, NextTag, Load, DOMNodeInserted, ScriptEnds, Insert,
         blockResource, shouldLoad
<1>2. CASE UNCHANGED dom
  <2> SUFFICES ASSUME NEW m \in DOMAIN dom', dom'[m].converted
               PROVE  esteidInspectObject(shape[dom[m].el])'
    BY DEF ConvertedWasOld
  <2>1. PICK x : x = dom[m].el
    OBVIOUS
  <2>2. esteidInspectObject(shape[x])'
    BY <1>1, <1>2, <2>1, SameVerdict DEF ConvertedWasOld
  <2>3. PICK y : y = dom'[m].el
    OBVIOUS
  <2>4. esteidInspectObject(shape[y])'
    BY <1>2, <2>1, <2>2, <2>3
  <2> QED BY <2>3, <2>4
<1>3. CASE ConvertNext
  <2>1. PICK k \in Item(Top.i, Top.j) :
          dom' = dom \/ (Legacy(dom[k]) /\ dom' = Replaced(k))
    BY <1>3 DEF ConvertNext
  <2>2. k \in DOMAIN dom
    BY <2>1 DEF Item, els
  <2> QED BY <1>1, <1>2, <2>1, <2>2, ReplacedWasOld
<1>4. ASSUME NEW e \in Elements, Insert(e) PROVE ConvertedWasOld'
  <2>1. PICK k \in (IF loaded THEN 1 ELSE Len(dom) + 1)..(Len(dom) + 1) :
          dom' = InsertAt(dom, k, Old(e))
    BY <1>4 DEF Insert
  <2>2. PICK n : n = Len(dom)
    OBVIOUS
  <2>3. n \in Nat /\ k \in (IF loaded THEN 1 ELSE n + 1)..(n + 1)
    BY <2>1, <2>2, PageTypes
  <2>4. k \in 1..(n + 1)
    BY <2>3
  <2> QED BY <1>1, <2>1, <2>2, <2>4, InsertedNotConverted
<1>5. ASSUME NEW e \in Elements, blockResource(e) PROVE ConvertedWasOld'
  <2>1. PICK k \in DOMAIN dom : Legacy(dom[k]) /\ dom' = Replaced(k)
    BY <1>5 DEF blockResource
  <2> QED BY <1>1, <2>1, ReplacedWasOld
<1>6. NextTag \/ Load \/ DOMNodeInserted \/ ScriptEnds \/ UNCHANGED vars => UNCHANGED dom
  BY DEF NextTag, Load, DOMNodeInserted, ScriptEnds, vars
<1>7. ASSUME NEW e \in Elements PROVE shouldLoad(e) => UNCHANGED dom
  BY DEF shouldLoad
<1> QED BY <1>2, <1>3, <1>4, <1>5, <1>6, <1>7 DEF Next

LEMMA OnlyPassedOnesStart ==
    ASSUME TypeInv, StartedPassed, [Next]_vars
    PROVE  StartedPassed'
<1>1. UNCHANGED <<browser, shape>>
  BY DEF Next, vars, ConvertNext, NextTag, Load, DOMNodeInserted, ScriptEnds, Insert,
         blockResource, shouldLoad
<1>2. \/ started' = started
      \/ \E e \in Elements : shouldLoad(e)
  BY DEF Next, vars, ConvertNext, NextTag, Load, DOMNodeInserted, ScriptEnds, Insert, blockResource
<1>3. \A e : JavaCodeToBlock(shape[e])' = JavaCodeToBlock(shape[e])
  BY <1>1 DEF JavaCodeToBlock
<1>4. ASSUME NEW e \in started'
      PROVE  /\ browser = "mozilla" /\ shape[e] \in Shapes
             /\ JavaCodeToBlock(shape[e]) # "signer" /\ shape[e].java
  <2>1. CASE e \in started
    BY <2>1 DEF StartedPassed
  <2>2. CASE e \notin started
    <3>1. PICK x \in Elements : shouldLoad(x)
      BY <1>2, <1>4, <2>2
    <3>2. e = x /\ JavaCodeToBlock(shape[x]) # "signer" /\ browser = "mozilla" /\ shape[x].java
      BY <1>4, <2>2, <3>1 DEF shouldLoad
    <3> QED BY <3>2 DEF TypeInv, TypeOK
  <2> QED BY <2>1, <2>2
<1>5. ASSUME NEW e \in started'
      PROVE  /\ browser' = "mozilla" /\ shape'[e] \in Shapes
             /\ JavaCodeToBlock(shape[e])' # "signer" /\ shape'[e].java
  BY <1>1, <1>3, <1>4
<1> QED BY <1>5 DEF StartedPassed

(* Mozilla starts no applet that is then converted (OldJavaBlocker.js and  *)
(* convertLegacy.js agree), however loads, passes and insertions come, if  *)
(* the page has no Java element with a classid that is not a Java class's: *)
(* the run `legacy_blocker` shows that with one it may.                    *)
THEOREM BlockerAgrees ==
    ASSUME \A s \in Shapes : ~RuntimeClass(s)
    PROVE  Spec => []BlockerInSync
<1>1. Init => ConvertedWasOld /\ StartedPassed
  BY DEF Init, ConvertedWasOld, StartedPassed
<1>2. TypeInv /\ ConvertedWasOld /\ StartedPassed /\ [Next]_vars
        => (ConvertedWasOld /\ StartedPassed)'
  BY OnlyOldOnesConverted, OnlyPassedOnesStart
<1>3. Inv => TypeInv
  BY DEF Inv
<1>4. ConvertedWasOld /\ StartedPassed => BlockerInSync
  <2> SUFFICES ASSUME ConvertedWasOld, StartedPassed, NEW k \in DOMAIN dom,
                      dom[k].converted, dom[k].el \in started
               PROVE  FALSE
    BY DEF BlockerInSync
  <2>1. PICK e : e = dom[k].el
    OBVIOUS
  <2>2. PICK s : s = shape[e]
    OBVIOUS
  <2>3. esteidInspectObject(s)
    BY <2>1, <2>2 DEF ConvertedWasOld
  <2>4. browser = "mozilla" /\ s \in Shapes /\ JavaCodeToBlock(s) # "signer" /\ s.java
    BY <2>1, <2>2 DEF StartedPassed
  <2>5. s.classid \notin {"activex", "other"}
    BY <2>4 DEF RuntimeClass
  <2>6. esteidFindJavaCodeAttr(s) = "signer"
    BY <2>3, <2>5 DEF esteidInspectObject
  <2>7. esteidFindJavaCodeAttr(s) =
          FirstOf(<<s.code, s.java_code, ClassidCode(s), ParamCode(s, {"java_code"})>>)
    <3>1. (IF browser = "safari" THEN {"code", "java_code"} ELSE {"java_code"}) = {"java_code"}
      BY <2>4
    <3> QED BY <3>1 DEF esteidFindJavaCodeAttr
  <2>8. JavaCodeToBlock(s) = esteidFindJavaCodeAttr(s)
    BY <2>5, <2>7 DEF JavaCodeToBlock
  <2> QED BY <2>4, <2>6, <2>8
<1> QED BY <1>1, <1>2, <1>3, <1>4, Invariant, PTL DEF Spec
=============================================================================
