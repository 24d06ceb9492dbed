-------------------------- MODULE SignSessionProofs --------------------------
(***************************************************************************)
(* What is proved about SignSession, for any number of requests and tries, *)
(* and for pages of every discipline.                                      *)
(***************************************************************************)
EXTENDS SignSession, TLAPS, SequenceTheorems

(* Pushing a frame and returning to the one below.                         *)
LEMMA Pushed ==
    ASSUME NEW S, NEW s \in Seq(S), NEW x \in S
    PROVE  /\ Append(s, x) \in Seq(S)
           /\ Append(s, x) # <<>>
           /\ Len(Append(s, x)) = Len(s) + 1
           /\ Append(s, x)[Len(s) + 1] = x
           /\ \A i \in 1..Len(s) : Append(s, x)[i] = s[i]
BY AppendProperties

LEMMA PoppedTo ==
    ASSUME NEW S, NEW s \in Seq(S), NEW n \in Nat, Len(s) = n + 1
    PROVE  /\ SubSeq(s, 1, n) \in Seq(S)
           /\ Len(SubSeq(s, 1, n)) = n
           /\ \A i \in 1..n : SubSeq(s, 1, n)[i] = s[i]
<1>1. \A i \in 1..n : s[i] \in S
  BY ElementOfSeq
<1> DEFINE t == SubSeq(s, 1, n)
<1>2. /\ t \in Seq(S)
      /\ Len(t) = IF 1 <= n THEN n - 1 + 1 ELSE 0
      /\ \A i \in 1..(n - 1 + 1) : t[i] = s[1 + i - 1]
  BY <1>1, SubSeqProperties
<1> HIDE DEF t
<1>3. Len(t) = n
  BY <1>2
<1>4. \A i \in 1..n : t[i] = s[i]
  BY <1>2
<1> QED BY <1>2, <1>3, <1>4 DEF t

LEMMA Popped ==
    ASSUME NEW S, NEW s \in Seq(S), s # <<>>
    PROVE  /\ Len(s) \in Nat \ {0}
           /\ s[Len(s)] \in S
           /\ SubSeq(s, 1, Len(s) - 1) \in Seq(S)
           /\ Len(SubSeq(s, 1, Len(s) - 1)) = Len(s) - 1
           /\ \A i \in 1..(Len(s) - 1) : SubSeq(s, 1, Len(s) - 1)[i] = s[i]
<1>1. Len(s) \in Nat \ {0}
  BY EmptySeq
<1>2. s[Len(s)] \in S
  BY <1>1, ElementOfSeq
<1> DEFINE n == Len(s) - 1
<1>3. n \in Nat /\ Len(s) = n + 1
  BY <1>1
<1> HIDE DEF n
<1>4. /\ SubSeq(s, 1, n) \in Seq(S)
      /\ Len(SubSeq(s, 1, n)) = n
      /\ \A i \in 1..n : SubSeq(s, 1, n)[i] = s[i]
  BY <1>3, PoppedTo
<1> QED BY <1>1, <1>2, <1>4 DEF n

LEMMA Empty ==
    ASSUME NEW S, NEW s \in Seq(S)
    PROVE  Len(s) \in Nat /\ (s = <<>> <=> Len(s) = 0)
BY EmptySeq, LenProperties

-----------------------------------------------------------------------------

Frames  == [kind : {"js", "sync", "blocked", "response"},
            req : Requests \union {None}, then : {"", "return", "throw"}]
Windows == [visible : BOOLEAN, doc : Requests \union {None}, triesLeft : 0..MaxTries]
Answers == Requests \union {None, Failed}

PluginType ==
    /\ m_signCallback \in Requests \union {None}
    /\ m_hash \in Requests \union {None}
    /\ m_stoprequested \in BOOLEAN
    /\ m_signedHash \in Requests \union {None}
    /\ m_signFailure \in BOOLEAN
PageType ==
    /\ asked \subseteq Requests
    /\ got \in [Requests -> Seq(Answers)]
    /\ discipline \in Disciplines
    /\ consent \subseteq Requests
DialogType == dialog \in Windows /\ entry \in BOOLEAN /\ tries \in 0..MaxTries
StackType  == stack \in Seq(Frames)

LEMMA TypeParts == TypeOK <=> PluginType /\ PageType /\ DialogType /\ StackType
BY DEF TypeOK, PluginType, PageType, DialogType, StackType, Frames, Windows, Answers

(* The types of tries and consent depend on what the dialog shows.         *)
TypeInv ==
    /\ TypeOK
    /\ TriesShownAreTrue
    /\ dialog.visible => dialog.doc \in Requests

(* Requests are no markers.                                                *)
LEMMA Markers ==
    /\ None = 0 /\ Failed = -1
    /\ \A r \in Requests : r \in Nat /\ r >= 1 /\ r <= MaxRequests
    /\ None \notin Requests /\ Failed \notin Requests /\ None # Failed
BY ConstantsAssumption DEF Requests, None, Failed

LEMMA FrameType ==
    ASSUME NEW kind \in {"js", "sync", "blocked", "response"},
           NEW r \in Requests \union {None}, NEW then \in {"", "return", "throw"}
    PROVE  Frame(kind, r, then) \in Frames
BY DEF Frame, Frames

LEMMA TopType ==
    ASSUME StackType, stack # <<>>
    PROVE  /\ TopFrame \in Frames /\ Below \in Seq(Frames)
           /\ Len(stack) \in Nat \ {0}
           /\ Len(Below) = Len(stack) - 1
           /\ \A i \in 1..(Len(stack) - 1) : Below[i] = stack[i]
BY Popped DEF StackType, TopFrame, Below

LEMMA AnswerType ==
    ASSUME PageType, NEW r, NEW answer \in Answers
    PROVE  [got EXCEPT ![r] = Append(@, answer)] \in [Requests -> Seq(Answers)]
<1>1. \A q \in Requests : Append(got[q], answer) \in Seq(Answers)
  BY AppendProperties DEF PageType
<1> QED BY <1>1 DEF PageType

(* returnSignedData() and returnSignFailure().                             *)
LEMMA ReturnTypes ==
    ASSUME TypeOK, NEW cb \in Requests \union {None}, NEW answer \in Answers,
           NEW below \in Seq(Frames), Return(cb, answer, below)
    PROVE  /\ dialog' = Hidden /\ dialog' \in Windows /\ dialog'.visible = FALSE
           /\ m_stoprequested' \in BOOLEAN
           /\ m_signedHash' \in Requests \union {None}
           /\ m_signFailure' \in BOOLEAN
           /\ stack' \in Seq(Frames)
           /\ got' \in [Requests -> Seq(Answers)]
<1> USE TypeParts
<1>1. dialog' = Hidden /\ dialog' \in Windows /\ dialog'.visible = FALSE
  BY DEF Return, Hidden, DialogType, Windows
<1>2. CASE cb = None
  BY <1>1, <1>2 DEF Return, PluginType, PageType, Answers
<1>3. CASE cb # None
  <2>1. /\ got' = [got EXCEPT ![cb] = Append(@, answer)]
        /\ stack' = Append(below, Frame("js", cb, ""))
        /\ UNCHANGED <<m_stoprequested, m_signedHash, m_signFailure>>
    BY <1>3 DEF Return, Invoke
  <2>2. got' \in [Requests -> Seq(Answers)]
    BY <2>1, AnswerType
  <2>3. stack' \in Seq(Frames)
    BY <2>1, FrameType, Pushed
  <2> QED BY <1>1, <2>1, <2>2, <2>3 DEF PluginType
<1> QED BY <1>2, <1>3

LEMMA BlockedTypes ==
    ASSUME TypeOK, NEW r \in Requests \union {None}, NEW then \in {"return", "throw"},
           NEW below \in Seq(Frames), Blocked(r, then, below)
    PROVE  /\ dialog' \in Windows /\ dialog'.visible = FALSE
           /\ stack' \in Seq(Frames)
<1>1. dialog' \in Windows /\ dialog'.visible = FALSE
  BY TypeParts DEF Blocked, Hidden, DialogType, Windows
<1>2. stack' \in Seq(Frames)
  BY FrameType, Pushed DEF Blocked
<1> QED BY <1>1, <1>2

LEMMA ShownType ==
    ASSUME TypeInv, NEW r \in Requests, tries # 0
    PROVE  LET d == Shown(r) IN
           /\ d \in Windows /\ d.visible /\ d.doc \in Requests
           /\ d.triesLeft \in {0, tries}
           /\ ~dialog.visible => d.doc = r
<1> USE TypeParts, ConstantsAssumption
<1>1. CASE dialog.visible
  BY <1>1 DEF Shown, TypeInv, TriesShownAreTrue, DialogType
<1>2. CASE ~dialog.visible
  BY <1>2 DEF Shown, Windows
<1> QED BY <1>1, <1>2

LEMMA ResponseType ==
    ASSUME NEW below \in Seq(Frames)
    PROVE  Response(below) \in Seq(Frames) /\ Response(below) # <<>>
<1>1. Frame("response", None, "") \in Frames
  BY FrameType
<1> QED BY <1>1, Pushed DEF Response

LEMMA TypeInit == Init => TypeInv
<1> SUFFICES ASSUME Init PROVE TypeInv
  OBVIOUS
<1> USE ConstantsAssumption DEF Init
<1>1. PluginType /\ DialogType /\ StackType
  <2>1. dialog \in Windows
    BY DEF Windows
  <2> QED BY <2>1, EmptySeq DEF PluginType, DialogType, StackType
<1>2. PageType
  BY EmptySeq DEF PageType
<1> QED BY <1>1, <1>2, TypeParts DEF TypeInv, TriesShownAreTrue

LEMMA TypeStep == TypeInv /\ [Next]_vars => TypeInv'
<1> SUFFICES ASSUME TypeInv, [Next]_vars PROVE TypeInv'
  OBVIOUS
<1> USE ConstantsAssumption
<1>0. PluginType /\ PageType /\ DialogType /\ StackType /\ TypeOK
  BY TypeParts DEF TypeInv
<1> DEFINE DialogInv == /\ dialog.visible => dialog.doc \in Requests
                        /\ TriesShownAreTrue
<1>c. ASSUME PluginType', PageType', DialogType', StackType', DialogInv' PROVE TypeInv'
  <2>1. TypeOK'
    BY <1>c DEF TypeOK, PluginType, PageType, DialogType, StackType, Frames, Windows, Answers
  <2> QED BY <1>c, <2>1 DEF TypeInv
<1>1. ASSUME NEW r \in Requests, NEW far \in Progress, signAsync(r, far) PROVE TypeInv'
  <2>1. /\ r \in Requests \union {None} /\ Failed \in Answers /\ stack \in Seq(Frames)
        /\ PluginType' <=> /\ m_stoprequested' \in BOOLEAN
                           /\ m_signedHash' \in Requests \union {None}
                           /\ m_signFailure' \in BOOLEAN
    BY <1>0, <1>1 DEF signAsync, PluginType, StackType, Answers
  <2>2. UNCHANGED <<discipline, entry, tries, consent>> /\ asked' \subseteq Requests
    BY <1>0, <1>1 DEF signAsync, PageType
  <2>3. CASE far # "ok"
    <3>1. Return(r, Failed, stack)
      BY <1>1, <2>3 DEF signAsync
    <3> QED BY <1>0, <1>c, <2>1, <2>2, <3>1, ReturnTypes
         DEF PluginType, PageType, DialogType, StackType, TriesShownAreTrue
  <2>4. CASE far = "ok" /\ tries = 0
    <3>1. Blocked(r, "return", stack)
          /\ UNCHANGED <<m_stoprequested, m_signedHash, m_signFailure, got>>
      BY <1>1, <2>4 DEF signAsync
    <3> QED BY <1>0, <1>c, <2>1, <2>2, <3>1, BlockedTypes
         DEF PluginType, PageType, DialogType, StackType, TriesShownAreTrue
  <2>5. CASE far = "ok" /\ tries # 0
    <3>1. dialog' = Shown(r)
          /\ UNCHANGED <<stack, m_stoprequested, m_signedHash, m_signFailure, got>>
      BY <1>1, <2>5 DEF signAsync
    <3> QED BY <1>0, <1>c, <2>1, <2>2, <2>5, <3>1, ShownType
         DEF PluginType, PageType, DialogType, StackType, TriesShownAreTrue
  <2> QED BY <2>3, <2>4, <2>5
<1>2. ASSUME NEW r \in Requests, NEW far \in Progress, askPinAndSign(r, far) PROVE TypeInv'
  <2>1. /\ Failed \in Answers /\ stack \in Seq(Frames) /\ m_hash' \in Requests \union {None}
        /\ UNCHANGED <<discipline, m_signCallback, m_signedHash, m_signFailure, entry, tries,
                       consent>>
        /\ asked' \subseteq Requests
    BY <1>0, <1>2 DEF askPinAndSign, PluginType, PageType, StackType, Answers
  <2>3. CASE far # "ok"
    <3>1. got' = [got EXCEPT ![r] = Append(@, Failed)]
          /\ UNCHANGED <<m_stoprequested, dialog, stack>>
      BY <1>2, <2>3 DEF askPinAndSign
    <3>2. got' \in [Requests -> Seq(Answers)]
      BY <1>0, <2>1, <3>1, AnswerType
    <3> QED BY <1>0, <1>c, <2>1, <3>1, <3>2
         DEF PluginType, PageType, DialogType, StackType, TriesShownAreTrue, TypeInv
  <2>4. CASE far = "ok" /\ tries = 0
    <3>1. Blocked(r, "throw", stack) /\ UNCHANGED <<m_stoprequested, got>>
      BY <1>2, <2>4 DEF askPinAndSign
    <3> QED BY <1>0, <1>c, <2>1, <3>1, BlockedTypes
         DEF PluginType, PageType, DialogType, StackType, TriesShownAreTrue
  <2>5. CASE far = "ok" /\ tries # 0
    <3>1. /\ dialog' = Shown(r) /\ m_stoprequested' = FALSE /\ got' = got
          /\ stack' = Append(stack, Frame("sync", r, ""))
      BY <1>2, <2>5 DEF askPinAndSign
    <3>2. stack' \in Seq(Frames)
      BY <2>1, <3>1, FrameType, Pushed
    <3>3. /\ dialog' \in Windows /\ dialog'.doc \in Requests
          /\ dialog'.triesLeft \in {0, tries}
      BY <2>5, <3>1, ShownType
    <3>4. PluginType' /\ PageType'
      BY <1>0, <2>1, <3>1 DEF PluginType, PageType
    <3> QED BY <1>0, <1>c, <2>1, <2>5, <3>2, <3>3, <3>4
         DEF PluginType, PageType, DialogType, StackType, TriesShownAreTrue
  <2> QED BY <2>3, <2>4, <2>5 DEF Progress
<1>3. ASSUME SyncReturn PROVE TypeInv'
  <2>1. stack # <<>> /\ (IF m_signFailure THEN Failed ELSE m_signedHash) \in Answers
    BY <1>0, <1>3 DEF SyncReturn, Top, PluginType, Answers
  <2>2. got' \in [Requests -> Seq(Answers)]
    BY <1>0, <1>3, <2>1, AnswerType DEF SyncReturn
  <2>3. stack' \in Seq(Frames)
    BY <1>0, <1>3, <2>1, TopType DEF SyncReturn
  <2> QED BY <1>0, <1>3, <1>c, <2>2, <2>3
       DEF SyncReturn, PluginType, PageType, DialogType, StackType, TriesShownAreTrue, TypeInv
<1>4. ASSUME JsReturn PROVE TypeInv'
  <2>1. stack' \in Seq(Frames)
    BY <1>0, <1>4, TopType DEF JsReturn, Top
  <2> QED BY <1>0, <1>4, <1>c, <2>1
       DEF JsReturn, PluginType, PageType, DialogType, StackType, TriesShownAreTrue, TypeInv
<1>5. ASSUME ResponseReturn PROVE TypeInv'
  <2>1. stack' \in Seq(Frames)
    BY <1>0, <1>5, TopType DEF ResponseReturn, Top
  <2> QED BY <1>0, <1>5, <1>c, <2>1
       DEF ResponseReturn, plugin, PluginType, PageType, DialogType, StackType,
           TriesShownAreTrue, TypeInv
<1>6. ASSUME PinRight PROVE TypeInv'
  <2>1. /\ m_signCallback \in Requests \union {None} /\ m_hash \in Answers
        /\ Response(stack) \in Seq(Frames)
    BY <1>0, ResponseType DEF PluginType, StackType, Answers
  <2>2. Return(m_signCallback, m_hash, Response(stack)) /\ entry' = TRUE /\ tries' = MaxTries
        /\ UNCHANGED <<discipline, m_signCallback, m_hash, asked>>
    BY <1>6 DEF PinRight
  <2>3. consent' \subseteq Requests /\ tries' \in 0..MaxTries
    BY <1>0, <1>6 DEF PinRight, CanRespond, TypeInv, PageType
  <2> QED BY <1>0, <1>c, <2>1, <2>2, <2>3, ReturnTypes
       DEF PluginType, PageType, DialogType, StackType, TriesShownAreTrue
<1>7. ASSUME NEW gone \in BOOLEAN, PinWrong(gone) PROVE TypeInv'
  <2>1. /\ m_signCallback \in Requests \union {None} /\ Failed \in Answers
        /\ Response(stack) \in Seq(Frames) /\ None \in Requests \union {None}
    BY <1>0, ResponseType DEF PluginType, StackType, Answers
  <2>2. /\ entry' = TRUE /\ tries' = tries - 1
        /\ UNCHANGED <<discipline, m_signCallback, m_hash, asked, consent>>
    BY <1>7 DEF PinWrong
  <2>3. tries' \in 0..MaxTries
    BY <1>0, <1>7, <2>2 DEF PinWrong, CanRespond, TypeInv, TriesShownAreTrue, DialogType
  <2>4. CASE gone
    <3>1. Return(m_signCallback, Failed, Response(stack))
      BY <1>7, <2>4 DEF PinWrong
    <3> QED BY <1>0, <1>c, <2>1, <2>2, <2>3, <3>1, ReturnTypes
         DEF PluginType, PageType, DialogType, StackType, TriesShownAreTrue
  <2>5. CASE ~gone /\ tries' = 0
    <3>1. Blocked(None, "return", Response(stack))
          /\ UNCHANGED <<m_stoprequested, m_signedHash, m_signFailure, got>>
      BY <1>7, <2>5 DEF PinWrong
    <3> QED BY <1>0, <1>c, <2>1, <2>2, <2>3, <3>1, BlockedTypes
         DEF PluginType, PageType, DialogType, StackType, TriesShownAreTrue
  <2>6. CASE ~gone /\ tries' # 0
    <3>1. /\ dialog' = [dialog EXCEPT !.triesLeft = tries'] /\ stack' = Response(stack)
          /\ UNCHANGED <<m_stoprequested, m_signedHash, m_signFailure, got>>
      BY <1>7, <2>6 DEF PinWrong
    <3>2. /\ dialog' \in Windows /\ dialog'.triesLeft = tries'
          /\ dialog'.doc = dialog.doc /\ dialog'.visible = dialog.visible
      BY <1>0, <2>3, <3>1 DEF DialogType, Windows
    <3> QED BY <1>0, <1>c, <2>1, <2>2, <2>3, <2>6, <3>1, <3>2
         DEF PluginType, PageType, DialogType, StackType, TriesShownAreTrue, TypeInv
  <2> QED BY <2>4, <2>5, <2>6
<1>8. ASSUME PinCancelled PROVE TypeInv'
  <2>1. /\ m_signCallback \in Requests \union {None} /\ Failed \in Answers
        /\ Response(stack) \in Seq(Frames)
    BY <1>0, ResponseType DEF PluginType, StackType, Answers
  <2>2. Return(m_signCallback, Failed, Response(stack)) /\ entry' \in BOOLEAN
        /\ UNCHANGED <<discipline, m_signCallback, m_hash, tries, asked, consent>>
    BY <1>8 DEF PinCancelled
  <2> QED BY <1>0, <1>c, <2>1, <2>2, ReturnTypes
       DEF PluginType, PageType, DialogType, StackType, TriesShownAreTrue
<1>9. ASSUME CloseBlocked PROVE TypeInv'
  <2>1. /\ m_signCallback \in Requests \union {None} /\ Failed \in Answers
        /\ stack # <<>> /\ Below \in Seq(Frames)
        /\ UNCHANGED <<discipline, m_signCallback, m_hash, entry, tries, asked, consent>>
    BY <1>0, <1>9, TopType DEF PluginType, CloseBlocked, Top, Answers
  <2>2. CASE TopFrame.then = "return"
    <3>1. Return(m_signCallback, Failed, Below)
      BY <1>9, <2>2 DEF CloseBlocked
    <3> QED BY <1>0, <1>c, <2>1, <3>1, ReturnTypes
         DEF PluginType, PageType, DialogType, StackType, TriesShownAreTrue
  <2>3. CASE TopFrame.then # "return"
    <3>1. /\ got' = [got EXCEPT ![TopFrame.req] = Append(@, Failed)] /\ stack' = Below
          /\ UNCHANGED <<m_stoprequested, m_signedHash, m_signFailure, dialog>>
      BY <1>9, <2>3 DEF CloseBlocked
    <3>2. got' \in [Requests -> Seq(Answers)]
      BY <1>0, <2>1, <3>1, AnswerType
    <3> QED BY <1>0, <1>c, <2>1, <3>1, <3>2
         DEF PluginType, PageType, DialogType, StackType, TriesShownAreTrue, TypeInv
  <2> QED BY <2>2, <2>3
<1>10. CASE UNCHANGED vars
  BY <1>0, <1>10, <1>c DEF vars, plugin, PluginType, PageType, DialogType, StackType,
      TriesShownAreTrue, TypeInv
<1> QED
  BY <1>1, <1>2, <1>3, <1>4, <1>5, <1>6, <1>7, <1>8, <1>9, <1>10
  DEF Next, Page, User, Unwind

LEMMA TypeInvariant == Spec => []TypeInv
BY TypeInit, TypeStep, PTL DEF Spec

(* The types: in particular a PIN is never counted below zero tries.       *)
THEOREM TypeCorrect == Spec => []TypeOK
<1>1. TypeInv => TypeOK
  BY DEF TypeInv
<1> QED BY <1>1, TypeInvariant, PTL

(* askPin() and setTries(): however calls nest, a PIN is asked for only    *)
(* while the card has tries, and the number shown is the card's.           *)
THEOREM TriesCorrect == Spec => []TriesShownAreTrue
<1>1. TypeInv => TriesShownAreTrue
  BY DEF TypeInv
<1> QED BY <1>1, TypeInvariant, PTL

-----------------------------------------------------------------------------
(***************************************************************************)
(* A sequential page.  Between its calls nothing is open; while a call is  *)
(* open, the callback, the document, the dialog and the stack are all of   *)
(* that call.                                                              *)
(***************************************************************************)

(* A request that waits for its answer.                                    *)
Open(r) == r \in asked /\ got[r] = <<>>

At(i, kind)     == i \in DOMAIN stack /\ stack[i].kind = kind
Responses(n)    == \A i \in 1..n : stack[i].kind = "response"
Message(then)   == Top("blocked") /\ TopFrame.then = then

(* Nothing is open: the dialog is closed, and at most a callback, and the  *)
(* dialog's handler that led to it, have yet to return.                    *)
Idle ==
    /\ \A r \in Requests : ~Open(r)
    /\ ~dialog.visible /\ ~m_signFailure
    /\ \/ m_signCallback = None /\ Len(stack) <= 1 /\ Responses(Len(stack))
       \/ m_signCallback # None /\ Top("js") /\ Len(stack) <= 2 /\ Responses(Len(stack) - 1)

(* signAsync() has shown the dialog, or the message that PIN2 is blocked.  *)
AsyncOpen(r) ==
    /\ m_signCallback = r /\ m_hash = r /\ ~m_signFailure /\ r \notin consent
    /\ \/ dialog.visible /\ dialog.doc = r /\ Len(stack) <= 1 /\ Responses(Len(stack))
       \/ ~dialog.visible /\ Message("return") /\ Len(stack) <= 2 /\ Responses(Len(stack) - 1)

(* A blocking call shows the dialog, has been given its answer, or shows   *)
(* the message, from its own code or from the dialog's handler.            *)
SyncAsks(r) ==
    /\ dialog.visible /\ dialog.doc = r /\ ~m_stoprequested
    /\ ~m_signFailure /\ r \notin consent

SyncTold(r) ==
    /\ ~dialog.visible /\ m_stoprequested
    /\ IF m_signFailure THEN r \notin consent ELSE m_signedHash = r /\ r \in consent

SyncOpen(r) ==
    /\ m_signCallback = None /\ m_hash = r
    /\ \/ /\ At(1, "sync") /\ stack[1].req = r
          /\ Len(stack) <= 2 /\ (Len(stack) = 2 => At(2, "response"))
          /\ SyncAsks(r) \/ SyncTold(r)
       \/ /\ At(1, "sync") /\ stack[1].req = r /\ At(2, "response")
          /\ Len(stack) = 3 /\ Message("return")
          /\ ~dialog.visible /\ ~m_signFailure /\ r \notin consent
       \/ /\ Len(stack) = 1 /\ Message("throw") /\ TopFrame.req = r
          /\ ~dialog.visible /\ ~m_signFailure /\ r \notin consent

(* What the requests have been answered.                                   *)
Answered(r) ==
    /\ got[r] \in {<<>>, <<Failed>>, <<r>>}
    /\ r \notin asked => got[r] = <<>> /\ r \notin consent
    /\ got[r] = <<Failed>> => r \notin consent
    /\ got[r] = <<r>> => r \in consent

Sole(r) == Open(r) /\ \A q \in Requests : Open(q) => q = r

SequentialInv ==
    Sequential =>
        /\ \A r \in Requests : Answered(r)
        /\ Idle \/ \E r \in Requests : Sole(r) /\ (AsyncOpen(r) \/ SyncOpen(r))
        /\ entry => \E i \in DOMAIN stack : stack[i].kind = "response"

(* The answers after request r is asked, and after it is answered.         *)
LEMMA OpenedAnswers ==
    ASSUME PageType, NEW r \in Requests, r \notin asked,
           \A q \in Requests : Answered(q) /\ ~Open(q),
           asked' = asked \union {r}, UNCHANGED <<got, consent>>
    PROVE  (\A q \in Requests : Answered(q)') /\ Sole(r)'
BY DEF Answered, Open, Sole

LEMMA ConsentedAnswers ==
    ASSUME PageType, NEW r \in Requests, Sole(r),
           \A q \in Requests : Answered(q),
           consent' = consent \union {r}, UNCHANGED <<got, asked>>
    PROVE  (\A q \in Requests : Answered(q)') /\ Sole(r)'
<1> USE Markers
<1>1. got[r] = <<>> /\ r \in asked
  BY DEF Sole, Open
<1>2. Answered(r)'
  BY <1>1 DEF Answered
<1>3. ASSUME NEW q \in Requests, q # r PROVE Answered(q)'
  BY <1>3 DEF Answered
<1> QED BY <1>2, <1>3 DEF Sole, Open

LEMMA ClosedAnswers ==
    ASSUME PageType, NEW r \in Requests, NEW answer \in {Failed, r},
           \A q \in Requests : Answered(q) /\ (Open(q) => q = r),
           got[r] = <<>>,
           got' = [got EXCEPT ![r] = Append(@, answer)],
           asked' = asked \union {r},
           consent' \in {consent, consent \union {r}},
           answer = r <=> r \in consent'
    PROVE  \A q \in Requests : Answered(q)' /\ ~Open(q)'
<1> USE Markers
<1>1. got'[r] = <<answer>> /\ \A q \in Requests : q # r => got'[q] = got[q]
  BY DEF PageType
<1>2. <<Failed>> # <<>> /\ <<r>> # <<>> /\ <<Failed>> # <<r>>
  OBVIOUS
<1>3. Answered(r)' /\ ~Open(r)'
  BY <1>1, <1>2 DEF Answered, Open
<1>4. ASSUME NEW q \in Requests, q # r PROVE Answered(q)' /\ ~Open(q)'
  <2>1. consent' \in {consent, consent \union {r}} /\ (q \in consent' <=> q \in consent)
        /\ (q \in asked' <=> q \in asked) /\ got'[q] = got[q]
    BY <1>1, <1>4
  <2> QED BY <2>1, <1>4 DEF Answered, Open
<1> QED BY <1>3, <1>4

(* What a pushed frame leaves on the stack.                                *)
Extends(s, below) ==
    /\ s \in Seq(Frames) /\ s # <<>> /\ Len(below) \in Nat
    /\ Len(s) = Len(below) + 1 /\ DOMAIN s = 1..Len(s)
    /\ \A i \in 1..Len(below) : s[i] = below[i]

LEMMA FramePushed ==
    ASSUME NEW below \in Seq(Frames), NEW f \in Frames, NEW s, s = Append(below, f)
    PROVE  Extends(s, below) /\ s[Len(s)] = f
<1>1. /\ s \in Seq(Frames) /\ s # <<>> /\ Len(s) = Len(below) + 1 /\ s[Len(below) + 1] = f
      /\ \A i \in 1..Len(below) : s[i] = below[i]
  BY AppendProperties
<1>2. Len(below) \in Nat
  BY LenProperties
<1>3. DOMAIN s = 1..Len(s)
  BY <1>1, LenProperties
<1> QED BY <1>1, <1>2, <1>3 DEF Extends

LEMMA JsPushed ==
    ASSUME NEW r \in Requests, NEW below \in Seq(Frames), NEW s,
           s = Append(below, Frame("js", r, ""))
    PROVE  Extends(s, below) /\ s[Len(s)].kind = "js"
<1>1. Frame("js", r, "") \in Frames
  BY FrameType
<1>2. Extends(s, below) /\ s[Len(s)] = Frame("js", r, "")
  BY <1>1, FramePushed, Zenon
<1>3. Frame("js", r, "").kind = "js"
  BY DEF Frame
<1> QED BY <1>2, <1>3, Zenon

LEMMA SyncPushed ==
    ASSUME NEW r \in Requests, NEW below \in Seq(Frames), NEW s,
           s = Append(below, Frame("sync", r, ""))
    PROVE  Extends(s, below) /\ s[Len(s)].kind = "sync" /\ s[Len(s)].req = r
<1>1. Frame("sync", r, "") \in Frames
  BY FrameType
<1>2. Extends(s, below) /\ s[Len(s)] = Frame("sync", r, "")
  BY <1>1, FramePushed, Zenon
<1>3. Frame("sync", r, "").kind = "sync" /\ Frame("sync", r, "").req = r
  BY DEF Frame
<1> QED BY <1>2, <1>3, Zenon

LEMMA ResponsePushed ==
    ASSUME NEW below \in Seq(Frames)
    PROVE  /\ Extends(Response(below), below)
           /\ Response(below)[Len(Response(below))].kind = "response"
<1>1. Frame("response", None, "") \in Frames /\ Frame("response", None, "").kind = "response"
  BY FrameType DEF Frame
<1>2. /\ Extends(Response(below), below)
      /\ Response(below)[Len(Response(below))] = Frame("response", None, "")
  BY <1>1, FramePushed, Zenon DEF Response
<1> QED BY <1>1, <1>2, Zenon

(* returnSignedData() and returnSignFailure(), to a callback and to a      *)
(* blocking call.                                                          *)
LEMMA ReturnsToCallback ==
    ASSUME TypeOK, NEW cb \in Requests, NEW answer, NEW below \in Seq(Frames),
           Return(cb, answer, below)
    PROVE  /\ ~dialog'.visible /\ got' = [got EXCEPT ![cb] = Append(@, answer)]
           /\ UNCHANGED <<m_stoprequested, m_signedHash, m_signFailure>>
           /\ Extends(stack', below) /\ stack'[Len(stack')].kind = "js"
<1>1. cb # None
  BY Markers
<1>2. /\ dialog' = Hidden /\ got' = [got EXCEPT ![cb] = Append(@, answer)]
      /\ UNCHANGED <<m_stoprequested, m_signedHash, m_signFailure>>
      /\ stack' = Append(below, Frame("js", cb, ""))
  BY <1>1 DEF Return, Invoke
<1>3. Extends(stack', below) /\ stack'[Len(stack')].kind = "js"
  BY <1>2, JsPushed
<1>4. ~dialog'.visible
  BY <1>2, TypeParts DEF Hidden, DialogType, Windows
<1> QED BY <1>2, <1>3, <1>4

LEMMA ReturnsToCall ==
    ASSUME TypeOK, NEW answer, NEW below \in Seq(Frames), Return(None, answer, below)
    PROVE  /\ ~dialog'.visible /\ m_stoprequested' /\ stack' = below /\ got' = got
           /\ IF answer = Failed THEN m_signFailure' = TRUE
              ELSE m_signedHash' = answer /\ m_signFailure' = m_signFailure
<1>1. /\ dialog' = Hidden /\ m_stoprequested' = TRUE /\ stack' = below /\ got' = got
      /\ m_signedHash' = (IF answer = Failed THEN m_signedHash ELSE answer)
      /\ m_signFailure' = (m_signFailure \/ answer = Failed)
  BY DEF Return
<1>2. ~dialog'.visible
  BY <1>1, TypeParts DEF Hidden, DialogType, Windows
<1> QED BY <1>1, <1>2, TypeParts DEF PluginType

LEMMA BlocksWith ==
    ASSUME TypeOK, NEW r \in Requests \union {None}, NEW why \in {"return", "throw"},
           NEW below \in Seq(Frames), Blocked(r, why, below)
    PROVE  /\ ~dialog'.visible /\ Extends(stack', below)
           /\ stack'[Len(stack')].kind = "blocked"
           /\ stack'[Len(stack')].req = r /\ stack'[Len(stack')].then = why
<1>1. ~dialog'.visible
  BY TypeParts DEF Blocked, Hidden, DialogType, Windows
<1>2. stack' = Append(below, Frame("blocked", r, why))
  BY DEF Blocked
<1>3. Frame("blocked", r, why) \in Frames
  BY FrameType
<1>4. Extends(stack', below) /\ stack'[Len(stack')] = Frame("blocked", r, why)
  BY <1>2, <1>3, FramePushed, Zenon
<1>5. /\ Frame("blocked", r, why).kind = "blocked" /\ Frame("blocked", r, why).req = r
      /\ Frame("blocked", r, why).then = why
  BY DEF Frame
<1> QED BY <1>1, <1>4, <1>5, Zenon

LEMMA StackLen ==
    ASSUME StackType
    PROVE  /\ Len(stack) \in Nat /\ DOMAIN stack = 1..Len(stack)
           /\ stack = <<>> <=> Len(stack) = 0
BY Empty, LenProperties DEF StackType

(* Between calls.                                                          *)
LEMMA BetweenCalls ==
    ASSUME TypeInv, SequentialInv, Sequential, NEW r \in Requests, MayCall(r)
    PROVE  /\ stack = <<>> /\ Len(stack) = 0 /\ ~entry /\ ~dialog.visible /\ ~m_signFailure
           /\ m_signCallback = None /\ r \notin asked /\ got[r] = <<>> /\ r \notin consent
           /\ \A q \in Requests : Answered(q) /\ ~Open(q)
<1>1. StackType /\ PageType
  BY TypeParts DEF TypeInv
<1>2. stack = <<>> /\ Len(stack) = 0 /\ DOMAIN stack = {}
  BY <1>1, StackLen DEF MayCall, Sequential
<1>3. \A q \in Requests : Answered(q) /\ ~Open(q)
  BY DEF SequentialInv, MayCall, Sequential, Open
<1>4. Idle
  BY <1>3 DEF SequentialInv, Sole
<1>5. r \notin asked
  BY Markers DEF MayCall
<1> QED BY <1>2, <1>3, <1>4, <1>5 DEF Idle, SequentialInv, Top, Answered

(* While the user is asked.                                                *)
LEMMA Asking ==
    ASSUME TypeInv, SequentialInv, Sequential, CanRespond
    PROVE  \E r \in Requests :
              /\ Sole(r) /\ r \notin consent /\ \A q \in Requests : Answered(q)
              /\ dialog.doc = r /\ m_hash = r /\ ~m_signFailure /\ ~entry
              /\ \/ m_signCallback = r /\ stack = <<>> /\ Len(stack) = 0
                 \/ /\ m_signCallback = None /\ Len(stack) = 1 /\ stack[1].kind = "sync"
                    /\ stack[1].req = r /\ ~m_stoprequested
<1>1. StackType /\ Len(stack) \in Nat /\ DOMAIN stack = 1..Len(stack)
      /\ (stack = <<>> <=> Len(stack) = 0)
  BY TypeParts, StackLen DEF TypeInv
<1>2. PICK r \in Requests : Sole(r) /\ (AsyncOpen(r) \/ SyncOpen(r))
  BY DEF SequentialInv, CanRespond, Idle
<1>3. dialog.visible /\ (stack = <<>> \/ (Top("sync") /\ ~m_stoprequested))
  BY DEF CanRespond, InLoop
<1>4. CASE AsyncOpen(r)
  <2>1. m_signCallback = r /\ m_hash = r /\ ~m_signFailure /\ r \notin consent
        /\ dialog.doc = r /\ Len(stack) <= 1 /\ Responses(Len(stack))
    BY <1>3, <1>4 DEF AsyncOpen
  <2>2. stack = <<>> /\ Len(stack) = 0
    BY <1>1, <1>3, <2>1 DEF Responses, Top
  <2>3. ~entry
    BY <1>1, <2>2 DEF SequentialInv
  <2> QED BY <1>2, <2>1, <2>2, <2>3 DEF SequentialInv
<1>5. CASE SyncOpen(r)
  <2>1. /\ m_signCallback = None /\ m_hash = r
        /\ At(1, "sync") /\ stack[1].req = r
        /\ Len(stack) <= 2 /\ (Len(stack) = 2 => At(2, "response"))
        /\ SyncAsks(r)
    BY <1>3, <1>5 DEF SyncOpen, SyncTold
  <2>2. Len(stack) = 1 /\ stack[1].kind = "sync"
    BY <1>1, <1>3, <2>1 DEF At, Top
  <2>3. ~entry
    BY <1>1, <2>2 DEF SequentialInv
  <2> QED BY <1>2, <2>1, <2>2, <2>3 DEF SequentialInv, SyncAsks
<1> QED BY <1>2, <1>4, <1>5

(* A sequential page makes a call.                                         *)
LEMMA SequentialCall ==
    ASSUME TypeInv, SequentialInv, Sequential, NEW r \in Requests, NEW far \in Progress,
           signAsync(r, far) \/ askPinAndSign(r, far)
    PROVE  SequentialInv'
<1> USE Markers
<1>1. TypeOK /\ PageType /\ DialogType /\ PluginType /\ stack \in Seq(Frames)
  BY TypeParts DEF TypeInv, StackType
<1>2. MayCall(r) /\ asked' = asked \union {r} /\ UNCHANGED <<entry, consent>>
  BY DEF signAsync, askPinAndSign
<1>3. /\ stack = <<>> /\ Len(stack) = 0 /\ ~entry /\ ~dialog.visible /\ ~m_signFailure
      /\ m_signCallback = None /\ r \notin asked /\ got[r] = <<>> /\ r \notin consent
      /\ \A q \in Requests : Answered(q) /\ ~Open(q)
  BY <1>2, BetweenCalls
<1>4. ASSUME got' = [got EXCEPT ![r] = Append(@, Failed)], Idle' PROVE SequentialInv'
  <2>1. \A q \in Requests : Answered(q)' /\ ~Open(q)'
    BY <1>1, <1>2, <1>3, <1>4, ClosedAnswers
  <2> QED BY <1>2, <1>3, <1>4, <2>1 DEF SequentialInv
<1>5. ASSUME got' = got, AsyncOpen(r)' \/ SyncOpen(r)' PROVE SequentialInv'
  <2>1. (\A q \in Requests : Answered(q)') /\ Sole(r)'
    BY <1>1, <1>2, <1>3, <1>5, OpenedAnswers
  <2> QED BY <1>2, <1>3, <1>5, <2>1 DEF SequentialInv
<1>6. ASSUME got' = [got EXCEPT ![r] = Append(@, Failed)]
      PROVE  \A q \in Requests : ~Open(q)'
  BY <1>1, <1>2, <1>3, <1>6, ClosedAnswers
<1>7. CASE signAsync(r, far)
  <2>1. m_signCallback' = r /\ (far = "ok" => m_hash' = r)
    BY <1>7 DEF signAsync
  <2>2. CASE far # "ok"
    <3>1. Return(r, Failed, stack)
      BY <1>7, <2>2 DEF signAsync
    <3>2. /\ ~dialog'.visible /\ got' = [got EXCEPT ![r] = Append(@, Failed)]
          /\ m_signFailure' = m_signFailure
          /\ Extends(stack', stack) /\ stack'[Len(stack')].kind = "js"
      BY <1>1, <3>1, ReturnsToCallback
    <3>3. Idle'
      BY <1>3, <1>6, <2>1, <3>2 DEF Idle, Top, Responses, Extends
    <3> QED BY <1>4, <3>2, <3>3
  <2>3. CASE far = "ok" /\ tries = 0
    <3>1. Blocked(r, "return", stack) /\ UNCHANGED <<m_signFailure, got>>
      BY <1>7, <2>3 DEF signAsync
    <3>2. /\ ~dialog'.visible /\ Extends(stack', stack)
          /\ stack'[Len(stack')].kind = "blocked" /\ stack'[Len(stack')].then = "return"
      BY <1>1, <3>1, BlocksWith
    <3>3. AsyncOpen(r)'
      BY <1>2, <1>3, <2>1, <2>3, <3>1, <3>2
      DEF AsyncOpen, Message, Top, TopFrame, Responses, Extends
    <3> QED BY <1>5, <3>1, <3>3
  <2>4. CASE far = "ok" /\ tries # 0
    <3>1. dialog' = Shown(r) /\ UNCHANGED <<stack, m_signFailure, got>>
      BY <1>7, <2>4 DEF signAsync
    <3>2. dialog'.visible /\ dialog'.doc = r
      BY <1>3, <2>4, <3>1, ShownType
    <3>3. AsyncOpen(r)'
      BY <1>2, <1>3, <2>1, <2>4, <3>1, <3>2 DEF AsyncOpen, Responses
    <3> QED BY <1>5, <3>1, <3>3
  <2> QED BY <2>2, <2>3, <2>4
<1>8. CASE askPinAndSign(r, far)
  <2>1. /\ UNCHANGED <<m_signCallback, m_signFailure>>
        /\ far = "ok" => m_hash' = r
    BY <1>8 DEF askPinAndSign
  <2>2. CASE far # "ok"
    <3>1. got' = [got EXCEPT ![r] = Append(@, Failed)] /\ UNCHANGED <<dialog, stack>>
      BY <1>8, <2>2 DEF askPinAndSign
    <3>2. Idle'
      BY <1>3, <1>6, <2>1, <3>1 DEF Idle, Responses
    <3> QED BY <1>4, <3>1, <3>2
  <2>3. CASE far = "ok" /\ tries = 0
    <3>1. Blocked(r, "throw", stack) /\ got' = got
      BY <1>8, <2>3 DEF askPinAndSign
    <3>2. /\ ~dialog'.visible /\ Extends(stack', stack)
          /\ stack'[Len(stack')].kind = "blocked" /\ stack'[Len(stack')].then = "throw"
          /\ stack'[Len(stack')].req = r
      BY <1>1, <3>1, BlocksWith
    <3>3. SyncOpen(r)'
      BY <1>2, <1>3, <2>1, <2>3, <3>2 DEF SyncOpen, Message, Top, TopFrame, Extends
    <3> QED BY <1>5, <3>1, <3>3
  <2>4. CASE far = "ok" /\ tries # 0
    <3>1. /\ dialog' = Shown(r) /\ m_stoprequested' = FALSE /\ got' = got
          /\ stack' = Append(stack, Frame("sync", r, ""))
      BY <1>8, <2>4 DEF askPinAndSign
    <3>2. dialog'.visible /\ dialog'.doc = r
      BY <1>3, <2>4, <3>1, ShownType
    <3>3. /\ Extends(stack', stack)
          /\ stack'[Len(stack')].kind = "sync" /\ stack'[Len(stack')].req = r
      BY <1>1, <3>1, SyncPushed
    <3>4. SyncOpen(r)'
      <4>1. Len(stack') = 1 /\ At(1, "sync")' /\ stack'[1].req = r
        BY <1>3, <3>3 DEF At, Extends
      <4>2. SyncAsks(r)'
        BY <1>2, <1>3, <2>1, <3>1, <3>2 DEF SyncAsks
      <4> QED BY <1>3, <2>1, <2>4, <4>1, <4>2 DEF SyncOpen
    <3> QED BY <1>5, <3>1, <3>4
  <2> QED BY <2>2, <2>3, <2>4 DEF Progress
<1> QED BY <1>7, <1>8

(* The user answers the dialog: a failure or, with consent, the signature. *)
LEMMA SequentialAnswer ==
    ASSUME TypeInv, SequentialInv, Sequential, CanRespond, UNCHANGED <<m_signCallback, m_hash, asked>>,
           \/ /\ Return(m_signCallback, m_hash, Response(stack))
              /\ consent' = consent \union {dialog.doc}
           \/ /\ Return(m_signCallback, Failed, Response(stack))
              /\ consent' = consent
    PROVE  SequentialInv'
<1> USE Markers
<1>1. TypeOK /\ PageType /\ PluginType /\ stack \in Seq(Frames)
  BY TypeParts DEF TypeInv, StackType
<1>2. PICK r \in Requests :
         /\ Sole(r) /\ r \notin consent /\ \A q \in Requests : Answered(q)
         /\ dialog.doc = r /\ m_hash = r /\ ~m_signFailure /\ ~entry
         /\ \/ m_signCallback = r /\ stack = <<>> /\ Len(stack) = 0
            \/ /\ m_signCallback = None /\ Len(stack) = 1 /\ stack[1].kind = "sync"
               /\ stack[1].req = r /\ ~m_stoprequested
  BY Asking
<1> DEFINE below == Response(stack)
<1>3. below \in Seq(Frames) /\ Extends(below, stack) /\ below[Len(below)].kind = "response"
  BY <1>1, ResponseType, ResponsePushed
<1> HIDE DEF below
<1>4. PICK answer \in {Failed, r} :
         /\ Return(m_signCallback, answer, below)
         /\ consent' = IF answer = r THEN consent \union {r} ELSE consent
  BY <1>2 DEF below
<1>5. CASE m_signCallback = r /\ stack = <<>> /\ Len(stack) = 0
  <2>1. Return(r, answer, below)
    BY <1>4, <1>5
  <2>2. /\ ~dialog'.visible /\ got' = [got EXCEPT ![r] = Append(@, answer)]
        /\ m_signFailure' = m_signFailure
        /\ Extends(stack', below) /\ stack'[Len(stack')].kind = "js"
    BY <1>1, <1>3, <2>1, ReturnsToCallback
  <2>3. got[r] = <<>> /\ r \in asked /\ asked' = asked \union {r}
    BY <1>2 DEF Sole, Open
  <2>4. /\ consent' \in {consent, consent \union {r}}
        /\ answer = r <=> r \in consent'
        /\ \A q \in Requests : Answered(q) /\ (Open(q) => q = r)
    BY <1>2, <1>4 DEF Sole
  <2>5. \A q \in Requests : Answered(q)' /\ ~Open(q)'
    BY <1>1, <2>2, <2>3, <2>4, ClosedAnswers
  <2>6. /\ Len(stack') = 2 /\ DOMAIN stack' = 1..2 /\ stack' # <<>>
        /\ stack'[1].kind = "response" /\ stack'[2].kind = "js"
    BY <1>3, <1>5, <2>2 DEF Extends
  <2>7. Idle'
    BY <1>2, <1>5, <2>2, <2>5, <2>6 DEF Idle, Top, Responses
  <2> QED BY <2>5, <2>6, <2>7 DEF SequentialInv
<1>6. CASE /\ m_signCallback = None /\ Len(stack) = 1 /\ stack[1].kind = "sync"
           /\ stack[1].req = r /\ ~m_stoprequested
  <2>1. Return(None, answer, below)
    BY <1>4, <1>6
  <2>2. /\ ~dialog'.visible /\ m_stoprequested' /\ stack' = below /\ got' = got
        /\ IF answer = Failed THEN m_signFailure' = TRUE
           ELSE m_signedHash' = answer /\ m_signFailure' = m_signFailure
    BY <1>1, <1>3, <2>1, ReturnsToCall
  <2>3. (\A q \in Requests : Answered(q)') /\ Sole(r)'
    <3>1. CASE answer = r
      BY <1>1, <1>2, <1>4, <2>2, <3>1, ConsentedAnswers
    <3>2. CASE answer = Failed
      BY <1>2, <1>4, <2>2, <3>2 DEF Answered, Sole, Open
    <3> QED BY <3>1, <3>2
  <2>4. /\ Len(stack') = 2 /\ DOMAIN stack' = 1..2
        /\ stack'[1] = stack[1] /\ stack'[2].kind = "response"
    BY <1>3, <1>6, <2>2 DEF Extends
  <2>5. SyncTold(r)'
    BY <1>2, <1>4, <2>2 DEF SyncTold
  <2>6. SyncOpen(r)'
    BY <1>2, <1>6, <2>4, <2>5 DEF SyncOpen, At
  <2> QED BY <2>3, <2>4, <2>6 DEF SequentialInv
<1> QED BY <1>2, <1>5, <1>6

(* A wrong PIN after which the card is still there.                        *)
LEMMA SequentialRetry ==
    ASSUME TypeInv, SequentialInv, Sequential, PinWrong(FALSE)
    PROVE  SequentialInv'
<1> USE Markers
<1>1. TypeOK /\ PageType /\ DialogType /\ PluginType /\ stack \in Seq(Frames) /\ CanRespond
  BY TypeParts DEF TypeInv, StackType, PinWrong
<1>2. PICK r \in Requests :
         /\ Sole(r) /\ r \notin consent /\ \A q \in Requests : Answered(q)
         /\ dialog.doc = r /\ m_hash = r /\ ~m_signFailure /\ ~entry
         /\ \/ m_signCallback = r /\ stack = <<>> /\ Len(stack) = 0
            \/ /\ m_signCallback = None /\ Len(stack) = 1 /\ stack[1].kind = "sync"
               /\ stack[1].req = r /\ ~m_stoprequested
  BY <1>1, Asking
<1> DEFINE below == Response(stack)
<1>3. below \in Seq(Frames) /\ Extends(below, stack) /\ below[Len(below)].kind = "response"
  BY <1>1, ResponseType, ResponsePushed
<1> HIDE DEF below
<1>4. /\ UNCHANGED <<m_signCallback, m_hash, m_stoprequested, m_signedHash, m_signFailure,
                      got, asked, consent>>
      /\ IF tries' = 0 THEN Blocked(None, "return", below)
         ELSE dialog' = [dialog EXCEPT !.triesLeft = tries'] /\ stack' = below
  BY DEF PinWrong, below
<1>5. (\A q \in Requests : Answered(q)') /\ Sole(r)'
  BY <1>2, <1>4 DEF Answered, Sole, Open
<1>6. CASE tries' = 0
  <2>1. /\ ~dialog'.visible /\ Extends(stack', below)
        /\ stack'[Len(stack')].kind = "blocked" /\ stack'[Len(stack')].then = "return"
    BY <1>1, <1>3, <1>4, <1>6, BlocksWith
  <2>2. Message("return")'
    BY <2>1 DEF Message, Top, TopFrame, Extends
  <2>3. CASE m_signCallback = r /\ stack = <<>> /\ Len(stack) = 0
    <3>1. Len(stack') = 2 /\ DOMAIN stack' = 1..2 /\ stack'[1].kind = "response"
      BY <1>3, <2>1, <2>3 DEF Extends
    <3>2. AsyncOpen(r)'
      BY <1>2, <1>4, <2>1, <2>2, <2>3, <3>1 DEF AsyncOpen, Responses
    <3> QED BY <1>5, <3>1, <3>2 DEF SequentialInv
  <2>4. CASE /\ m_signCallback = None /\ Len(stack) = 1 /\ stack[1].kind = "sync"
             /\ stack[1].req = r
    <3>1. /\ Len(stack') = 3 /\ DOMAIN stack' = 1..3
          /\ stack'[1] = stack[1] /\ stack'[2].kind = "response"
      BY <1>3, <2>1, <2>4 DEF Extends
    <3>2. SyncOpen(r)'
      BY <1>2, <1>4, <2>1, <2>2, <2>4, <3>1 DEF SyncOpen, At
    <3> QED BY <1>5, <3>1, <3>2 DEF SequentialInv
  <2> QED BY <1>2, <2>3, <2>4
<1>7. CASE tries' # 0
  <2>1. dialog' = [dialog EXCEPT !.triesLeft = tries'] /\ stack' = below
    BY <1>4, <1>7
  <2>2. dialog'.visible /\ dialog'.doc = r
    BY <1>1, <1>2, <2>1 DEF CanRespond, DialogType, Windows
  <2>3. CASE m_signCallback = r /\ stack = <<>> /\ Len(stack) = 0
    <3>1. Len(stack') = 1 /\ DOMAIN stack' = 1..1 /\ stack'[1].kind = "response"
      BY <1>3, <2>1, <2>3 DEF Extends
    <3>2. AsyncOpen(r)'
      BY <1>2, <1>4, <2>2, <2>3, <3>1 DEF AsyncOpen, Responses
    <3> QED BY <1>5, <3>1, <3>2 DEF SequentialInv
  <2>4. CASE /\ m_signCallback = None /\ Len(stack) = 1 /\ stack[1].kind = "sync"
             /\ stack[1].req = r /\ ~m_stoprequested
    <3>1. /\ Len(stack') = 2 /\ DOMAIN stack' = 1..2
          /\ stack'[1] = stack[1] /\ stack'[2].kind = "response"
      BY <1>3, <2>1, <2>4 DEF Extends
    <3>2. SyncAsks(r)'
      BY <1>2, <1>4, <2>2, <2>4 DEF SyncAsks
    <3>3. SyncOpen(r)'
      BY <1>2, <1>4, <2>4, <3>1, <3>2 DEF SyncOpen, At
    <3> QED BY <1>5, <3>1, <3>3 DEF SequentialInv
  <2> QED BY <1>2, <2>3, <2>4
<1> QED BY <1>6, <1>7

(* A blocking call that has been told to stop returns.                     *)
LEMMA Told ==
    ASSUME TypeInv, SequentialInv, Sequential, Top("sync"), m_stoprequested
    PROVE  \E r \in Requests :
              /\ Sole(r) /\ SyncTold(r) /\ m_signCallback = None
              /\ Len(stack) = 1 /\ stack[1].kind = "sync" /\ stack[1].req = r /\ ~entry
<1>1. Len(stack) \in Nat /\ DOMAIN stack = 1..Len(stack) /\ (stack = <<>> <=> Len(stack) = 0)
  BY TypeParts, StackLen DEF TypeInv
<1>2. Len(stack) # 0 /\ stack[Len(stack)].kind = "sync"
  BY <1>1 DEF Top
<1>3. ~Idle
  BY <1>1, <1>2 DEF Idle, Top, Responses
<1>4. PICK r \in Requests : Sole(r) /\ (AsyncOpen(r) \/ SyncOpen(r))
  BY <1>3 DEF SequentialInv
<1>5. ~AsyncOpen(r)
  BY <1>1, <1>2 DEF AsyncOpen, Message, Top, Responses
<1>6. /\ m_signCallback = None /\ Len(stack) = 1 /\ stack[1].kind = "sync"
      /\ stack[1].req = r /\ SyncTold(r)
  BY <1>1, <1>2, <1>4, <1>5 DEF SyncOpen, SyncAsks, Message, At, Top
<1>7. ~entry
  BY <1>1, <1>6 DEF SequentialInv
<1> QED BY <1>4, <1>6, <1>7

LEMMA SequentialSyncReturn ==
    ASSUME TypeInv, SequentialInv, Sequential, SyncReturn
    PROVE  SequentialInv'
<1> USE Markers
<1>1. StackType /\ PageType /\ stack # <<>>
  BY TypeParts DEF TypeInv, SyncReturn, Top
<1>2. PICK r \in Requests :
         /\ Sole(r) /\ SyncTold(r) /\ m_signCallback = None
         /\ Len(stack) = 1 /\ stack[1].kind = "sync" /\ stack[1].req = r /\ ~entry
  BY Told DEF SyncReturn
<1> DEFINE answer == IF m_signFailure THEN Failed ELSE m_signedHash
<1>3. /\ got' = [got EXCEPT ![r] = Append(@, answer)] /\ m_signFailure' = FALSE
      /\ stack' = Below
      /\ UNCHANGED <<m_signCallback, dialog, entry, asked, consent>>
  BY <1>2 DEF SyncReturn, TopFrame
<1>4. answer \in {Failed, r} /\ (answer = r <=> r \in consent)
  BY <1>2 DEF SyncTold
<1> HIDE DEF answer
<1>5. /\ got[r] = <<>> /\ asked' = asked \union {r} /\ consent' \in {consent, consent \union {r}}
      /\ \A q \in Requests : Answered(q) /\ (Open(q) => q = r)
  BY <1>2, <1>3 DEF Sole, Open, SequentialInv
<1>6. \A q \in Requests : Answered(q)' /\ ~Open(q)'
  BY <1>1, <1>3, <1>4, <1>5, ClosedAnswers
<1>7. Len(stack') = 0
  BY <1>1, <1>2, <1>3, TopType
<1>8. Idle'
  BY <1>2, <1>3, <1>6, <1>7 DEF Idle, SyncTold, Responses
<1> QED BY <1>2, <1>3, <1>6, <1>8 DEF SequentialInv

(* The page's callback returns.                                            *)
LEMMA SequentialJsReturn ==
    ASSUME TypeInv, SequentialInv, Sequential, JsReturn
    PROVE  SequentialInv'
<1>1. /\ StackType /\ Len(stack) \in Nat \ {0} /\ DOMAIN stack = 1..Len(stack)
      /\ stack[Len(stack)].kind = "js"
  BY TypeParts, StackLen DEF TypeInv, JsReturn, Top
<1>2. /\ m_signCallback' = None /\ UNCHANGED <<dialog, m_signFailure, entry, asked, got, consent>>
  BY DEF JsReturn
<1>3. /\ stack' \in Seq(Frames) /\ Len(stack') = Len(stack) - 1
      /\ \A i \in 1..(Len(stack) - 1) : stack'[i] = stack[i]
  BY <1>1, TopType, StackLen DEF JsReturn
<1>4. DOMAIN stack' = 1..(Len(stack) - 1)
  BY <1>3, LenProperties
<1>5. ASSUME NEW r \in Requests PROVE ~AsyncOpen(r) /\ ~SyncOpen(r)
  BY <1>1 DEF AsyncOpen, SyncOpen, Message, Top, Responses, At
<1>6. Idle
  BY <1>5 DEF SequentialInv
<1>7. Len(stack) <= 2 /\ Responses(Len(stack) - 1)
  BY <1>1, <1>6 DEF Idle, Responses, Top
<1>8. Idle'
  BY <1>1, <1>2, <1>3, <1>6, <1>7 DEF Idle, Responses, Open
<1>9. entry => \E i \in 1..(Len(stack) - 1) : stack'[i].kind = "response"
  BY <1>1, <1>3, <1>7 DEF SequentialInv, Responses
<1> QED BY <1>2, <1>4, <1>8, <1>9 DEF SequentialInv, Answered

(* on_pininputdialog_response() returns.                                   *)
LEMMA SequentialResponseReturn ==
    ASSUME TypeInv, SequentialInv, Sequential, ResponseReturn
    PROVE  SequentialInv'
<1>1. /\ StackType /\ Len(stack) \in Nat \ {0} /\ DOMAIN stack = 1..Len(stack)
      /\ stack[Len(stack)].kind = "response"
  BY TypeParts, StackLen DEF TypeInv, ResponseReturn, Top
<1>2. /\ entry' = FALSE /\ UNCHANGED <<plugin, dialog, asked, got, consent>>
  BY DEF ResponseReturn
<1>3. /\ stack' \in Seq(Frames) /\ Len(stack') = Len(stack) - 1
      /\ \A i \in 1..(Len(stack) - 1) : stack'[i] = stack[i]
  BY <1>1, TopType, StackLen DEF ResponseReturn
<1>4. DOMAIN stack' = 1..(Len(stack) - 1)
  BY <1>3, LenProperties
<1>5. \A q \in Requests : (Sole(q) => Sole(q)') /\ (Answered(q) => Answered(q)')
  BY <1>2 DEF Sole, Open, Answered
<1>6. CASE Idle
  <2>1. Idle'
    BY <1>1, <1>2, <1>3, <1>6 DEF Idle, Responses, Top, Open, plugin
  <2> QED BY <1>2, <1>5, <2>1 DEF SequentialInv
<1>7. ASSUME NEW r \in Requests, Sole(r), AsyncOpen(r) PROVE SequentialInv'
  <2>1. AsyncOpen(r)'
    BY <1>1, <1>2, <1>3, <1>7 DEF AsyncOpen, Message, Responses, Top, plugin
  <2> QED BY <1>2, <1>5, <1>7, <2>1 DEF SequentialInv
<1>8. ASSUME NEW r \in Requests, Sole(r), SyncOpen(r) PROVE SequentialInv'
  <2>1. /\ m_signCallback = None /\ m_hash = r /\ At(1, "sync") /\ stack[1].req = r
        /\ Len(stack) <= 2 /\ (SyncAsks(r) \/ SyncTold(r))
    BY <1>1, <1>8 DEF SyncOpen, Message, Top
  <2>2. Len(stack) = 2
    BY <1>1, <2>1 DEF At
  <2>3. At(1, "sync")' /\ stack'[1].req = r /\ Len(stack') = 1
    BY <1>3, <1>4, <2>1, <2>2 DEF At
  <2>4. SyncOpen(r)'
    BY <1>2, <2>1, <2>3 DEF SyncOpen, SyncAsks, SyncTold, plugin
  <2> QED BY <1>2, <1>5, <1>8, <2>4 DEF SequentialInv
<1> QED BY <1>6, <1>7, <1>8 DEF SequentialInv

(* While the message is open: it is the message of the open request.       *)
LEMMA Messaged ==
    ASSUME TypeInv, SequentialInv, Sequential, Top("blocked")
    PROVE  \E r \in Requests :
              /\ Sole(r) /\ m_hash = r /\ r \notin consent /\ ~dialog.visible /\ ~m_signFailure
              /\ \/ /\ m_signCallback = r /\ Message("return")
                    /\ Len(stack) <= 2 /\ Responses(Len(stack) - 1)
                 \/ /\ m_signCallback = None /\ Message("return") /\ Len(stack) = 3
                    /\ stack[1].kind = "sync" /\ stack[1].req = r /\ stack[2].kind = "response"
                 \/ /\ m_signCallback = None /\ Message("throw") /\ TopFrame.req = r
                    /\ Len(stack) = 1
<1>1. /\ Len(stack) \in Nat /\ DOMAIN stack = 1..Len(stack) /\ Len(stack) # 0
      /\ stack[Len(stack)].kind = "blocked"
  BY TypeParts, StackLen DEF TypeInv, Top
<1>2. ~Idle
  BY <1>1 DEF Idle, Top, Responses
<1>3. PICK r \in Requests : Sole(r) /\ (AsyncOpen(r) \/ SyncOpen(r))
  BY <1>2 DEF SequentialInv
<1>4. CASE AsyncOpen(r)
  BY <1>1, <1>3, <1>4 DEF AsyncOpen, Responses
<1>5. CASE SyncOpen(r)
  BY <1>1, <1>3, <1>5 DEF SyncOpen, At
<1> QED BY <1>3, <1>4, <1>5

LEMMA SequentialCloseBlocked ==
    ASSUME TypeInv, SequentialInv, Sequential, CloseBlocked
    PROVE  SequentialInv'
<1> USE Markers
<1>1. TypeOK /\ PageType /\ PluginType /\ StackType /\ Top("blocked") /\ stack # <<>>
  BY TypeParts DEF TypeInv, CloseBlocked, Top
<1>2. /\ Below \in Seq(Frames) /\ Len(stack) \in Nat \ {0} /\ Len(Below) = Len(stack) - 1
      /\ \A i \in 1..(Len(stack) - 1) : Below[i] = stack[i]
  BY <1>1, TopType
<1>3. DOMAIN Below = 1..(Len(stack) - 1) /\ DOMAIN stack = 1..Len(stack)
  BY <1>1, <1>2, StackLen, LenProperties
<1>4. UNCHANGED <<m_signCallback, m_hash, entry, asked, consent>>
  BY DEF CloseBlocked
<1>5. PICK r \in Requests :
         /\ Sole(r) /\ m_hash = r /\ r \notin consent /\ ~dialog.visible /\ ~m_signFailure
         /\ \/ /\ m_signCallback = r /\ Message("return")
               /\ Len(stack) <= 2 /\ Responses(Len(stack) - 1)
            \/ /\ m_signCallback = None /\ Message("return") /\ Len(stack) = 3
               /\ stack[1].kind = "sync" /\ stack[1].req = r /\ stack[2].kind = "response"
            \/ /\ m_signCallback = None /\ Message("throw") /\ TopFrame.req = r
               /\ Len(stack) = 1
  BY <1>1, Messaged
<1>6. ASSUME got' = [got EXCEPT ![r] = Append(@, Failed)]
      PROVE  \A q \in Requests : Answered(q)' /\ ~Open(q)'
  <2>1. /\ got[r] = <<>> /\ asked' = asked \union {r}
        /\ consent' \in {consent, consent \union {r}} /\ (Failed = r <=> r \in consent')
        /\ \A q \in Requests : Answered(q) /\ (Open(q) => q = r)
    BY <1>4, <1>5 DEF Sole, Open, SequentialInv
  <2> QED BY <1>1, <1>6, <2>1, ClosedAnswers
<1>7. entry => \E i \in 1..(Len(stack) - 1) : Below[i].kind = "response"
  <2>1. entry => \E i \in 1..Len(stack) : stack[i].kind = "response"
    BY <1>3 DEF SequentialInv
  <2>2. stack[Len(stack)].kind = "blocked"
    BY <1>1 DEF Top
  <2>3. ASSUME NEW i \in 1..Len(stack), stack[i].kind = "response"
        PROVE  i \in 1..(Len(stack) - 1) /\ Below[i].kind = "response"
    BY <1>2, <2>2, <2>3
  <2> QED BY <2>1, <2>3
<1>8. CASE /\ m_signCallback = r /\ Message("return")
           /\ Len(stack) <= 2 /\ Responses(Len(stack) - 1)
  <2>1. Return(r, Failed, Below)
    BY <1>8 DEF CloseBlocked, Message
  <2>2. /\ ~dialog'.visible /\ got' = [got EXCEPT ![r] = Append(@, Failed)]
        /\ m_signFailure' = m_signFailure
        /\ Extends(stack', Below) /\ stack'[Len(stack')].kind = "js"
    BY <1>1, <1>2, <2>1, ReturnsToCallback
  <2>3. /\ Len(stack') = Len(stack) /\ DOMAIN stack' = 1..Len(stack) /\ stack' # <<>>
        /\ \A i \in 1..(Len(stack) - 1) : stack'[i] = stack[i]
    BY <1>2, <2>2 DEF Extends
  <2>4. \A q \in Requests : Answered(q)' /\ ~Open(q)'
    BY <1>6, <2>2
  <2>5. Idle'
    BY <1>2, <1>4, <1>5, <1>8, <2>2, <2>3, <2>4 DEF Idle, Top, Responses
  <2>6. entry' => \E i \in DOMAIN stack' : stack'[i].kind = "response"
    BY <1>2, <1>4, <1>7, <2>3
  <2> QED BY <2>4, <2>5, <2>6 DEF SequentialInv
<1>9. CASE /\ m_signCallback = None /\ Message("return") /\ Len(stack) = 3
           /\ stack[1].kind = "sync" /\ stack[1].req = r /\ stack[2].kind = "response"
  <2>1. Return(None, Failed, Below)
    BY <1>9 DEF CloseBlocked, Message
  <2>2. ~dialog'.visible /\ m_stoprequested' /\ stack' = Below /\ got' = got /\ m_signFailure' = TRUE
    BY <1>1, <1>2, <2>1, ReturnsToCall
  <2>3. /\ Len(stack') = 2 /\ DOMAIN stack' = 1..2
        /\ stack'[1] = stack[1] /\ stack'[2].kind = "response"
    BY <1>2, <1>3, <1>9, <2>2
  <2>4. SyncTold(r)'
    BY <1>4, <1>5, <2>2 DEF SyncTold
  <2>5. SyncOpen(r)'
    BY <1>4, <1>5, <1>9, <2>3, <2>4 DEF SyncOpen, At
  <2>6. (\A q \in Requests : Answered(q)') /\ Sole(r)'
    BY <1>4, <1>5, <2>2 DEF Answered, Sole, Open, SequentialInv
  <2> QED BY <2>3, <2>5, <2>6 DEF SequentialInv
<1>10. CASE /\ m_signCallback = None /\ Message("throw") /\ TopFrame.req = r
            /\ Len(stack) = 1
  <2>1. /\ got' = [got EXCEPT ![r] = Append(@, Failed)] /\ stack' = Below
        /\ UNCHANGED <<m_signFailure, dialog>>
    BY <1>10 DEF CloseBlocked, Message
  <2>2. \A q \in Requests : Answered(q)' /\ ~Open(q)'
    BY <1>6, <2>1
  <2>3. Len(stack') = 0 /\ ~entry
    BY <1>2, <1>7, <1>10, <2>1
  <2>4. Idle'
    BY <1>4, <1>5, <1>10, <2>1, <2>2, <2>3 DEF Idle, Responses
  <2> QED BY <1>4, <2>2, <2>3, <2>4 DEF SequentialInv
<1> QED BY <1>5, <1>8, <1>9, <1>10

LEMMA SequentialInit == Init => SequentialInv
<1> SUFFICES ASSUME Init PROVE SequentialInv
  OBVIOUS
<1>1. Len(stack) = 0 /\ \A r \in Requests : got[r] = <<>>
  BY EmptySeq DEF Init
<1> QED BY <1>1 DEF Init, SequentialInv, Answered, Idle, Open, Responses

LEMMA SequentialStep == TypeInv /\ SequentialInv /\ [Next]_vars => SequentialInv'
<1> SUFFICES ASSUME TypeInv, SequentialInv, [Next]_vars PROVE SequentialInv'
  OBVIOUS
<1>0. discipline' = discipline
  BY DEF Next, Page, User, Unwind, vars, signAsync, askPinAndSign, SyncReturn, JsReturn,
         ResponseReturn, PinRight, PinWrong, PinCancelled, CloseBlocked
<1>1. CASE ~Sequential
  BY <1>0, <1>1 DEF SequentialInv, Sequential
<1>2. CASE Sequential
  <2>1. CASE Page
    BY <1>2, <2>1, SequentialCall DEF Page
  <2>2. CASE PinRight \/ PinCancelled \/ PinWrong(TRUE)
    <3>1. CanRespond /\ UNCHANGED <<m_signCallback, m_hash, asked>>
      BY <2>2 DEF PinRight, PinCancelled, PinWrong
    <3>2. \/ /\ Return(m_signCallback, m_hash, Response(stack))
             /\ consent' = consent \union {dialog.doc}
          \/ /\ Return(m_signCallback, Failed, Response(stack))
             /\ consent' = consent
      BY <2>2 DEF PinRight, PinCancelled, PinWrong
    <3> QED BY <1>2, <3>1, <3>2, SequentialAnswer
  <2>3. CASE PinWrong(FALSE)
    BY <1>2, <2>3, SequentialRetry
  <2>4. CASE CloseBlocked
    BY <1>2, <2>4, SequentialCloseBlocked
  <2>5. CASE Unwind
    BY <1>2, <2>5, SequentialSyncReturn, SequentialJsReturn, SequentialResponseReturn DEF Unwind
  <2>6. CASE UNCHANGED vars
    BY <2>6 DEF vars, plugin, SequentialInv, Sequential, Answered, Idle, Sole, Open, AsyncOpen,
        SyncOpen, SyncAsks, SyncTold, At, Responses, Message, Top, TopFrame
  <2> QED BY <2>1, <2>2, <2>3, <2>4, <2>5, <2>6 DEF Next, User
<1> QED BY <1>1, <1>2

LEMMA SequentialInvariant == Spec => []SequentialInv
BY TypeInvariant, SequentialInit, SequentialStep, PTL DEF Spec

(* pinDialog(), prepareSign() and on_pininputdialog_response(): a page that *)
(* waits for its answers has the user asked for a PIN with the document    *)
(* shown that the PIN will sign, and with an empty entry.                  *)
THEOREM PromptCorrect == Spec => []PromptIsFresh
<1>1. TypeInv /\ SequentialInv => PromptIsFresh
  BY Asking DEF PromptIsFresh
<1> QED BY <1>1, TypeInvariant, SequentialInvariant, PTL

-----------------------------------------------------------------------------
(***************************************************************************)
(* What such a page is answered is what SignRequest says: every step is a  *)
(* step of it on one request, or none.                                     *)
(***************************************************************************)

phases     == [r \in Requests |-> IF Sequential THEN Phase(r) ELSE "idle"]
consenteds == IF Sequential THEN consent ELSE {}

LEMMA PhaseOf ==
    ASSUME NEW r \in Requests, Answered(r)
    PROVE  /\ got[r] = <<>> /\ r \notin asked => Phase(r) = "idle"
           /\ got[r] = <<>> /\ r \in asked => Phase(r) = "open"
           /\ got[r] = <<Failed>> => Phase(r) = "failed"
           /\ got[r] = <<r>> => Phase(r) = "signed"
<1>1. <<Failed>> # <<>> /\ <<r>> # <<>> /\ <<Failed>> # <<r>>
  BY Markers
<1> QED BY <1>1 DEF Phase

(* A request's step, by what becomes of the answers.                       *)
Changes(r, answers, given) ==
    /\ Sequential /\ Sequential'
    /\ \A q \in Requests : Answered(q) /\ Answered(q)'
    /\ asked' = asked \union {r}
    /\ got' = [got EXCEPT ![r] = answers]
    /\ consent' = consent \union given

LEMMA ChangedPhase ==
    ASSUME PageType, NEW r \in Requests, NEW answers, NEW given,
           Changes(r, answers, given)
    PROVE  /\ phases' = [phases EXCEPT ![r] = Phase(r)'] /\ phases[r] = Phase(r)
           /\ consenteds = consent /\ consenteds' = consent \union given
<1>1. ASSUME NEW q \in Requests, q # r PROVE Phase(q)' = Phase(q)
  <2>1. got'[q] = got[q] /\ (q \in asked' <=> q \in asked)
    BY <1>1 DEF Changes, PageType
  <2> QED BY <2>1 DEF Phase
<1>2. phases = [q \in Requests |-> Phase(q)] /\ phases' = [q \in Requests |-> Phase(q)']
  BY DEF phases, Changes
<1>3. phases' = [phases EXCEPT ![r] = Phase(r)']
  BY <1>1, <1>2
<1>4. consenteds = consent /\ consenteds' = consent \union given
  BY DEF consenteds, Changes
<1> QED BY <1>2, <1>3, <1>4

LEMMA OpenStep ==
    ASSUME PageType, NEW r \in Requests, r \notin asked, got[r] = <<>>, Changes(r, <<>>, {})
    PROVE  Request!Open(r)
<1>1. got'[r] = <<>> /\ r \in asked' /\ Answered(r) /\ Answered(r)'
  BY DEF Changes, PageType
<1>2. Phase(r) = "idle"
  BY <1>1, PhaseOf
<1>3. Phase(r)' = "open"
  BY <1>1 DEF Phase
<1>4. /\ phases' = [phases EXCEPT ![r] = Phase(r)'] /\ phases[r] = Phase(r)
      /\ consenteds = consent /\ consenteds' = consent \union {}
  BY ChangedPhase, Zenon
<1>5. phases[r] = "idle" /\ phases' = [phases EXCEPT ![r] = "open"] /\ consenteds' = consenteds
  BY <1>2, <1>3, <1>4
<1> QED BY <1>5 DEF Request!Open, phases, consenteds

LEMMA RefuseStep ==
    ASSUME PageType, NEW r \in Requests, r \notin asked, got[r] = <<>>,
           Changes(r, <<Failed>>, {})
    PROVE  Request!Refuse(r)
<1>1. got'[r] = <<Failed>> /\ Answered(r) /\ Answered(r)'
  BY DEF Changes, PageType
<1>2. Phase(r) = "idle"
  BY <1>1, PhaseOf
<1>3. Phase(r)' = "failed"
  <2>1. <<Failed>> # <<>> /\ <<Failed>> # <<r>>
    BY Markers
  <2> QED BY <1>1, <2>1 DEF Phase
<1>4. /\ phases' = [phases EXCEPT ![r] = Phase(r)'] /\ phases[r] = Phase(r)
      /\ consenteds = consent /\ consenteds' = consent \union {}
  BY ChangedPhase, Zenon
<1>5. phases[r] = "idle" /\ phases' = [phases EXCEPT ![r] = "failed"] /\ consenteds' = consenteds
  BY <1>2, <1>3, <1>4
<1> QED BY <1>5 DEF Request!Refuse, phases, consenteds

LEMMA ConsentStep ==
    ASSUME PageType, NEW r \in Requests, Open(r), Changes(r, <<>>, {r})
    PROVE  Request!Consent(r)
<1>1. got'[r] = got[r] /\ got[r] = <<>> /\ r \in asked /\ r \in asked' /\ Answered(r)
  BY DEF Changes, PageType, Open
<1>2. Phase(r) = "open"
  BY <1>1, PhaseOf
<1>3. Phase(r)' = "open"
  BY <1>1 DEF Phase
<1>4. /\ phases' = [phases EXCEPT ![r] = Phase(r)'] /\ phases[r] = Phase(r)
      /\ consenteds = consent /\ consenteds' = consent \union {r}
  BY ChangedPhase, Zenon
<1>5. phases[r] = "open" /\ phases' = phases /\ consenteds' = consenteds \union {r}
  BY <1>2, <1>3, <1>4 DEF phases
<1> QED BY <1>5 DEF Request!Consent, phases, consenteds

LEMMA SignStep ==
    ASSUME PageType, NEW r \in Requests, Open(r), NEW given \in SUBSET {r},
           Changes(r, <<r>>, given), r \in consent'
    PROVE  Request!Sign(r)
<1>1. got'[r] = <<r>> /\ got[r] = <<>> /\ r \in asked /\ Answered(r) /\ Answered(r)'
  BY DEF Changes, PageType, Open
<1>2. Phase(r) = "open"
  BY <1>1, PhaseOf
<1>3. Phase(r)' = "signed"
  <2>1. <<r>> # <<>> /\ <<r>> # <<Failed>>
    BY Markers
  <2> QED BY <1>1, <2>1 DEF Phase
<1>4. /\ phases' = [phases EXCEPT ![r] = Phase(r)'] /\ phases[r] = Phase(r)
      /\ consenteds = consent /\ consenteds' = consent \union given
  BY ChangedPhase, Zenon
<1>5. /\ phases[r] = "open" /\ phases' = [phases EXCEPT ![r] = "signed"]
      /\ consenteds' \in {consenteds, consenteds \union {r}} /\ r \in consenteds'
  <2>1. given = {} \/ given = {r}
    OBVIOUS
  <2>2. r \in consenteds'
    BY DEF Changes, consenteds
  <2> QED BY <1>2, <1>3, <1>4, <2>1, <2>2
<1> QED BY <1>5 DEF Request!Sign, phases, consenteds

LEMMA FailStep ==
    ASSUME PageType, NEW r \in Requests, Open(r), r \notin consent, Changes(r, <<Failed>>, {})
    PROVE  Request!Fail(r)
<1>1. got'[r] = <<Failed>> /\ got[r] = <<>> /\ r \in asked /\ Answered(r) /\ Answered(r)'
  BY DEF Changes, PageType, Open
<1>2. Phase(r) = "open"
  BY <1>1, PhaseOf
<1>3. Phase(r)' = "failed"
  <2>1. <<Failed>> # <<>> /\ <<Failed>> # <<r>>
    BY Markers
  <2> QED BY <1>1, <2>1 DEF Phase
<1>4. /\ phases' = [phases EXCEPT ![r] = Phase(r)'] /\ phases[r] = Phase(r)
      /\ consenteds = consent /\ consenteds' = consent \union {}
  BY ChangedPhase, Zenon
<1>5. /\ phases[r] = "open" /\ r \notin consenteds
      /\ phases' = [phases EXCEPT ![r] = "failed"] /\ consenteds' = consenteds
  BY <1>2, <1>3, <1>4
<1> QED BY <1>5 DEF Request!Fail, phases, consenteds

LEMMA Stutter ==
    ASSUME UNCHANGED <<asked, got, consent, discipline>>
    PROVE  UNCHANGED Request!vars
BY DEF Request!vars, Phase, Sequential

LEMMA RequestInit == Init => Request!Init
<1> SUFFICES ASSUME Init PROVE Request!Init
  OBVIOUS
<1>1. \A r \in Requests : (IF Sequential THEN Phase(r) ELSE "idle") = "idle"
  BY DEF Init, Phase
<1>2. (IF Sequential THEN consent ELSE {}) = {}
  BY DEF Init
<1> QED BY <1>1, <1>2 DEF Request!Init

(* From what an action does to the answers to the step it takes.           *)
LEMMA AnswersStep ==
    ASSUME PageType, Sequential, Sequential', NEW r \in Requests,
           \A q \in Requests : Answered(q) /\ Answered(q)',
           got[r] = <<>>,
           asked' = asked \union {r},
           \/ /\ r \notin asked /\ consent' = consent
              /\ got' = got \/ got' = [got EXCEPT ![r] = Append(@, Failed)]
           \/ /\ r \in asked /\ got' = got /\ consent' = consent \union {r}
           \/ /\ r \in asked /\ got' = [got EXCEPT ![r] = Append(@, r)]
              /\ \E given \in SUBSET {r} : consent' = consent \union given
              /\ r \in consent'
           \/ /\ r \in asked /\ got' = [got EXCEPT ![r] = Append(@, Failed)]
              /\ consent' = consent /\ r \notin consent
    PROVE  Request!Next
<1>1. got = [got EXCEPT ![r] = <<>>]
  BY DEF PageType
<1>2. \A answer : [got EXCEPT ![r] = Append(@, answer)] = [got EXCEPT ![r] = <<answer>>]
  BY DEF PageType
<1>3. CASE r \notin asked /\ consent' = consent /\ got' = got
  <2>1. Changes(r, <<>>, {})
    BY <1>1, <1>3 DEF Changes
  <2> QED BY <1>3, <2>1, OpenStep DEF Request!Next
<1>4. CASE /\ r \notin asked /\ consent' = consent
           /\ got' = [got EXCEPT ![r] = Append(@, Failed)]
  <2>1. Changes(r, <<Failed>>, {})
    BY <1>2, <1>4 DEF Changes
  <2> QED BY <1>4, <2>1, RefuseStep DEF Request!Next
<1>5. CASE r \in asked /\ got' = got /\ consent' = consent \union {r}
  <2>1. Changes(r, <<>>, {r}) /\ Open(r)
    BY <1>1, <1>5 DEF Changes, Open
  <2> QED BY <2>1, ConsentStep DEF Request!Next
<1>6. CASE /\ r \in asked /\ got' = [got EXCEPT ![r] = Append(@, r)]
           /\ \E given \in SUBSET {r} : consent' = consent \union given
           /\ r \in consent'
  <2>1. PICK given \in SUBSET {r} : consent' = consent \union given
    BY <1>6
  <2>2. Changes(r, <<r>>, given) /\ Open(r)
    BY <1>2, <1>6, <2>1 DEF Changes, Open
  <2> QED BY <1>6, <2>2, SignStep DEF Request!Next
<1>7. CASE /\ r \in asked /\ got' = [got EXCEPT ![r] = Append(@, Failed)]
           /\ consent' = consent /\ r \notin consent
  <2>1. Changes(r, <<Failed>>, {}) /\ Open(r)
    BY <1>2, <1>7 DEF Changes, Open
  <2> QED BY <1>7, <2>1, FailStep DEF Request!Next
<1> QED BY <1>3, <1>4, <1>5, <1>6, <1>7

LEMMA RequestStep ==
    TypeInv /\ SequentialInv /\ SequentialInv' /\ [Next]_vars
        => [Request!Next]_(Request!vars)
<1> SUFFICES ASSUME TypeInv, SequentialInv, SequentialInv', [Next]_vars
             PROVE  Request!Next \/ UNCHANGED Request!vars
  OBVIOUS
<1> USE Markers
<1>0. discipline' = discipline
  BY DEF Next, Page, User, Unwind, vars, signAsync, askPinAndSign, SyncReturn, JsReturn,
         ResponseReturn, PinRight, PinWrong, PinCancelled, CloseBlocked
<1>1. CASE ~Sequential
  BY <1>0, <1>1 DEF Request!vars, Sequential
<1>2. CASE Sequential
  <2>0. /\ TypeOK /\ PageType /\ stack \in Seq(Frames) /\ Sequential'
        /\ \A q \in Requests : Answered(q) /\ Answered(q)'
    BY <1>0, <1>2, TypeParts DEF TypeInv, SequentialInv, Sequential, StackType
  <2>s. ASSUME UNCHANGED <<asked, got, consent>> PROVE UNCHANGED Request!vars
    BY <1>0, <2>s, Stutter
  <2>1. ASSUME NEW r \in Requests, NEW far \in Progress,
               signAsync(r, far) \/ askPinAndSign(r, far)
        PROVE  Request!Next
    <3>1. MayCall(r) /\ asked' = asked \union {r} /\ consent' = consent
      BY <2>1 DEF signAsync, askPinAndSign
    <3>2. r \notin asked /\ got[r] = <<>>
      BY <1>2, <3>1, BetweenCalls
    <3>3. got' = got \/ got' = [got EXCEPT ![r] = Append(@, Failed)]
      BY <2>1 DEF signAsync, askPinAndSign, Return, Invoke
    <3> QED BY <1>2, <2>0, <3>1, <3>2, <3>3, AnswersStep
  <2>2. CASE CanRespond /\ (PinRight \/ (\E gone \in BOOLEAN : PinWrong(gone)) \/ PinCancelled)
    <3>1. PICK r \in Requests :
             /\ Sole(r) /\ r \notin consent /\ dialog.doc = r /\ m_hash = r
             /\ m_signCallback \in {r, None}
      BY <1>2, <2>2, Asking
    <3>2. r \in asked /\ got[r] = <<>> /\ asked' = asked /\ asked' = asked \union {r}
      BY <2>2, <3>1 DEF Sole, Open, PinRight, PinWrong, PinCancelled
    <3>3. CASE PinRight
      <4>1. consent' = consent \union {r} /\ Return(m_signCallback, r, Response(stack))
        BY <3>1, <3>3 DEF PinRight
      <4>2. CASE m_signCallback = r
        <5>1. got' = [got EXCEPT ![r] = Append(@, r)]
          BY <4>1, <4>2 DEF Return, Invoke
        <5> QED BY <1>2, <2>0, <3>2, <4>1, <5>1, AnswersStep
      <4>3. CASE m_signCallback = None
        <5>1. got' = got
          BY <4>1, <4>3 DEF Return
        <5> QED BY <1>2, <2>0, <3>2, <4>1, <5>1, AnswersStep
      <4> QED BY <3>1, <4>2, <4>3
    <3>4. CASE (\E gone \in BOOLEAN : PinWrong(gone)) \/ PinCancelled
      <4>1. consent' = consent
        BY <3>4 DEF PinWrong, PinCancelled
      <4>2. got' = got \/ (m_signCallback # None
                         /\ got' = [got EXCEPT ![m_signCallback] = Append(@, Failed)])
        BY <3>4 DEF PinWrong, PinCancelled, Return, Invoke
      <4>3. CASE got' = got
        BY <2>s, <3>2, <4>1, <4>3
      <4>4. CASE got' = [got EXCEPT ![r] = Append(@, Failed)]
        BY <1>2, <2>0, <3>1, <3>2, <4>1, <4>4, AnswersStep
      <4> QED BY <3>1, <4>2, <4>3, <4>4
    <3> QED BY <2>2, <3>3, <3>4
  <2>3. CASE CloseBlocked
    <3>1. PICK r \in Requests :
             /\ Sole(r) /\ r \notin consent
             /\ \/ m_signCallback \in {r, None} /\ Message("return")
                \/ Message("throw") /\ TopFrame.req = r
      BY <1>2, <2>3, Messaged DEF CloseBlocked
    <3>2. /\ r \in asked /\ got[r] = <<>> /\ asked' = asked /\ asked' = asked \union {r}
          /\ consent' = consent
      BY <2>3, <3>1 DEF Sole, Open, CloseBlocked
    <3>3. CASE m_signCallback = None /\ Message("return")
      <4>1. got' = got
        BY <2>3, <3>3 DEF CloseBlocked, Message, Return
      <4> QED BY <2>s, <3>2, <4>1
    <3>4. CASE (m_signCallback = r /\ Message("return")) \/ (Message("throw") /\ TopFrame.req = r)
      <4>1. got' = [got EXCEPT ![r] = Append(@, Failed)]
        BY <2>3, <3>4 DEF CloseBlocked, Message, Return, Invoke
      <4> QED BY <1>2, <2>0, <3>1, <3>2, <4>1, AnswersStep
    <3> QED BY <3>1, <3>3, <3>4
  <2>4. CASE SyncReturn
    <3>1. PICK r \in Requests :
             Sole(r) /\ SyncTold(r) /\ Len(stack) = 1 /\ stack[1].req = r
      BY <1>2, <2>4, Told DEF SyncReturn
    <3>2. /\ r \in asked /\ got[r] = <<>> /\ asked' = asked /\ asked' = asked \union {r}
          /\ consent' = consent
      BY <2>4, <3>1 DEF Sole, Open, SyncReturn
    <3>3. got' = [got EXCEPT ![r] = Append(@, IF m_signFailure THEN Failed ELSE m_signedHash)]
      BY <2>4, <3>1 DEF SyncReturn, TopFrame
    <3>4. CASE m_signFailure
      <4>1. got' = [got EXCEPT ![r] = Append(@, Failed)] /\ r \notin consent
        BY <3>1, <3>3, <3>4 DEF SyncTold
      <4> QED BY <1>2, <2>0, <3>2, <4>1, AnswersStep
    <3>5. CASE ~m_signFailure
      <4>1. got' = [got EXCEPT ![r] = Append(@, r)] /\ r \in consent
        BY <3>1, <3>3, <3>5 DEF SyncTold
      <4>2. \E given \in SUBSET {r} : consent' = consent \union given
        <5>1. consent' = consent \union {} /\ {} \in SUBSET {r}
          BY <3>2
        <5> QED BY <5>1, Zenon
      <4> QED BY <1>2, <2>0, <3>2, <4>1, <4>2, AnswersStep
    <3> QED BY <3>4, <3>5
  <2>5. CASE JsReturn \/ ResponseReturn \/ UNCHANGED vars
    BY <2>s, <2>5 DEF JsReturn, ResponseReturn, vars
  <2> QED BY <2>1, <2>2, <2>3, <2>4, <2>5
       DEF Next, Page, User, Unwind, PinRight, PinWrong, PinCancelled
<1> QED BY <1>1, <1>2

(* The safety part of RequestsAnswered: each request of such a page is     *)
(* answered once, with a failure or with the signature of its own          *)
(* document, and a document is signed only with the user's consent.        *)
THEOREM AnsweredAsPromised ==
    Spec => Request!Init /\ [][Request!Next]_(Request!vars)
BY TypeInvariant, SequentialInvariant, RequestInit, RequestStep, PTL DEF Spec
=============================================================================
