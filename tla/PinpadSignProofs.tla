-------------------------- MODULE PinpadSignProofs ---------------------------
(***************************************************************************)
(* What is proved about PinpadSign, for any set of pages and any number of *)
(* requests and of tries.                                                  *)
(***************************************************************************)
EXTENDS PinpadSign, TLAPS, SequenceTheorems, FiniteSetTheorems

-----------------------------------------------------------------------------
(***************************************************************************)
(* The frames of the main thread and the list of signing threads.          *)
(***************************************************************************)

Frames  == [kind : {"prepare", "askPin", "start", "js", "use", "message", "deliver", "join"},
            page : Pages, job : Nat]
Threads == [pc : {"created", "signing", "delivered", "done"} \union Waiting,
            doc : Requests, to : Pages \union {None}]

(* s is below with a frame or thread more.                                 *)
Longer(s, below) ==
    /\ s # <<>> /\ Len(below) \in Nat
    /\ Len(s) = Len(below) + 1 /\ DOMAIN s = 1..Len(s) /\ DOMAIN below = 1..Len(below)
    /\ \A i \in 1..Len(below) : s[i] = below[i]

LEMMA FramePushed ==
    ASSUME NEW below \in Seq(Frames), NEW x \in Frames, NEW s, s = Append(below, x)
    PROVE  s \in Seq(Frames) /\ Longer(s, below) /\ s[Len(s)] = x
<1>1. /\ s \in Seq(Frames) /\ s # <<>> /\ Len(s) = Len(below) + 1 /\ s[Len(below) + 1] = x
      /\ \A i \in 1..Len(below) : s[i] = below[i]
  BY AppendProperties
<1>2. Len(below) \in Nat /\ DOMAIN below = 1..Len(below)
  BY LenProperties
<1>3. DOMAIN s = 1..Len(s)
  BY <1>1, LenProperties
<1> QED BY <1>1, <1>2, <1>3 DEF Longer

LEMMA ThreadAdded ==
    ASSUME NEW below \in Seq(Threads), NEW x \in Threads, NEW s, s = Append(below, x)
    PROVE  s \in Seq(Threads) /\ Longer(s, below) /\ s[Len(s)] = x
<1>1. /\ s \in Seq(Threads) /\ s # <<>> /\ Len(s) = Len(below) + 1 /\ s[Len(below) + 1] = x
      /\ \A i \in 1..Len(below) : s[i] = below[i]
  BY AppendProperties
<1>2. Len(below) \in Nat /\ DOMAIN below = 1..Len(below)
  BY LenProperties
<1>3. DOMAIN s = 1..Len(s)
  BY <1>1, LenProperties
<1> QED BY <1>1, <1>2, <1>3 DEF Longer

LEMMA PoppedTo ==
    ASSUME NEW S, NEW s \in Seq(S), NEW n \in Nat, Len(s) = n + 1
    PROVE  /\ SubSeq(s, 1, n) \in Seq(S)
           /\ Len(SubSeq(s, 1, n)) = n
           /\ \A i \in 1..n : SubSeq(s, 1, n)[i] = s[i]
<1>1. \A i \in 1..n : s[i] \in S
  BY ElementOfSeq
<1> DEFINE t == SubSeq(s, 1, n)
<1>2. /\ t \in Seq(S)
      /\ Len(t) = IF 1 <= n THEN n - 1 + 1 ELSE 0
      /\ \A i \in 1..(n - 1 + 1) : t[i] = s[1 + i - 1]
  BY <1>1, SubSeqProperties
<1> HIDE DEF t
<1>3. Len(t) = n
  BY <1>2
<1>4. \A i \in 1..n : t[i] = s[i]
  BY <1>2
<1> QED BY <1>2, <1>3, <1>4 DEF t

LEMMA Popped ==
    ASSUME NEW S, NEW s \in Seq(S), s # <<>>, NEW t, t = SubSeq(s, 1, Len(s) - 1)
    PROVE  t \in Seq(S) /\ Longer(s, t) /\ s[Len(s)] \in S
<1>1. Len(s) \in Nat \ {0} /\ DOMAIN s = 1..Len(s)
  BY EmptySeq, LenProperties
<1>2. s[Len(s)] \in S
  BY <1>1, ElementOfSeq
<1> DEFINE n == Len(s) - 1
<1>3. n \in Nat /\ Len(s) = n + 1
  BY <1>1
<1> HIDE DEF n
<1>4. t \in Seq(S) /\ Len(t) = n /\ \A i \in 1..n : t[i] = s[i]
  BY <1>3, PoppedTo DEF n
<1>5. DOMAIN t = 1..Len(t)
  BY <1>4, LenProperties
<1> QED BY <1>1, <1>2, <1>3, <1>4, <1>5 DEF Longer

LEMMA FrameType ==
    ASSUME NEW kind \in {"prepare", "askPin", "start", "js", "use", "message", "deliver", "join"},
           NEW p \in Pages, NEW j \in Nat
    PROVE  /\ Frame(kind, p, j) \in Frames /\ Frame(kind, p, j).kind = kind
           /\ Frame(kind, p, j).page = p /\ Frame(kind, p, j).job = j
BY DEF Frame, Frames

LEMMA Markers ==
    /\ None = 0 /\ Failed = -1 /\ Monitor = -1
    /\ \A r \in Requests : r \in Nat /\ r >= 1 /\ r <= MaxRequests
    /\ None \notin Requests /\ Failed \notin Requests /\ None \notin Pages
BY ConstantsAssumption DEF Requests, None, Failed, Monitor

-----------------------------------------------------------------------------
(***************************************************************************)
(* The types.  That there are no more threads than Jobs is a matter of     *)
(* counting: Chances are the signatures that are or may yet be tried, each *)
(* of which may give the card its tries back, and Starts the threads that  *)
(* may be started before the next wrong PIN.                               *)
(***************************************************************************)

Preparing == {"prepare", "askPin", "start"}
Busy      == IF stack # <<>> /\ TopFrame.kind \in Preparing THEN 1 ELSE 0
Unasked   == Cardinality(Requests \ asked)
Wrong     == {j \in DOMAIN jobs : jobs[j].pc = "wrong"}
Trying    == {j \in DOMAIN jobs : jobs[j].pc \in {"created", "signing", "wrong"}}
Starts    == Busy + Unasked + Cardinality(Wrong)
Chances   == Busy + Unasked + Cardinality(Trying)

ThreadsBounded ==
    Len(jobs) + Starts + tries + MaxTries * Chances <= MaxRequests + MaxTries * (MaxRequests + 1)

PageType ==
    /\ alive \subseteq Pages
    /\ owner \in [Requests -> Pages \union {None}]
    /\ m_signCallback \in [Pages -> Requests \union {None}]
    /\ m_hash \in [Pages -> Requests \union {None}]
    /\ asked \subseteq Requests
    /\ got \in [Requests -> Seq(Requests \union {Failed})]
    /\ habit \in Habits
    /\ consent \subseteq Requests
CardType ==
    /\ callbacks \in Pages \union {None}
    /\ m_cardMutex \in DOMAIN jobs \union {Monitor, None}
    /\ tries \in 0..MaxTries
JobsType  == jobs \in Seq(Threads)
StackType ==
    /\ stack \in Seq(Frames)
    /\ \A i \in DOMAIN stack : stack[i].job \in DOMAIN jobs \union {None}

(* The main thread makes no call from one of these.                        *)
PreparingOnTop == \A i \in 1..(Len(stack) - 1) : stack[i].kind \notin Preparing

(* A page for which a thread is started has a document.                    *)
DocumentsSet ==
    /\ Top("prepare") => m_signCallback[TopFrame.page] # None
    /\ Top("askPin") \/ Top("start") => m_hash[TopFrame.page] # None
    /\ callbacks # None => m_hash[callbacks] # None
    /\ \A j \in DOMAIN jobs : jobs[j].to # None => m_hash[jobs[j].to] # None

TypeInv ==
    /\ PageType /\ CardType /\ JobsType /\ StackType
    /\ ThreadsBounded /\ PreparingOnTop /\ DocumentsSet

LEMMA CountTypes ==
    ASSUME TypeInv
    PROVE  /\ DOMAIN jobs = 1..Len(jobs) /\ Len(jobs) \in Nat
           /\ IsFiniteSet(Wrong) /\ IsFiniteSet(Trying) /\ IsFiniteSet(Requests \ asked)
           /\ Cardinality(Wrong) \in Nat /\ Cardinality(Trying) \in Nat /\ Unasked \in Nat
           /\ Busy \in {0, 1} /\ Starts \in Nat /\ Chances \in Nat
<1>1. DOMAIN jobs = 1..Len(jobs) /\ Len(jobs) \in Nat
  BY LenProperties DEF TypeInv, JobsType
<1>2. IsFiniteSet(DOMAIN jobs) /\ IsFiniteSet(Requests)
  BY <1>1, FS_Interval, ConstantsAssumption DEF Requests
<1>3. IsFiniteSet(Wrong) /\ IsFiniteSet(Trying) /\ IsFiniteSet(Requests \ asked)
  <2>1. Wrong \in SUBSET DOMAIN jobs /\ Trying \in SUBSET DOMAIN jobs
        /\ (Requests \ asked) \in SUBSET Requests
    BY DEF Wrong, Trying
  <2> QED BY <1>2, <2>1, FS_Subset
<1>4. /\ Cardinality(Wrong) \in Nat /\ Cardinality(Trying) \in Nat /\ Unasked \in Nat
  BY <1>3, FS_CardinalityType DEF Unasked
<1> QED BY <1>1, <1>3, <1>4 DEF Busy, Starts, Chances

LEMMA TypesImply == TypeInv => TypeOK
<1> SUFFICES ASSUME TypeInv PROVE TypeOK
  OBVIOUS
<1>1. stack \in Seq([kind : {"prepare", "askPin", "start", "js", "use", "message",
                             "deliver", "join"},
                     page : Pages, job : DOMAIN jobs \union {None}])
  <2> DEFINE F == [kind : {"prepare", "askPin", "start", "js", "use", "message",
                           "deliver", "join"},
                   page : Pages, job : DOMAIN jobs \union {None}]
  <2>1. /\ stack \in [1..Len(stack) -> Frames] /\ Len(stack) \in Nat /\ DOMAIN stack = 1..Len(stack)
    BY LenProperties DEF TypeInv, StackType
  <2>2. \A i \in 1..Len(stack) : stack[i] \in F
    BY <2>1 DEF TypeInv, StackType, Frames
  <2> HIDE DEF F
  <2>3. stack \in [1..Len(stack) -> F]
    BY <2>1, <2>2
  <2>4. stack \in Seq(F)
    BY <2>1, <2>3, SeqDef
  <2> QED BY <2>4 DEF F
<1>2. Len(jobs) \in Jobs \union {0}
  <2>1. /\ Len(jobs) \in Nat /\ Starts \in Nat /\ Chances \in Nat /\ tries \in Nat
        /\ MaxTries \in Nat /\ MaxRequests \in Nat
    BY CountTypes, ConstantsAssumption DEF TypeInv, CardType
  <2>2. MaxTries * Chances \in Nat /\ MaxTries * (MaxRequests + 1) \in Nat
    BY <2>1
  <2>3. Len(jobs) <= MaxRequests + MaxTries * (MaxRequests + 1)
    BY <2>1, <2>2 DEF TypeInv, ThreadsBounded
  <2> QED BY <2>1, <2>2, <2>3 DEF Jobs
<1> QED BY <1>1, <1>2 DEF TypeInv, TypeOK, PageType, CardType, JobsType, StackType, Threads

LEMMA TypeInit == Init => TypeInv
<1> SUFFICES ASSUME Init PROVE TypeInv
  OBVIOUS
<1>1. stack = <<>> /\ jobs = <<>> /\ Len(stack) = 0 /\ Len(jobs) = 0
  BY EmptySeq DEF Init
<1>2. DOMAIN jobs = {} /\ DOMAIN stack = {}
  BY <1>1
<1>3. PageType /\ CardType /\ JobsType /\ StackType /\ PreparingOnTop
  BY <1>1, <1>2, EmptySeq, ConstantsAssumption
  DEF Init, PageType, CardType, JobsType, StackType, PreparingOnTop
<1>4. ThreadsBounded
  <2>1. Wrong = {} /\ Trying = {} /\ Busy = 0
    BY <1>1, <1>2 DEF Wrong, Trying, Busy
  <2>2. Requests \ asked = Requests /\ Cardinality(Requests) = MaxRequests
    BY FS_Interval, ConstantsAssumption DEF Init, Requests
  <2>3. Starts = MaxRequests /\ Chances = MaxRequests
    BY <2>1, <2>2, FS_EmptySet, ConstantsAssumption DEF Starts, Chances, Unasked
  <2>4. MaxTries * (MaxRequests + 1) = MaxTries * MaxRequests + MaxTries
    BY ConstantsAssumption
  <2>5. MaxTries * MaxRequests \in Nat /\ tries <= MaxTries /\ tries \in Nat
    BY ConstantsAssumption DEF Init
  <2> QED BY <1>1, <2>3, <2>4, <2>5, ConstantsAssumption DEF ThreadsBounded
<1>5. DocumentsSet
  BY <1>1, <1>2 DEF Init, DocumentsSet, Top
<1> QED BY <1>3, <1>4, <1>5 DEF TypeInv

LEMMA Times ==
    ASSUME NEW m \in Nat, NEW c \in Nat, NEW d \in Nat
    PROVE  /\ m * c \in Nat /\ m * d \in Nat
           /\ d <= c => m * d <= m * c
           /\ d + 1 <= c => m * d + m <= m * c
<1>1. m * c \in Nat /\ m * d \in Nat
  OBVIOUS
<1>2. ASSUME d <= c PROVE m * d <= m * c
  <2>1. PICK z \in Nat : c = d + z
    BY <1>2
  <2>2. m * c = m * d + m * z /\ m * z \in Nat
    BY <2>1
  <2> QED BY <1>1, <2>2
<1>3. ASSUME d + 1 <= c PROVE m * d + m <= m * c
  <2>1. PICK z \in Nat : c = d + 1 + z
    BY <1>3
  <2>2. m * c = m * d + m + m * z /\ m * z \in Nat
    BY <2>1
  <2> QED BY <1>1, <2>2
<1> QED BY <1>1, <1>2, <1>3

(* The bound is kept while no more threads can be tried or started, or     *)
(* when a signature that could have been tried is made.                    *)
LEMMA Bounded ==
    ASSUME TypeInv, Len(jobs') \in Nat, Starts' \in Nat, Chances' \in Nat, tries' \in 0..MaxTries,
           \/ Chances' <= Chances /\ Len(jobs') + Starts' + tries' <= Len(jobs) + Starts + tries
           \/ Chances' + 1 <= Chances /\ Len(jobs') + Starts' <= Len(jobs) + Starts
    PROVE  ThreadsBounded'
<1>1. /\ Len(jobs) \in Nat /\ Starts \in Nat /\ Chances \in Nat /\ tries \in Nat
      /\ MaxTries \in Nat /\ MaxRequests \in Nat
  BY CountTypes, ConstantsAssumption DEF TypeInv, CardType
<1>2. /\ MaxTries * Chances \in Nat /\ MaxTries * Chances' \in Nat
      /\ Chances' <= Chances => MaxTries * Chances' <= MaxTries * Chances
      /\ Chances' + 1 <= Chances => MaxTries * Chances' + MaxTries <= MaxTries * Chances
  BY <1>1, Times
<1>3. PICK bound \in Nat : bound = MaxRequests + MaxTries * (MaxRequests + 1)
  BY <1>1
<1>4. PICK c \in Nat : c = MaxTries * Chances
  BY <1>2
<1>5. PICK d \in Nat : d = MaxTries * Chances'
  BY <1>2
<1>6. /\ Chances' <= Chances => d <= c
      /\ Chances' + 1 <= Chances => d + MaxTries <= c
  BY <1>2, <1>4, <1>5
<1>7. Len(jobs) + Starts + tries + c <= bound
  BY <1>3, <1>4 DEF TypeInv, ThreadsBounded
<1>8. Len(jobs') + Starts' + tries' + d <= bound
  <2>1. CASE Chances' <= Chances /\ Len(jobs') + Starts' + tries' <= Len(jobs) + Starts + tries
    <3>1. d <= c
      BY <1>6, <2>1
    <3> QED BY <1>1, <1>7, <2>1, <3>1
  <2>2. CASE Chances' + 1 <= Chances /\ Len(jobs') + Starts' <= Len(jobs) + Starts
    <3>1. d + MaxTries <= c /\ tries' <= MaxTries
      BY <1>1, <1>6, <2>2
    <3> QED BY <1>1, <1>7, <2>2, <3>1
  <2> QED BY <2>1, <2>2
<1> QED BY <1>3, <1>5, <1>8 DEF ThreadsBounded

LEMMA StillBounded ==
    ASSUME TypeInv, tries' = tries, Len(jobs') = Len(jobs), Starts' \in Nat, Chances' \in Nat,
           Starts' <= Starts, Chances' <= Chances
    PROVE  ThreadsBounded'
<1>1. Len(jobs) \in Nat /\ Starts \in Nat /\ Chances \in Nat /\ tries \in 0..MaxTries
  BY CountTypes DEF TypeInv, CardType
<1>2. Len(jobs') + Starts' + tries' <= Len(jobs) + Starts + tries
  BY <1>1, ConstantsAssumption
<1>3. Len(jobs') \in Nat /\ tries' \in 0..MaxTries
  BY <1>1
<1> QED BY <1>2, <1>3, Bounded

-----------------------------------------------------------------------------
(***************************************************************************)
(* What the steps do to the stack and to the threads.                      *)
(***************************************************************************)

(* A stack whose last frame is none that waits to sign.                    *)
Clean(s) ==
    /\ s \in Seq(Frames)
    /\ \A i \in DOMAIN s : s[i].job \in DOMAIN jobs \union {None} /\ s[i].kind \notin Preparing

LEMMA BelowClean ==
    ASSUME TypeInv, stack # <<>>
    PROVE  Clean(Below) /\ Longer(stack, Below) /\ TopFrame \in Frames
<1>1. stack \in Seq(Frames)
  BY DEF TypeInv, StackType
<1>2. Below \in Seq(Frames) /\ Longer(stack, Below) /\ TopFrame \in Frames
  BY <1>1, Popped DEF Below, TopFrame
<1>3. ASSUME NEW i \in DOMAIN Below
      PROVE  Below[i].job \in DOMAIN jobs \union {None} /\ Below[i].kind \notin Preparing
  <2>1. i \in 1..(Len(stack) - 1) /\ i \in DOMAIN stack /\ Below[i] = stack[i]
    BY <1>2 DEF Longer
  <2> QED BY <2>1 DEF TypeInv, StackType, PreparingOnTop
<1> QED BY <1>2, <1>3 DEF Clean

LEMMA StackClean ==
    ASSUME TypeInv, stack = <<>> \/ TopFrame.kind \notin Preparing
    PROVE  Clean(stack)
<1>1. stack \in Seq(Frames) /\ Len(stack) \in Nat /\ DOMAIN stack = 1..Len(stack)
  BY LenProperties DEF TypeInv, StackType
<1>2. ASSUME NEW i \in DOMAIN stack
      PROVE  stack[i].job \in DOMAIN jobs \union {None} /\ stack[i].kind \notin Preparing
  <2>1. CASE i = Len(stack)
    <3>1. stack # <<>>
      BY <1>1, <2>1, EmptySeq
    <3> QED BY <2>1, <3>1 DEF TypeInv, StackType, TopFrame
  <2>2. CASE i # Len(stack)
    <3>1. i \in 1..(Len(stack) - 1)
      BY <1>1, <2>2
    <3> QED BY <3>1 DEF TypeInv, StackType, PreparingOnTop
  <2> QED BY <2>1, <2>2
<1> QED BY <1>1, <1>2 DEF Clean

(* The stack is left at b, or with a frame on it.                          *)
LEMMA LeftAt ==
    ASSUME NEW b, Clean(b), stack' = b, DOMAIN jobs \subseteq DOMAIN jobs'
    PROVE  /\ StackType' /\ PreparingOnTop' /\ Busy' = 0
           /\ stack' # <<>> => TopFrame'.kind \notin Preparing
<1>1. b \in Seq(Frames) /\ Len(b) \in Nat /\ DOMAIN b = 1..Len(b) /\ (b # <<>> => Len(b) # 0)
  BY LenProperties, EmptySeq DEF Clean
<1>2. StackType'
  BY <1>1 DEF StackType, Clean
<1>3. PreparingOnTop'
  BY <1>1 DEF PreparingOnTop, Clean
<1>4. stack' # <<>> => TopFrame'.kind \notin Preparing
  BY <1>1 DEF TopFrame, Clean
<1> QED BY <1>2, <1>3, <1>4 DEF Busy

LEMMA PushedOn ==
    ASSUME NEW b, Clean(b), NEW f \in Frames, stack' = Append(b, f),
           f.job \in DOMAIN jobs' \union {None}, DOMAIN jobs \subseteq DOMAIN jobs'
    PROVE  /\ StackType' /\ PreparingOnTop' /\ stack' # <<>> /\ TopFrame' = f
           /\ Busy' = IF f.kind \in Preparing THEN 1 ELSE 0
           /\ stack' \in Seq(Frames) /\ Longer(stack', b)
<1>0. b \in Seq(Frames)
  BY DEF Clean
<1>1. stack' \in Seq(Frames) /\ Longer(stack', b) /\ stack'[Len(stack')] = f
  BY <1>0, FramePushed, Zenon
<1>2. stack' # <<>> /\ TopFrame' = f
  BY <1>1 DEF Longer, TopFrame
<1>3. StackType'
  <2>1. ASSUME NEW i \in DOMAIN stack' PROVE stack'[i].job \in DOMAIN jobs' \union {None}
    <3>1. CASE i = Len(stack')
      BY <1>1, <3>1
    <3>2. CASE i # Len(stack')
      <4>1. i \in DOMAIN b /\ stack'[i] = b[i]
        BY <1>1, <3>2 DEF Longer
      <4> QED BY <4>1 DEF Clean
    <3> QED BY <3>1, <3>2
  <2> QED BY <1>1, <2>1 DEF StackType, Longer
<1>4. PreparingOnTop'
  <2>1. ASSUME NEW i \in 1..(Len(stack') - 1) PROVE stack'[i].kind \notin Preparing
    <3>1. i \in DOMAIN b /\ stack'[i] = b[i]
      BY <1>1 DEF Longer
    <3> QED BY <3>1 DEF Clean
  <2> QED BY <2>1 DEF PreparingOnTop
<1> QED BY <1>1, <1>2, <1>3, <1>4 DEF Busy

(* A clean stack with a frame on it.                                       *)
LEMMA CleanPush ==
    ASSUME NEW b, Clean(b), NEW f \in Frames, f.kind \notin Preparing,
           f.job \in DOMAIN jobs \union {None}, NEW s, s = Append(b, f)
    PROVE  Clean(s)
<1>0. b \in Seq(Frames)
  BY DEF Clean
<1>1. s \in Seq(Frames) /\ Longer(s, b) /\ s[Len(s)] = f
  BY <1>0, FramePushed, Zenon
<1>2. ASSUME NEW i \in DOMAIN s
      PROVE  s[i].job \in DOMAIN jobs \union {None} /\ s[i].kind \notin Preparing
  <2>1. CASE i = Len(s)
    BY <1>1, <2>1
  <2>2. CASE i # Len(s)
    <3>1. i \in DOMAIN b /\ s[i] = b[i]
      BY <1>1, <2>2 DEF Longer
    <3> QED BY <3>1 DEF Clean
  <2> QED BY <2>1, <2>2
<1> QED BY <1>1, <1>2 DEF Clean, Longer

(* Thread j goes on.                                                       *)
Goes(j, pc, to) ==
    /\ jobs' \in Seq(Threads) /\ Len(jobs') = Len(jobs) /\ DOMAIN jobs' = DOMAIN jobs
    /\ jobs'[j] = [pc |-> pc, doc |-> jobs[j].doc, to |-> to]
    /\ \A k \in DOMAIN jobs : k # j => jobs'[k] = jobs[k]

LEMMA ThreadGoes ==
    ASSUME JobsType, NEW j \in DOMAIN jobs,
           NEW pc \in {"created", "signing", "delivered", "done"} \union Waiting,
           NEW to \in Pages \union {None},
           \/ jobs' = [jobs EXCEPT ![j].pc = pc] /\ to = jobs[j].to
           \/ jobs' = [jobs EXCEPT ![j].pc = pc, ![j].to = to]
    PROVE  Goes(j, pc, to)
<1> DEFINE t == [pc |-> pc, doc |-> jobs[j].doc, to |-> to]
<1>1. /\ jobs \in [1..Len(jobs) -> Threads] /\ DOMAIN jobs = 1..Len(jobs)
  BY LenProperties DEF JobsType
<1>2. jobs[j] \in Threads /\ t \in Threads
  BY <1>1 DEF Threads
<1>3. jobs' = [jobs EXCEPT ![j] = t]
  BY <1>1, <1>2 DEF Threads
<1> HIDE DEF t
<1>4. /\ jobs' \in Seq(Threads) /\ Len(jobs') = Len(jobs)
      /\ \A k \in 1..Len(jobs) : jobs'[k] = IF k = j THEN t ELSE jobs[k]
  BY <1>1, <1>2, <1>3, ExceptSeq DEF JobsType
<1>5. DOMAIN jobs' = DOMAIN jobs
  BY <1>1, <1>4, LenProperties
<1> QED BY <1>1, <1>4, <1>5 DEF Goes, t

LEMMA GoesCounts ==
    ASSUME TypeInv, NEW j \in DOMAIN jobs, NEW pc, NEW to, Goes(j, pc, to)
    PROVE  /\ Cardinality(Wrong') \in Nat /\ Cardinality(Trying') \in Nat
           /\ Cardinality(Wrong') + (IF jobs[j].pc = "wrong" THEN 1 ELSE 0)
                = Cardinality(Wrong) + (IF pc = "wrong" THEN 1 ELSE 0)
           /\ Cardinality(Trying')
                  + (IF jobs[j].pc \in {"created", "signing", "wrong"} THEN 1 ELSE 0)
                = Cardinality(Trying) + (IF pc \in {"created", "signing", "wrong"} THEN 1 ELSE 0)
<1>1. /\ IsFiniteSet(Wrong) /\ IsFiniteSet(Trying)
      /\ Cardinality(Wrong) \in Nat /\ Cardinality(Trying) \in Nat
  BY CountTypes
<1>2. /\ j \in Wrong <=> jobs[j].pc = "wrong"
      /\ j \in Trying <=> jobs[j].pc \in {"created", "signing", "wrong"}
  BY DEF Wrong, Trying
<1>3. /\ Wrong' = IF pc = "wrong" THEN Wrong \union {j} ELSE Wrong \ {j}
      /\ Trying' = IF pc \in {"created", "signing", "wrong"} THEN Trying \union {j}
                   ELSE Trying \ {j}
  BY DEF Wrong, Trying, Goes
<1>4. /\ Cardinality(Wrong \union {j}) = (IF j \in Wrong THEN Cardinality(Wrong)
                                           ELSE Cardinality(Wrong) + 1)
      /\ Cardinality(Wrong \ {j}) = (IF j \in Wrong THEN Cardinality(Wrong) - 1
                                     ELSE Cardinality(Wrong))
      /\ IsFiniteSet(Wrong \union {j}) /\ IsFiniteSet(Wrong \ {j})
  BY <1>1, FS_AddElement, FS_RemoveElement
<1>5. /\ Cardinality(Trying \union {j}) = (IF j \in Trying THEN Cardinality(Trying)
                                            ELSE Cardinality(Trying) + 1)
      /\ Cardinality(Trying \ {j}) = (IF j \in Trying THEN Cardinality(Trying) - 1
                                      ELSE Cardinality(Trying))
      /\ IsFiniteSet(Trying \union {j}) /\ IsFiniteSet(Trying \ {j})
  BY <1>1, FS_AddElement, FS_RemoveElement
<1>6. /\ Cardinality(Wrong \union {j}) \in Nat /\ Cardinality(Wrong \ {j}) \in Nat
      /\ Cardinality(Trying \union {j}) \in Nat /\ Cardinality(Trying \ {j}) \in Nat
  BY <1>4, <1>5, FS_CardinalityType
<1>7. /\ Cardinality(Wrong') = IF pc = "wrong" THEN Cardinality(Wrong \union {j})
                               ELSE Cardinality(Wrong \ {j})
      /\ Cardinality(Trying') = IF pc \in {"created", "signing", "wrong"}
                                THEN Cardinality(Trying \union {j})
                                ELSE Cardinality(Trying \ {j})
  BY <1>3
<1> QED BY <1>1, <1>2, <1>4, <1>5, <1>6, <1>7

(* The threads stay as they are.                                           *)
LEMMA SameCounts ==
    ASSUME jobs' = jobs
    PROVE  Wrong' = Wrong /\ Trying' = Trying
BY DEF Wrong, Trying

(* A thread is started.                                                    *)
LEMMA StartCounts ==
    ASSUME TypeInv, NEW t \in Threads, t.pc = "created", jobs' = Append(jobs, t)
    PROVE  /\ jobs' \in Seq(Threads) /\ Longer(jobs', jobs) /\ jobs'[Len(jobs')] = t
           /\ Cardinality(Wrong') = Cardinality(Wrong)
           /\ Cardinality(Trying') = Cardinality(Trying) + 1
<1>0. jobs \in Seq(Threads)
  BY DEF TypeInv, JobsType
<1>1. jobs' \in Seq(Threads) /\ Longer(jobs', jobs) /\ jobs'[Len(jobs')] = t
  BY <1>0, ThreadAdded, Zenon
<1> DEFINE n == Len(jobs) + 1
<1>2. /\ DOMAIN jobs' = DOMAIN jobs \union {n} /\ n \notin DOMAIN jobs /\ jobs'[n] = t
      /\ \A k \in DOMAIN jobs : jobs'[k] = jobs[k]
  BY <1>1 DEF Longer
<1> HIDE DEF n
<1>3. Wrong' = Wrong /\ Trying' = Trying \union {n} /\ n \notin Trying
  BY <1>2 DEF Wrong, Trying
<1>4. Cardinality(Trying \union {n}) = Cardinality(Trying) + 1
  BY <1>3, CountTypes, FS_AddElement
<1> QED BY <1>1, <1>3, <1>4

LEMMA AskCounts ==
    ASSUME TypeInv, NEW r \in Requests, r \notin asked, asked' = asked \union {r}
    PROVE  Unasked' \in Nat /\ Unasked' + 1 = Unasked
<1>1. Unasked' = Cardinality((Requests \ asked) \ {r}) /\ Unasked = Cardinality(Requests \ asked)
  <2>1. Requests \ asked' = (Requests \ asked) \ {r}
    OBVIOUS
  <2> QED BY <2>1 DEF Unasked
<1>2. IsFiniteSet(Requests \ asked) /\ r \in Requests \ asked
  BY CountTypes
<1>3. /\ IsFiniteSet((Requests \ asked) \ {r})
      /\ Cardinality((Requests \ asked) \ {r}) = Cardinality(Requests \ asked) - 1
  BY <1>2, FS_RemoveElement
<1>4. Cardinality((Requests \ asked) \ {r}) \in Nat /\ Cardinality(Requests \ asked) \in Nat
  BY <1>2, <1>3, FS_CardinalityType
<1> QED BY <1>1, <1>3, <1>4

(* returnSignedData() and returnSignFailure().                             *)
LEMMA AnswerTypes ==
    ASSUME PageType, NEW p \in Pages, NEW r \in Requests \union {None},
           NEW answer \in Requests \union {Failed},
           NEW b, Clean(b), Answer(p, r, answer, b), DOMAIN jobs \subseteq DOMAIN jobs'
    PROVE  /\ got' \in [Requests -> Seq(Requests \union {Failed})]
           /\ StackType' /\ PreparingOnTop' /\ Busy' = 0
           /\ stack' # <<>> => TopFrame'.kind \notin Preparing
<1>1. CASE r = None
  BY <1>1, LeftAt DEF Answer, PageType
<1>2. CASE r # None
  <2>1. got' = [got EXCEPT ![r] = Append(@, answer)] /\ stack' = Append(b, Frame("js", p, None))
    BY <1>2 DEF Answer
  <2>2. \A q \in Requests : Append(got[q], answer) \in Seq(Requests \union {Failed})
    BY AppendProperties DEF PageType
  <2>3. got' \in [Requests -> Seq(Requests \union {Failed})]
    BY <2>1, <2>2 DEF PageType
  <2>4. /\ Frame("js", p, None) \in Frames /\ Frame("js", p, None).kind = "js"
        /\ Frame("js", p, None).job = None
    BY FrameType, Markers
  <2>5. StackType' /\ PreparingOnTop' /\ Busy' = 0 /\ TopFrame' = Frame("js", p, None)
    BY <2>1, <2>4, PushedOn DEF Preparing
  <2> QED BY <2>3, <2>4, <2>5 DEF Preparing
<1> QED BY <1>1, <1>2

(* The types after a step of the main thread that leaves the threads.      *)
LEMMA MainTypes ==
    ASSUME TypeInv, PageType', CardType', UNCHANGED <<jobs, tries, asked>>,
           StackType', PreparingOnTop', DocumentsSet', Busy' <= Busy, Busy' \in {0, 1}
    PROVE  TypeInv'
<1>1. JobsType'
  BY DEF TypeInv, JobsType
<1>2. Wrong' = Wrong /\ Trying' = Trying /\ Unasked' = Unasked
  BY SameCounts DEF Unasked
<1>3. /\ Len(jobs) \in Nat /\ Unasked \in Nat /\ Cardinality(Wrong) \in Nat
      /\ Cardinality(Trying) \in Nat /\ Busy \in {0, 1} /\ tries \in 0..MaxTries
  BY CountTypes DEF TypeInv, CardType
<1>4. /\ Starts' \in Nat /\ Chances' \in Nat /\ Starts' <= Starts /\ Chances' <= Chances
  BY <1>2, <1>3 DEF Starts, Chances
<1>5. Starts \in Nat /\ Chances \in Nat /\ Len(jobs') = Len(jobs)
  BY CountTypes
<1>6. ThreadsBounded'
  BY <1>4, <1>5, StillBounded
<1> QED BY <1>1, <1>6 DEF TypeInv

(* A page's documents after such a step that leaves no frame that waits.   *)
LEMMA SameDocuments ==
    ASSUME TypeInv, UNCHANGED <<m_hash, callbacks, jobs>>,
           stack' # <<>> => TopFrame'.kind \notin Preparing
    PROVE  DocumentsSet'
BY DEF TypeInv, DocumentsSet, Top, Preparing

LEMMA signAsyncTypes ==
    ASSUME TypeInv, NEW p \in Pages, NEW r \in Requests, signAsync(p, r)
    PROVE  TypeInv'
<1> USE Markers
<1>1. /\ PageType /\ r \notin asked /\ asked' = asked \union {r}
      /\ UNCHANGED <<habit, alive, m_hash, callbacks, m_cardMutex, jobs, tries, consent>>
      /\ m_signCallback' = [m_signCallback EXCEPT ![p] = r]
      /\ owner' = [owner EXCEPT ![r] = p]
  BY DEF signAsync, TypeInv
<1>2. stack = <<>> \/ TopFrame.kind \notin Preparing
  BY DEF signAsync, MayCall, InLoop, Top, Preparing
<1>3. Clean(stack) /\ Busy = 0
  BY <1>2, StackClean DEF Busy
<1>4. /\ m_signCallback' \in [Pages -> Requests \union {None}]
      /\ owner' \in [Requests -> Pages \union {None}] /\ asked' \subseteq Requests
  BY <1>1 DEF PageType
<1>5. CardType' /\ JobsType'
  BY <1>1 DEF TypeInv, CardType, JobsType
<1>6. /\ got' \in [Requests -> Seq(Requests \union {Failed})]
      /\ StackType' /\ PreparingOnTop' /\ Busy' \in {0, 1} /\ DocumentsSet'
  <2>1. CASE Answer(p, r, Failed, stack)
    <3>1. /\ got' \in [Requests -> Seq(Requests \union {Failed})]
          /\ StackType' /\ PreparingOnTop' /\ Busy' = 0
          /\ stack' # <<>> => TopFrame'.kind \notin Preparing
      BY <1>1, <1>3, <2>1, AnswerTypes
    <3> QED BY <1>1, <3>1, SameDocuments
  <2>2. CASE stack' = Append(stack, Frame("prepare", p, None)) /\ UNCHANGED got
    <3>1. /\ Frame("prepare", p, None) \in Frames /\ Frame("prepare", p, None).kind = "prepare"
          /\ Frame("prepare", p, None).job = None /\ Frame("prepare", p, None).page = p
      BY FrameType
    <3>2. /\ StackType' /\ PreparingOnTop' /\ Busy' \in {0, 1}
          /\ TopFrame' = Frame("prepare", p, None)
      BY <1>1, <1>3, <2>2, <3>1, PushedOn
    <3>3. m_signCallback'[p] # None
      BY <1>1 DEF PageType
    <3>4. DocumentsSet'
      BY <1>1, <3>1, <3>2, <3>3 DEF TypeInv, DocumentsSet, Top
    <3> QED BY <1>1, <2>2, <3>2, <3>4 DEF PageType
  <2> QED BY <2>1, <2>2 DEF signAsync
<1>7. PageType'
  BY <1>1, <1>4, <1>6 DEF PageType
<1>8. ThreadsBounded'
  <2>1. Wrong' = Wrong /\ Trying' = Trying /\ Unasked' \in Nat /\ Unasked' + 1 = Unasked
    BY <1>1, SameCounts, AskCounts
  <2>2. /\ Len(jobs) \in Nat /\ Cardinality(Wrong) \in Nat /\ Cardinality(Trying) \in Nat
        /\ tries' = tries /\ tries \in 0..MaxTries /\ Len(jobs') = Len(jobs)
    BY <1>1, CountTypes DEF TypeInv, CardType
  <2>3. PICK b \in {0, 1} : b = Busy'
    BY <1>6
  <2>4. PICK u \in Nat : u = Unasked'
    BY <2>1
  <2>5. PICK w \in Nat, t \in Nat : w = Cardinality(Wrong) /\ t = Cardinality(Trying)
    BY <2>2
  <2>6. Starts' = b + u + w /\ Chances' = b + u + t
    BY <2>1, <2>3, <2>4, <2>5 DEF Starts, Chances
  <2>7. Starts = 0 + (u + 1) + w /\ Chances = 0 + (u + 1) + t
    BY <1>3, <2>1, <2>4, <2>5 DEF Starts, Chances
  <2>8. /\ b + u + w \in Nat /\ b + u + t \in Nat
        /\ b + u + w <= 0 + (u + 1) + w /\ b + u + t <= 0 + (u + 1) + t
    OBVIOUS
  <2>9. /\ Starts' \in Nat /\ Chances' \in Nat /\ Starts' <= Starts /\ Chances' <= Chances
    BY <2>6, <2>7, <2>8, Zenon
  <2> QED BY <2>2, <2>9, StillBounded
<1> QED BY <1>5, <1>6, <1>7, <1>8 DEF TypeInv

(***************************************************************************)
(* The steps of the threads.                                               *)
(***************************************************************************)

WrongAt(pc)  == IF pc = "wrong" THEN 1 ELSE 0
TryingAt(pc) == IF pc \in {"created", "signing", "wrong"} THEN 1 ELSE 0

LEMMA ThreadBounded ==
    ASSUME TypeInv, NEW j \in DOMAIN jobs, NEW pc, NEW to, Goes(j, pc, to), asked' = asked,
           NEW b \in {0, 1}, b = Busy', NEW left \in 0..MaxTries, left = tries',
           \/ /\ b + TryingAt(pc) <= Busy + TryingAt(jobs[j].pc)
              /\ b + WrongAt(pc) + left <= Busy + WrongAt(jobs[j].pc) + tries
           \/ /\ b + TryingAt(pc) + 1 <= Busy + TryingAt(jobs[j].pc)
              /\ b + WrongAt(pc) <= Busy + WrongAt(jobs[j].pc)
    PROVE  ThreadsBounded'
<1>1. PICK n \in Nat, u \in Nat, w \in Nat, t \in Nat, b0 \in {0, 1}, left0 \in Nat :
        /\ n = Len(jobs) /\ u = Unasked /\ w = Cardinality(Wrong) /\ t = Cardinality(Trying)
        /\ b0 = Busy /\ left0 = tries
  BY CountTypes, ConstantsAssumption DEF TypeInv, CardType
<1>2. PICK v \in Nat, s \in Nat : v = Cardinality(Wrong') /\ s = Cardinality(Trying')
  BY GoesCounts
<1>3. PICK wa \in {0, 1}, wb \in {0, 1}, ta \in {0, 1}, tb \in {0, 1} :
        /\ wa = WrongAt(jobs[j].pc) /\ wb = WrongAt(pc)
        /\ ta = TryingAt(jobs[j].pc) /\ tb = TryingAt(pc)
  BY DEF WrongAt, TryingAt
<1>4. v + wa = w + wb /\ s + ta = t + tb
  BY <1>1, <1>2, <1>3, GoesCounts DEF WrongAt, TryingAt
<1>5. Unasked' = u
  BY <1>1 DEF Unasked
<1>6. /\ Starts = b0 + u + w /\ Chances = b0 + u + t
      /\ Starts' = b + u + v /\ Chances' = b + u + s
  BY <1>1, <1>2, <1>5 DEF Starts, Chances
<1>7. \/ b + tb <= b0 + ta /\ b + wb + left <= b0 + wa + left0
      \/ b + tb + 1 <= b0 + ta /\ b + wb <= b0 + wa
  BY <1>1, <1>3
<1>8. \/ b + u + s <= b0 + u + t /\ n + (b + u + v) + left <= n + (b0 + u + w) + left0
      \/ b + u + s + 1 <= b0 + u + t /\ n + (b + u + v) <= n + (b0 + u + w)
  BY ONLY <1>4, <1>7, ConstantsAssumption
<1>9. Len(jobs') = n
  BY <1>1 DEF Goes
<1>10. \/ Chances' <= Chances /\ Len(jobs') + Starts' + tries' <= Len(jobs) + Starts + tries
       \/ Chances' + 1 <= Chances /\ Len(jobs') + Starts' <= Len(jobs) + Starts
  BY <1>1, <1>6, <1>8, <1>9, Zenon
<1>11. b + u + v \in Nat /\ b + u + s \in Nat
  BY ONLY <1>4
<1>12. Len(jobs') \in Nat /\ Starts' \in Nat /\ Chances' \in Nat /\ tries' \in 0..MaxTries
  BY <1>6, <1>9, <1>11, Zenon
<1> QED BY <1>10, <1>12, Bounded

(* A step of a signing thread that leaves the main thread where it is.     *)
LEMMA JobTypes ==
    ASSUME TypeInv, NEW j \in DOMAIN jobs,
           NEW pc \in {"created", "signing", "delivered", "done"} \union Waiting,
           NEW to \in {jobs[j].to, callbacks}, Goes(j, pc, to),
           UNCHANGED <<habit, alive, page, callbacks, stack>>,
           m_cardMutex' \in DOMAIN jobs \union {Monitor, None},
           tries' \in 0..MaxTries, consent' \subseteq Requests,
           \/ /\ TryingAt(pc) <= TryingAt(jobs[j].pc)
              /\ WrongAt(pc) + tries' <= WrongAt(jobs[j].pc) + tries
           \/ /\ TryingAt(pc) + 1 <= TryingAt(jobs[j].pc)
              /\ WrongAt(pc) <= WrongAt(jobs[j].pc)
    PROVE  TypeInv'
<1>1. PageType'
  BY DEF TypeInv, PageType, page
<1>2. CardType' /\ JobsType' /\ StackType' /\ PreparingOnTop'
  BY DEF TypeInv, CardType, JobsType, StackType, PreparingOnTop, Goes
<1>3. DocumentsSet'
  <2>1. \A k \in DOMAIN jobs' : jobs'[k].to # None => m_hash[jobs'[k].to] # None
    <3>1. callbacks # None => m_hash[callbacks] # None
      BY DEF TypeInv, DocumentsSet
    <3>2. \A k \in DOMAIN jobs : jobs[k].to # None => m_hash[jobs[k].to] # None
      BY DEF TypeInv, DocumentsSet
    <3>3. jobs'[j].to = to /\ DOMAIN jobs' = DOMAIN jobs
          /\ \A k \in DOMAIN jobs : k # j => jobs'[k] = jobs[k]
      BY DEF Goes
    <3> QED BY <3>1, <3>2, <3>3
  <2> QED BY <2>1 DEF TypeInv, DocumentsSet, Top, TopFrame, page
<1>4. ThreadsBounded'
  <2>1. Busy' = Busy
    BY DEF Busy, TopFrame
  <2>2. PICK b \in {0, 1} : b = Busy
    BY CountTypes
  <2>3. PICK left0 \in Nat, left \in 0..MaxTries : left0 = tries /\ left = tries'
    BY ConstantsAssumption DEF TypeInv, CardType
  <2>4. PICK wa \in {0, 1}, wb \in {0, 1}, ta \in {0, 1}, tb \in {0, 1} :
          /\ wa = WrongAt(jobs[j].pc) /\ wb = WrongAt(pc)
          /\ ta = TryingAt(jobs[j].pc) /\ tb = TryingAt(pc)
    BY DEF WrongAt, TryingAt
  <2>5. \/ tb <= ta /\ wb + left <= wa + left0
        \/ tb + 1 <= ta /\ wb <= wa
    BY <2>3, <2>4
  <2>6. \/ b + tb <= b + ta /\ b + wb + left <= b + wa + left0
        \/ b + tb + 1 <= b + ta /\ b + wb <= b + wa
    BY <2>5, ConstantsAssumption
  <2>7. \/ /\ b + TryingAt(pc) <= Busy + TryingAt(jobs[j].pc)
           /\ b + WrongAt(pc) + left <= Busy + WrongAt(jobs[j].pc) + tries
        \/ /\ b + TryingAt(pc) + 1 <= Busy + TryingAt(jobs[j].pc)
           /\ b + WrongAt(pc) <= Busy + WrongAt(jobs[j].pc)
    BY <2>2, <2>3, <2>4, <2>6, Zenon
  <2>8. asked' = asked /\ b = Busy' /\ left = tries'
    BY <2>1, <2>2, <2>3 DEF page
  <2> QED BY <2>7, <2>8, ThreadBounded
<1> QED BY <1>1, <1>2, <1>3, <1>4 DEF TypeInv

LEMMA ThreadType ==
    ASSUME TypeInv, NEW j \in DOMAIN jobs
    PROVE  jobs[j] \in Threads
BY ElementOfSeq, LenProperties DEF TypeInv, JobsType

LEMMA LockTypes ==
    ASSUME TypeInv, NEW j \in DOMAIN jobs, Lock(j)
    PROVE  TypeInv' /\ Goes(j, "signing", jobs[j].to)
<1>1. Goes(j, "signing", jobs[j].to)
  BY ThreadType, ThreadGoes DEF Lock, TypeInv, Threads
<1>2. /\ TryingAt("signing") <= TryingAt(jobs[j].pc)
      /\ WrongAt("signing") + tries' <= WrongAt(jobs[j].pc) + tries
  <2>1. tries \in 0..MaxTries /\ tries' = tries /\ jobs[j].pc = "created"
    BY DEF Lock, TypeInv, CardType
  <2> QED BY <2>1, ConstantsAssumption DEF TryingAt, WrongAt
<1>3. /\ m_cardMutex' \in DOMAIN jobs \union {Monitor, None} /\ consent' \subseteq Requests
      /\ tries' \in 0..MaxTries /\ UNCHANGED <<habit, alive, page, callbacks, stack>>
  BY DEF Lock, TypeInv, CardType, PageType
<1>4. TypeInv'
  BY <1>1, <1>2, <1>3, JobTypes
<1> QED BY <1>1, <1>4

LEMMA CompletedTypes ==
    ASSUME TypeInv, NEW j \in DOMAIN jobs, Completed(j)
    PROVE  TypeInv' /\ Goes(j, "completed", callbacks)
<1>1. Goes(j, "completed", callbacks)
  BY ThreadGoes DEF Completed, TypeInv, CardType, Waiting
<1>2. consent' \subseteq Requests
  BY ThreadType DEF Completed, TypeInv, PageType, Threads
<1>3. tries' \in 0..MaxTries /\ m_cardMutex' \in DOMAIN jobs \union {Monitor, None}
  BY ConstantsAssumption DEF Completed, TypeInv, CardType
<1>4. /\ TryingAt("completed") + 1 <= TryingAt(jobs[j].pc)
      /\ WrongAt("completed") <= WrongAt(jobs[j].pc)
  BY DEF Completed, TryingAt, WrongAt
<1>5. UNCHANGED <<habit, alive, page, callbacks, stack>>
  BY DEF Completed
<1>6. TypeInv'
  BY <1>1, <1>2, <1>3, <1>4, <1>5, JobTypes DEF Waiting
<1> QED BY <1>1, <1>6

LEMMA OneTryLess ==
    ASSUME NEW a \in Nat, NEW b \in Nat
    PROVE  /\ a <= b => 0 <= 1 /\ 0 + a <= 0 + b
           /\ 1 + a <= b => 1 <= 1 /\ 1 + a <= 0 + b
  OBVIOUS

LEMMA ThrewTypes ==
    ASSUME TypeInv, NEW j \in DOMAIN jobs, NEW error \in {"wrong", "other"}, Threw(j, error)
    PROVE  /\ TypeInv' /\ SignError(error) \in {"wrong", "blocked", "aborted"}
           /\ Goes(j, SignError(error), callbacks)
<1>1. SignError(error) \in {"wrong", "blocked", "aborted"}
  BY DEF SignError
<1>2. Goes(j, SignError(error), callbacks)
  BY <1>1, ThreadGoes DEF Threw, TypeInv, CardType, Waiting
<1>3. /\ tries' \in 0..MaxTries
      /\ tries' <= tries /\ (SignError(error) = "wrong" => 1 + tries' <= tries)
  <2>1. tries \in 0..MaxTries
    BY DEF TypeInv, CardType
  <2> QED BY <2>1, ConstantsAssumption DEF Threw, Spent, SignError
<1>4. m_cardMutex' \in DOMAIN jobs \union {Monitor, None} /\ consent' \subseteq Requests
      /\ UNCHANGED <<habit, alive, page, callbacks, stack>> /\ jobs[j].pc = "signing"
  BY DEF Threw, TypeInv, PageType
<1>5. \/ /\ TryingAt(SignError(error)) <= TryingAt(jobs[j].pc)
         /\ WrongAt(SignError(error)) + tries' <= WrongAt(jobs[j].pc) + tries
  <2>1. tries \in Nat /\ tries' \in Nat
    BY <1>3, ConstantsAssumption DEF TypeInv, CardType
  <2>0. tries' <= tries
    BY <1>3
  <2>2. TryingAt(jobs[j].pc) = 1 /\ WrongAt(jobs[j].pc) = 0
    BY <1>4 DEF TryingAt, WrongAt
  <2>3. CASE SignError(error) = "wrong"
    <3>1. TryingAt(SignError(error)) = 1 /\ WrongAt(SignError(error)) = 1
      BY <2>3 DEF TryingAt, WrongAt
    <3>2. 1 + tries' <= tries
      BY <1>3, <2>3
    <3>3. 1 <= 1 /\ 1 + tries' <= 0 + tries
      BY <2>1, <3>2, OneTryLess, Zenon
    <3> QED BY <2>2, <3>1, <3>3, Zenon
  <2>4. CASE SignError(error) \in {"blocked", "aborted"}
    <3>1. TryingAt(SignError(error)) = 0 /\ WrongAt(SignError(error)) = 0
      BY <2>4 DEF TryingAt, WrongAt
    <3>2. 0 <= 1 /\ 0 + tries' <= 0 + tries
      BY <2>0, <2>1, OneTryLess, Zenon
    <3> QED BY <2>2, <3>1, <3>2, Zenon
  <2> QED BY <1>1, <2>3, <2>4
<1>6. TypeInv'
  BY <1>1, <1>2, <1>3, <1>4, <1>5, JobTypes DEF Waiting
<1> QED BY <1>1, <1>2, <1>6

LEMMA HostGoneTypes ==
    ASSUME TypeInv, NEW j \in DOMAIN jobs, HostGone(j)
    PROVE  TypeInv' /\ Goes(j, "done", jobs[j].to)
<1>1. Goes(j, "done", jobs[j].to)
  BY ThreadType, ThreadGoes DEF HostGone, Finish, TypeInv, Threads
<1>2. /\ TryingAt("done") <= TryingAt(jobs[j].pc)
      /\ WrongAt("done") + tries' <= WrongAt(jobs[j].pc) + tries
  <2>1. tries \in 0..MaxTries /\ tries' = tries
    BY DEF HostGone, TypeInv, CardType
  <2> QED BY <2>1, ConstantsAssumption DEF TryingAt, WrongAt
<1>3. /\ m_cardMutex' \in DOMAIN jobs \union {Monitor, None} /\ consent' \subseteq Requests
      /\ tries' \in 0..MaxTries /\ UNCHANGED <<habit, alive, page, callbacks, stack>>
  BY DEF HostGone, Finish, TypeInv, CardType, PageType
<1>4. TypeInv'
  BY <1>1, <1>2, <1>3, JobTypes
<1> QED BY <1>1, <1>4

(***************************************************************************)
(* The steps of the main thread.                                           *)
(***************************************************************************)

(* A request is answered, or its page has no callback to answer with.      *)
LEMMA ReturnTypes ==
    ASSUME TypeInv, NEW p \in Pages, NEW answer \in Requests \union {Failed},
           NEW b, Clean(b), Return(p, answer, b),
           UNCHANGED <<habit, alive, owner, m_signCallback, m_hash, asked, callbacks,
                       m_cardMutex, jobs, tries, consent>>
    PROVE  TypeInv'
<1>1. m_signCallback[p] \in Requests \union {None} /\ PageType
  BY DEF TypeInv, PageType
<1>2. /\ got' \in [Requests -> Seq(Requests \union {Failed})]
      /\ StackType' /\ PreparingOnTop' /\ Busy' = 0
      /\ stack' # <<>> => TopFrame'.kind \notin Preparing
  BY <1>1, AnswerTypes DEF Return
<1>3. PageType' /\ CardType' /\ DocumentsSet'
  BY <1>1, <1>2, SameDocuments DEF TypeInv, PageType, CardType
<1>4. Busy' <= Busy
  BY <1>2, CountTypes
<1> QED BY <1>2, <1>3, <1>4, MainTypes

LEMMA TopTypes ==
    ASSUME TypeInv, NEW kind, Top(kind)
    PROVE  /\ Clean(Below) /\ TopFrame.page \in Pages /\ stack # <<>> /\ TopFrame.kind = kind
           /\ TopFrame.job \in DOMAIN jobs \union {None}
<1>1. Clean(Below) /\ Longer(stack, Below) /\ TopFrame \in Frames /\ stack # <<>>
  BY BelowClean DEF Top
<1>2. TopFrame.job \in DOMAIN jobs \union {None}
  BY <1>1 DEF TypeInv, StackType, TopFrame, Longer
<1> QED BY <1>1, <1>2 DEF Top, Frames

LEMMA prepareSignTypes ==
    ASSUME TypeInv, prepareSign
    PROVE  TypeInv'
<1> DEFINE p == TopFrame.page
<1>1. Top("prepare")
  BY DEF prepareSign, Locking
<1>2. /\ Clean(Below) /\ p \in Pages /\ Busy = 1
      /\ m_signCallback[p] \in Requests
  BY <1>1, TopTypes DEF Preparing, Busy, TypeInv, DocumentsSet, PageType
<1>3. UNCHANGED <<habit, alive, owner, m_signCallback, asked, callbacks, m_cardMutex,
                  jobs, tries, consent>>
  BY DEF prepareSign
<1>4. CASE /\ m_hash' = [m_hash EXCEPT ![p] = m_signCallback[p]]
           /\ stack' = Append(Below, Frame("askPin", p, None)) /\ UNCHANGED got
  <2>1. /\ Frame("askPin", p, None) \in Frames /\ Frame("askPin", p, None).kind = "askPin"
        /\ Frame("askPin", p, None).job = None /\ Frame("askPin", p, None).page = p
    BY <1>2, FrameType, Markers
  <2> HIDE DEF p
  <2>2. /\ StackType' /\ PreparingOnTop' /\ Busy' = 1 /\ TopFrame' = Frame("askPin", p, None)
    BY <1>2, <1>3, <1>4, <2>1, PushedOn DEF Preparing
  <2>3. /\ m_hash' \in [Pages -> Requests \union {None}] /\ m_hash'[p] # None
        /\ \A q \in Pages : m_hash[q] # None => m_hash'[q] # None
    BY <1>2, <1>4, Markers DEF TypeInv, PageType
  <2>4. PageType' /\ CardType'
    BY <1>3, <1>4, <2>3 DEF TypeInv, PageType, CardType
  <2>5. DocumentsSet'
    <3>1. callbacks' # None => m_hash'[callbacks'] # None
      BY <1>3, <2>3 DEF TypeInv, CardType, DocumentsSet
    <3>2. \A j \in DOMAIN jobs' : jobs'[j].to # None => m_hash'[jobs'[j].to] # None
      BY <1>3, <2>3, ThreadType DEF TypeInv, DocumentsSet, Threads
    <3>3. Top("prepare")' => m_signCallback'[TopFrame'.page] # None
      BY <2>1, <2>2 DEF Top
    <3>4. m_hash'[TopFrame'.page] # None
      BY <2>1, <2>2, <2>3
    <3> QED BY <3>1, <3>2, <3>3, <3>4 DEF DocumentsSet
  <2> QED BY <1>2, <1>3, <2>2, <2>4, <2>5, MainTypes
<1>5. CASE Return(p, Failed, Below) /\ UNCHANGED m_hash
  <2> HIDE DEF p
  <2> QED BY <1>2, <1>3, <1>5, ReturnTypes
<1> QED BY <1>4, <1>5 DEF prepareSign

LEMMA askPinTypes ==
    ASSUME TypeInv, askPin
    PROVE  TypeInv'
<1> DEFINE p == TopFrame.page
<1>1. Top("askPin")
  BY DEF askPin, Locking
<1>2. /\ Clean(Below) /\ p \in Pages /\ Busy = 1 /\ m_hash[p] # None
  BY <1>1, TopTypes DEF Preparing, Busy, TypeInv, DocumentsSet
<1>3. UNCHANGED <<habit, alive, owner, m_signCallback, m_hash, asked, m_cardMutex,
                  jobs, tries, consent>>
  BY DEF askPin
<1>4. PageType /\ CardType
  BY DEF TypeInv
<1>5. CASE /\ stack' = Append(Below, Frame("message", p, None))
           /\ UNCHANGED <<got, callbacks>>
  <2>1. /\ Frame("message", p, None) \in Frames /\ Frame("message", p, None).kind = "message"
        /\ Frame("message", p, None).job = None
    BY <1>2, FrameType, Markers
  <2> HIDE DEF p
  <2>2. /\ StackType' /\ PreparingOnTop' /\ Busy' = 0
        /\ TopFrame'.kind \notin Preparing
    BY <1>2, <1>3, <1>5, <2>1, PushedOn DEF Preparing
  <2>3. PageType' /\ CardType' /\ DocumentsSet'
    BY <1>3, <1>4, <1>5, <2>2, SameDocuments DEF PageType, CardType
  <2> QED BY <1>2, <1>3, <2>2, <2>3, MainTypes
<1>6. CASE /\ callbacks' = BoundTo(p)
           /\ stack' = Append(Below, Frame("start", p, None)) /\ UNCHANGED got
  <2>1. /\ Frame("start", p, None) \in Frames /\ Frame("start", p, None).kind = "start"
        /\ Frame("start", p, None).job = None /\ Frame("start", p, None).page = p
    BY <1>2, FrameType, Markers
  <2> HIDE DEF p
  <2>2. /\ StackType' /\ PreparingOnTop' /\ Busy' = 1 /\ TopFrame' = Frame("start", p, None)
    BY <1>2, <1>3, <1>6, <2>1, PushedOn DEF Preparing
  <2>3. PageType' /\ CardType' /\ callbacks' = p
    BY <1>2, <1>3, <1>4, <1>6 DEF PageType, CardType, BoundTo
  <2>4. DocumentsSet'
    <3>1. \A j \in DOMAIN jobs' : jobs'[j].to # None => m_hash'[jobs'[j].to] # None
      BY <1>3 DEF TypeInv, DocumentsSet
    <3>2. Top("prepare")' => m_signCallback'[TopFrame'.page] # None
      BY <2>1, <2>2 DEF Top
    <3>3. m_hash'[TopFrame'.page] # None /\ m_hash'[callbacks'] # None
      BY <1>2, <1>3, <2>1, <2>2, <2>3
    <3> QED BY <3>1, <3>2, <3>3 DEF DocumentsSet
  <2> QED BY <1>2, <1>3, <2>2, <2>3, <2>4, MainTypes
<1>7. CASE Return(p, Failed, Below) /\ UNCHANGED callbacks
  <2> HIDE DEF p
  <2> QED BY <1>2, <1>3, <1>7, ReturnTypes
<1> QED BY <1>5, <1>6, <1>7 DEF askPin

LEMMA signSHA1AsyncTypes ==
    ASSUME TypeInv, signSHA1Async
    PROVE  TypeInv'
<1> DEFINE p == TopFrame.page
           t == [pc |-> "created", doc |-> m_hash[p], to |-> None]
<1>1. Top("start")
  BY DEF signSHA1Async, Locking
<1>2. /\ Clean(Below) /\ p \in Pages /\ Busy = 1 /\ m_hash[p] # None
  BY <1>1, TopTypes DEF Preparing, Busy, TypeInv, DocumentsSet
<1>3. UNCHANGED <<habit, alive, owner, m_signCallback, m_hash, asked, callbacks,
                  m_cardMutex, tries, consent>>
  BY DEF signSHA1Async
<1>4. PageType /\ CardType
  BY DEF TypeInv
<1>5. CASE jobs' = Append(jobs, t) /\ stack' = Below /\ UNCHANGED got
  <2>1. t \in Threads /\ t.pc = "created" /\ t.to = None
    BY <1>2, <1>4 DEF PageType, Threads
  <2> HIDE DEF t, p
  <2>2. /\ jobs' \in Seq(Threads) /\ Longer(jobs', jobs) /\ jobs'[Len(jobs')] = t
        /\ Cardinality(Wrong') = Cardinality(Wrong)
        /\ Cardinality(Trying') = Cardinality(Trying) + 1
    BY <1>5, <2>1, StartCounts
  <2>3. DOMAIN jobs \subseteq DOMAIN jobs'
    BY <2>2 DEF Longer
  <2>4. /\ StackType' /\ PreparingOnTop' /\ Busy' = 0
        /\ stack' # <<>> => TopFrame'.kind \notin Preparing
    BY <1>2, <1>5, <2>3, LeftAt
  <2>5. PageType' /\ CardType' /\ JobsType'
    BY <1>3, <1>4, <1>5, <2>2, <2>3 DEF PageType, CardType, JobsType
  <2>6. DocumentsSet'
    <3>1. ASSUME NEW j \in DOMAIN jobs', jobs'[j].to # None PROVE m_hash'[jobs'[j].to] # None
      <4>1. j # Len(jobs')
        BY <2>1, <2>2, <3>1
      <4>2. j \in DOMAIN jobs /\ jobs'[j] = jobs[j]
        BY <2>2, <4>1 DEF Longer
      <4> QED BY <1>3, <3>1, <4>2 DEF TypeInv, DocumentsSet
    <3>2. callbacks' # None => m_hash'[callbacks'] # None
      BY <1>3 DEF TypeInv, DocumentsSet
    <3> QED BY <2>4, <3>1, <3>2 DEF DocumentsSet, Top, Preparing
  <2>7. ThreadsBounded'
    <3>1. PICK n \in Nat, u \in Nat, w \in Nat, c \in Nat, left \in Nat :
            /\ n = Len(jobs) /\ u = Unasked /\ w = Cardinality(Wrong)
            /\ c = Cardinality(Trying) /\ left = tries
      BY CountTypes, ConstantsAssumption DEF TypeInv, CardType
    <3>2. /\ Starts = 1 + u + w /\ Chances = 1 + u + c
      BY <1>2, <3>1 DEF Starts, Chances
    <3>3. Unasked' = u /\ Busy' = 0
      BY <1>3, <2>4, <3>1 DEF Unasked
    <3>4. /\ Starts' = 0 + u + w /\ Chances' = 0 + u + (c + 1) /\ Len(jobs') = n + 1
      BY <2>2, <3>1, <3>3 DEF Starts, Chances, Longer
    <3>5. /\ 0 + u + w \in Nat /\ 0 + u + (c + 1) \in Nat /\ n + 1 \in Nat
          /\ 0 + u + (c + 1) <= 1 + u + c
          /\ (n + 1) + (0 + u + w) + left <= n + (1 + u + w) + left
      BY ONLY TRUE
    <3>6. tries' = tries /\ tries' \in 0..MaxTries
      BY <1>3, <1>4 DEF CardType
    <3>7. /\ Len(jobs') \in Nat /\ Starts' \in Nat /\ Chances' \in Nat
          /\ Chances' <= Chances /\ Len(jobs') + Starts' + tries' <= Len(jobs) + Starts + tries
      BY <3>1, <3>2, <3>4, <3>5, <3>6, Zenon
    <3> QED BY <3>6, <3>7, Bounded
  <2> QED BY <2>4, <2>5, <2>6, <2>7 DEF TypeInv
<1>6. CASE Return(p, Failed, Below) /\ UNCHANGED jobs
  <2> HIDE DEF p
  <2> QED BY <1>2, <1>3, <1>6, ReturnTypes
<1> QED BY <1>5, <1>6 DEF signSHA1Async

LEMMA CloseMessageTypes ==
    ASSUME TypeInv, CloseMessage
    PROVE  TypeInv'
<1>1. Clean(Below) /\ TopFrame.page \in Pages
  BY TopTypes DEF CloseMessage
<1> QED BY <1>1, ReturnTypes DEF CloseMessage

(* The main thread returns to below.                                       *)
LEMMA BackTypes ==
    ASSUME TypeInv, NEW b, Clean(b), stack' = b, PageType', CardType', m_hash' = m_hash,
           UNCHANGED <<callbacks, jobs, tries, asked>>
    PROVE  TypeInv'
<1>1. /\ StackType' /\ PreparingOnTop' /\ Busy' = 0
      /\ stack' # <<>> => TopFrame'.kind \notin Preparing
  BY LeftAt
<1>2. DocumentsSet' /\ Busy' <= Busy
  BY <1>1, SameDocuments, CountTypes
<1> QED BY <1>1, <1>2, MainTypes

(* The main thread calls into something that does not sign.                *)
LEMMA CalledTypes ==
    ASSUME TypeInv, NEW b, Clean(b), NEW p \in Pages, NEW kind \in {"use", "join"},
           stack' = Append(b, Frame(kind, p, None)),
           PageType', CardType', UNCHANGED <<m_hash, callbacks, jobs, tries, asked>>
    PROVE  TypeInv'
<1>1. /\ Frame(kind, p, None) \in Frames /\ Frame(kind, p, None).kind \notin Preparing
      /\ Frame(kind, p, None).job = None
  BY FrameType, Markers DEF Preparing
<1>2. /\ StackType' /\ PreparingOnTop' /\ Busy' = 0 /\ TopFrame'.kind \notin Preparing
  BY <1>1, PushedOn
<1>3. DocumentsSet' /\ Busy' <= Busy
  BY <1>2, SameDocuments, CountTypes
<1> QED BY <1>2, <1>3, MainTypes

LEMMA JsReturnTypes ==
    ASSUME TypeInv, JsReturn
    PROVE  TypeInv'
<1>1. Clean(Below) /\ TopFrame.page \in Pages
  BY TopTypes DEF JsReturn
<1>2. PageType' /\ CardType'
  BY <1>1 DEF JsReturn, TypeInv, PageType, CardType
<1> QED BY <1>1, <1>2, BackTypes DEF JsReturn

LEMMA UseCardTypes ==
    ASSUME TypeInv, NEW p \in Pages, UseCard(p)
    PROVE  TypeInv'
<1>1. stack = <<>> \/ TopFrame.kind \notin Preparing
  BY DEF UseCard, MayCall, InLoop, Top, Preparing
<1>2. Clean(stack)
  BY <1>1, StackClean
<1>3. PageType' /\ CardType'
  BY DEF UseCard, TypeInv, PageType, CardType, page
<1> QED BY <1>2, <1>3, CalledTypes DEF UseCard, page

LEMMA UseCardReturnTypes ==
    ASSUME TypeInv, UseCardReturn
    PROVE  TypeInv'
<1>1. Clean(Below)
  BY TopTypes DEF UseCardReturn, Locking
<1>2. PageType' /\ CardType'
  BY DEF UseCardReturn, TypeInv, PageType, CardType, page
<1> QED BY <1>1, <1>2, BackTypes DEF UseCardReturn, page

LEMMA EmptyClean == ASSUME TypeInv PROVE Clean(<<>>)
BY EmptySeq DEF Clean

LEMMA JoinedTypes ==
    ASSUME TypeInv, Joined
    PROVE  TypeInv'
<1>1. PageType' /\ CardType'
  BY DEF Joined, TypeInv, PageType, CardType, page
<1> QED BY <1>1, EmptyClean, BackTypes DEF Joined, page

LEMMA ClosePageTypes ==
    ASSUME TypeInv, NEW p \in Pages, ClosePage(p)
    PROVE  TypeInv'
<1>1. PageType' /\ CardType'
  BY DEF ClosePage, TypeInv, PageType, CardType, page
<1>2. CASE stack' = <<>>
  BY <1>1, <1>2, EmptyClean, BackTypes DEF ClosePage, page
<1>3. CASE stack' = <<Frame("join", p, None)>>
  <2>1. stack' = Append(<<>>, Frame("join", p, None))
    BY <1>3
  <2> QED BY <1>1, <2>1, EmptyClean, CalledTypes DEF ClosePage, page
<1> QED BY <1>2, <1>3 DEF ClosePage

LEMMA PollTypes ==
    ASSUME TypeInv, PollStart \/ PollEnd
    PROVE  TypeInv'
<1>1. UNCHANGED <<habit, alive, page, callbacks, jobs, stack, tries, consent>>
      /\ m_cardMutex' \in {Monitor, None}
  BY DEF PollStart, PollEnd
<1>2. PageType' /\ CardType' /\ StackType' /\ PreparingOnTop' /\ DocumentsSet'
  BY <1>1 DEF TypeInv, PageType, CardType, StackType, PreparingOnTop, DocumentsSet, Top,
              TopFrame, page
<1>3. Busy' = Busy
  BY <1>1 DEF Busy, TopFrame
<1> QED BY <1>1, <1>2, <1>3, CountTypes, MainTypes DEF page

(* What a delivered call needs.                                            *)
LEMMA DeliverBase ==
    ASSUME TypeInv, NEW j \in DOMAIN jobs, Deliver(j)
    PROVE  LET p     == jobs[j].to
               below == Append(stack, Frame("deliver", p, j))
           IN /\ Goes(j, "delivered", p) /\ Clean(stack) /\ Clean(below)
              /\ Frame("deliver", p, j) \in Frames
              /\ p \in Pages /\ p \in alive /\ m_hash[p] # None
              /\ jobs[j].doc \in Requests /\ jobs[j].pc \in Waiting /\ InLoop /\ Busy = 0
              /\ \/ jobs[j].pc = "completed" /\ Return(p, jobs[j].doc, below)
                 \/ /\ jobs[j].pc = "wrong" /\ UNCHANGED got
                    /\ stack' = Append(below, Frame("askPin", p, None))
                 \/ /\ jobs[j].pc = "blocked" /\ UNCHANGED got
                    /\ stack' = Append(below, Frame("message", p, None))
                 \/ jobs[j].pc = "aborted" /\ Return(p, Failed, below)
<1> DEFINE p     == jobs[j].to
           below == Append(stack, Frame("deliver", p, j))
<1>1. jobs[j] \in Threads /\ jobs[j].doc \in Requests
  BY ThreadType DEF Threads
<1>2. InLoop /\ jobs[j].pc \in Waiting /\ p \in alive /\ p \in Pages /\ p # None
  BY Markers DEF Deliver, TypeInv, PageType
<1>3. m_hash[p] # None
  BY <1>2 DEF TypeInv, DocumentsSet
<1>4. Goes(j, "delivered", p)
  BY <1>2, ThreadGoes DEF Deliver, TypeInv
<1>5. stack = <<>> \/ TopFrame.kind \notin Preparing
  BY <1>2 DEF InLoop, Top, Preparing
<1>6. Clean(stack) /\ Busy = 0
  BY <1>5, StackClean DEF Busy
<1>7. j \in Nat
  BY CountTypes
<1>8. /\ Frame("deliver", p, j) \in Frames /\ Frame("deliver", p, j).kind = "deliver"
      /\ Frame("deliver", p, j).job = j
  BY <1>2, <1>7, FrameType
<1>9. Clean(below)
  BY <1>6, <1>8, CleanPush DEF Preparing
<1>10. \/ jobs[j].pc = "completed" /\ Return(p, jobs[j].doc, below)
       \/ /\ jobs[j].pc = "wrong" /\ UNCHANGED got
          /\ stack' = Append(below, Frame("askPin", p, None))
       \/ /\ jobs[j].pc = "blocked" /\ UNCHANGED got
          /\ stack' = Append(below, Frame("message", p, None))
       \/ jobs[j].pc = "aborted" /\ Return(p, Failed, below)
  BY <1>2 DEF Deliver, Waiting
<1> QED BY <1>1, <1>2, <1>3, <1>4, <1>6, <1>8, <1>9, <1>10

LEMMA DeliverTypes ==
    ASSUME TypeInv, NEW j \in DOMAIN jobs, Deliver(j)
    PROVE  TypeInv'
<1> DEFINE p     == jobs[j].to
           below == Append(stack, Frame("deliver", p, j))
<1>1. /\ Goes(j, "delivered", p) /\ Clean(below) /\ p \in Pages /\ m_hash[p] # None
      /\ jobs[j].doc \in Requests /\ Busy = 0
  BY DeliverBase
<1>2. \/ jobs[j].pc = "completed" /\ Return(p, jobs[j].doc, below)
      \/ /\ jobs[j].pc = "wrong" /\ UNCHANGED got
         /\ stack' = Append(below, Frame("askPin", p, None))
      \/ /\ jobs[j].pc = "blocked" /\ UNCHANGED got
         /\ stack' = Append(below, Frame("message", p, None))
      \/ jobs[j].pc = "aborted" /\ Return(p, Failed, below)
  BY DeliverBase
<1>3. UNCHANGED <<habit, alive, owner, m_signCallback, m_hash, asked, callbacks,
                  m_cardMutex, tries, consent>>
  BY DEF Deliver
<1> HIDE DEF p, below
<1>4. PageType /\ CardType /\ DOMAIN jobs' = DOMAIN jobs /\ DOMAIN jobs \subseteq DOMAIN jobs'
  BY <1>1 DEF TypeInv, Goes
<1>5. /\ got' \in [Requests -> Seq(Requests \union {Failed})]
      /\ StackType' /\ PreparingOnTop' /\ Busy' \in {0, 1}
      /\ Busy' = 1 => jobs[j].pc = "wrong"
      /\ \/ stack' # <<>> => TopFrame'.kind \notin Preparing
         \/ TopFrame'.kind = "askPin" /\ TopFrame'.page = p
  <2>1. CASE Return(p, jobs[j].doc, below) \/ Return(p, Failed, below)
    <3>1. m_signCallback[p] \in Requests \union {None}
      BY <1>1, <1>4 DEF PageType
    <3>2. PICK answer \in Requests \union {Failed} : Answer(p, m_signCallback[p], answer, below)
      BY <1>1, <2>1 DEF Return
    <3>3. /\ got' \in [Requests -> Seq(Requests \union {Failed})]
          /\ StackType' /\ PreparingOnTop' /\ Busy' = 0
          /\ stack' # <<>> => TopFrame'.kind \notin Preparing
      BY <1>1, <1>4, <3>1, <3>2, AnswerTypes
    <3> QED BY <3>3
  <2>2. CASE /\ jobs[j].pc = "wrong" /\ UNCHANGED got
             /\ stack' = Append(below, Frame("askPin", p, None))
    <3>1. /\ Frame("askPin", p, None) \in Frames /\ Frame("askPin", p, None).kind = "askPin"
          /\ Frame("askPin", p, None).job = None /\ Frame("askPin", p, None).page = p
      BY <1>1, FrameType, Markers
    <3>2. /\ StackType' /\ PreparingOnTop' /\ Busy' = 1 /\ TopFrame' = Frame("askPin", p, None)
      BY <1>1, <1>4, <2>2, <3>1, PushedOn DEF Preparing
    <3> QED BY <1>4, <2>2, <3>1, <3>2 DEF PageType
  <2>3. CASE UNCHANGED got /\ stack' = Append(below, Frame("message", p, None))
    <3>1. /\ Frame("message", p, None) \in Frames /\ Frame("message", p, None).kind = "message"
          /\ Frame("message", p, None).job = None
      BY <1>1, FrameType, Markers
    <3>2. /\ StackType' /\ PreparingOnTop' /\ Busy' = 0 /\ TopFrame'.kind \notin Preparing
      BY <1>1, <1>4, <2>3, <3>1, PushedOn DEF Preparing
    <3> QED BY <1>4, <2>3, <3>2 DEF PageType
  <2> QED BY <1>2, <2>1, <2>2, <2>3
<1>6. PageType' /\ CardType' /\ JobsType'
  BY <1>1, <1>3, <1>4, <1>5 DEF PageType, CardType, JobsType, Goes
<1>7. DocumentsSet'
  <2>1. ASSUME NEW k \in DOMAIN jobs', jobs'[k].to # None PROVE m_hash'[jobs'[k].to] # None
    BY <1>1, <1>3, <1>4, <2>1 DEF TypeInv, DocumentsSet, Goes
  <2>2. callbacks' # None => m_hash'[callbacks'] # None
    BY <1>3 DEF TypeInv, DocumentsSet
  <2>3. Top("askPin")' \/ Top("start")' => m_hash'[TopFrame'.page] # None
    BY <1>1, <1>3, <1>5 DEF Top, Preparing
  <2>4. ~Top("prepare")'
    BY <1>5 DEF Top, Preparing
  <2> QED BY <2>1, <2>2, <2>3, <2>4 DEF DocumentsSet
<1>8. ThreadsBounded'
  <2>1. PICK b \in {0, 1}, left \in 0..MaxTries : b = Busy' /\ left = tries /\ left = tries'
    BY <1>3, <1>4, <1>5 DEF CardType
  <2>2. PICK wa \in {0, 1}, ta \in {0, 1} :
          wa = WrongAt(jobs[j].pc) /\ ta = TryingAt(jobs[j].pc)
    BY DEF WrongAt, TryingAt
  <2>3. b <= wa /\ b <= ta
    BY <1>5, <2>1, <2>2 DEF WrongAt, TryingAt
  <2>4. b + 0 <= 0 + ta /\ b + 0 + left <= 0 + wa + left
    BY ONLY <2>3, ConstantsAssumption
  <2>5. WrongAt("delivered") = 0 /\ TryingAt("delivered") = 0
    BY DEF WrongAt, TryingAt
  <2>6. /\ b + TryingAt("delivered") <= Busy + TryingAt(jobs[j].pc)
        /\ b + WrongAt("delivered") + left <= Busy + WrongAt(jobs[j].pc) + tries
    BY <1>1, <2>1, <2>2, <2>4, <2>5, Zenon
  <2> QED BY <1>1, <1>3, <2>1, <2>6, ThreadBounded
<1> QED BY <1>5, <1>6, <1>7, <1>8 DEF TypeInv

LEMMA DeliveredTypes ==
    ASSUME TypeInv, Delivered
    PROVE  TypeInv'
<1> DEFINE j == TopFrame.job
<1>1. Clean(Below) /\ j \in DOMAIN jobs \union {None}
  BY TopTypes DEF Delivered
<1>2. /\ UNCHANGED <<habit, alive, page, callbacks, tries, consent>> /\ stack' = Below
      /\ jobs' = [jobs EXCEPT ![j].pc = "done"] /\ m_cardMutex' \in {m_cardMutex, None}
  BY DEF Delivered, Finish
<1>3. CASE j \notin DOMAIN jobs
  <2>1. jobs' = jobs
    BY <1>2, <1>3, LenProperties DEF TypeInv, JobsType
  <2>2. PageType' /\ CardType'
    BY <1>2, <2>1 DEF TypeInv, PageType, CardType, page
  <2> QED BY <1>1, <1>2, <2>1, <2>2, BackTypes DEF page
<1>4. CASE j \in DOMAIN jobs
  <2> HIDE DEF j
  <2>1. Goes(j, "done", jobs[j].to)
    BY <1>2, <1>4, ThreadType, ThreadGoes DEF TypeInv, Threads
  <2>2. DOMAIN jobs' = DOMAIN jobs
    BY <2>1 DEF Goes
  <2>3. /\ StackType' /\ PreparingOnTop' /\ Busy' = 0
        /\ stack' # <<>> => TopFrame'.kind \notin Preparing
    BY <1>1, <1>2, <2>2, LeftAt
  <2>4. PageType' /\ CardType' /\ JobsType'
    BY <1>2, <2>1, <2>2 DEF TypeInv, PageType, CardType, JobsType, Goes, page
  <2>5. DocumentsSet'
    <3>1. ASSUME NEW k \in DOMAIN jobs', jobs'[k].to # None PROVE m_hash'[jobs'[k].to] # None
      BY <1>2, <1>4, <2>1, <2>2, <3>1 DEF TypeInv, DocumentsSet, Goes, page
    <3>2. callbacks' # None => m_hash'[callbacks'] # None
      BY <1>2 DEF TypeInv, DocumentsSet, page
    <3> QED BY <2>3, <3>1, <3>2 DEF DocumentsSet, Top, Preparing
  <2>6. ThreadsBounded'
    <3>1. PICK left \in 0..MaxTries, b \in {0, 1} : left = tries /\ left = tries' /\ b = Busy
      BY <1>2, CountTypes DEF TypeInv, CardType
    <3>2. PICK wa \in {0, 1}, ta \in {0, 1} :
            wa = WrongAt(jobs[j].pc) /\ ta = TryingAt(jobs[j].pc)
      BY DEF WrongAt, TryingAt
    <3>3. 0 + 0 <= b + ta /\ 0 + 0 + left <= b + wa + left
      BY ONLY ConstantsAssumption
    <3>4. WrongAt("done") = 0 /\ TryingAt("done") = 0
      BY DEF WrongAt, TryingAt
    <3>5. /\ 0 + TryingAt("done") <= Busy + TryingAt(jobs[j].pc)
          /\ 0 + WrongAt("done") + left <= Busy + WrongAt(jobs[j].pc) + tries
      BY <3>1, <3>2, <3>3, <3>4, Zenon
    <3> QED BY <1>2, <1>4, <2>1, <2>3, <3>1, <3>5, ThreadBounded DEF page
  <2> QED BY <2>3, <2>4, <2>5, <2>6 DEF TypeInv
<1> QED BY <1>3, <1>4

LEMMA IdleTypes ==
    ASSUME TypeInv, UNCHANGED vars
    PROVE  TypeInv'
<1>1. PageType' /\ CardType' /\ StackType' /\ PreparingOnTop' /\ DocumentsSet'
  BY DEF TypeInv, PageType, CardType, StackType, PreparingOnTop, DocumentsSet, Top,
         TopFrame, page, vars
<1>2. Busy' = Busy
  BY DEF Busy, TopFrame, vars
<1> QED BY <1>1, <1>2, CountTypes, MainTypes DEF vars, page

LEMMA TypeStep == TypeInv /\ [Next]_vars => TypeInv'
<1> SUFFICES ASSUME TypeInv, [Next]_vars PROVE TypeInv'
  OBVIOUS
<1>1. ASSUME NEW p \in Pages, NEW r \in Requests, signAsync(p, r) PROVE TypeInv'
  BY <1>1, signAsyncTypes
<1>2. ASSUME NEW p \in Pages, UseCard(p) \/ ClosePage(p) PROVE TypeInv'
  BY <1>2, UseCardTypes, ClosePageTypes
<1>3. CASE prepareSign \/ askPin \/ signSHA1Async \/ JsReturn \/ UseCardReturn
  BY <1>3, prepareSignTypes, askPinTypes, signSHA1AsyncTypes, JsReturnTypes, UseCardReturnTypes
<1>4. CASE CloseMessage \/ Delivered \/ Joined
  BY <1>4, CloseMessageTypes, DeliveredTypes, JoinedTypes
<1>5. ASSUME NEW j \in DOMAIN jobs, Deliver(j) PROVE TypeInv'
  BY <1>5, DeliverTypes
<1>6. ASSUME NEW j \in DOMAIN jobs, Job(j) PROVE TypeInv'
  BY <1>6, LockTypes, CompletedTypes, ThrewTypes, HostGoneTypes DEF Job
<1>7. CASE PollStart \/ PollEnd \/ UNCHANGED vars
  BY <1>7, PollTypes, IdleTypes
<1> QED BY <1>1, <1>2, <1>3, <1>4, <1>5, <1>6, <1>7 DEF Next, Main, SigningThread

(* signSHA1Async(), runSignSHA1() and the page's calls: the variables keep *)
(* their types; in particular no more threads are started than there are   *)
(* requests and PINs to try.                                               *)
THEOREM TypeCorrect == Spec => []TypeOK
<1>1. Spec => []TypeInv
  BY TypeInit, TypeStep, PTL DEF Spec
<1> QED BY <1>1, TypesImply, PTL

-----------------------------------------------------------------------------
(***************************************************************************)
(* One thread at a time uses the card.                                     *)
(***************************************************************************)

LEMMA CardThreadStep ==
    ASSUME TypeInv, CardUsedByOne, NEW j \in DOMAIN jobs, NEW pc, NEW to, Goes(j, pc, to),
           \/ m_cardMutex = None /\ m_cardMutex' = j /\ pc = "signing"
           \/ /\ m_cardMutex' = m_cardMutex /\ pc # "signing"
              /\ pc = "completed" => jobs[j].pc = "signing"
              /\ m_cardMutex = j => pc \in {"completed", "delivered"}
           \/ /\ m_cardMutex' = (IF m_cardMutex = j THEN None ELSE m_cardMutex)
              /\ pc \notin {"signing", "completed"}
    PROVE  CardUsedByOne'
<1>1. \A k \in DOMAIN jobs : k # None
  BY CountTypes, Markers
<1>2. ASSUME NEW k \in DOMAIN jobs'
      PROVE  /\ jobs'[k].pc \in {"signing", "completed"} => m_cardMutex' = k
             /\ m_cardMutex' = k => jobs'[k].pc \in {"signing", "completed", "delivered"}
  <2>1. k \in DOMAIN jobs /\ k # None /\ j # None
    BY <1>1 DEF Goes
  <2>2. /\ jobs[k].pc \in {"signing", "completed"} => m_cardMutex = k
        /\ m_cardMutex = k => jobs[k].pc \in {"signing", "completed", "delivered"}
        /\ jobs[j].pc \in {"signing", "completed"} => m_cardMutex = j
    BY <2>1 DEF CardUsedByOne
  <2>3. CASE k = j
    <3>1. jobs'[k].pc = pc
      BY <2>3 DEF Goes
    <3> QED BY <2>1, <2>2, <2>3, <3>1
  <2>4. CASE k # j
    <3>1. jobs'[k] = jobs[k]
      BY <2>1, <2>4 DEF Goes
    <3> QED BY <2>1, <2>2, <2>4, <3>1
  <2> QED BY <2>3, <2>4
<1> QED BY <1>2 DEF CardUsedByOne

LEMMA CardUsedStep == TypeInv /\ CardUsedByOne /\ [Next]_vars => CardUsedByOne'
<1> SUFFICES ASSUME TypeInv, CardUsedByOne, [Next]_vars PROVE CardUsedByOne'
  OBVIOUS
<1>1. CASE UNCHANGED <<jobs, m_cardMutex>>
  BY <1>1 DEF CardUsedByOne
<1>2. CASE signSHA1Async
  <2>1. UNCHANGED m_cardMutex
    BY <1>2 DEF signSHA1Async
  <2>2. CASE UNCHANGED jobs
    BY <1>1, <2>1, <2>2
  <2>3. CASE ~UNCHANGED jobs
    <3> DEFINE t == [pc |-> "created", doc |-> m_hash[TopFrame.page], to |-> None]
    <3>1. jobs' = Append(jobs, t)
      BY <1>2, <2>3 DEF signSHA1Async
    <3>2. m_hash[TopFrame.page] # None /\ TopFrame.page \in Pages
      BY <1>2, TopTypes DEF TypeInv, DocumentsSet, signSHA1Async, Locking
    <3>3. t \in Threads /\ t.pc = "created"
      BY <3>2 DEF TypeInv, PageType, Threads
    <3> HIDE DEF t
    <3>4. Longer(jobs', jobs) /\ jobs'[Len(jobs')] = t
      BY <3>1, <3>3, StartCounts
    <3>5. m_cardMutex # Len(jobs) + 1
      BY CountTypes, Markers DEF TypeInv, CardType
    <3> QED BY <2>1, <3>3, <3>4, <3>5 DEF CardUsedByOne, Longer
  <2> QED BY <2>2, <2>3
<1>3. ASSUME NEW j \in DOMAIN jobs, Deliver(j) PROVE CardUsedByOne'
  <2>1. Goes(j, "delivered", jobs[j].to) /\ UNCHANGED m_cardMutex
    BY <1>3, DeliverBase DEF Deliver
  <2> QED BY <2>1, CardThreadStep
<1>4. CASE Delivered
  <2> DEFINE j == TopFrame.job
  <2>1. jobs' = [jobs EXCEPT ![j].pc = "done"] /\ j \in DOMAIN jobs \union {None}
        /\ m_cardMutex' = IF m_cardMutex = j THEN None ELSE m_cardMutex
    BY <1>4, TopTypes DEF Delivered, Finish
  <2>2. CASE j \notin DOMAIN jobs
    <3>1. jobs' = jobs
      BY <2>1, <2>2, LenProperties DEF TypeInv, JobsType
    <3>2. m_cardMutex' = m_cardMutex
      BY <2>1, <2>2
    <3> QED BY <1>1, <3>1, <3>2
  <2>3. CASE j \in DOMAIN jobs
    <3> HIDE DEF j
    <3>1. Goes(j, "done", jobs[j].to)
      BY <2>1, <2>3, ThreadType, ThreadGoes DEF TypeInv, Threads
    <3> QED BY <2>1, <2>3, <3>1, CardThreadStep
  <2> QED BY <2>2, <2>3
<1>5. ASSUME NEW j \in DOMAIN jobs, Job(j) PROVE CardUsedByOne'
  <2>1. CASE Lock(j)
    <3>1. Goes(j, "signing", jobs[j].to) /\ m_cardMutex = None /\ m_cardMutex' = j
      BY <2>1, LockTypes DEF Lock
    <3> QED BY <3>1, CardThreadStep
  <2>2. CASE Completed(j)
    <3>1. Goes(j, "completed", callbacks) /\ UNCHANGED m_cardMutex /\ jobs[j].pc = "signing"
      BY <2>2, CompletedTypes DEF Completed
    <3> QED BY <3>1, CardThreadStep
  <2>3. CASE HostGone(j)
    <3>1. /\ Goes(j, "done", jobs[j].to)
          /\ m_cardMutex' = IF m_cardMutex = j THEN None ELSE m_cardMutex
      BY <2>3, HostGoneTypes DEF HostGone, Finish
    <3> QED BY <3>1, CardThreadStep
  <2>4. ASSUME NEW error \in {"wrong", "other"}, Threw(j, error) PROVE CardUsedByOne'
    <3>1. /\ Goes(j, SignError(error), callbacks) /\ m_cardMutex' = None
          /\ SignError(error) \in {"wrong", "blocked", "aborted"} /\ jobs[j].pc = "signing"
      BY <2>4, ThrewTypes DEF Threw
    <3>2. m_cardMutex = j
      BY <3>1 DEF CardUsedByOne
    <3> QED BY <3>1, <3>2, CardThreadStep
  <2> QED BY <1>5, <2>1, <2>2, <2>3, <2>4 DEF Job
<1>6. CASE PollStart \/ PollEnd
  <2>1. /\ jobs' = jobs /\ m_cardMutex \in {None, Monitor} /\ m_cardMutex' \in {None, Monitor}
    BY <1>6 DEF PollStart, PollEnd
  <2>2. \A k \in DOMAIN jobs : k \notin {None, Monitor}
    BY CountTypes, Markers
  <2> QED BY <2>1, <2>2 DEF CardUsedByOne
<1>7. CASE \/ \E p \in Pages : (\E r \in Requests : signAsync(p, r)) \/ UseCard(p) \/ ClosePage(p)
           \/ prepareSign \/ askPin \/ JsReturn \/ UseCardReturn \/ CloseMessage \/ Joined
           \/ UNCHANGED vars
  <2>1. UNCHANGED <<jobs, m_cardMutex>>
    BY <1>7 DEF signAsync, UseCard, ClosePage, prepareSign, askPin, JsReturn, UseCardReturn,
                CloseMessage, Joined, vars
  <2> QED BY <1>1, <2>1
<1> QED BY <1>2, <1>3, <1>4, <1>5, <1>6, <1>7 DEF Next, Main, SigningThread

(* runSignSHA1(), poll() and the page's calls: whatever the pages do, the  *)
(* card is used by one thread at a time.                                   *)
THEOREM CardSafe == Spec => []CardUsedByOne
<1>1. Init => CardUsedByOne
  BY DEF Init, CardUsedByOne
<1>2. Spec => [](TypeInv /\ CardUsedByOne)
  BY <1>1, TypeInit, TypeStep, CardUsedStep, PTL DEF Spec
<1> QED BY <1>2, PTL

-----------------------------------------------------------------------------
(***************************************************************************)
(* Pages that leave the card alone while a request is open.  Then the      *)
(* process goes through a request at a time, and all it does is one of:    *)
(* Resting, Using the card, Working on the request on the main thread,     *)
(* Signing in the thread started last, and Telling a page of its answer.   *)
(* The main thread does each of them at the bottom of its stack (n = 0),   *)
(* except that it is also Working and Telling (and then Resting or         *)
(* Signing) while it delivers what a thread called back with (n = 1).      *)
(***************************************************************************)

Sole(r)  == Open(r) /\ \A q \in Requests : Open(q) => q = r
NoneOpen == \A r \in Requests : ~Open(r)

Answered(r) ==
    /\ got[r] \in {<<>>, <<Failed>>, <<r>>}
    /\ r \notin asked => got[r] = <<>> /\ r \notin consent
    /\ got[r] = <<Failed>> => r \notin consent
    /\ got[r] = <<r>> => r \in consent

(* The frames below those that the name is about.                          *)
Base(n) ==
    \/ n = 0
    \/ /\ n = 1 /\ stack[1].kind = "deliver"
       /\ stack[1].job \in DOMAIN jobs /\ jobs[stack[1].job].pc = "delivered"

Delivery(n) == IF n = 0 THEN {} ELSE {stack[1].job}

(* All threads but these have ended; no other thread of the pages, and     *)
(* none of their calls, holds the mutex; only page p keeps a callback.     *)
EndedBut(js) == \A j \in DOMAIN jobs : j \notin js => jobs[j].pc = "done"
HeldBy(js)   == m_cardMutex \in js \union {None, Monitor}
KeptBy(p)    == \A q \in Pages : q # p => m_signCallback[q] = None

Resting(n) ==
    /\ Len(stack) = n /\ Base(n)
    /\ NoneOpen /\ KeptBy(None)
    /\ EndedBut(Delivery(n)) /\ HeldBy(Delivery(n))

Using ==
    /\ Len(stack) = 1 /\ (Top("use") \/ Top("join"))
    /\ NoneOpen /\ KeptBy(None)
    /\ EndedBut({}) /\ HeldBy({})

Telling(n) ==
    /\ Len(stack) = n + 1 /\ Base(n) /\ Top("js")
    /\ NoneOpen /\ KeptBy(TopFrame.page)
    /\ EndedBut(Delivery(n)) /\ HeldBy(Delivery(n))

(* Page p waits for the answer to request r.                               *)
Waits(p, r) == Sole(r) /\ p \in alive /\ m_signCallback[p] = r /\ KeptBy(p)

Working(n, p, r) ==
    /\ Len(stack) = n + 1 /\ Base(n) /\ TopFrame.page = p
    /\ TopFrame.kind \in Preparing \union {"message"}
    /\ Waits(p, r) /\ r \notin consent
    /\ TopFrame.kind # "prepare" => m_hash[p] = r
    /\ TopFrame.kind = "start" => callbacks = p
    /\ EndedBut(Delivery(n)) /\ HeldBy({})

Last == jobs[Len(jobs)]

Signing(n, p, r) ==
    /\ Len(stack) = n /\ Base(n)
    /\ Waits(p, r) /\ m_hash[p] = r /\ callbacks = p
    /\ jobs # <<>> /\ Last.doc = r /\ Last.pc \in {"created", "signing"} \union Waiting
    /\ Last.pc \in Waiting => Last.to = p
    /\ Last.pc = "completed" <=> r \in consent
    /\ EndedBut(Delivery(n) \union {Len(jobs)}) /\ HeldBy({Len(jobs)})

Mode ==
    \/ Using
    \/ \E n \in {0, 1} :
          \/ Resting(n) \/ Telling(n)
          \/ \E p \in Pages, r \in Requests : Working(n, p, r) \/ Signing(n, p, r)

Calm     == (\A r \in Requests : Answered(r)) /\ Mode
QuietInv == Quiet => Calm

(* How deep the stack is, and what is on it, in each.                      *)
LEMMA StackLen ==
    ASSUME TypeInv
    PROVE  /\ Len(stack) \in Nat /\ (stack = <<>> <=> Len(stack) = 0)
           /\ stack # <<>> => TopFrame = stack[Len(stack)] /\ TopFrame \in Frames
           /\ jobs # <<>> <=> Len(jobs) # 0
           /\ jobs # <<>> => Len(jobs) \in DOMAIN jobs
<1>1. stack \in Seq(Frames) /\ jobs \in Seq(Threads)
  BY DEF TypeInv, StackType, JobsType
<1>2. /\ Len(stack) \in Nat /\ (stack = <<>> <=> Len(stack) = 0)
  BY <1>1, LenProperties, EmptySeq
<1>3. /\ Len(jobs) \in Nat /\ (jobs = <<>> <=> Len(jobs) = 0) /\ DOMAIN jobs = 1..Len(jobs)
  BY <1>1, LenProperties, EmptySeq
<1>4. stack # <<>> => TopFrame \in Frames
  BY BelowClean
<1> QED BY <1>2, <1>3, <1>4 DEF TopFrame

(* The mode that the top of the stack, or a thread, tells.                 *)
LEMMA WorkingOnTop ==
    ASSUME TypeInv, Mode,
           Top("prepare") \/ Top("askPin") \/ Top("start") \/ Top("message")
    PROVE  \E n \in {0, 1}, p \in Pages, r \in Requests : Working(n, p, r)
<1>1. ~Using
  BY DEF Using, Top
<1>2. \A n \in {0, 1} : ~Telling(n)
  BY DEF Telling, Top
<1>3. \A n \in {0, 1} : ~Resting(n)
  BY StackLen DEF Resting, Base, Top
<1>4. \A n \in {0, 1}, p \in Pages, r \in Requests : ~Signing(n, p, r)
  BY StackLen DEF Signing, Base, Top
<1> QED BY <1>1, <1>2, <1>3, <1>4 DEF Mode

LEMMA TellingOnTop ==
    ASSUME TypeInv, Mode, Top("js")
    PROVE  \E n \in {0, 1} : Telling(n)
<1>1. ~Using
  BY DEF Using, Top
<1>2. \A n \in {0, 1}, p \in Pages, r \in Requests : ~Working(n, p, r)
  BY DEF Working, Preparing, Top
<1>3. \A n \in {0, 1} : ~Resting(n)
  BY StackLen DEF Resting, Base, Top
<1>4. \A n \in {0, 1}, p \in Pages, r \in Requests : ~Signing(n, p, r)
  BY StackLen DEF Signing, Base, Top
<1> QED BY <1>1, <1>2, <1>3, <1>4 DEF Mode

LEMMA UsingOnTop ==
    ASSUME TypeInv, Mode, Top("use") \/ Top("join")
    PROVE  Using
<1>1. \A n \in {0, 1} : ~Telling(n)
  BY DEF Telling, Top
<1>2. \A n \in {0, 1}, p \in Pages, r \in Requests : ~Working(n, p, r)
  BY DEF Working, Preparing, Top
<1>3. \A n \in {0, 1} : ~Resting(n)
  BY StackLen DEF Resting, Base, Top
<1>4. \A n \in {0, 1}, p \in Pages, r \in Requests : ~Signing(n, p, r)
  BY StackLen DEF Signing, Base, Top
<1> QED BY <1>1, <1>2, <1>3, <1>4 DEF Mode

LEMMA DeliveryOnTop ==
    ASSUME TypeInv, Mode, Top("deliver")
    PROVE  Resting(1) \/ \E p \in Pages, r \in Requests : Signing(1, p, r)
<1>1. ~Using
  BY DEF Using, Top
<1>2. \A n \in {0, 1} : ~Telling(n)
  BY DEF Telling, Top
<1>3. \A n \in {0, 1}, p \in Pages, r \in Requests : ~Working(n, p, r)
  BY DEF Working, Preparing, Top
<1>4. ~Resting(0)
  BY StackLen DEF Resting, Top
<1>5. \A p \in Pages, r \in Requests : ~Signing(0, p, r)
  BY StackLen DEF Signing, Top
<1> QED BY <1>1, <1>2, <1>3, <1>4, <1>5 DEF Mode

LEMMA RestingInLoop ==
    ASSUME TypeInv, Mode, stack = <<>>, NoneOpen
    PROVE  Resting(0)
<1>0. Len(stack) = 0
  BY StackLen
<1>1. ~Using
  BY DEF Using, Top
<1>2. \A n \in {0, 1} : ~Telling(n)
  BY DEF Telling, Top
<1>3. \A n \in {0, 1}, p \in Pages, r \in Requests : ~Working(n, p, r)
  BY <1>0 DEF Working
<1>4. ~Resting(1)
  BY <1>0 DEF Resting
<1>5. \A n \in {0, 1}, p \in Pages, r \in Requests : ~Signing(n, p, r)
  BY DEF Signing, Waits, Sole, NoneOpen
<1> QED BY <1>1, <1>2, <1>3, <1>4, <1>5 DEF Mode

LEMMA SigningThreadRuns ==
    ASSUME TypeInv, Mode, NEW j \in DOMAIN jobs,
           jobs[j].pc \in {"created", "signing"} \union Waiting
    PROVE  \E n \in {0, 1}, p \in Pages, r \in Requests : Signing(n, p, r) /\ j = Len(jobs)
<1>1. jobs[j].pc \notin {"done", "delivered"}
  BY DEF Waiting
<1>2. ~Using
  BY <1>1 DEF Using, EndedBut
<1>3. \A n \in {0, 1} : Base(n) => j \notin Delivery(n)
  BY <1>1 DEF Base, Delivery
<1>4. \A n \in {0, 1} : Base(n) => ~EndedBut(Delivery(n))
  BY <1>1, <1>3 DEF EndedBut
<1>5. \A n \in {0, 1} : ~Telling(n) /\ ~Resting(n)
  BY <1>4 DEF Telling, Resting
<1>6. \A n \in {0, 1}, p \in Pages, r \in Requests : ~Working(n, p, r)
  BY <1>4 DEF Working
<1>7. \A n \in {0, 1}, p \in Pages, r \in Requests : Signing(n, p, r) => j = Len(jobs)
  BY <1>1, <1>3 DEF Signing, EndedBut
<1> QED BY <1>2, <1>5, <1>6, <1>7 DEF Mode

(* With quiet pages, what the runs check follows.                          *)
LEMMA CalmOwners ==
    ASSUME TypeInv, QuietInv
    PROVE  NothingOutlivesItsOwner
<1> SUFFICES ASSUME Quiet
             PROVE  /\ \A j \in DOMAIN jobs : jobs[j].pc \in {"created", "signing"}
                                                  => callbacks \in alive
                    /\ alive = {} /\ stack = <<>> => \A j \in DOMAIN jobs : jobs[j].pc = "done"
  BY DEF NothingOutlivesItsOwner
<1>1. Mode
  BY DEF QuietInv, Calm
<1>2. ASSUME NEW j \in DOMAIN jobs, jobs[j].pc \in {"created", "signing"}
      PROVE  callbacks \in alive
  BY <1>1, <1>2, SigningThreadRuns DEF Signing, Waits
<1>3. ASSUME alive = {}, stack = <<>>
      PROVE  \A j \in DOMAIN jobs : jobs[j].pc = "done"
  <2>1. Len(stack) = 0
    BY <1>3, StackLen
  <2>2. ~Using /\ \A n \in {0, 1} : ~Telling(n)
    BY <1>3 DEF Using, Telling, Top
  <2>3. \A n \in {0, 1}, p \in Pages, r \in Requests : ~Working(n, p, r) /\ ~Signing(n, p, r)
    BY <1>3 DEF Working, Signing, Waits
  <2>4. ~Resting(1)
    BY <2>1 DEF Resting
  <2>5. Resting(0)
    BY <1>1, <2>2, <2>3, <2>4 DEF Mode
  <2> QED BY <2>5 DEF Resting, EndedBut, Delivery
<1> QED BY <1>2, <1>3

LEMMA CalmMain ==
    ASSUME TypeInv, QuietInv
    PROVE  QuietPagesDoNotBlock
<1> SUFFICES ASSUME Quiet, NEW j \in DOMAIN jobs, MainWaits, m_cardMutex = j PROVE FALSE
  BY DEF QuietPagesDoNotBlock, NoLockCycle
<1>1. Mode
  BY DEF QuietInv, Calm
<1>2. Using \/ \E n \in {0, 1}, p \in Pages, r \in Requests : Working(n, p, r)
  BY <1>1, WorkingOnTop, UsingOnTop DEF MainWaits
<1>3. m_cardMutex \in {None, Monitor}
  BY <1>2 DEF Using, Working, HeldBy
<1> QED BY <1>3, CountTypes, Markers

-----------------------------------------------------------------------------
(***************************************************************************)
(* The steps of quiet pages, first by what becomes of the stack.           *)
(***************************************************************************)

JobsKept == \A j \in DOMAIN jobs : j \in DOMAIN jobs' /\ jobs'[j] = jobs[j]

(* Another frame in the place of the last.                                 *)
LEMMA Replaced ==
    ASSUME TypeInv, NEW n \in {0, 1}, Len(stack) = n + 1, Base(n), NEW f \in Frames,
           stack' = Append(Below, f), JobsKept
    PROVE  /\ Len(stack') = n + 1 /\ Base(n)' /\ Delivery(n)' = Delivery(n)
           /\ stack' # <<>> /\ TopFrame' = f
<1>1. stack # <<>>
  BY StackLen
<1>2. Longer(stack, Below) /\ Below \in Seq(Frames)
  BY <1>1, BelowClean DEF Clean
<1>3. Longer(stack', Below) /\ stack'[Len(stack')] = f
  BY <1>2, FramePushed, Zenon
<1>4. Len(Below) = n /\ Len(stack') = n + 1
  <2>1. Len(stack) = Len(Below) + 1 /\ Len(Below) \in Nat /\ Len(stack) = n + 1
    BY <1>2 DEF Longer
  <2>2. Len(Below) = n
    BY ONLY <2>1
  <2> QED BY <1>3, <2>2 DEF Longer
<1>5. n = 1 => stack'[1] = stack[1]
  BY <1>2, <1>3, <1>4 DEF Longer
<1>6. stack' # <<>> /\ TopFrame' = f
  BY <1>3 DEF Longer, TopFrame
<1> QED BY <1>4, <1>5, <1>6 DEF Base, Delivery, JobsKept

(* The last frame returns.                                                 *)
LEMMA Returned ==
    ASSUME TypeInv, NEW n \in {0, 1}, Len(stack) = n + 1, Base(n), stack' = Below, JobsKept
    PROVE  Len(stack') = n /\ Base(n)' /\ Delivery(n)' = Delivery(n)
<1>1. stack # <<>>
  BY StackLen
<1>2. Longer(stack, Below)
  BY <1>1, BelowClean
<1>3. Len(stack') = n
  <2>1. Len(stack) = Len(Below) + 1 /\ Len(Below) \in Nat /\ Len(stack) = n + 1
    BY <1>2 DEF Longer
  <2>2. Len(Below) = n
    BY ONLY <2>1
  <2> QED BY <2>2
<1>4. n = 1 => stack'[1] = stack[1]
  BY <1>2, <1>3 DEF Longer
<1> QED BY <1>3, <1>4 DEF Base, Delivery, JobsKept

(* Page p is told the answer to request r from a frame on b.               *)
LEMMA Told ==
    ASSUME TypeInv, \A q \in Requests : Answered(q),
           NEW n \in {0, 1}, NEW p \in Pages, NEW r \in Requests, NEW answer \in {Failed, r},
           answer = Failed => r \notin consent, answer = r => r \in consent,
           consent' = consent, r \in asked', got[r] = <<>>,
           \A q \in Requests : q # r => ~Open(q) /\ (q \in asked' <=> q \in asked),
           KeptBy(p)', NEW b \in Seq(Frames), Len(b) = n, Answer(p, r, answer, b),
           n = 1 => /\ b[1].kind = "deliver" /\ b[1].job \in DOMAIN jobs'
                    /\ jobs'[b[1].job].pc = "delivered",
           NEW js, js = IF n = 0 THEN {} ELSE {b[1].job},
           EndedBut(js)', HeldBy(js)'
    PROVE  Calm'
<1>1. got' = [got EXCEPT ![r] = Append(@, answer)] /\ stack' = Append(b, Frame("js", p, None))
  BY Markers DEF Answer
<1>2. got' = [got EXCEPT ![r] = <<answer>>]
  <2>1. Append(got[r], answer) = <<answer>>
    OBVIOUS
  <2> QED BY <1>1, <2>1 DEF TypeInv, PageType
<1>3. got'[r] = <<answer>> /\ \A q \in Requests : q # r => got'[q] = got[q]
  BY <1>2 DEF TypeInv, PageType
<1>4. <<Failed>> # <<r>> /\ <<answer>> # <<>>
  BY Markers
<1>5. \A q \in Requests : Answered(q)'
  <2>1. Answered(r)'
    BY <1>3, <1>4 DEF Answered
  <2>2. ASSUME NEW q \in Requests, q # r PROVE Answered(q)'
    BY <1>3, <2>2 DEF Answered
  <2> QED BY <2>1, <2>2
<1>6. NoneOpen'
  <2>1. ASSUME NEW q \in Requests PROVE ~Open(q)'
    BY <1>3, <1>4 DEF Open
  <2> QED BY <2>1 DEF NoneOpen
<1>7. /\ Frame("js", p, None) \in Frames /\ Frame("js", p, None).kind = "js"
      /\ Frame("js", p, None).page = p
  BY FrameType, Markers
<1>8. Longer(stack', b) /\ stack'[Len(stack')] = Frame("js", p, None)
  BY <1>1, <1>7, FramePushed, Zenon
<1>9. /\ Len(stack') = n + 1 /\ stack' # <<>> /\ TopFrame' = Frame("js", p, None)
      /\ n = 1 => stack'[1] = b[1]
  BY <1>8 DEF Longer, TopFrame
<1>10. Base(n)' /\ Delivery(n)' = js
  BY <1>9 DEF Base, Delivery
<1>11. Top("js")' /\ TopFrame'.page = p
  BY <1>7, <1>9 DEF Top
<1>12. Telling(n)'
  BY <1>6, <1>9, <1>10, <1>11 DEF Telling, KeptBy, EndedBut, HeldBy
<1> QED BY <1>5, <1>12 DEF Calm, Mode

LEMMA CalmAsked ==
    ASSUME TypeInv, Calm, Quiet, NEW p \in Pages, NEW r \in Requests, signAsync(p, r)
    PROVE  Calm' /\ got[r] = <<>> /\ r \notin asked
<1>1. /\ stack = <<>> /\ NoneOpen /\ p \in alive /\ r \notin asked /\ asked' = asked \union {r}
      /\ m_signCallback' = [m_signCallback EXCEPT ![p] = r]
      /\ UNCHANGED <<alive, m_hash, callbacks, m_cardMutex, jobs, tries, consent>>
  BY DEF signAsync, MayCall, NoneOpen
<1>2. Resting(0) /\ \A q \in Requests : Answered(q)
  BY <1>1, RestingInLoop DEF Calm
<1>3. got[r] = <<>> /\ r \notin consent
  BY <1>1, <1>2 DEF Answered
<1>4. KeptBy(p)' /\ m_signCallback'[p] = r
  BY <1>1, <1>2, Markers DEF KeptBy, Resting, TypeInv, PageType
<1>5. EndedBut({})' /\ HeldBy({})'
  BY <1>1, <1>2 DEF Resting, Delivery, EndedBut, HeldBy
<1>6. /\ r \in asked' /\ \A q \in Requests : q # r => ~Open(q) /\ (q \in asked' <=> q \in asked)
  BY <1>1 DEF NoneOpen
<1>7. stack \in Seq(Frames) /\ Len(stack) = 0
  BY <1>1, StackLen DEF TypeInv, StackType
<1>8. CASE Answer(p, r, Failed, stack)
  <2>1. /\ Failed \in {Failed, r} /\ Failed # r /\ {} = IF 0 = 0 THEN {} ELSE {stack[1].job}
        /\ 0 \in {0, 1} /\ 0 # 1
    BY Markers
  <2>2. Calm'
    BY <1>1, <1>2, <1>3, <1>4, <1>5, <1>6, <1>7, <1>8, <2>1, Told
  <2> QED BY <1>1, <1>3, <2>2
<1>9. CASE stack' = Append(stack, Frame("prepare", p, None)) /\ UNCHANGED got
  <2>1. /\ Frame("prepare", p, None) \in Frames /\ Frame("prepare", p, None).kind = "prepare"
        /\ Frame("prepare", p, None).page = p
    BY FrameType, Markers
  <2>2. Longer(stack', stack) /\ stack'[Len(stack')] = Frame("prepare", p, None)
    BY <1>7, <1>9, <2>1, FramePushed, Zenon
  <2>3. Len(stack') = 0 + 1 /\ stack' # <<>> /\ TopFrame' = Frame("prepare", p, None)
    BY <1>7, <2>2 DEF Longer, TopFrame
  <2>4. Waits(p, r)'
    BY <1>1, <1>3, <1>4, <1>9, Markers DEF Waits, Sole, Open, NoneOpen
  <2>5. Working(0, p, r)'
    BY <1>1, <1>3, <1>5, <2>1, <2>3, <2>4 DEF Working, Base, Delivery, Preparing
  <2>6. \A q \in Requests : Answered(q)'
    BY <1>1, <1>2, <1>3, <1>9 DEF Answered
  <2>7. Calm'
    BY <2>5, <2>6 DEF Calm, Mode
  <2> QED BY <1>1, <1>3, <2>7
<1> QED BY <1>1, <1>3, <1>8, <1>9 DEF signAsync

(* The main thread goes on working on the request.                         *)
LEMMA CalmGoesOn ==
    ASSUME TypeInv, \A q \in Requests : Answered(q), NEW n \in {0, 1}, NEW p \in Pages,
           NEW r \in Requests, Working(n, p, r), NEW kind \in {"askPin", "start", "message"},
           stack' = Append(Below, Frame(kind, p, None)),
           UNCHANGED <<alive, m_signCallback, asked, got, consent, m_cardMutex, jobs>>,
           m_hash'[p] = r, kind = "start" => callbacks' = p
    PROVE  Calm'
<1>1. /\ Frame(kind, p, None) \in Frames /\ Frame(kind, p, None).kind = kind
      /\ Frame(kind, p, None).page = p
  BY FrameType, Markers
<1>2. /\ Len(stack') = n + 1 /\ Base(n)' /\ Delivery(n)' = Delivery(n)
      /\ TopFrame' = Frame(kind, p, None)
  BY <1>1, Replaced DEF Working, JobsKept
<1>3. Waits(p, r)' /\ r \notin consent'
  BY DEF Working, Waits, Sole, Open, KeptBy
<1>4. EndedBut(Delivery(n))' /\ HeldBy({})'
  BY <1>2 DEF Working, EndedBut, HeldBy
<1>5. Working(n, p, r)'
  BY <1>1, <1>2, <1>3, <1>4 DEF Working, Preparing
<1>6. \A q \in Requests : Answered(q)'
  BY DEF Answered
<1> QED BY <1>5, <1>6 DEF Calm, Mode

(* The main thread fails the request.                                      *)
LEMMA CalmFails ==
    ASSUME TypeInv, \A q \in Requests : Answered(q), NEW n \in {0, 1}, NEW p \in Pages,
           NEW r \in Requests, Working(n, p, r), Return(p, Failed, Below),
           UNCHANGED <<m_signCallback, asked, consent, m_cardMutex, jobs>>
    PROVE  Calm'
<1>1. /\ m_signCallback[p] = r /\ r \notin consent /\ got[r] = <<>> /\ r \in asked'
      /\ \A q \in Requests : q # r => ~Open(q) /\ (q \in asked' <=> q \in asked)
  BY DEF Working, Waits, Sole, Open
<1>2. KeptBy(p)'
  BY DEF Working, Waits, KeptBy
<1>3. stack # <<>> /\ Longer(stack, Below) /\ Below \in Seq(Frames)
  BY StackLen, BelowClean DEF Working, Clean
<1>4. Len(Below) = n
  <2>1. Len(stack) = Len(Below) + 1 /\ Len(Below) \in Nat /\ Len(stack) = n + 1
    BY <1>3 DEF Longer, Working
  <2> QED BY ONLY <2>1
<1>5. n = 1 => Below[1] = stack[1]
  BY <1>3, <1>4 DEF Longer
<1>6. /\ n = 1 => /\ Below[1].kind = "deliver" /\ Below[1].job \in DOMAIN jobs'
                  /\ jobs'[Below[1].job].pc = "delivered"
      /\ Delivery(n) = IF n = 0 THEN {} ELSE {Below[1].job}
  <2>1. n = 1 => /\ stack[1].kind = "deliver" /\ stack[1].job \in DOMAIN jobs
                 /\ jobs[stack[1].job].pc = "delivered"
    BY DEF Working, Base
  <2>2. jobs' = jobs
    OBVIOUS
  <2> QED BY <1>5, <2>1, <2>2 DEF Delivery
<1>7. PICK js : js = Delivery(n)
  OBVIOUS
<1>8. js = (IF n = 0 THEN {} ELSE {Below[1].job}) /\ EndedBut(js)' /\ HeldBy(js)'
  BY <1>6, <1>7 DEF Working, EndedBut, HeldBy
<1>9. Answer(p, r, Failed, Below)
  BY <1>1 DEF Return
<1> QED BY <1>1, <1>2, <1>3, <1>4, <1>6, <1>8, <1>9, Told, Markers

LEMMA WorkingFrame ==
    ASSUME TypeInv, Mode, NEW kind \in Preparing \union {"message"}, Top(kind)
    PROVE  \E n \in {0, 1}, p \in Pages, r \in Requests :
               Working(n, p, r) /\ TopFrame.page = p /\ TopFrame.kind = kind
<1>1. PICK n \in {0, 1}, p \in Pages, r \in Requests : Working(n, p, r)
  BY WorkingOnTop DEF Preparing
<1> QED BY <1>1 DEF Working, Top

LEMMA CalmPrepares ==
    ASSUME TypeInv, Calm, prepareSign
    PROVE  Calm'
<1>1. Top("prepare") /\ Mode /\ \A q \in Requests : Answered(q)
  BY DEF prepareSign, Locking, Calm
<1>2. PICK n \in {0, 1}, p \in Pages, r \in Requests :
         Working(n, p, r) /\ TopFrame.page = p /\ TopFrame.kind = "prepare"
  BY <1>1, WorkingFrame DEF Preparing
<1>3. m_signCallback[p] = r
  BY <1>2 DEF Working, Waits
<1>4. UNCHANGED <<alive, m_signCallback, asked, consent, m_cardMutex, jobs>>
  BY DEF prepareSign
<1>5. CASE /\ m_hash' = [m_hash EXCEPT ![p] = m_signCallback[p]]
           /\ stack' = Append(Below, Frame("askPin", p, None)) /\ UNCHANGED got
  <2>1. m_hash'[p] = r
    BY <1>3, <1>5 DEF TypeInv, PageType
  <2> QED BY <1>1, <1>2, <1>3, <1>4, <1>5, <2>1, CalmGoesOn
<1>6. CASE Return(p, Failed, Below)
  <2> QED BY <1>1, <1>2, <1>3, <1>4, <1>6, CalmFails
<1> QED BY <1>2, <1>5, <1>6 DEF prepareSign

LEMMA CalmAsksPin ==
    ASSUME TypeInv, Calm, askPin
    PROVE  Calm'
<1>1. Top("askPin") /\ Mode /\ \A q \in Requests : Answered(q)
  BY DEF askPin, Locking, Calm
<1>2. PICK n \in {0, 1}, p \in Pages, r \in Requests :
         Working(n, p, r) /\ TopFrame.page = p /\ TopFrame.kind = "askPin"
  BY <1>1, WorkingFrame DEF Preparing
<1>3. m_hash[p] = r
  BY <1>2 DEF Working
<1>4. UNCHANGED <<alive, m_signCallback, m_hash, asked, consent, m_cardMutex, jobs>>
  BY DEF askPin
<1>5. CASE stack' = Append(Below, Frame("message", p, None)) /\ UNCHANGED got
  <2> QED BY <1>1, <1>2, <1>3, <1>4, <1>5, CalmGoesOn
<1>6. CASE /\ callbacks' = BoundTo(p)
           /\ stack' = Append(Below, Frame("start", p, None)) /\ UNCHANGED got
  <2> QED BY <1>1, <1>2, <1>3, <1>4, <1>6, CalmGoesOn DEF BoundTo
<1>7. CASE Return(p, Failed, Below)
  <2> QED BY <1>1, <1>2, <1>3, <1>4, <1>7, CalmFails
<1> QED BY <1>2, <1>5, <1>6, <1>7 DEF askPin

LEMMA CalmStarts ==
    ASSUME TypeInv, Calm, signSHA1Async
    PROVE  Calm'
<1> DEFINE t(p) == [pc |-> "created", doc |-> m_hash[p], to |-> None]
<1>1. Top("start") /\ Mode /\ \A q \in Requests : Answered(q)
  BY DEF signSHA1Async, Locking, Calm
<1>2. PICK n \in {0, 1}, p \in Pages, r \in Requests :
         Working(n, p, r) /\ TopFrame.page = p /\ TopFrame.kind = "start"
  BY <1>1, WorkingFrame DEF Preparing
<1>3. m_hash[p] = r /\ callbacks = p
  BY <1>2 DEF Working
<1>4. UNCHANGED <<alive, m_signCallback, m_hash, callbacks, asked, consent, m_cardMutex>>
  BY DEF signSHA1Async
<1>5. CASE jobs' = Append(jobs, t(p)) /\ stack' = Below /\ UNCHANGED got
  <2>0. t(p) \in Threads /\ t(p).pc = "created" /\ t(p).doc = r
    BY <1>3 DEF Threads
  <2>1. PICK th \in Threads : th = t(p) /\ th.pc = "created" /\ th.doc = r
    BY <2>0, Zenon
  <2> HIDE DEF t
  <2>2. Longer(jobs', jobs) /\ jobs'[Len(jobs')] = th
    BY <1>5, <2>1, StartCounts
  <2>3. /\ JobsKept /\ jobs' # <<>> /\ Last' = th /\ th.pc \notin Waiting
        /\ \A j \in DOMAIN jobs' : j # Len(jobs') => j \in DOMAIN jobs
    BY <2>1, <2>2 DEF Longer, JobsKept, Last, Waiting
  <2>4. Len(stack') = n /\ Base(n)' /\ Delivery(n)' = Delivery(n)
    BY <1>2, <1>5, <2>3, Returned DEF Working
  <2>5. Waits(p, r)' /\ r \notin consent'
    BY <1>2, <1>4, <1>5 DEF Working, Waits, Sole, Open, KeptBy
  <2>6. EndedBut(Delivery(n) \union {Len(jobs)})' /\ HeldBy({Len(jobs)})'
    BY <1>2, <1>4, <2>3, <2>4 DEF Working, EndedBut, HeldBy, JobsKept
  <2>7. Signing(n, p, r)'
    BY <1>3, <1>4, <2>1, <2>3, <2>4, <2>5, <2>6 DEF Signing
  <2>8. \A q \in Requests : Answered(q)'
    BY <1>1, <1>4, <1>5 DEF Answered
  <2> QED BY <1>3, <2>7, <2>8 DEF Calm, Mode
<1>6. CASE Return(p, Failed, Below) /\ UNCHANGED jobs
  <2> QED BY <1>1, <1>2, <1>3, <1>4, <1>6, CalmFails
<1> QED BY <1>2, <1>5, <1>6 DEF signSHA1Async

LEMMA CalmCloses ==
    ASSUME TypeInv, Calm, CloseMessage
    PROVE  Calm'
<1>1. Top("message") /\ Mode /\ \A q \in Requests : Answered(q)
  BY DEF CloseMessage, Calm
<1>2. PICK n \in {0, 1}, p \in Pages, r \in Requests :
         Working(n, p, r) /\ TopFrame.page = p /\ TopFrame.kind = "message"
  BY <1>1, WorkingFrame
<1> QED BY <1>1, <1>2, CalmFails DEF CloseMessage

LEMMA CalmJsReturns ==
    ASSUME TypeInv, Calm, JsReturn
    PROVE  Calm'
<1>1. Top("js") /\ Mode /\ \A q \in Requests : Answered(q)
  BY DEF JsReturn, Calm
<1>2. PICK n \in {0, 1} : Telling(n)
  BY <1>1, TellingOnTop
<1>3. PICK p \in Pages : p = TopFrame.page
  BY <1>1, TopTypes
<1>4. /\ m_signCallback' = [m_signCallback EXCEPT ![p] = None] /\ stack' = Below
      /\ UNCHANGED <<alive, m_hash, asked, got, callbacks, m_cardMutex, jobs, consent>>
  BY <1>3 DEF JsReturn
<1>5. Len(stack') = n /\ Base(n)' /\ Delivery(n)' = Delivery(n)
  BY <1>2, <1>4, Returned DEF Telling, JobsKept
<1>6. KeptBy(None)'
  BY <1>2, <1>3, <1>4 DEF Telling, KeptBy, TypeInv, PageType
<1>7. Resting(n)'
  BY <1>2, <1>4, <1>5, <1>6 DEF Telling, Resting, NoneOpen, Open, EndedBut, HeldBy
<1>8. \A q \in Requests : Answered(q)'
  BY <1>1, <1>4 DEF Answered
<1> QED BY <1>7, <1>8 DEF Calm, Mode

(* While no request is open: the main thread goes to the card, or to wait  *)
(* for the threads, and back.                                              *)
LEMMA CalmGoes ==
    ASSUME TypeInv, Calm, stack = <<>>, NoneOpen,
           NEW p \in Pages, NEW kind \in {"use", "join"},
           stack' = Append(stack, Frame(kind, p, None)),
           UNCHANGED <<m_signCallback, asked, got, m_cardMutex, jobs, consent>>
    PROVE  Calm'
<1>1. Resting(0) /\ \A q \in Requests : Answered(q)
  BY RestingInLoop DEF Calm
<1>2. Frame(kind, p, None) \in Frames /\ Frame(kind, p, None).kind = kind
  BY FrameType, Markers
<1>3. stack \in Seq(Frames) /\ Len(stack) = 0
  BY StackLen DEF TypeInv, StackType
<1>4. Longer(stack', stack) /\ stack'[Len(stack')] = Frame(kind, p, None)
  BY <1>2, <1>3, FramePushed, Zenon
<1>5. Len(stack') = 1 /\ Top(kind)'
  BY <1>2, <1>3, <1>4 DEF Longer, Top, TopFrame
<1>6. Using'
  BY <1>1, <1>5 DEF Using, Resting, Delivery, NoneOpen, Open, KeptBy, EndedBut, HeldBy
<1>7. \A q \in Requests : Answered(q)'
  BY <1>1 DEF Answered
<1> QED BY <1>6, <1>7 DEF Calm, Mode

LEMMA CalmComesBack ==
    ASSUME TypeInv, Calm, Resting(0) \/ Using, stack' = <<>>,
           UNCHANGED <<m_signCallback, asked, got, m_cardMutex, jobs, consent>>
    PROVE  Calm'
<1>1. Len(stack') = 0
  OBVIOUS
<1>2. Resting(0)'
  BY <1>1 DEF Using, Resting, Base, Delivery, NoneOpen, Open, KeptBy, EndedBut, HeldBy
<1>3. \A q \in Requests : Answered(q)'
  BY DEF Calm, Answered
<1> QED BY <1>2, <1>3 DEF Calm, Mode

LEMMA CalmUses ==
    ASSUME TypeInv, Calm, Quiet, NEW p \in Pages, UseCard(p)
    PROVE  Calm'
<1>1. stack = <<>> /\ NoneOpen
  BY DEF UseCard, MayCall, NoneOpen
<1> QED BY <1>1, CalmGoes DEF UseCard, page

LEMMA CalmUsed ==
    ASSUME TypeInv, Calm, UseCardReturn
    PROVE  Calm'
<1>1. Using
  BY UsingOnTop DEF UseCardReturn, Locking, Calm
<1>2. stack' = <<>>
  <2>1. Len(stack) = 1 /\ stack # <<>>
    BY <1>1, StackLen DEF Using
  <2>2. Longer(stack, Below) /\ Below \in Seq(Frames)
    BY <2>1, BelowClean DEF Clean
  <2>3. Len(Below) = 0
    <3>1. Len(stack) = Len(Below) + 1 /\ Len(Below) \in Nat
      BY <2>2 DEF Longer
    <3> QED BY ONLY <2>1, <3>1
  <2> QED BY <2>2, <2>3, EmptySeq DEF UseCardReturn
<1> QED BY <1>1, <1>2, CalmComesBack DEF UseCardReturn, page

LEMMA CalmJoins ==
    ASSUME TypeInv, Calm, Joined
    PROVE  Calm'
<1>1. Using
  BY UsingOnTop DEF Joined, Calm
<1> QED BY <1>1, CalmComesBack DEF Joined, page

LEMMA CalmClosesPage ==
    ASSUME TypeInv, Calm, Quiet, NEW p \in Pages, ClosePage(p)
    PROVE  Calm'
<1>1. stack = <<>> /\ NoneOpen
  BY DEF ClosePage, NoneOpen
<1>2. Resting(0)
  BY <1>1, RestingInLoop DEF Calm
<1>3. UNCHANGED <<m_signCallback, asked, got, m_cardMutex, jobs, consent>>
  BY DEF ClosePage, page
<1>4. CASE stack' = <<>>
  BY <1>2, <1>3, <1>4, CalmComesBack
<1>5. CASE stack' = <<Frame("join", p, None)>>
  <2>1. stack' = Append(stack, Frame("join", p, None))
    BY <1>1, <1>5
  <2> QED BY <1>1, <1>3, <2>1, CalmGoes
<1> QED BY <1>4, <1>5 DEF ClosePage

(* The monitor, and a step that changes nothing.                           *)
LEMMA CalmPolls ==
    ASSUME TypeInv, Calm, PollStart \/ PollEnd \/ UNCHANGED vars
    PROVE  Calm'
<1>1. /\ UNCHANGED <<alive, m_signCallback, m_hash, asked, got, callbacks, jobs, stack, consent>>
      /\ m_cardMutex' = m_cardMutex \/ m_cardMutex' \in {None, Monitor}
  BY DEF PollStart, PollEnd, vars, page
<1>2. \A q \in Requests : Answered(q)'
  BY <1>1 DEF Calm, Answered
<1>3. \A js : HeldBy(js) => HeldBy(js)'
  BY <1>1 DEF HeldBy
<1>4. /\ Using => Using'
      /\ \A n \in {0, 1} : (Resting(n) => Resting(n)') /\ (Telling(n) => Telling(n)')
  BY <1>1, <1>3
  DEF Using, Resting, Telling, Top, TopFrame, Base, Delivery, NoneOpen, Open, KeptBy, EndedBut,
      HeldBy
<1>5. \A n \in {0, 1}, p \in Pages, r \in Requests : Working(n, p, r) => Working(n, p, r)'
  BY <1>1, <1>3
  DEF Working, TopFrame, Base, Delivery, Waits, Sole, Open, KeptBy, EndedBut, HeldBy
<1>6. \A n \in {0, 1}, p \in Pages, r \in Requests : Signing(n, p, r) => Signing(n, p, r)'
  BY <1>1, <1>3
  DEF Signing, Last, Base, Delivery, Waits, Sole, Open, KeptBy, EndedBut, HeldBy
<1>7. Mode'
  <2>1. CASE Using
    BY <1>4, <2>1 DEF Mode
  <2>2. ASSUME NEW n \in {0, 1}, Resting(n) \/ Telling(n) PROVE Mode'
    BY <1>4, <2>2 DEF Mode
  <2>3. ASSUME NEW n \in {0, 1}, NEW p \in Pages, NEW r \in Requests,
               Working(n, p, r) \/ Signing(n, p, r)
        PROVE  Mode'
    BY <1>5, <1>6, <2>3 DEF Mode
  <2> QED BY <2>1, <2>2, <2>3 DEF Calm, Mode
<1> QED BY <1>2, <1>7 DEF Calm

(***************************************************************************)
(* The steps of the thread that signs, and of what it calls back.          *)
(***************************************************************************)

LEMMA CalmSigns ==
    ASSUME TypeInv, \A q \in Requests : Answered(q), NEW n \in {0, 1}, NEW p \in Pages,
           NEW r \in Requests, Signing(n, p, r),
           NEW pc \in {"signing"} \union Waiting, NEW to, pc # "signing" => to = p,
           NEW j, j = Len(jobs), Goes(j, pc, to),
           UNCHANGED <<alive, m_signCallback, m_hash, callbacks, asked, got, stack>>,
           m_cardMutex' \in {j, None, Monitor},
           consent' = IF pc = "completed" THEN consent \union {r} ELSE consent,
           jobs[j].pc \in {"created", "signing"}
    PROVE  Calm'
<1>1. j \in DOMAIN jobs /\ jobs' # <<>> /\ Len(jobs') = j
  <2>1. jobs # <<>> /\ Len(jobs) # 0 /\ Len(jobs') = Len(jobs)
    BY StackLen DEF Signing, Goes
  <2> QED BY <2>1, StackLen
<1>2. Last' = jobs'[j] /\ Last = jobs[j] /\ jobs'[j].pc = pc /\ jobs'[j].to = to
      /\ jobs'[j].doc = r /\ DOMAIN jobs' = DOMAIN jobs
      /\ \A k \in DOMAIN jobs : k # j => jobs'[k] = jobs[k]
  BY <1>1 DEF Goes, Last, Signing
<1>3. Base(n)' /\ Delivery(n)' = Delivery(n)
  BY <1>1, <1>2 DEF Base, Delivery, Signing
<1>4. r \notin consent /\ (pc = "completed" <=> r \in consent')
  BY <1>2 DEF Signing
<1>5. Waits(p, r)'
  BY DEF Signing, Waits, Sole, Open, KeptBy
<1>6. EndedBut(Delivery(n) \union {Len(jobs)})' /\ HeldBy({Len(jobs)})'
  BY <1>1, <1>2, <1>3 DEF Signing, EndedBut, HeldBy
<1>7. Signing(n, p, r)'
  <2>1. Len(stack') = n /\ m_hash'[p] = r /\ callbacks' = p
    BY DEF Signing
  <2>2. /\ Last'.doc = r /\ Last'.pc \in {"created", "signing"} \union Waiting
        /\ Last'.pc \in Waiting => Last'.to = p
    BY <1>2 DEF Waiting
  <2>3. Last'.pc = "completed" <=> r \in consent'
    BY <1>2, <1>4
  <2> QED BY <1>1, <1>3, <1>5, <1>6, <2>1, <2>2, <2>3 DEF Signing
<1>8. \A q \in Requests : Answered(q)'
  <2>1. got[r] = <<>> /\ r \in asked
    BY DEF Signing, Waits, Sole, Open
  <2>2. Answered(r)'
    BY <2>1, Markers DEF Answered
  <2>3. ASSUME NEW q \in Requests, q # r PROVE Answered(q)'
    BY <2>3 DEF Answered
  <2> QED BY <2>2, <2>3
<1> QED BY <1>7, <1>8 DEF Calm, Mode

LEMMA CalmLocks ==
    ASSUME TypeInv, Calm, NEW j \in DOMAIN jobs, Lock(j)
    PROVE  Calm'
<1>1. Mode /\ jobs[j].pc = "created" /\ \A q \in Requests : Answered(q)
  BY DEF Lock, Calm
<1>2. PICK n \in {0, 1}, p \in Pages, r \in Requests : Signing(n, p, r) /\ j = Len(jobs)
  BY <1>1, SigningThreadRuns
<1>3. PICK to : Goes(j, "signing", to)
  BY LockTypes
<1>4. /\ UNCHANGED <<alive, m_signCallback, m_hash, callbacks, asked, got, stack, consent>>
      /\ m_cardMutex' = j
  BY DEF Lock, page
<1> QED BY <1>1, <1>2, <1>3, <1>4, CalmSigns

LEMMA CalmCompletes ==
    ASSUME TypeInv, Calm, NEW j \in DOMAIN jobs, Completed(j)
    PROVE  /\ Calm'
           /\ \E r \in Requests : Open(r) /\ consent' = consent \union {r}
<1>1. Mode /\ jobs[j].pc = "signing" /\ \A q \in Requests : Answered(q)
  BY DEF Completed, Calm
<1>2. PICK n \in {0, 1}, p \in Pages, r \in Requests : Signing(n, p, r) /\ j = Len(jobs)
  BY <1>1, SigningThreadRuns
<1>3. PICK to : to = callbacks /\ Goes(j, "completed", to)
  BY CompletedTypes
<1>4. jobs[j].doc = r /\ callbacks = p /\ Open(r) /\ m_cardMutex \in {j, None, Monitor}
  BY <1>2 DEF Signing, Last, Waits, Sole, HeldBy
<1>5. /\ UNCHANGED <<alive, m_signCallback, m_hash, callbacks, asked, got, stack>>
      /\ m_cardMutex' \in {j, None, Monitor} /\ consent' = consent \union {r}
  BY <1>4 DEF Completed, page
<1>6. Calm'
  BY <1>1, <1>2, <1>3, <1>4, <1>5, CalmSigns DEF Waiting
<1> QED BY <1>4, <1>5, <1>6

LEMMA CalmThrows ==
    ASSUME TypeInv, Calm, NEW j \in DOMAIN jobs, NEW error \in {"wrong", "other"},
           Threw(j, error)
    PROVE  Calm'
<1>1. Mode /\ jobs[j].pc = "signing" /\ \A q \in Requests : Answered(q)
  BY DEF Threw, Calm
<1>2. PICK n \in {0, 1}, p \in Pages, r \in Requests : Signing(n, p, r) /\ j = Len(jobs)
  BY <1>1, SigningThreadRuns
<1>3. PICK pc \in {"wrong", "blocked", "aborted"}, to \in {callbacks} : Goes(j, pc, to)
  BY ThrewTypes
<1>4. callbacks = p
  BY <1>2 DEF Signing
<1>5. /\ UNCHANGED <<alive, m_signCallback, m_hash, callbacks, asked, got, stack, consent>>
      /\ m_cardMutex' \in {j, None, Monitor}
  BY DEF Threw, page
<1> QED BY <1>1, <1>2, <1>3, <1>4, <1>5, CalmSigns DEF Waiting

LEMMA NeverGone ==
    ASSUME TypeInv, Calm, NEW j \in DOMAIN jobs, HostGone(j)
    PROVE  FALSE
<1>1. Mode /\ jobs[j].pc \in Waiting /\ jobs[j].to \notin alive
  BY DEF HostGone, Calm
<1>2. PICK n \in {0, 1}, p \in Pages, r \in Requests : Signing(n, p, r) /\ j = Len(jobs)
  BY <1>1, SigningThreadRuns
<1> QED BY <1>1, <1>2 DEF Signing, Waits, Last

LEMMA CalmDelivers ==
    ASSUME TypeInv, CardUsedByOne, Calm, NEW j \in DOMAIN jobs, Deliver(j)
    PROVE  /\ Calm'
           /\ \E r \in Requests :
                 /\ Open(r)
                 /\ \/ UNCHANGED got
                    \/ r \in consent /\ got' = [got EXCEPT ![r] = Append(@, r)]
                    \/ r \notin consent /\ got' = [got EXCEPT ![r] = Append(@, Failed)]
<1>1. Mode /\ jobs[j].pc \in Waiting /\ InLoop /\ \A q \in Requests : Answered(q)
  BY DEF Deliver, Calm
<1>2. PICK n \in {0, 1}, p \in Pages, r \in Requests : Signing(n, p, r) /\ j = Len(jobs)
  BY <1>1, SigningThreadRuns
<1>3. /\ jobs[j].to = p /\ jobs[j].doc = r /\ Waits(p, r) /\ m_hash[p] = r
      /\ jobs[j].pc = "completed" <=> r \in consent
  BY <1>1, <1>2 DEF Signing, Last
<1>4. n = 0 /\ stack = <<>>
  <2>1. n # 1
    BY <1>1, <1>2, StackLen DEF Signing, Base, InLoop, Top
  <2> QED BY <1>2, <2>1, StackLen DEF Signing
<1>5. PICK b : b = Append(stack, Frame("deliver", p, j))
  OBVIOUS
<1>6. /\ Goes(j, "delivered", p) /\ Frame("deliver", p, j) \in Frames
      /\ stack \in Seq(Frames)
      /\ \/ jobs[j].pc = "completed" /\ Return(p, r, b)
         \/ jobs[j].pc = "wrong" /\ UNCHANGED got /\ stack' = Append(b, Frame("askPin", p, None))
         \/ /\ jobs[j].pc = "blocked" /\ UNCHANGED got
            /\ stack' = Append(b, Frame("message", p, None))
         \/ jobs[j].pc = "aborted" /\ Return(p, Failed, b)
  BY <1>3, <1>5, DeliverBase DEF TypeInv, StackType
<1>7. b \in Seq(Frames) /\ Longer(b, stack) /\ b[Len(b)] = Frame("deliver", p, j)
  BY <1>5, <1>6, FramePushed, Zenon
<1>8. Len(b) = 1 /\ b[1].kind = "deliver" /\ b[1].job = j
  BY <1>4, <1>7, StackLen DEF Longer, Frame
<1>9. /\ DOMAIN jobs' = DOMAIN jobs /\ jobs'[j].pc = "delivered"
      /\ \A k \in DOMAIN jobs : k # j => jobs'[k] = jobs[k]
  BY <1>6 DEF Goes
<1>10. EndedBut({j})' /\ HeldBy({j})'
  <2>1. EndedBut({j}) /\ HeldBy({j})
    BY <1>2, <1>4 DEF Signing, Delivery
  <2>2. UNCHANGED m_cardMutex
    BY DEF Deliver
  <2> QED BY <1>9, <2>1, <2>2 DEF EndedBut, HeldBy
<1>11. UNCHANGED <<alive, m_signCallback, asked, consent, m_hash, m_cardMutex>>
  BY DEF Deliver
<1>12. /\ m_signCallback[p] = r /\ got[r] = <<>> /\ Open(r) /\ r \in asked' /\ KeptBy(p)'
       /\ \A q \in Requests : q # r => ~Open(q) /\ (q \in asked' <=> q \in asked)
  BY <1>3, <1>11 DEF Waits, Sole, Open, KeptBy
<1>13. ASSUME NEW answer \in {Failed, r}, Return(p, answer, b),
              answer = Failed => r \notin consent, answer = r => r \in consent
       PROVE  Calm' /\ got' = [got EXCEPT ![r] = Append(@, answer)]
  <2>1. Answer(p, r, answer, b)
    BY <1>12, <1>13 DEF Return
  <2>2. got' = [got EXCEPT ![r] = Append(@, answer)]
    BY <2>1, Markers DEF Answer
  <2>3. {j} = (IF 1 = 0 THEN {} ELSE {b[1].job}) /\ 1 \in {0, 1}
    BY <1>8
  <2>4. Calm'
    BY <1>1, <1>7, <1>8, <1>9, <1>10, <1>11, <1>12, <1>13, <2>1, <2>3, Told
  <2> QED BY <2>2, <2>4
<1>14. ASSUME NEW kind \in {"askPin", "message"}, jobs[j].pc \in {"wrong", "blocked"},
              UNCHANGED got, stack' = Append(b, Frame(kind, p, None))
       PROVE  Calm'
  <2>1. /\ Frame(kind, p, None) \in Frames /\ Frame(kind, p, None).kind = kind
        /\ Frame(kind, p, None).page = p
    BY FrameType, Markers
  <2>2. Longer(stack', b) /\ stack'[Len(stack')] = Frame(kind, p, None)
    BY <1>7, <1>14, <2>1, FramePushed, Zenon
  <2>3. /\ Len(stack') = 1 + 1 /\ stack'[1] = b[1] /\ TopFrame' = Frame(kind, p, None)
    BY <1>8, <2>2 DEF Longer, TopFrame
  <2>4. Base(1)' /\ Delivery(1)' = {j}
    BY <1>8, <1>9, <2>3 DEF Base, Delivery
  <2>5. HeldBy({})'
    <3>1. m_cardMutex # j
      BY <1>14 DEF CardUsedByOne
    <3> QED BY <1>10, <1>11, <3>1 DEF HeldBy
  <2>6. Waits(p, r)' /\ r \notin consent'
    BY <1>3, <1>11, <1>14 DEF Waits, Sole, Open, KeptBy
  <2>7. EndedBut(Delivery(1))'
    BY <1>10, <2>4 DEF EndedBut
  <2>8. Working(1, p, r)'
    BY <1>3, <1>11, <2>1, <2>3, <2>4, <2>5, <2>6, <2>7 DEF Working, Preparing
  <2>9. \A q \in Requests : Answered(q)'
    BY <1>1, <1>11, <1>14 DEF Answered
  <2> QED BY <2>8, <2>9 DEF Calm, Mode
<1>15. Failed # r
  BY Markers
<1> QED BY <1>3, <1>6, <1>12, <1>13, <1>14, <1>15

LEMMA CalmDelivered ==
    ASSUME TypeInv, Calm, Delivered
    PROVE  Calm'
<1>1. /\ Top("deliver") /\ Mode /\ stack' = Below
      /\ UNCHANGED <<habit, alive, page, callbacks, consent>>
      /\ \A q \in Requests : Answered(q)
  BY DEF Delivered, Calm
<1>2. Resting(1) \/ \E p \in Pages, r \in Requests : Signing(1, p, r)
  BY <1>1, DeliveryOnTop
<1>3. Len(stack) = 1 /\ Base(1)
  BY <1>2 DEF Resting, Signing
<1>4. PICK j : j = stack[1].job
  OBVIOUS
<1>5. /\ TopFrame.job = j /\ j \in DOMAIN jobs /\ jobs[j].pc = "delivered"
      /\ Delivery(1) = {j}
  BY <1>3, <1>4 DEF TopFrame, Base, Delivery
<1>6. /\ Goes(j, "done", jobs[j].to)
      /\ m_cardMutex' = IF m_cardMutex = j THEN None ELSE m_cardMutex
  BY <1>5, ThreadType, ThreadGoes DEF Delivered, Finish, TypeInv, Threads
<1>7. /\ DOMAIN jobs' = DOMAIN jobs /\ jobs'[j].pc = "done" /\ Len(jobs') = Len(jobs)
      /\ \A k \in DOMAIN jobs : k # j => jobs'[k] = jobs[k]
  BY <1>6 DEF Goes
<1>8. stack' = <<>> /\ Len(stack') = 0
  <2>1. stack # <<>>
    BY <1>1 DEF Top
  <2>2. Longer(stack, Below) /\ Below \in Seq(Frames)
    BY <2>1, BelowClean DEF Clean
  <2>3. Len(Below) = 0
    <3>1. Len(stack) = Len(Below) + 1 /\ Len(Below) \in Nat
      BY <2>2 DEF Longer
    <3> QED BY ONLY <1>3, <3>1
  <2> QED BY <1>1, <2>2, <2>3, EmptySeq
<1>9. \A q \in Requests : Answered(q)'
  BY <1>1 DEF Answered, page
<1>10. CASE Resting(1)
  <2>1. EndedBut({})' /\ HeldBy({})'
    BY <1>5, <1>6, <1>7, <1>10 DEF Resting, EndedBut, HeldBy
  <2>2. NoneOpen' /\ KeptBy(None)'
    <3>1. UNCHANGED <<m_signCallback, asked, got>> /\ NoneOpen /\ KeptBy(None)
      BY <1>1, <1>10 DEF Resting, page
    <3> QED BY <3>1 DEF NoneOpen, Open, KeptBy
  <2>3. Resting(0)'
    BY <1>8, <2>1, <2>2 DEF Resting, Base, Delivery
  <2> QED BY <1>9, <2>3 DEF Calm, Mode
<1>11. ASSUME NEW p \in Pages, NEW r \in Requests, Signing(1, p, r) PROVE Calm'
  <2>1. PICK l : l = Len(jobs)
    OBVIOUS
  <2>2. /\ l \in DOMAIN jobs /\ jobs[l].pc # "delivered" /\ Last = jobs[l]
        /\ Last.pc \in {"created", "signing"} \union Waiting
    BY <1>11, <2>1, StackLen DEF Signing, Last, Waiting
  <2>3. l # j /\ jobs'[l] = jobs[l] /\ Last' = jobs[l] /\ Len(jobs') = l
    BY <1>5, <1>7, <2>1, <2>2 DEF Last
  <2>4. EndedBut({l})'
    BY <1>5, <1>7, <1>11, <2>1 DEF Signing, EndedBut
  <2>5. HeldBy({l})'
    BY <1>6, <1>11, <2>1 DEF Signing, HeldBy
  <2>6. Waits(p, r)' /\ (r \in consent' <=> r \in consent)
    BY <1>1, <1>11 DEF Signing, Waits, Sole, Open, KeptBy, page
  <2>7. jobs' # <<>> /\ {} \union {l} = {l}
    BY <1>7, <2>2
  <2>8. EndedBut(Delivery(0) \union {Len(jobs)})' /\ HeldBy({Len(jobs)})'
    BY <2>3, <2>4, <2>5, <2>7 DEF Delivery
  <2>9. m_hash'[p] = r /\ callbacks' = p
    BY <1>1, <1>11 DEF Signing, page
  <2>10. /\ Last'.doc = r /\ (Last'.pc \in Waiting => Last'.to = p)
         /\ Last'.pc \in {"created", "signing"} \union Waiting
         /\ Last'.pc = "completed" <=> r \in consent'
    BY <1>11, <2>2, <2>3, <2>6 DEF Signing
  <2>11. Signing(0, p, r)'
    BY <1>8, <2>6, <2>7, <2>8, <2>9, <2>10 DEF Signing, Base
  <2> QED BY <1>9, <2>11 DEF Calm, Mode
<1> QED BY <1>2, <1>10, <1>11

LEMMA HabitKept == [Next]_vars => habit' = habit
BY DEF Next, Main, SigningThread, Job, vars, signAsync, prepareSign, askPin, signSHA1Async,
       JsReturn, UseCard, UseCardReturn, CloseMessage, Lock, Completed, Threw, Deliver,
       Delivered, HostGone, PollStart, PollEnd, ClosePage, Joined

LEMMA CalmStep == TypeInv /\ CardUsedByOne /\ QuietInv /\ [Next]_vars => QuietInv'
<1> SUFFICES ASSUME TypeInv, CardUsedByOne, Calm, Quiet, [Next]_vars PROVE Calm'
  BY HabitKept DEF QuietInv, Quiet
<1>1. ASSUME NEW p \in Pages, NEW r \in Requests, signAsync(p, r) PROVE Calm'
  BY <1>1, CalmAsked
<1>2. ASSUME NEW p \in Pages, UseCard(p) \/ ClosePage(p) PROVE Calm'
  BY <1>2, CalmUses, CalmClosesPage
<1>3. CASE prepareSign \/ askPin \/ signSHA1Async \/ JsReturn \/ UseCardReturn
  BY <1>3, CalmPrepares, CalmAsksPin, CalmStarts, CalmJsReturns, CalmUsed
<1>4. CASE CloseMessage \/ Delivered \/ Joined
  BY <1>4, CalmCloses, CalmDelivered, CalmJoins
<1>5. ASSUME NEW j \in DOMAIN jobs, Deliver(j) PROVE Calm'
  BY <1>5, CalmDelivers
<1>6. ASSUME NEW j \in DOMAIN jobs, Job(j) PROVE Calm'
  BY <1>6, CalmLocks, CalmCompletes, CalmThrows, NeverGone DEF Job
<1>7. CASE PollStart \/ PollEnd \/ UNCHANGED vars
  BY <1>7, CalmPolls
<1> QED BY <1>1, <1>2, <1>3, <1>4, <1>5, <1>6, <1>7 DEF Next, Main, SigningThread

LEMMA CalmInit == Init => QuietInv
<1> SUFFICES ASSUME Init PROVE Calm
  BY DEF QuietInv
<1>1. \A r \in Requests : Answered(r)
  BY DEF Init, Answered
<1>2. Resting(0)
  BY EmptySeq DEF Init, Resting, Base, Delivery, NoneOpen, Open, KeptBy, EndedBut, HeldBy
<1> QED BY <1>1, <1>2 DEF Calm, Mode

LEMMA QuietInvariant == Spec => [](TypeInv /\ CardUsedByOne /\ QuietInv)
<1>1. Init => CardUsedByOne
  BY DEF Init, CardUsedByOne
<1> QED BY <1>1, TypeInit, CalmInit, TypeStep, CardUsedStep, CalmStep, PTL DEF Spec

(* signSHA1Async() and the callbacks bound to a page: with pages that      *)
(* leave the card alone and stay open while a request is open, a thread    *)
(* that is to call a page back finds it, and no thread is left when the    *)
(* service is gone.                                                        *)
THEOREM OwnersOutlive == Spec => []NothingOutlivesItsOwner
BY QuietInvariant, CalmOwners, PTL

(* CallOnMainThread(), called with m_cardMutex held: with such pages the   *)
(* main thread does not wait for the mutex of a thread that waits for it.  *)
THEOREM NoDeadlock == Spec => []QuietPagesDoNotBlock
BY QuietInvariant, CalmMain, PTL

-----------------------------------------------------------------------------
(***************************************************************************)
(* What quiet pages are answered is what SignRequest says: each step is a  *)
(* step of it on one request, or none.                                     *)
(***************************************************************************)

phases     == [r \in Requests |-> IF Quiet THEN Phase(r) ELSE "idle"]
consenteds == IF Quiet THEN consent ELSE {}

LEMMA PhaseOf ==
    ASSUME NEW r \in Requests
    PROVE  /\ got[r] = <<>> => Phase(r) = IF r \in asked THEN "open" ELSE "idle"
           /\ got[r] = <<Failed>> => Phase(r) = "failed"
           /\ got[r] = <<r>> => Phase(r) = "signed"
<1>1. <<Failed>> # <<>> /\ <<r>> # <<>> /\ <<Failed>> # <<r>>
  BY Markers
<1> QED BY <1>1 DEF Phase

(* A step of request r, by the answers it has then.                        *)
Moves(r, answers) ==
    /\ Quiet /\ Quiet' /\ PageType
    /\ asked' = asked \union {r} /\ got[r] = <<>>
    /\ got' = [got EXCEPT ![r] = answers]

LEMMA MovedPhase ==
    ASSUME NEW r \in Requests, NEW answers, Moves(r, answers)
    PROVE  /\ phases[r] = IF r \in asked THEN "open" ELSE "idle"
           /\ phases' = [phases EXCEPT ![r] = IF answers = <<>> THEN "open"
                                              ELSE IF answers = <<Failed>> THEN "failed"
                                              ELSE Phase(r)']
           /\ answers = <<r>> => phases' = [phases EXCEPT ![r] = "signed"]
           /\ consenteds = consent /\ consenteds' = consent'
<1>1. ASSUME NEW q \in Requests, q # r PROVE Phase(q)' = Phase(q)
  <2>1. got'[q] = got[q] /\ (q \in asked' <=> q \in asked)
    BY <1>1 DEF Moves, PageType
  <2> QED BY <2>1 DEF Phase
<1>2. phases = [q \in Requests |-> Phase(q)] /\ phases' = [q \in Requests |-> Phase(q)']
  BY DEF phases, Moves
<1>3. got'[r] = answers /\ r \in asked'
  BY DEF Moves, PageType
<1>4. Phase(r)' = IF answers = <<>> THEN "open"
                  ELSE IF answers = <<Failed>> THEN "failed" ELSE Phase(r)'
  <2>1. <<Failed>> # <<>> /\ <<r>> # <<>> /\ <<Failed>> # <<r>>
    BY Markers
  <2>2. CASE answers = <<>>
    BY <1>3, <2>1, <2>2 DEF Phase
  <2>3. CASE answers = <<Failed>>
    BY <1>3, <2>1, <2>3 DEF Phase
  <2>4. CASE answers \notin {<<>>, <<Failed>>}
    BY <2>4
  <2> QED BY <2>2, <2>3, <2>4
<1>5. answers = <<r>> => Phase(r)' = "signed"
  <2>1. <<r>> # <<>> /\ <<Failed>> # <<r>>
    BY Markers
  <2> QED BY <1>3, <2>1 DEF Phase
<1>6. phases[r] = IF r \in asked THEN "open" ELSE "idle"
  BY <1>2, PhaseOf DEF Moves
<1>7. phases' = [phases EXCEPT ![r] = Phase(r)']
  BY <1>1, <1>2
<1>8. consenteds = consent /\ consenteds' = consent'
  BY DEF consenteds, Moves
<1> QED BY <1>4, <1>5, <1>6, <1>7, <1>8

LEMMA RequestMoves ==
    ASSUME NEW r \in Requests, NEW answers, Moves(r, answers),
           \/ r \notin asked /\ answers \in {<<>>, <<Failed>>} /\ consent' = consent
           \/ r \in asked /\ answers = <<>> /\ consent' = consent \union {r}
           \/ r \in asked /\ answers = <<r>> /\ consent' = consent /\ r \in consent
           \/ r \in asked /\ answers = <<Failed>> /\ consent' = consent /\ r \notin consent
    PROVE  Request!Next
<1>1. <<Failed>> # <<>>
  OBVIOUS
<1>2. /\ phases[r] = IF r \in asked THEN "open" ELSE "idle"
      /\ answers = <<>> => phases' = [phases EXCEPT ![r] = "open"]
      /\ answers = <<Failed>> => phases' = [phases EXCEPT ![r] = "failed"]
      /\ answers = <<r>> => phases' = [phases EXCEPT ![r] = "signed"]
      /\ consenteds = consent /\ consenteds' = consent'
  <2>1. /\ phases[r] = IF r \in asked THEN "open" ELSE "idle"
        /\ phases' = [phases EXCEPT ![r] = IF answers = <<>> THEN "open"
                                           ELSE IF answers = <<Failed>> THEN "failed"
                                           ELSE Phase(r)']
        /\ answers = <<r>> => phases' = [phases EXCEPT ![r] = "signed"]
        /\ consenteds = consent /\ consenteds' = consent'
    BY MovedPhase
  <2> QED BY <1>1, <2>1
<1>3. CASE r \notin asked /\ answers = <<>> /\ consent' = consent
  <2>1. phases[r] = "idle" /\ phases' = [phases EXCEPT ![r] = "open"]
        /\ consenteds' = consenteds
    BY <1>2, <1>3
  <2>2. Request!Open(r)
    BY <2>1 DEF Request!Open, phases, consenteds
  <2> QED BY <2>2 DEF Request!Next
<1>4. CASE r \notin asked /\ answers = <<Failed>> /\ consent' = consent
  <2>1. phases[r] = "idle" /\ phases' = [phases EXCEPT ![r] = "failed"]
        /\ consenteds' = consenteds
    BY <1>2, <1>4
  <2>2. Request!Refuse(r)
    BY <2>1 DEF Request!Refuse, phases, consenteds
  <2> QED BY <2>2 DEF Request!Next
<1>5. CASE r \in asked /\ answers = <<>> /\ consent' = consent \union {r}
  <2>1. phases[r] = "open" /\ phases' = [phases EXCEPT ![r] = "open"]
        /\ consenteds' = consenteds \union {r}
    BY <1>2, <1>5
  <2>2. phases' = phases
    BY <2>1 DEF phases
  <2>3. Request!Consent(r)
    BY <2>1, <2>2 DEF Request!Consent, phases, consenteds
  <2> QED BY <2>3 DEF Request!Next
<1>6. CASE r \in asked /\ answers = <<r>> /\ consent' = consent /\ r \in consent
  <2>1. /\ phases[r] = "open" /\ phases' = [phases EXCEPT ![r] = "signed"]
        /\ consenteds' \in {consenteds, consenteds \union {r}} /\ r \in consenteds'
    BY <1>2, <1>6
  <2>2. Request!Sign(r)
    BY <2>1 DEF Request!Sign, phases, consenteds
  <2> QED BY <2>2 DEF Request!Next
<1>7. CASE r \in asked /\ answers = <<Failed>> /\ consent' = consent /\ r \notin consent
  <2>1. /\ phases[r] = "open" /\ phases' = [phases EXCEPT ![r] = "failed"]
        /\ consenteds' = consenteds /\ r \notin consenteds
    BY <1>2, <1>7
  <2>2. Request!Fail(r)
    BY <2>1 DEF Request!Fail, phases, consenteds
  <2> QED BY <2>2 DEF Request!Next
<1> QED BY <1>3, <1>4, <1>5, <1>6, <1>7

LEMMA Stutter ==
    ASSUME habit' = habit, ~Quiet \/ UNCHANGED <<asked, got, consent>>
    PROVE  UNCHANGED Request!vars
<1>1. CASE ~Quiet
  BY <1>1 DEF Request!vars, Quiet
<1>2. CASE UNCHANGED <<asked, got, consent>>
  BY <1>2 DEF Request!vars, Phase, Quiet
<1> QED BY <1>1, <1>2

LEMMA RequestInit == Init => Request!Init
<1> SUFFICES ASSUME Init PROVE Request!Init
  OBVIOUS
<1>1. \A r \in Requests : (IF Quiet THEN Phase(r) ELSE "idle") = "idle"
  BY DEF Init, Phase
<1>2. (IF Quiet THEN consent ELSE {}) = {}
  BY DEF Init
<1> QED BY <1>1, <1>2 DEF Request!Init

(* The main thread's work on a request gives no answer, or fails it.       *)
LEMMA WorkAnswers ==
    ASSUME TypeInv, Calm, prepareSign \/ askPin \/ signSHA1Async \/ CloseMessage
    PROVE  /\ UNCHANGED <<asked, consent>>
           /\ \/ UNCHANGED got
              \/ \E r \in Requests :
                    /\ Open(r) /\ r \notin consent
                    /\ got' = [got EXCEPT ![r] = Append(@, Failed)]
<1>1. /\ UNCHANGED <<asked, consent>>
      /\ UNCHANGED got \/ Return(TopFrame.page, Failed, Below)
      /\ Top("prepare") \/ Top("askPin") \/ Top("start") \/ Top("message")
  BY DEF prepareSign, askPin, signSHA1Async, CloseMessage, Locking
<1>2. PICK n \in {0, 1}, p \in Pages, r \in Requests : Working(n, p, r)
  BY <1>1, WorkingOnTop DEF Calm
<1>3. /\ TopFrame.page = p /\ m_signCallback[p] = r /\ Open(r) /\ r \notin consent
  BY <1>2 DEF Working, Waits, Sole
<1>4. ASSUME Return(TopFrame.page, Failed, Below)
      PROVE  got' = [got EXCEPT ![r] = Append(@, Failed)]
  BY <1>3, <1>4, Markers DEF Return, Answer
<1> QED BY <1>1, <1>3, <1>4

LEMMA RequestStep ==
    TypeInv /\ CardUsedByOne /\ QuietInv /\ [Next]_vars => [Request!Next]_(Request!vars)
<1> SUFFICES ASSUME TypeInv, CardUsedByOne, QuietInv, [Next]_vars
             PROVE  Request!Next \/ UNCHANGED Request!vars
  OBVIOUS
<1>1. habit' = habit /\ PageType
  BY HabitKept DEF TypeInv
<1>2. CASE ~Quiet
  BY <1>1, <1>2, Stutter
<1>3. CASE Quiet
  <2>1. Calm /\ Quiet' /\ Quiet
    BY <1>1, <1>3 DEF QuietInv, Quiet
  <2>2. ASSUME UNCHANGED <<asked, got, consent>> PROVE UNCHANGED Request!vars
    BY <1>1, <2>2, Stutter
  <2>3. ASSUME NEW r \in Requests, NEW answer, got[r] = <<>>, asked' = asked \union {r},
               got' = [got EXCEPT ![r] = Append(@, answer)]
        PROVE  Moves(r, <<answer>>)
    <3>1. Append(got[r], answer) = <<answer>>
      BY <2>3
    <3>2. got' = [got EXCEPT ![r] = <<answer>>]
      BY <2>3, <3>1 DEF PageType
    <3> QED BY <1>1, <2>1, <2>3, <3>2 DEF Moves
  <2>4. ASSUME NEW r \in Requests, got[r] = <<>>, asked' = asked \union {r}, UNCHANGED got
        PROVE  Moves(r, <<>>)
    <3>1. got' = [got EXCEPT ![r] = <<>>]
      BY <1>1, <2>4 DEF PageType
    <3> QED BY <1>1, <2>1, <2>4, <3>1 DEF Moves
  <2>5. ASSUME NEW p \in Pages, NEW r \in Requests, signAsync(p, r) PROVE Request!Next
    <3>1. /\ got[r] = <<>> /\ r \notin asked /\ asked' = asked \union {r} /\ consent' = consent
          /\ got' = got \/ got' = [got EXCEPT ![r] = Append(@, Failed)]
      BY <2>1, <2>5, CalmAsked, Markers DEF signAsync, Answer
    <3>2. Moves(r, <<>>) \/ Moves(r, <<Failed>>)
      BY <2>3, <2>4, <3>1
    <3> QED BY <3>1, <3>2, RequestMoves
  <2>6. CASE prepareSign \/ askPin \/ signSHA1Async \/ CloseMessage
    <3>1. UNCHANGED <<asked, consent>>
      BY <2>1, <2>6, WorkAnswers
    <3>2. ASSUME NEW r \in Requests, Open(r), r \notin consent,
                 got' = [got EXCEPT ![r] = Append(@, Failed)]
          PROVE  Request!Next
      <4>1. got[r] = <<>> /\ r \in asked /\ asked' = asked \union {r} /\ consent' = consent
        BY <3>1, <3>2 DEF Open
      <4>2. Moves(r, <<Failed>>)
        BY <2>3, <3>2, <4>1
      <4> QED BY <3>2, <4>1, <4>2, RequestMoves
    <3> QED BY <2>1, <2>2, <2>6, <3>1, <3>2, WorkAnswers
  <2>7. ASSUME NEW j \in DOMAIN jobs, Completed(j) PROVE Request!Next
    <3>1. PICK r \in Requests : Open(r) /\ consent' = consent \union {r}
      BY <2>1, <2>7, CalmCompletes
    <3>2. got[r] = <<>> /\ r \in asked /\ asked' = asked \union {r} /\ UNCHANGED got
      BY <2>7, <3>1 DEF Open, Completed, page
    <3>3. Moves(r, <<>>)
      BY <2>4, <3>2
    <3> QED BY <3>1, <3>2, <3>3, RequestMoves
  <2>8. ASSUME NEW j \in DOMAIN jobs, Deliver(j) PROVE Request!Next \/ UNCHANGED Request!vars
    <3>1. PICK r \in Requests :
             /\ Open(r)
             /\ \/ UNCHANGED got
                \/ r \in consent /\ got' = [got EXCEPT ![r] = Append(@, r)]
                \/ r \notin consent /\ got' = [got EXCEPT ![r] = Append(@, Failed)]
      BY <2>1, <2>8, CalmDelivers
    <3>2. /\ got[r] = <<>> /\ r \in asked /\ asked' = asked \union {r} /\ asked' = asked
          /\ consent' = consent
      BY <2>8, <3>1 DEF Open, Deliver
    <3>3. CASE UNCHANGED got
      BY <2>2, <3>2, <3>3
    <3>4. CASE r \in consent /\ got' = [got EXCEPT ![r] = Append(@, r)]
      <4>1. Moves(r, <<r>>)
        BY <2>3, <3>2, <3>4
      <4> QED BY <3>2, <3>4, <4>1, RequestMoves
    <3>5. CASE r \notin consent /\ got' = [got EXCEPT ![r] = Append(@, Failed)]
      <4>1. Moves(r, <<Failed>>)
        BY <2>3, <3>2, <3>5
      <4> QED BY <3>2, <3>5, <4>1, RequestMoves
    <3> QED BY <3>1, <3>3, <3>4, <3>5
  <2>9. CASE \/ \E p \in Pages : UseCard(p) \/ ClosePage(p)
             \/ JsReturn \/ UseCardReturn \/ Delivered \/ Joined
             \/ \E j \in DOMAIN jobs : \/ Lock(j) \/ HostGone(j)
                                       \/ \E error \in {"wrong", "other"} : Threw(j, error)
             \/ PollStart \/ PollEnd \/ UNCHANGED vars
    <3>1. UNCHANGED <<asked, got, consent>>
      BY <2>9 DEF UseCard, ClosePage, JsReturn, UseCardReturn, Delivered, Joined, Lock, HostGone,
                  Threw, PollStart, PollEnd, vars, page
    <3> QED BY <2>2, <3>1
  <2> QED BY <2>5, <2>6, <2>7, <2>8, <2>9 DEF Next, Main, SigningThread, Job
<1> QED BY <1>2, <1>3

(* The safety part of RequestsAnswered: each request of such pages is      *)
(* answered once, with a failure or with the signature of its own          *)
(* document, and a document is signed only with a right PIN.               *)
THEOREM AnsweredAsPromised ==
    Spec => Request!Init /\ [][Request!Next]_(Request!vars)
BY QuietInvariant, RequestInit, RequestStep, PTL DEF Spec
=============================================================================
