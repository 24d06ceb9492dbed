----------------------------- MODULE PinpadSign ------------------------------
(***************************************************************************)
(* Signing with the PIN typed on the reader's own pinpad: the pages of one *)
(* browser process (EsteidAPI.cpp), the CardService they share, its        *)
(* monitor thread and one signing thread per signSHA1Async().              *)
(*                                                                         *)
(* The pages all run on the main thread, which is in the browser's event   *)
(* loop or deep in a call; stack holds what it has to return to.  It waits *)
(* whenever it needs m_cardMutex, and a signing thread waits for it in     *)
(* CallOnMainThread(): holding m_cardMutex when the card has signed, not   *)
(* holding it when signing failed.  The pinpad dialog takes no input (it   *)
(* cannot be cancelled), so it is left out.                                *)
(***************************************************************************)
EXTENDS Integers, Sequences, FiniteSets

CONSTANTS
    Pages,        \* plugin instances, from the start
    MaxRequests,  \* bound: calls of signAsync
    MaxTries,     \* PIN2 tries a card starts with
    Habits        \* of the pages: "quiet", "any", see MayCall

Requests == 1..MaxRequests
Failed   == -1
None     == 0
Monitor  == -1

(* Threads that can be started: one per request and one per wrong PIN, of  *)
(* which there are at most MaxTries before and after each signature.       *)
Jobs == 1..(MaxRequests + MaxTries * (MaxRequests + 1))

ASSUME ConstantsAssumption ==
    /\ MaxRequests \in Nat
    /\ MaxTries \in Nat
    /\ Habits \subseteq {"quiet", "any"}
    /\ None \notin Pages

VARIABLES
    alive,            \* the pages whose plugin instance exists
    owner,            \* the page that made each request
    m_signCallback,   \* of each page: the request whose callback it keeps
    m_hash,           \* of each page: the document of its last prepareSign()
    callbacks,        \* the page signCompletedFunc and signFailedFunc are bound to
    m_cardMutex,      \* its holder: a job, Monitor or None
    jobs,             \* signing threads in the order of their start
    stack,            \* what the main thread is to return to, innermost last
    tries,            \* PIN2 tries the card has left
    asked,            \* the requests made so far
    got,              \* the answers each request was given
    habit,            \* what kind of pages they are
    consent           \* history: documents signed after a right PIN on the pinpad

page == <<owner, m_signCallback, m_hash, asked, got>>
vars == <<alive, page, callbacks, m_cardMutex, jobs, stack, tries, habit, consent>>

Init ==
    /\ alive = Pages
    /\ owner = [r \in Requests |-> None]
    /\ m_signCallback = [p \in Pages |-> None]
    /\ m_hash = [p \in Pages |-> None]
    /\ callbacks = None
    /\ m_cardMutex = None
    /\ jobs = <<>>
    /\ stack = <<>>
    /\ tries \in 0..MaxTries
    /\ asked = {}
    /\ got = [r \in Requests |-> <<>>]
    /\ habit \in Habits
    /\ consent = {}

Frame(kind, p, j) == [kind |-> kind, page |-> p, job |-> j]
TopFrame          == stack[Len(stack)]
Top(kind)         == stack # <<>> /\ TopFrame.kind = kind
Below             == SubSeq(stack, 1, Len(stack) - 1)

(* The main thread dispatches events: those of the browser's loop or of    *)
(* the "PIN2 blocked" message's.                                           *)
InLoop == stack = <<>> \/ Top("message")

Open(r) == r \in asked /\ got[r] = <<>>

(* Quiet pages touch the card and close only when no request is open.      *)
Quiet == habit = "quiet"

(* A page calls the plugin from an event or from its callback.             *)
MayCall(p) ==
    /\ p \in alive
    /\ InLoop \/ Top("js")
    /\ Quiet => stack = <<>> /\ \A r \in Requests : ~Open(r)

-----------------------------------------------------------------------------
(***************************************************************************)
(* The main thread's side of a request.                                    *)
(***************************************************************************)

(* returnSignedData() and returnSignFailure(), when there is a callback.   *)
Answer(p, r, answer, below) ==
    IF r = None
    THEN stack' = below /\ UNCHANGED got
    ELSE /\ got' = [got EXCEPT ![r] = Append(@, answer)]
         /\ stack' = Append(below, Frame("js", p, None))

Return(p, answer, below) == Answer(p, m_signCallback[p], answer, below)

(* The call fails at once if the page is not whitelisted or the hash is    *)
(* not one.                                                                *)
signAsync(p, r) ==
    /\ MayCall(p)
    /\ asked = 1..(r - 1) /\ asked' = asked \union {r}
    /\ owner' = [owner EXCEPT ![r] = p]
    /\ m_signCallback' = [m_signCallback EXCEPT ![p] = r]
    /\ \/ Answer(p, r, Failed, stack)
       \/ stack' = Append(stack, Frame("prepare", p, None)) /\ UNCHANGED got
    /\ UNCHANGED <<habit, alive, m_hash, callbacks, m_cardMutex, jobs, tries, consent>>

(* A frame that cannot go on without m_cardMutex.                          *)
Locking(kind) == Top(kind) /\ m_cardMutex = None

(* prepareSign() reads the certificate and asks for the pinpad.            *)
prepareSign ==
    /\ Locking("prepare")
    /\ LET p == TopFrame.page IN
       \/ /\ m_hash' = [m_hash EXCEPT ![p] = m_signCallback[p]]
          /\ stack' = Append(Below, Frame("askPin", p, None))
          /\ UNCHANGED got
       \/ Return(p, Failed, Below) /\ UNCHANGED m_hash
    /\ UNCHANGED <<habit, alive, owner, m_signCallback, asked, callbacks, m_cardMutex,
                   jobs, tries, consent>>

(* setSignCompletedCallback() and setSignFailedCallback().  (Mutant: only  *)
(* the first page binds them.)                                             *)
BoundTo_First(p) == IF callbacks = None THEN p ELSE callbacks

BoundTo(p) == p

(* askPin() reads the retry count; pinpadSignSHA1() then puts the page's   *)
(* callbacks into the service, without a lock.                             *)
askPin ==
    /\ Locking("askPin")
    /\ LET p == TopFrame.page IN
       \/ /\ tries = 0
          /\ stack' = Append(Below, Frame("message", p, None))
          /\ UNCHANGED <<got, callbacks>>
       \/ /\ tries # 0
          /\ callbacks' = BoundTo(p)
          /\ stack' = Append(Below, Frame("start", p, None))
          /\ UNCHANGED got
       \/ Return(p, Failed, Below) /\ UNCHANGED callbacks
    /\ UNCHANGED <<habit, alive, owner, m_signCallback, m_hash, asked, m_cardMutex,
                   jobs, tries, consent>>

(* signSHA1Async() finds the reader and starts the thread.                 *)
signSHA1Async ==
    /\ Locking("start")
    /\ LET p == TopFrame.page IN
       \/ /\ jobs' = Append(jobs, [pc |-> "created", doc |-> m_hash[p], to |-> None])
          /\ stack' = Below
          /\ UNCHANGED got
       \/ Return(p, Failed, Below) /\ UNCHANGED jobs
    /\ UNCHANGED <<habit, alive, owner, m_signCallback, m_hash, asked, callbacks,
                   m_cardMutex, tries, consent>>

(* The page's callback returns and invokeSignCallback() forgets it.        *)
JsReturn ==
    /\ Top("js")
    /\ m_signCallback' = [m_signCallback EXCEPT ![TopFrame.page] = None]
    /\ stack' = Below
    /\ UNCHANGED <<habit, alive, owner, m_hash, asked, got, callbacks, m_cardMutex,
                   jobs, tries, consent>>

(* Any property or method of the plugin that needs the card.               *)
UseCard(p) ==
    /\ MayCall(p)
    /\ stack' = Append(stack, Frame("use", p, None))
    /\ UNCHANGED <<habit, alive, page, callbacks, m_cardMutex, jobs, tries, consent>>

UseCardReturn ==
    /\ Locking("use")
    /\ stack' = Below
    /\ UNCHANGED <<habit, alive, page, callbacks, m_cardMutex, jobs, tries, consent>>

(* The user closes the "PIN2 blocked" message.                             *)
CloseMessage ==
    /\ Top("message")
    /\ Return(TopFrame.page, Failed, Below)
    /\ UNCHANGED <<habit, alive, owner, m_signCallback, m_hash, asked, callbacks,
                   m_cardMutex, jobs, tries, consent>>

-----------------------------------------------------------------------------
(***************************************************************************)
(* The signing threads: runSignSHA1().                                     *)
(***************************************************************************)

(* The lock is taken for the whole try block.  (Mutant: it is shared.)     *)
Lock_Shared(j) ==
    /\ jobs[j].pc = "created"
    /\ m_cardMutex' = j
    /\ jobs' = [jobs EXCEPT ![j].pc = "signing"]
    /\ UNCHANGED <<habit, alive, page, callbacks, stack, tries, consent>>

Lock(j) ==
    /\ jobs[j].pc = "created" /\ m_cardMutex = None
    /\ m_cardMutex' = j
    /\ jobs' = [jobs EXCEPT ![j].pc = "signing"]
    /\ UNCHANGED <<habit, alive, page, callbacks, stack, tries, consent>>

(* The card signs and signCompletedFunc is called in the lock's scope.     *)
Completed(j) ==
    /\ jobs[j].pc = "signing" /\ tries > 0
    /\ jobs' = [jobs EXCEPT ![j].pc = "completed", ![j].to = callbacks]
    /\ tries' = MaxTries
    /\ consent' = consent \union {jobs[j].doc}
    /\ UNCHANGED <<habit, alive, page, callbacks, m_cardMutex, stack>>

(* The tries a card has left after a wrong PIN.                            *)
Spent_NoFloor == tries - 1

Spent == IF tries = 0 THEN 0 ELSE tries - 1

(* decodeAuthError(), and SIGN_ERROR_CARD_ERROR for other exceptions; the  *)
(* page treats that one like SIGN_ERROR_ABORTED.                           *)
SignError(error) ==
    IF error # "wrong" THEN "aborted" ELSE IF Spent = 0 THEN "blocked" ELSE "wrong"

(* The card throws: the lock is released, then signFailedFunc is called.   *)
(* (Mutant: the other way round.)                                          *)
Threw_Locked(j, error) ==
    /\ jobs[j].pc = "signing"
    /\ tries' = IF error = "wrong" THEN Spent ELSE tries
    /\ jobs' = [jobs EXCEPT ![j].pc = SignError(error), ![j].to = callbacks]
    /\ UNCHANGED <<habit, alive, page, callbacks, m_cardMutex, stack, consent>>

Threw(j, error) ==
    /\ jobs[j].pc = "signing"
    /\ tries' = IF error = "wrong" THEN Spent ELSE tries
    /\ jobs' = [jobs EXCEPT ![j].pc = SignError(error), ![j].to = callbacks]
    /\ m_cardMutex' = None
    /\ UNCHANGED <<habit, alive, page, callbacks, stack, consent>>

(* The main thread runs the call that a thread waits for in                *)
(* CallOnMainThread(): on_pinpadSignCompleted or on_pinpadSignFailed.      *)
Waiting == {"completed", "wrong", "blocked", "aborted"}

Deliver(j) ==
    /\ InLoop /\ jobs[j].pc \in Waiting /\ jobs[j].to \in alive
    /\ LET p     == jobs[j].to
           below == Append(stack, Frame("deliver", p, j))
       IN CASE jobs[j].pc = "completed" -> Return(p, jobs[j].doc, below)
            [] jobs[j].pc = "wrong"     -> /\ stack' = Append(below, Frame("askPin", p, None))
                                           /\ UNCHANGED got
            [] jobs[j].pc = "blocked"   -> /\ stack' = Append(below, Frame("message", p, None))
                                           /\ UNCHANGED got
            [] jobs[j].pc = "aborted"   -> Return(p, Failed, below)
    /\ jobs' = [jobs EXCEPT ![j].pc = "delivered"]
    /\ UNCHANGED <<habit, alive, owner, m_signCallback, m_hash, asked, callbacks,
                   m_cardMutex, tries, consent>>

(* The call returned, or threw because the page's host is shut down: the   *)
(* thread leaves its lock's scope and ends.  (The callback is bound to a   *)
(* bare this: if the page was destroyed before the thread calls it, that   *)
(* is undefined.  The model goes on as if the host were shut down, and     *)
(* NothingOutlivesItsOwner says where it cannot happen.)                   *)
Finish(j) ==
    /\ jobs' = [jobs EXCEPT ![j].pc = "done"]
    /\ m_cardMutex' = IF m_cardMutex = j THEN None ELSE m_cardMutex

Delivered ==
    /\ Top("deliver")
    /\ Finish(TopFrame.job)
    /\ stack' = Below
    /\ UNCHANGED <<habit, alive, page, callbacks, tries, consent>>

HostGone(j) ==
    /\ jobs[j].pc \in Waiting /\ jobs[j].to \notin alive
    /\ Finish(j)
    /\ UNCHANGED <<habit, alive, page, callbacks, stack, tries, consent>>

Job(j) ==
    \/ Lock(j) \/ Completed(j) \/ HostGone(j)
    \/ \E error \in {"wrong", "other"} : Threw(j, error)

-----------------------------------------------------------------------------
(***************************************************************************)
(* The monitor's poll, and pages that close.  The last page's service      *)
(* joins the monitor and the thread m_signThread still stands for, the     *)
(* one started last.                                                       *)
(***************************************************************************)

PollStart ==
    /\ m_cardMutex = None /\ alive # {}
    /\ m_cardMutex' = Monitor
    /\ UNCHANGED <<habit, alive, page, callbacks, jobs, stack, tries, consent>>

PollEnd ==
    /\ m_cardMutex = Monitor
    /\ m_cardMutex' = None
    /\ UNCHANGED <<habit, alive, page, callbacks, jobs, stack, tries, consent>>

ClosePage(p) ==
    /\ p \in alive /\ stack = <<>>
    /\ Quiet => \A r \in Requests : ~Open(r)
    /\ alive' = alive \ {p}
    /\ stack' = IF alive' = {} THEN <<Frame("join", p, None)>> ELSE <<>>
    /\ UNCHANGED <<habit, page, callbacks, m_cardMutex, jobs, tries, consent>>

Joined ==
    /\ Top("join") /\ m_cardMutex # Monitor
    /\ jobs # <<>> => jobs[Len(jobs)].pc = "done"
    /\ stack' = <<>>
    /\ UNCHANGED <<habit, alive, page, callbacks, m_cardMutex, jobs, tries, consent>>

-----------------------------------------------------------------------------

Main ==
    \/ prepareSign \/ askPin \/ signSHA1Async \/ JsReturn \/ UseCardReturn
    \/ CloseMessage \/ Delivered \/ Joined
    \/ \E j \in DOMAIN jobs : Deliver(j)

SigningThread == \E j \in DOMAIN jobs : Job(j)

Next ==
    \/ \E p \in Pages : (\E r \in Requests : signAsync(p, r)) \/ UseCard(p) \/ ClosePage(p)
    \/ Main
    \/ SigningThread
    \/ PollStart \/ PollEnd

Spec == Init /\ [][Next]_vars

(* Threads run; a thread that waits for m_cardMutex gets it, because the   *)
(* monitor sleeps half a second between two polls; the user answers the    *)
(* pinpad and closes messages, and the page's callbacks return.            *)
FairSpec ==
    /\ Spec
    /\ SF_vars(Main)
    /\ SF_vars(SigningThread)
    /\ WF_vars(PollEnd)

-----------------------------------------------------------------------------
(* Every variable has its type.                                            *)
TypeOK ==
    /\ alive \subseteq Pages
    /\ owner \in [Requests -> Pages \union {None}]
    /\ m_signCallback \in [Pages -> Requests \union {None}]
    /\ m_hash \in [Pages -> Requests \union {None}]
    /\ callbacks \in Pages \union {None}
    /\ m_cardMutex \in DOMAIN jobs \union {Monitor, None}
    /\ jobs \in Seq([pc : {"created", "signing", "delivered", "done"} \union Waiting,
                     doc : Requests, to : Pages \union {None}])
    /\ Len(jobs) \in Jobs \union {0}
    /\ stack \in Seq([kind : {"prepare", "askPin", "start", "js", "use", "message",
                              "deliver", "join"},
                      page : Pages, job : DOMAIN jobs \union {None}])
    /\ tries \in 0..MaxTries
    /\ asked \subseteq Requests
    /\ got \in [Requests -> Seq(Requests \union {Failed})]
    /\ habit \in Habits
    /\ consent \subseteq Requests

(* runSignSHA1(), poll() and the main thread's calls: one thread at a time *)
(* uses the card.  The signing thread still counts while the page is told  *)
(* of its success, and no longer when the page is told of its failure.     *)
CardUsedByOne ==
    \A j \in DOMAIN jobs :
        /\ jobs[j].pc \in {"signing", "completed"} => m_cardMutex = j
        /\ m_cardMutex = j => jobs[j].pc \in {"signing", "completed", "delivered"}

(* signSHA1Async() through to invokeSignCallback(): as long as the pages   *)
(* leave the card alone while a request is open, each request is answered  *)
(* once, on its own page, as SignRequest says.  Of other pages this says   *)
(* nothing.                                                                *)
Phase(r) ==
    CASE got[r] = <<>>       -> IF r \in asked THEN "open" ELSE "idle"
      [] got[r] = <<Failed>> -> "failed"
      [] got[r] = <<r>>      -> "signed"
      [] OTHER               -> "wrong"

Request == INSTANCE SignRequest
               WITH phase     <- [r \in Requests |-> IF Quiet THEN Phase(r) ELSE "idle"],
                    consented <- IF Quiet THEN consent ELSE {}

RequestsAnswered == Request!Spec

(* signCompletedFunc, signFailedFunc (bound to a bare this pointer) and    *)
(* m_signThread: with such pages a thread that is going to call back finds *)
(* its page, and no thread is left when the service is gone.               *)
NothingOutlivesItsOwner ==
    Quiet =>
        /\ \A j \in DOMAIN jobs : jobs[j].pc \in {"created", "signing"} => callbacks \in alive
        /\ alive = {} /\ stack = <<>> => \A j \in DOMAIN jobs : jobs[j].pc = "done"

(* EsteidAPI.cpp:355-356: the signed hash is "asynchronously returned      *)
(* through callback": the thread that has it and the main thread do not    *)
(* wait for one another.                                                   *)
MainWaits == \E kind \in {"prepare", "askPin", "start", "use"} : Top(kind)

NoLockCycle ==
    ~ \E j \in DOMAIN jobs :
        MainWaits /\ m_cardMutex = j /\ jobs[j].pc \in {"completed", "delivered"}

(* With quiet pages they do not, also when a wrong PIN is retried.         *)
QuietPagesDoNotBlock == Quiet => NoLockCycle
=============================================================================
