----------------------------- MODULE SignSession -----------------------------
(***************************************************************************)
(* Signing on one page (EsteidAPI.cpp) with the PIN dialog of GtkUI.cpp,   *)
(* for a reader without a pinpad.  Everything runs on the browser's main   *)
(* thread, but not to completion: the blocking signing calls and the       *)
(* "PIN blocked" message run event loops of their own, and a page's        *)
(* callback can call the plugin again before the plugin's code that        *)
(* invoked it goes on.  stack holds what the thread has yet to return to;  *)
(* with an empty stack it is in the browser's event loop.                  *)
(*                                                                         *)
(* A request's identity stands for its document (m_hash, m_url, m_subject) *)
(* and for its callback object.                                            *)
(***************************************************************************)
EXTENDS Integers, Sequences

CONSTANTS
    MaxRequests,  \* bound: signing calls the page makes
    MaxTries,     \* PIN2 tries a card starts with
    Apis,         \* the calls the page uses: "async" (signAsync), "sync" (sign and its kin)
    Disciplines   \* when pages may call: "sequential", "chained", "any", see MayCall

Requests == 1..MaxRequests
None     == 0

ASSUME ConstantsAssumption ==
    /\ MaxRequests \in Nat
    /\ MaxTries \in Nat \ {0}
    /\ Apis \subseteq {"async", "sync"}
    /\ Disciplines \subseteq {"sequential", "chained", "any"}

(* An answer that is not a signature: an exception or the onError callback. *)
Failed == -1

VARIABLES
    m_signCallback,   \* the request whose callback is kept, or None
    m_hash,           \* the document the next PIN signs, or None
    m_stoprequested,
    m_signedHash,     \* the document whose signature m_signedHash holds, or None
    m_signFailure,    \* is m_signFailure non-empty
    dialog,           \* the PIN dialog: visible, the document shown, "Tries left" (0: hidden)
    entry,            \* is a PIN in the dialog's entry
    tries,            \* PIN2 tries the card has left
    stack,            \* what the main thread is to return to, innermost last
    asked,            \* the requests made so far
    got,              \* the answers each request was given
    discipline,       \* what kind of page it is
    consent           \* history: documents that were shown when a right PIN was typed

plugin == <<m_signCallback, m_hash, m_stoprequested, m_signedHash, m_signFailure>>
vars   == <<plugin, dialog, entry, tries, stack, asked, got, discipline, consent>>

Init ==
    /\ m_signCallback = None /\ m_hash = None
    /\ m_stoprequested \in BOOLEAN        \* EsteidAPI's constructor does not set it
    /\ m_signedHash = None /\ m_signFailure = FALSE
    /\ dialog = [visible |-> FALSE, doc |-> None, triesLeft |-> 0]
    /\ entry = FALSE
    /\ tries \in 0..MaxTries
    /\ stack = <<>>
    /\ asked = {}
    /\ got = [r \in Requests |-> <<>>]
    /\ discipline \in Disciplines
    /\ consent = {}

(* A frame: its kind, the request it belongs to and, for the message, what *)
(* follows the exception that askPin() throws after it.                    *)
Frame(kind, r, then) == [kind |-> kind, req |-> r, then |-> then]
Top(kind)            == stack # <<>> /\ stack[Len(stack)].kind = kind
TopFrame             == stack[Len(stack)]
Below                == SubSeq(stack, 1, Len(stack) - 1)

-----------------------------------------------------------------------------
(***************************************************************************)
(* Parts of EsteidAPI that several handlers share.                         *)
(***************************************************************************)

Hidden == [dialog EXCEPT !.visible = FALSE]

(* invokeSignCallback() forgets the callback after the page's code has     *)
(* returned (JsReturn).                                                    *)
Invoke(r, answer, below) ==
    /\ got' = [got EXCEPT ![r] = Append(@, answer)]
    /\ stack' = Append(below, Frame("js", r, ""))

(* returnSignedData() and returnSignFailure(): to the callback cb if there *)
(* is one, else to whichever blocking call looks first.                    *)
Return(cb, answer, below) ==
    /\ dialog' = Hidden
    /\ IF cb # None
       THEN /\ Invoke(cb, answer, below)
            /\ UNCHANGED <<m_stoprequested, m_signedHash, m_signFailure>>
       ELSE /\ m_stoprequested' = TRUE
            /\ m_signedHash' = IF answer = Failed THEN m_signedHash ELSE answer
            /\ m_signFailure' = (m_signFailure \/ answer = Failed)
            /\ stack' = below
            /\ UNCHANGED got

(* pinBlockedMessage() closes the dialogs and runs the message's own loop. *)
Blocked(r, then, below) ==
    /\ dialog' = Hidden
    /\ stack' = Append(below, Frame("blocked", r, then))

(* GtkUI::pinDialog() only raises a dialog that is already visible.        *)
(* (Mutants: setHash() or setRetry(false) forgotten.)                      *)
Shown_KeepsHash(doc) == [dialog EXCEPT !.visible = TRUE, !.triesLeft = 0]

Shown_KeepsWarning(doc) ==
    IF dialog.visible THEN dialog ELSE [dialog EXCEPT !.visible = TRUE, !.doc = doc]

Shown(doc) ==
    IF dialog.visible THEN dialog ELSE [visible |-> TRUE, doc |-> doc, triesLeft |-> 0]

-----------------------------------------------------------------------------
(***************************************************************************)
(* The page.                                                               *)
(***************************************************************************)

(* An event loop runs: the browser's, the message's, or that of a blocking *)
(* call that has not been told to stop.                                    *)
InLoop == stack = <<>> \/ Top("blocked") \/ (Top("sync") /\ ~m_stoprequested)

(* The page's code runs in any event loop and in its own callbacks.  What  *)
(* the code of the page does is not the plugin's to decide:                *)
(*   sequential  it makes a call when it waits for none, outside callbacks *)
(*   chained     ... also from a callback, for the next document           *)
(*   any         whenever its code runs                                    *)
MayCall(r) ==
    /\ asked = 1..(r - 1)
    /\ InLoop \/ Top("js")
    /\ discipline = "sequential" => stack = <<>>
    /\ discipline \in {"sequential", "chained"} =>
          /\ \A q \in asked : got[q] # <<>>
          /\ stack = <<>> \/ Top("js")

(* How far prepareSign() and the first half of askPin() get: "early" they  *)
(* throw (not whitelisted, a bad hash, no card) before m_hash is set,      *)
(* "late" after it (the card is gone when hasSecurePinEntry() or           *)
(* getRetryCounts() asks it), "ok" they do not throw.                      *)
Progress == {"early", "late", "ok"}

signAsync(r, far) ==
    /\ "async" \in Apis /\ MayCall(r)
    /\ asked' = asked \union {r}
    /\ m_signCallback' = r
    /\ m_hash' = IF far = "early" THEN m_hash ELSE r
    /\ IF far # "ok" THEN Return(r, Failed, stack)
       ELSE /\ IF tries = 0 THEN Blocked(r, "return", stack)
               ELSE dialog' = Shown(r) /\ UNCHANGED stack
            /\ UNCHANGED <<m_stoprequested, m_signedHash, m_signFailure, got>>
    /\ UNCHANGED <<discipline, entry, tries, consent>>

(* askPinAndSign(): the same, then a loop of event loop iterations.        *)
askPinAndSign(r, far) ==
    /\ "sync" \in Apis /\ MayCall(r)
    /\ asked' = asked \union {r}
    /\ m_hash' = IF far = "early" THEN m_hash ELSE r
    /\ CASE far # "ok" ->
              /\ got' = [got EXCEPT ![r] = Append(@, Failed)]
              /\ UNCHANGED <<m_stoprequested, dialog, stack>>
         [] far = "ok" /\ tries = 0 ->
              /\ Blocked(r, "throw", stack)
              /\ UNCHANGED <<m_stoprequested, got>>
         [] far = "ok" /\ tries # 0 ->
              /\ dialog' = Shown(r)
              /\ m_stoprequested' = FALSE
              /\ stack' = Append(stack, Frame("sync", r, ""))
              /\ UNCHANGED got
    /\ UNCHANGED <<discipline, m_signCallback, m_signedHash, m_signFailure, entry, tries, consent>>

(* The loop's end and throwIfSignFailure().  (Mutant: the failure stays.)  *)
SyncReturn_KeepsFailure ==
    /\ Top("sync") /\ m_stoprequested
    /\ got' = [got EXCEPT ![TopFrame.req] =
                  Append(@, IF m_signFailure THEN Failed ELSE m_signedHash)]
    /\ stack' = Below
    /\ UNCHANGED <<discipline, plugin, dialog, entry, tries, asked, consent>>

SyncReturn ==
    /\ Top("sync") /\ m_stoprequested
    /\ got' = [got EXCEPT ![TopFrame.req] =
                  Append(@, IF m_signFailure THEN Failed ELSE m_signedHash)]
    /\ m_signFailure' = FALSE
    /\ stack' = Below
    /\ UNCHANGED <<discipline, m_signCallback, m_hash, m_stoprequested, m_signedHash,
                   dialog, entry, tries, asked, consent>>

(* The page's callback returns to invokeSignCallback().                    *)
JsReturn ==
    /\ Top("js")
    /\ m_signCallback' = None
    /\ stack' = Below
    /\ UNCHANGED <<discipline, m_hash, m_stoprequested, m_signedHash, m_signFailure,
                   dialog, entry, tries, asked, got, consent>>

-----------------------------------------------------------------------------
(***************************************************************************)
(* The user.  The message box is modal: while it is open, the PIN dialog   *)
(* gets no input.  (Mutant: a closed dialog gets input.)                   *)
(***************************************************************************)

CanRespond_Hidden == InLoop /\ ~Top("blocked")

CanRespond == dialog.visible /\ InLoop /\ ~Top("blocked")

(* on_pininputdialog_response() clears the entry when its callback is done.*)
Response(below) == Append(below, Frame("response", None, ""))

(* onPinEntered() with the right PIN: it signs m_hash, whatever is shown.  *)
PinRight ==
    /\ CanRespond
    /\ entry' = TRUE
    /\ tries' = MaxTries
    /\ consent' = consent \union {dialog.doc}
    /\ Return(m_signCallback, m_hash, Response(stack))
    /\ UNCHANGED <<discipline, m_signCallback, m_hash, asked>>

(* A wrong PIN: askPin(true), where getRetryCounts() may find the card     *)
(* gone.                                                                   *)
PinWrong(gone) ==
    /\ CanRespond
    /\ entry' = TRUE
    /\ tries' = tries - 1
    /\ IF gone THEN Return(m_signCallback, Failed, Response(stack))
       ELSE /\ IF tries' = 0 THEN Blocked(None, "return", Response(stack))
               ELSE /\ dialog' = [dialog EXCEPT !.triesLeft = tries']
                    /\ stack' = Response(stack)
            /\ UNCHANGED <<m_stoprequested, m_signedHash, m_signFailure, got>>
    /\ UNCHANGED <<discipline, m_signCallback, m_hash, asked, consent>>

(* Cancel, or any other exception on the way to a signature.               *)
PinCancelled ==
    /\ CanRespond
    /\ entry' \in BOOLEAN
    /\ Return(m_signCallback, Failed, Response(stack))
    /\ UNCHANGED <<discipline, m_signCallback, m_hash, tries, asked, consent>>

ResponseReturn ==
    /\ Top("response")
    /\ entry' = FALSE
    /\ stack' = Below
    /\ UNCHANGED <<discipline, plugin, dialog, tries, asked, got, consent>>

(* The user closes the message; askPin() throws "PIN2 locked".  signAsync  *)
(* and onPinEntered catch it and return a failure, askPinAndSign does not. *)
CloseBlocked ==
    /\ Top("blocked")
    /\ IF TopFrame.then = "return" THEN Return(m_signCallback, Failed, Below)
       ELSE /\ got' = [got EXCEPT ![TopFrame.req] = Append(@, Failed)]
            /\ stack' = Below
            /\ UNCHANGED <<m_stoprequested, m_signedHash, m_signFailure, dialog>>
    /\ UNCHANGED <<discipline, m_signCallback, m_hash, entry, tries, asked, consent>>

-----------------------------------------------------------------------------

Page    == \E r \in Requests, far \in Progress : signAsync(r, far) \/ askPinAndSign(r, far)
User    == PinRight \/ (\E gone \in BOOLEAN : PinWrong(gone)) \/ PinCancelled \/ CloseBlocked
Unwind  == SyncReturn \/ JsReturn \/ ResponseReturn

Next == Page \/ User \/ Unwind

Spec == Init /\ [][Next]_vars

(* The user does not leave a dialog unanswered for ever, the page's        *)
(* callbacks return, and so do the plugin's functions.                     *)
FairSpec == Spec /\ WF_vars(User) /\ WF_vars(Unwind)

-----------------------------------------------------------------------------
(* Every variable has its type.                                            *)
TypeOK ==
    /\ m_signCallback \in Requests \union {None}
    /\ m_hash \in Requests \union {None}
    /\ m_stoprequested \in BOOLEAN
    /\ m_signedHash \in Requests \union {None}
    /\ m_signFailure \in BOOLEAN
    /\ dialog \in [visible : BOOLEAN, doc : Requests \union {None}, triesLeft : 0..MaxTries]
    /\ entry \in BOOLEAN
    /\ tries \in 0..MaxTries
    /\ stack \in Seq([kind : {"js", "sync", "blocked", "response"},
                      req : Requests \union {None}, then : {"", "return", "throw"}])
    /\ asked \subseteq Requests
    /\ got \in [Requests -> Seq(Requests \union {None, Failed})]
    /\ discipline \in Disciplines
    /\ consent \subseteq Requests

(* askPin(), retryPinDialog() and BasePinDialog::setTries() (which asserts *)
(* tries > 0): however calls nest, a PIN is only asked for while the card  *)
(* still has tries, and the number shown is the card's.                    *)
TriesShownAreTrue ==
    dialog.visible => tries > 0 /\ dialog.triesLeft \in {0, tries}

(* A page that lets each answer come before its next call, and calls from  *)
(* the browser's event loop only.                                          *)
Sequential == discipline = "sequential"

(* returnSignedData() and returnSignFailure(): such a page gets exactly    *)
(* what SignRequest says.  Of other pages this says nothing.               *)
Phase(r) ==
    CASE got[r] = <<>>       -> IF r \in asked THEN "open" ELSE "idle"
      [] got[r] = <<Failed>> -> "failed"
      [] got[r] = <<r>>      -> "signed"
      [] OTHER               -> "wrong"

Request == INSTANCE SignRequest
               WITH phase     <- [r \in Requests |-> IF Sequential THEN Phase(r) ELSE "idle"],
                    consented <- IF Sequential THEN consent ELSE {}

RequestsAnswered == Request!Spec

(* pinDialog(), prepareSign() and on_pininputdialog_response(): it is      *)
(* asked for a PIN with the document shown that the PIN will sign, and     *)
(* with an empty entry.                                                    *)
PromptIsFresh == Sequential /\ CanRespond => dialog.doc = m_hash /\ ~entry

(* EsteidAPI.h:53-54: for the document that is to be signed the "Browser   *)
(* will automatically prompt for PIN2": the PIN dialog shows the document  *)
(* that the PIN will sign.                                                 *)
PromptShowsDocument == CanRespond => dialog.doc = m_hash

(* EsteidAPI.cpp:355-356: "the signed hash is later asynchronously         *)
(* returned through callback": every request is answered.                  *)
AnsweredThroughCallback ==
    \A r \in Requests : r \in asked ~> got[r] # <<>>
=============================================================================
