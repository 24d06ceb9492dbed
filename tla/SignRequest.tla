----------------------------- MODULE SignRequest -----------------------------
(***************************************************************************)
(* What the signing API promises a page: each request is answered once,    *)
(* with a failure or with a signature of its own document; a document is   *)
(* signed only if the user typed the PIN while it was the one shown, and   *)
(* then its request is not reported as failed.                             *)
(***************************************************************************)

CONSTANTS Requests

VARIABLES
    phase,      \* of each request: idle, open, signed, failed
    consented   \* the documents the user typed a good PIN for

vars == <<phase, consented>>

Init ==
    /\ phase = [r \in Requests |-> "idle"]
    /\ consented = {}

Open(r) ==
    /\ phase[r] = "idle"
    /\ phase' = [phase EXCEPT ![r] = "open"]
    /\ UNCHANGED consented

(* A request that is refused at once is opened and answered in one step.   *)
Refuse(r) ==
    /\ phase[r] = "idle"
    /\ phase' = [phase EXCEPT ![r] = "failed"]
    /\ UNCHANGED consented

Consent(r) ==
    /\ phase[r] = "open"
    /\ consented' = consented \union {r}
    /\ UNCHANGED phase

Sign(r) ==
    /\ phase[r] = "open"
    /\ consented' \in {consented, consented \union {r}}
    /\ r \in consented'
    /\ phase' = [phase EXCEPT ![r] = "signed"]

Fail(r) ==
    /\ phase[r] = "open" /\ r \notin consented
    /\ phase' = [phase EXCEPT ![r] = "failed"]
    /\ UNCHANGED consented

Next == \E r \in Requests : Open(r) \/ Refuse(r) \/ Consent(r) \/ Sign(r) \/ Fail(r)

Spec == Init /\ [][Next]_vars /\ \A r \in Requests : WF_vars(Sign(r) \/ Fail(r))
=============================================================================
