---------------------------- MODULE AskContract ----------------------------
(***************************************************************************)
(* What an ask promises its caller, whatever happens inside: it works,     *)
(* makes at most MaxTries tries, starts another try only when the last one *)
(* was judged and rejected, answers without a try (a skill, the direct     *)
(* route), from an accepted try or from the last one, and never fails once *)
(* the last try is judged.  AskWorkflow implements it.                     *)
(***************************************************************************)
EXTENDS Naturals

CONSTANT MaxTries   \* a positive number

VARIABLES phase, tries, verdict
vars == <<phase, tries, verdict>>

Init == phase = "working" /\ tries = 0 /\ verdict = "none"

\* Another try, while there are tries left.
Try ==
    /\ phase = "working" /\ tries < MaxTries
    /\ tries = 0 \/ verdict = "rejected"
    /\ tries' = tries + 1 /\ verdict' = "none"
    /\ UNCHANGED phase

\* The try is judged, once.
Judge ==
    /\ phase = "working" /\ tries > 0 /\ verdict = "none"
    /\ verdict' \in {"accepted", "rejected"}
    /\ UNCHANGED <<phase, tries>>

\* The request is answered.
Reply ==
    /\ phase = "working"
    /\ tries \in {0, MaxTries} \/ verdict = "accepted"
    /\ phase' = "answered"
    /\ UNCHANGED <<tries, verdict>>

\* Something the try needs has failed.
Fail ==
    /\ phase = "working"
    /\ ~(tries = MaxTries /\ verdict # "none")
    /\ phase' = "failed"
    /\ UNCHANGED <<tries, verdict>>

Next == Try \/ Judge \/ Reply \/ Fail
Spec == Init /\ [][Next]_vars
=============================================================================
