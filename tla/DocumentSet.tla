---------------------------- MODULE DocumentSet ----------------------------
(***************************************************************************)
(* What a knowledge base promises.  A document enters it whole, in one     *)
(* step, and is acknowledged only once it is there.  A search answers with *)
(* documents it holds and, unless it says it is short of room, with all    *)
(* that were acknowledged when it began.  A base that is not persistent    *)
(* may be lost, with its acknowledgements and running searches.            *)
(* IngestStore implements it.                                              *)
(***************************************************************************)
CONSTANTS Docs, Searches, Persistent

VARIABLES
    stored,         \* documents held
    acknowledged,   \* documents promised to be held
    phase,          \* "new", "open", "done" or "failed" for each search
    owed,           \* what an open search must find
    found,          \* what a search that is done has found
    short           \* a search that is done was short of room

docVars == <<stored, acknowledged>>
answerVars == <<found, short>>
vars == <<docVars, phase, owed, answerVars>>

Init ==
    /\ stored = {} /\ acknowledged = {}
    /\ phase = [s \in Searches |-> "new"] /\ owed = [s \in Searches |-> {}]
    /\ found = [s \in Searches |-> {}] /\ short = [s \in Searches |-> FALSE]

Store(d) ==
    /\ stored' = stored \cup {d}
    /\ UNCHANGED <<acknowledged, phase, owed, answerVars>>

Acknowledge(d) ==
    /\ d \in stored /\ acknowledged' = acknowledged \cup {d}
    /\ UNCHANGED <<stored, phase, owed, answerVars>>

\* A memory store acknowledges in the step that stores.
StoreAndAcknowledge(d) ==
    /\ ~Persistent
    /\ stored' = stored \cup {d} /\ acknowledged' = acknowledged \cup {d}
    /\ UNCHANGED <<phase, owed, answerVars>>

Begin(s) ==
    /\ phase[s] = "new"
    /\ phase' = [phase EXCEPT ![s] = "open"] /\ owed' = [owed EXCEPT ![s] = acknowledged]
    /\ UNCHANGED <<docVars, answerVars>>

Finish(s, ds, cut) ==
    /\ phase[s] = "open" /\ (cut \/ owed[s] \subseteq ds)
    /\ phase' = [phase EXCEPT ![s] = "done"]
    /\ found' = [found EXCEPT ![s] = ds] /\ short' = [short EXCEPT ![s] = cut]
    /\ UNCHANGED <<docVars, owed>>

\* Searches without an answer end without one.
Fails(S) ==
    /\ \A s \in S : phase[s] \in {"new", "open"}
    /\ phase' = [s \in Searches |-> IF s \in S THEN "failed" ELSE phase[s]]
    /\ UNCHANGED <<owed, answerVars>>
GiveUp(S) == Fails(S) /\ UNCHANGED docVars
Lose ==
    /\ ~Persistent /\ stored' = {} /\ acknowledged' = {}
    /\ Fails({s \in Searches : phase[s] = "open"})

Next ==
    \/ Lose
    \/ \E d \in Docs : Store(d) \/ Acknowledge(d) \/ StoreAndAcknowledge(d)
    \/ \E s \in Searches : \/ Begin(s)
                           \/ \E ds \in SUBSET stored, cut \in BOOLEAN : Finish(s, ds, cut)
    \/ \E S \in SUBSET Searches : GiveUp(S)
Spec == Init /\ [][Next]_vars
=============================================================================
