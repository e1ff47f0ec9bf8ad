---------------------------- MODULE ToolSession ----------------------------
(***************************************************************************)
(* A tool-call conversation as a server would lead it that remembers: it   *)
(* knows the question, the calls it last asked for and the calls that have *)
(* an output, asks calls for the question of now, and works on that        *)
(* question with every output there is.  ToolCalling, whose server         *)
(* remembers nothing and reads a resent history instead, implements it.    *)
(***************************************************************************)
CONSTANTS Questions, CallNames

VARIABLES
    open,       \* a question waits
    question,   \* the last one that is not blank, "" at first
    again,      \* whether the client's follow-ups allow calls to be asked for again
    calls,      \* asked for with the last response to it, each with what it asks
    outputs,    \* calls that were run to an output
    work        \* what is asked of the agent now

vars == <<open, question, again, calls, outputs, work>>

NoWork == [q |-> "", fed |-> {}]

Init ==
    /\ open = FALSE /\ question = "" /\ again \in BOOLEAN
    /\ calls = {} /\ outputs = {} /\ work = NoWork

\* A blank message opens the last question again.
Say(q) ==
    /\ ~open /\ open' = TRUE
    /\ question' = IF q = "" THEN question ELSE q
    /\ UNCHANGED <<again, calls, outputs, work>>

Output(name) ==
    /\ outputs' = outputs \cup {name}
    /\ UNCHANGED <<open, question, again, calls, work>>

\* Calls ask for the question of now, and while it waits only once if the client's
\* follow-ups do not allow more.
AskForCalls ==
    /\ open /\ question # "" /\ work = NoWork /\ (again \/ calls = {})
    /\ calls' \subseteq [name : CallNames, query : {question}] /\ calls' # {}
    /\ UNCHANGED <<open, question, again, outputs, work>>

\* Every output there is goes with the question, and no other.
Begin ==
    /\ open /\ question # "" /\ work = NoWork
    /\ work' = [q |-> question, fed |-> outputs]
    /\ UNCHANGED <<open, question, again, calls, outputs>>

\* The question has its answer, or an error.
Settle ==
    /\ open /\ open' = FALSE /\ calls' = {} /\ work' = NoWork
    /\ UNCHANGED <<question, again, outputs>>

Next ==
    \/ AskForCalls \/ Begin \/ Settle
    \/ \E q \in Questions \cup {""} : Say(q)
    \/ \E c \in calls : Output(c.name)
Spec == Init /\ [][Next]_vars
=============================================================================
