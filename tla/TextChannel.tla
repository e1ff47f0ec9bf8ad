---------------------------- MODULE TextChannel ----------------------------
(***************************************************************************)
(* What a streamed response promises its reader: a text that grows at its  *)
(* end, shown piece by piece in order, none left out and none invented,    *)
(* and called complete only when its source ended well and all of it was   *)
(* shown.  The source may break and the showing may stop at any point.     *)
(* StreamPump implements it.                                               *)
(***************************************************************************)
EXTENDS Naturals

CONSTANT Positions   \* where a piece may stand

VARIABLES
    text,      \* the pieces written so far, by their positions
    shown,     \* those the reader has
    source,    \* "writing", "whole" or "broken"
    complete   \* the reader was told that this is all

vars == <<text, shown, source, complete>>

\* A text that is written while it is shown, or one that is there already.
Init ==
    /\ shown = {} /\ complete = FALSE
    /\ \/ text = {} /\ source = "writing"
       \/ text \in SUBSET Positions /\ source = "whole"

Grow(n) ==
    /\ source = "writing" /\ \A m \in text : m < n
    /\ text' = text \cup {n}
    /\ UNCHANGED <<shown, source, complete>>

EndSource ==
    /\ source = "writing" /\ source' \in {"whole", "broken"}
    /\ UNCHANGED <<text, shown, complete>>

\* The reader gets the first piece it does not have.
Show(n) ==
    /\ n \in text \ shown /\ \A m \in text : m < n => m \in shown
    /\ shown' = shown \cup {n}
    /\ UNCHANGED <<text, source, complete>>

Complete ==
    /\ source = "whole" /\ shown = text
    /\ complete' = TRUE
    /\ UNCHANGED <<text, shown, source>>

Next == EndSource \/ Complete \/ \E n \in Positions : Grow(n) \/ Show(n)
Spec == Init /\ [][Next]_vars
=============================================================================
