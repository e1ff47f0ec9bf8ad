------------------------------ MODULE Splitter ------------------------------
(***************************************************************************)
(* splitByRunes (internal/ingest/service.go): cutting a text into windows  *)
(* of size runes of which consecutive ones share overlap runes.            *)
(*                                                                         *)
(* Abstractions.  A rune is a position in 0..len-1 and is solid when it is *)
(* not white space.  A chunk is where its window began (at) and the first  *)
(* and the last rune that trimming the window left.                        *)
(***************************************************************************)
EXTENDS Integers

VARIABLES
    cutting,   \* "idle", "running" or "done"
    len,       \* length of the trimmed text
    solid,     \* its positions that are not white space
    size,      \* chunkSize
    overlap,   \* overlap, after the check at the top
    start,     \* where the next window begins
    out        \* the chunks

splitVars == <<cutting, len, solid, size, overlap, start, out>>

\* A text after strings.TrimSpace: empty, or with solid runes at both ends.
IsText(n, s) == n \in Nat /\ s \subseteq 0 .. n - 1 /\ (n > 0 => 0 \in s /\ n - 1 \in s)

StepShort == size - overlap - 1
Step == size - overlap
\* The end of the current window, cut to the text.
End == IF start + size > len THEN len ELSE start + size

ChunkUntrimmed(from, to) ==
    {[at |-> from, first |-> from, last |-> to - 1] : p \in {q \in solid : from <= q /\ q < to}}
\* The chunk of a window, trimmed; none for a window of nothing but white space.
Chunk(from, to) ==
    LET in == {p \in solid : from <= p /\ p < to}
    IN  {c \in [at : {from}, first : in, last : in] : \A p \in in : c.first <= p /\ p <= c.last}

LastWindowByStart == start + Step >= len
\* The loop ends with the window that reaches the end of the text, or by its condition.
LastWindow == End = len \/ start + Step >= len

SplitInit ==
    /\ cutting = "idle" /\ len = 0 /\ solid = {} /\ size = 0 /\ overlap = 0
    /\ start = 0 /\ out = {}

\* The call: no chunks for an empty text or no size; an overlap that leaves no step is dropped.
BeginCut(n, s, sz, ov) ==
    /\ cutting = "idle"
    /\ len' = n /\ solid' = s /\ size' = sz
    /\ overlap' = IF ov >= sz THEN 0 ELSE ov
    /\ start' = 0 /\ out' = {}
    /\ cutting' = IF n = 0 \/ sz <= 0 THEN "done" ELSE "running"

\* One turn of the loop.
Cut ==
    /\ cutting = "running"
    /\ out' = out \cup Chunk(start, End)
    /\ start' = start + Step
    /\ cutting' = IF LastWindow THEN "done" ELSE "running"
    /\ UNCHANGED <<len, solid, size, overlap>>

=============================================================================
