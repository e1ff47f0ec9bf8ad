-------------------------- MODULE ConfiguredSplit ---------------------------
(***************************************************************************)
(* A process that loads its configuration and, when it could, cuts an      *)
(* uploaded text with the CHUNK_SIZE and CHUNK_OVERLAP it ended up with    *)
(* (config.Load, called by main, and Service.IngestFile).                  *)
(***************************************************************************)
EXTENDS ConfigLayers, Splitter

CONSTANTS
    MaxLen    \* bound: length of a text

ASSUME MaxLenAssumption == MaxLen \in Nat

vars == <<configVars, splitVars>>

Init == ConfigInit /\ SplitInit

\* IngestFile refuses a text of nothing but white space.
Upload ==
    /\ phase = "loaded"
    /\ \E n \in 1 .. MaxLen : \E s \in SUBSET (0 .. n - 1) :
         IsText(n, s) /\ BeginCut(n, s, cfg.size, cfg.overlap)
    /\ UNCHANGED configVars

Next ==
    \/ Load /\ UNCHANGED splitVars
    \/ Upload
    \/ Cut /\ UNCHANGED configVars

\* Nothing but the process itself moves here, and it goes on while it can.
Spec == Init /\ [][Next]_vars /\ WF_vars(Next)

-----------------------------------------------------------------------------
(* Properties.                                                             *)

\* The variables have their types.
TypeOK ==
    /\ phase \in {"start", "files", "env", "validate", "loaded", "refused"}
    /\ DOMAIN fileKV \subseteq Keys /\ \A k \in DOMAIN fileKV : fileKV[k] \in Given(k)
    /\ cfg.use \in BOOLEAN /\ cfg.size \in Int /\ cfg.overlap \in Int
    /\ cutting \in {"idle", "running", "done"}
    /\ len \in 0 .. MaxLen /\ solid \subseteq 0 .. len - 1
    /\ size \in Int /\ overlap \in Int /\ start \in Nat
    /\ out \subseteq [at : 0 .. len - 1, first : solid, last : solid]

\* Whatever layer each setting came from, a cut text has lost nothing: every phrase of
\* at most CHUNK_OVERLAP + 1 runes, which begins and ends with a rune that is not white
\* space, is whole in some chunk.  With length one: no such rune is lost.  It relates the
\* check of the overlap in validate to the arithmetic of the windows and their trimming.
PhrasesKept ==
    cutting = "done" =>
        \A a, b \in solid : a <= b /\ b - a <= cfg.overlap =>
            \E c \in out : c.first <= a /\ b <= c.last

\* A cut repeats no more than it was configured to: two chunks share at most
\* CHUNK_OVERLAP runes, and the end of the text is in one chunk only (the break of
\* splitByRunes).  A short chunk may still be part of another one: trimming can leave
\* just the runes that its window shares with the one before.
RepeatsOnlyOverlap ==
    cutting = "done" =>
        \A c, d \in out : c # d =>
            /\ c.at <= d.at => c.last - d.first < cfg.overlap
            /\ c.last = len - 1 => d.last # len - 1

\* The cut ends for every text and every pair of sizes validate lets through: each turn
\* of the loop begins its window further on, and the next one begins inside the text, so
\* that there are no more turns than runes (step of splitByRunes, validate).
WindowAdvances ==
    [][cutting = "running" =>
          /\ len' = len /\ start' > start
          /\ cutting' = "running" => start' < len]_vars

\* Every start ends refused or, with a text cut, done: the window always moves on.
CutEnds == <>(phase = "refused" \/ cutting = "done")

=============================================================================
