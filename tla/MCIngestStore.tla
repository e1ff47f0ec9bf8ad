--------------------------- MODULE MCIngestStore ---------------------------
(***************************************************************************)
(* Small instances of IngestStore for TLC: two documents, a small and a    *)
(* large chunk size.                                                       *)
(***************************************************************************)
EXTENDS IngestStore, TLC

CONSTANTS d1, d2, small, large, u1, u2, u3, s1

TwoDocs == {d1, d2}
TwoSizes == {small, large}

\* The long document has three chunks at the small size and two at the large one;
\* the short document has two at the small size and fits one large chunk.
TwoPieces == [d \in TwoDocs |-> [z \in TwoSizes |->
                (IF z = small THEN 2 ELSE 1) + (IF d = d1 THEN 1 ELSE 0)]]

UploadSymmetry == Permutations(Uploads)
=============================================================================
