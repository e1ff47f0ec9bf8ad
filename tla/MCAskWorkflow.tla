--------------------------- MODULE MCAskWorkflow ---------------------------
(***************************************************************************)
(* A small instance of AskWorkflow for TLC.                                *)
(***************************************************************************)
EXTENDS AskWorkflow, TLC

\* Chunk ids are interchangeable: no definition names one.
ChunkSymmetry == Permutations(Chunks)
=============================================================================
