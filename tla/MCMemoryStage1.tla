--------------------------- MODULE MCMemoryStage1 ---------------------------
(* Instances of MemoryStage1 for TLC. *)
EXTENDS MemoryStage1, TLC

MCSymmetry == Permutations(Thread) \cup Permutations(Worker)
=============================================================================
