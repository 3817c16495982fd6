--------------------------- MODULE MCMemoryPhase2 ---------------------------
(* Instances of MemoryPhase2 for TLC. *)
EXTENDS MemoryPhase2, TLC


=============================================================================
