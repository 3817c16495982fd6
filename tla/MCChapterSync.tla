--------------------------- MODULE MCChapterSync ---------------------------
(* Instances of ChapterSync for TLC. *)
EXTENDS ChapterSync, TLC

MCSymmetry == Permutations(Proc)
=============================================================================
