---------------------------- MODULE MCStoryBible ----------------------------
(* Instances of StoryBible for TLC. *)
EXTENDS StoryBible, TLC

MCKindOf == [d \in Doc |-> "note"]
MCParentOf == [d \in Doc |-> d]
MCSymmetry == Permutations(Proc) \union Permutations(Value)
=============================================================================
