------------------------ MODULE MCNarrativeKnowledge ------------------------
(* Instances of NarrativeKnowledge for TLC. *)
EXTENDS NarrativeKnowledge, TLC

\* Every strand belongs to some character.
MCHolderOf == [s \in Strand |-> CHOOSE h \in Holder : TRUE]

MCSymmetry == Permutations(Record)
=============================================================================
