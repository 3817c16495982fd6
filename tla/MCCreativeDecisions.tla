------------------------ MODULE MCCreativeDecisions ------------------------
(* Instances of CreativeDecisions for TLC. *)
EXTENDS CreativeDecisions, TLC

MCKindOf == [d \in Doc |-> IF d = "sc" THEN "scene" ELSE "chapter"]
MCParentOf == [d \in Doc |-> IF d = "sc" THEN "ch" ELSE d]
MCTargetOf == [t \in Topic |-> IF t = "ending" THEN Work ELSE "ch"]

\* Two of the three options; regenerated options reuse the ids for other contents.
MCSlate == {[a |-> "x", b |-> "y"], [a |-> "y", b |-> "x"]}

MCSymmetry == Permutations(Decision)
=============================================================================
