-------------------------- MODULE MCDocumentStore --------------------------
(* Instances of DocumentStore for TLC. *)
EXTENDS DocumentStore, TLC

MCKindOf == [d \in Doc |->
    CASE d = "ch" -> "chapter" [] d = "sc" -> "scene" [] d = "man" -> "managed" [] OTHER -> "note"]
MCParentOf == [d \in Doc |-> IF d = "sc" /\ "ch" \in Doc THEN "ch" ELSE d]
MCSymmetry == Permutations(Proc)
=============================================================================
