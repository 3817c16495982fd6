---------------------------- MODULE AuthorChoice ----------------------------
(***************************************************************************)
(* What creative decisions and narrative knowledge promise an author: the  *)
(* models may offer as much as they like, and what is in force for a       *)
(* record is something that was offered for that record and that the       *)
(* author chose, until the author chooses again or takes the choice back.  *)
(* An offer is never withdrawn or reworded.                                *)
(***************************************************************************)
CONSTANTS
    Record,   \* decisions, or knowledge records
    Nothing   \* in force before a choice and after its withdrawal

VARIABLES
    offered,  \* what has been offered for every record
    choice    \* what is in force for every record

vars == <<offered, choice>>

Init ==
    /\ offered = [r \in Record |-> {}]
    /\ choice = [r \in Record |-> Nothing]

Offer(r) ==
    /\ offered[r] \subseteq offered'[r] /\ offered'[r] # offered[r]
    /\ offered' = [offered EXCEPT ![r] = offered'[r]]
    /\ UNCHANGED choice

Choose(r) ==
    /\ \E o \in offered[r] \ {choice[r]} : choice' = [choice EXCEPT ![r] = o]
    /\ UNCHANGED offered

Withdraw(r) ==
    /\ choice[r] # Nothing
    /\ choice' = [choice EXCEPT ![r] = Nothing]
    /\ UNCHANGED offered

Next == \E r \in Record : Offer(r) \/ Choose(r) \/ Withdraw(r)

Spec == Init /\ [][Next]_vars
=============================================================================
