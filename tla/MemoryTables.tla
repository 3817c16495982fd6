---------------------------- MODULE MemoryTables ----------------------------
(***************************************************************************)
(* What the two phases of the memory pipeline share: the threads of the    *)
(* state database with their memory mode, and the published memories of    *)
(* the memories database.                                                  *)
(***************************************************************************)
EXTENDS Naturals, FiniteSets

CONSTANTS
    Thread,     \* conversation threads that can be remembered
    MaxSource,  \* bound on updated_at, in steps of one
    Nobody      \* a NULL ownership token

ASSUME MaxSourceAssumption == MaxSource \in Nat \ {0}

VARIABLES
    mode,    \* threads.memory_mode, "gone" once the row is deleted
    output   \* stage1_outputs rows, with the snapshot in the phase-2 baseline

NoOutput == [source |-> 0, selected |-> 0]
OutputRow == [source: 0 .. MaxSource, selected: 0 .. MaxSource]
Empty == [t \in Thread |-> 0]
=============================================================================
