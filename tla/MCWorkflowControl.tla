------------------------- MODULE MCWorkflowControl -------------------------
(* Instances of WorkflowControl for TLC. *)
EXTENDS WorkflowControl, TLC

\* Any workflow with a stop, a cancel or close and a fault; and a writing
\* command or an analysis with two cancels or closes, beside each other or in turn.
MCScenario ==
    {[kinds |-> Kinds, stops |-> 1, cancels |-> 1, faults |-> 1],
     [kinds |-> {"command", "analysis"}, stops |-> 0, cancels |-> 2, faults |-> 0]}
=============================================================================
