--------------------------- MODULE MemoryOutputs ----------------------------
(***************************************************************************)
(* What the two phases of the memory pipeline promise each other about the *)
(* rows they share: the published memories with the snapshot of each that  *)
(* the last consolidation consumed, and whether a consolidation is wanted  *)
(* or running.  MemoryStage1 and MemoryPhase2 both implement it.           *)
(***************************************************************************)
EXTENDS Naturals

CONSTANTS Thread, MaxSource

VARIABLES output, queue

NoOutput == [source |-> 0, selected |-> 0]
Output == [source: 0 .. MaxSource, selected: 0 .. MaxSource]
Enqueued(q) == IF q = "running" THEN q ELSE "pending"

Init ==
    /\ output = [t \in Thread |-> NoOutput]
    /\ queue = "idle"

\* A memory is replaced by one of the same or a newer source, keeps its place
\* in the baseline until the next consolidation, and asks for one.
Publish(t) ==
    /\ \E s \in output[t].source .. MaxSource : output' = [output EXCEPT ![t].source = s]
    /\ queue' = Enqueued(queue)

\* A memory is forgotten; if the baseline holds it, a consolidation is asked for.
Forget(t) ==
    /\ output' = [output EXCEPT ![t] = NoOutput]
    /\ queue' = Enqueued(queue) \/ (queue' = queue /\ output[t].selected = 0)

\* Old memories outside the baseline go without a consolidation.
Drop ==
    /\ \E old \in SUBSET {t \in Thread : output[t].selected = 0} :
           output' = [t \in Thread |-> IF t \in old THEN NoOutput ELSE output[t]]
    /\ UNCHANGED queue

Clear ==
    /\ output' = [t \in Thread |-> NoOutput]
    /\ queue' = "idle"

Enqueue == queue' = Enqueued(queue) /\ UNCHANGED output

Claim == queue' = "running" /\ UNCHANGED output

Fail == queue = "running" /\ queue' = "idle" /\ UNCHANGED output

\* A consolidation marks the exact snapshots it consumed, if they are still there.
Record ==
    /\ queue = "running" /\ queue' = "idle"
    /\ \E kept \in SUBSET Thread :
           output' = [t \in Thread |->
               [output[t] EXCEPT !.selected = IF t \in kept THEN output[t].source ELSE 0]]

Next ==
    \/ \E t \in Thread : Publish(t) \/ Forget(t)
    \/ Drop \/ Clear \/ Enqueue \/ Claim \/ Fail \/ Record

Spec == Init /\ [][Next]_<<output, queue>>
=============================================================================
