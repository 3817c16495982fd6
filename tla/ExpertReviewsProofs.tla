------------------------ MODULE ExpertReviewsProofs ------------------------
(***************************************************************************)
(* Theorems about ExpertReviews, for every set of calls and sources, every *)
(* finite set of experts and every bound on turns, changes and faults.     *)
(***************************************************************************)
EXTENDS ExpertReviews, FiniteSetTheorems, TLAPS

\* What _check_state asks of a checkpoint before the settled entries: the budget, and
\* that the used experts are those of the calls, each in one call.
Shape(d) ==
    /\ Cardinality(d.used) <= Budget
    /\ IsFiniteSet(Seen(d)) /\ Cardinality(Seen(d)) <= Cardinality(d.used)
    /\ d.turn = 0 => Seen(d) = {}
    /\ \A e \in Expert : e \in d.used <=> \E c \in CallId : e \in ExpertsOf(d.calls[c])
    /\ \A b, c \in CallId : b # c => ExpertsOf(d.calls[b]) \intersect ExpertsOf(d.calls[c]) = {}
    /\ \A c \in CallId : ExpertsOf(d.calls[c]) = {} => d.calls[c] = NoEntry

\* A settled entry has no child that could still change.
Finished(n) == \A e \in ExpertsOf(n) : n.child[e] \in Terminal
SettledFinished(d) == \A c \in CallId : d.calls[c].settled => Finished(d.calls[c])

\* What the engine was told of is in the checkpoint, settled and complete.
ToldIn(n) == /\ n.settled /\ ~n.interrupted /\ n # NoEntry
             /\ \A e \in Expert : n.child[e] \in {"none", "completed"}

MemoryShape == Shape(mem) /\ mem.records \subseteq Seen(mem)

DiskShape ==
    /\ Shape(disk) /\ SettledFinished(disk)
    /\ \A c \in told : ToldIn(disk.calls[c]) /\ c \notin mem.records

\* Until a save fails the checkpoint is what the memory holds.
Synced ==
    /\ phase = "down" => mem = NoMemory
    /\ phase = "lost" => mem.records = {}
    /\ phase # "down" /\ ~mem.failed => disk = Checkpoint(mem)

\* The agent has a turn exactly while the runtime runs one.
Turns ==
    /\ phase # "running" => turn = 0
    /\ phase = "running" => turn = mem.turn /\ turn # 0

\* A live call belongs to the running turn, and its children follow its jobs.
LiveCalls ==
    \A c \in mem.live :
        /\ ~mem.failed /\ phase = "running" /\ ~mem.calls[c].settled
        /\ \A e \in ExpertsOf(mem.calls[c]) :
             /\ job[e] # "none"
             /\ job[e] = "new" => mem.calls[c].child[e] = "waiting"
             /\ job[e] = "run" => mem.calls[c].child[e] = "running"
             /\ job[e] = "ended" => mem.calls[c].child[e] \in Terminal
             /\ shown[e] \notin Terminal

\* A job that has not started was not asked for, and is of a live call or about
\* to be cancelled.
NewJobs ==
    \A e \in Expert : job[e] = "new" =>
        /\ asked[e] = 0
        /\ e \in jobCancel \/ \E c \in mem.live : e \in ExpertsOf(mem.calls[c])

\* As long as every save succeeded, an entry is unsettled only while its call runs,
\* and a call that is no longer live has finished children.
Unfailed ==
    ~mem.failed =>
        /\ \A c \in CallId : ~mem.calls[c].settled => c \in mem.records
        /\ \A c \in mem.records \ mem.live : Finished(mem.calls[c])
        /\ SettledFinished(mem)

\* An expert is used, in the checkpoint, before its model is asked.
AskedOnDisk == \A e \in Expert : asked[e] \in {0, 1} /\ (asked[e] = 1 => e \in disk.used)

\* A terminal state that was shown is the one a call still records.
ShownAgrees ==
    /\ \A c \in mem.records : \A e \in ExpertsOf(mem.calls[c]) :
         shown[e] \in Terminal => mem.calls[c].child[e] = shown[e]
    /\ phase = "running" /\ ~mem.failed => \A e \in Expert : shown[e] # "none" => e \in mem.used

\* The inductive invariant.
IInv ==
    /\ TypeOK /\ MemoryShape /\ DiskShape /\ Synced /\ Turns
    /\ LiveCalls /\ NewJobs /\ Unfailed /\ AskedOnDisk /\ ShownAgrees

-----------------------------------------------------------------------------
(* Entries *)

LEMMA States ==
    /\ ChildState = {"none", "waiting", "running", "completed", "failed", "cancelled"}
    /\ Terminal = {"completed", "failed", "cancelled"}
    /\ "none" \notin Terminal /\ Terminal \subseteq ChildState
  BY DEF ChildState, Terminal

LEMMA EntryFields ==
    ASSUME NEW n \in Entry
    PROVE  /\ n.child \in [Expert -> ChildState] /\ n.source \in Source \union {"none"}
           /\ n.settled \in BOOLEAN /\ n.interrupted \in BOOLEAN
           /\ ExpertsOf(n) \subseteq Expert
  BY DEF Entry, ExpertsOf

LEMMA NoEntryFields ==
    /\ NoEntry \in Entry /\ ExpertsOf(NoEntry) = {} /\ NoEntry.settled /\ ~NoEntry.interrupted
    /\ Finished(NoEntry)
  BY States DEF NoEntry, Entry, ExpertsOf, Finished

\* The children of an entry are replaced.
LEMMA ChildrenReplaced ==
    ASSUME NEW n \in Entry, NEW f \in [Expert -> ChildState]
    PROVE  LET x == [n EXCEPT !.child = f] IN
           /\ x \in Entry /\ x.child = f /\ x.source = n.source
           /\ x.settled = n.settled /\ x.interrupted = n.interrupted
  BY DEF Entry

\* SettledEntry ends the children that have not ended, and only those.
LEMMA SettledEntryFields ==
    ASSUME NEW n \in Entry
    PROVE  /\ SettledEntry(n) \in Entry
           /\ SettledEntry(n).source = n.source
           /\ SettledEntry(n).settled = n.settled /\ SettledEntry(n).interrupted = n.interrupted
           /\ \A e \in Expert : SettledEntry(n).child[e] = SettledChild(n.child[e])
           /\ ExpertsOf(SettledEntry(n)) = ExpertsOf(n)
           /\ Finished(SettledEntry(n))
           /\ Finished(n) => SettledEntry(n) = n
           /\ \A e \in Expert : n.child[e] \in Terminal => SettledEntry(n).child[e] = n.child[e]
<1> DEFINE f == [e \in Expert |-> SettledChild(n.child[e])]
<1>1. n.child \in [Expert -> ChildState]
  BY EntryFields
<1>2. \A e \in Expert : /\ SettledChild(n.child[e]) \in ChildState
                        /\ SettledChild(n.child[e]) = "none" <=> n.child[e] = "none"
                        /\ SettledChild(n.child[e]) # "none" => SettledChild(n.child[e]) \in Terminal
                        /\ n.child[e] \in Terminal \union {"none"} => SettledChild(n.child[e]) = n.child[e]
  BY <1>1, States DEF SettledChild
<1>3. f \in [Expert -> ChildState] /\ \A e \in Expert : f[e] = SettledChild(n.child[e])
  BY <1>2
<1>4. SettledEntry(n) = [n EXCEPT !.child = f]
  BY DEF SettledEntry
<1> HIDE DEF f
<1>5. /\ SettledEntry(n) \in Entry /\ SettledEntry(n).child = f
      /\ SettledEntry(n).source = n.source
      /\ SettledEntry(n).settled = n.settled /\ SettledEntry(n).interrupted = n.interrupted
  BY <1>3, <1>4, ChildrenReplaced
<1>6. ExpertsOf(SettledEntry(n)) = ExpertsOf(n) /\ Finished(SettledEntry(n))
  BY <1>2, <1>3, <1>5 DEF ExpertsOf, Finished
<1>7. ASSUME Finished(n) PROVE SettledEntry(n) = n
  <2>1. \A e \in Expert : f[e] = n.child[e]
    BY <1>2, <1>3, <1>7 DEF Finished, ExpertsOf
  <2>2. f = n.child
    BY <1>1, <1>3, <2>1
  <2> QED
    BY <1>4, <2>2 DEF Entry
<1> QED
  BY <1>2, <1>3, <1>5, <1>6, <1>7

\* CloseEntry leaves the children; a settled entry stays as it is.
LEMMA CloseEntryFields ==
    ASSUME NEW n \in Entry
    PROVE  /\ CloseEntry(n) \in Entry
           /\ CloseEntry(n).child = n.child
           /\ CloseEntry(n).settled
           /\ n.settled => CloseEntry(n) = n
           /\ ExpertsOf(CloseEntry(n)) = ExpertsOf(n)
           /\ Finished(n) => Finished(CloseEntry(n))
<1>1. CASE n.settled
  BY <1>1 DEF CloseEntry
<1>2. CASE ~n.settled
  <2>1. CloseEntry(n) = [n EXCEPT !.settled = TRUE, !.interrupted = TRUE]
    BY <1>2 DEF CloseEntry
  <2>2. CloseEntry(n) \in Entry /\ CloseEntry(n).child = n.child /\ CloseEntry(n).settled
    BY <2>1 DEF Entry
  <2> QED
    BY <1>2, <2>2 DEF ExpertsOf, Finished
<1> QED
  BY <1>1, <1>2

-----------------------------------------------------------------------------
(* Memories and checkpoints *)

LEMMA MemoryFields ==
    ASSUME NEW m \in Memory
    PROVE  /\ m.turn \in Turn \union {0} /\ m.used \subseteq Expert
           /\ m.calls \in [CallId -> Entry] /\ \A c \in CallId : m.calls[c] \in Entry
           /\ m.live \subseteq CallId /\ m.records \subseteq CallId
           /\ m.revoked \in BOOLEAN /\ m.failed \in BOOLEAN
           /\ Checkpoint(m) \in Checkpoints
           /\ Checkpoint(m).turn = m.turn /\ Checkpoint(m).used = m.used /\ Checkpoint(m).calls = m.calls
  BY DEF Memory, Checkpoint, Checkpoints

LEMMA BrokenFields ==
    ASSUME NEW m \in Memory
    PROVE  /\ Broken(m) \in Memory /\ Broken(m).turn = m.turn /\ Broken(m).used = m.used
           /\ Broken(m).calls = m.calls /\ Broken(m).records = m.records
           /\ Broken(m).live = {} /\ Broken(m).failed
  BY DEF Memory, Broken

\* Other fields of a memory are replaced.
LEMMA WithCalls ==
    ASSUME NEW m \in Memory, NEW f \in [CallId -> Entry]
    PROVE  LET x == [m EXCEPT !.calls = f] IN
           /\ x \in Memory /\ x.turn = m.turn /\ x.used = m.used /\ x.calls = f /\ x.live = m.live
           /\ x.records = m.records /\ x.revoked = m.revoked /\ x.failed = m.failed
  BY DEF Memory

LEMMA WithLive ==
    ASSUME NEW m \in Memory, NEW L \in SUBSET CallId
    PROVE  LET x == [m EXCEPT !.live = L] IN
           /\ x \in Memory /\ x.turn = m.turn /\ x.used = m.used /\ x.calls = m.calls /\ x.live = L
           /\ x.records = m.records /\ x.revoked = m.revoked /\ x.failed = m.failed
  BY DEF Memory

LEMMA WithRecords ==
    ASSUME NEW m \in Memory, NEW R \in SUBSET CallId
    PROVE  LET x == [m EXCEPT !.records = R] IN
           /\ x \in Memory /\ x.turn = m.turn /\ x.used = m.used /\ x.calls = m.calls /\ x.live = m.live
           /\ x.records = R /\ x.revoked = m.revoked /\ x.failed = m.failed
  BY DEF Memory

\* settle_interrupted on a memory.
LEMMA SettleFields ==
    ASSUME NEW m \in Memory
    PROVE  /\ Settle(m) \in Memory /\ Settle(m).turn = m.turn /\ Settle(m).used = m.used
           /\ Settle(m).live = {} /\ Settle(m).records = m.records
           /\ Settle(m).revoked = m.revoked /\ Settle(m).failed = m.failed
           /\ \A c \in CallId : Settle(m).calls[c] =
                IF c \in m.records THEN SettledEntry(m.calls[c]) ELSE m.calls[c]
<1>1. /\ SettledCalls(m) \in [CallId -> Entry]
      /\ \A c \in CallId : SettledCalls(m)[c] =
           IF c \in m.records THEN SettledEntry(m.calls[c]) ELSE m.calls[c]
  BY MemoryFields, SettledEntryFields DEF SettledCalls
<1>2. /\ Settle(m) \in Memory /\ Settle(m).turn = m.turn /\ Settle(m).used = m.used
      /\ Settle(m).live = {} /\ Settle(m).records = m.records
      /\ Settle(m).revoked = m.revoked /\ Settle(m).failed = m.failed
      /\ Settle(m).calls = SettledCalls(m)
  BY <1>1 DEF Settle, Memory
<1> QED
  BY <1>1, <1>2

\* The tail of revoke on a memory.
LEMMA CloseFields ==
    ASSUME NEW m \in Memory
    PROVE  /\ Close(m) \in Memory /\ Close(m).turn = m.turn /\ Close(m).used = m.used
           /\ Close(m).live = m.live /\ Close(m).records = m.records
           /\ Close(m).revoked = m.revoked /\ Close(m).failed = m.failed
           /\ \A c \in CallId : Close(m).calls[c] = CloseEntry(m.calls[c])
<1> DEFINE f == [c \in CallId |-> CloseEntry(m.calls[c])]
<1>1. f \in [CallId -> Entry]
  BY MemoryFields, CloseEntryFields
<1>2. Close(m) = [m EXCEPT !.calls = f]
  BY DEF Close
<1>3. \A c \in CallId : f[c] = CloseEntry(m.calls[c])
  OBVIOUS
<1> HIDE DEF f
<1> QED
  BY <1>1, <1>2, <1>3, WithCalls

\* The shape depends only on the experts of every call.
LEMMA ShapeKept ==
    ASSUME NEW d, NEW x, Shape(d), x.used = d.used, x.turn = d.turn,
           \A c \in CallId : ExpertsOf(x.calls[c]) = ExpertsOf(d.calls[c]),
           \A c \in CallId : d.calls[c] = NoEntry => x.calls[c] = NoEntry
    PROVE  Shape(x) /\ Seen(x) = Seen(d)
<1>1. \A c \in CallId : x.calls[c] = NoEntry <=> d.calls[c] = NoEntry
  BY NoEntryFields DEF Shape
<1>2. Seen(x) = Seen(d)
  BY <1>1 DEF Seen
<1> QED
  BY <1>1, <1>2 DEF Shape

\* restore accepts a checkpoint of this shape whose settled entries have finished.
LEMMA ShapeValid ==
    ASSUME NEW d \in Checkpoints, Shape(d), SettledFinished(d)
    PROVE  ValidCheckpoint(d)
<1>1. d.used \subseteq Expert /\ \A c \in CallId : d.calls[c] \in Entry
  BY DEF Checkpoints
<1>2. UNION {ExpertsOf(d.calls[c]) : c \in CallId} = d.used
  BY <1>1, EntryFields DEF Shape
<1>3. IsFiniteSet(d.used)
  BY <1>1, ReviewAssumption, FS_Subset
<1>4. Cardinality(d.used) \in Nat /\ Cardinality(Seen(d)) \in Nat
  BY <1>3, FS_CardinalityType DEF Shape
<1>5. Cardinality(d.used) <= Budget /\ Cardinality(Seen(d)) <= Budget
  BY <1>4 DEF Shape, Budget
<1> QED
  BY <1>2, <1>5 DEF Shape, SettledFinished, Finished, ValidCheckpoint

-----------------------------------------------------------------------------
(* Steps that end what runs: revocations, broken calls and failing saves *)

\* The memory x that such a step settles: that of the state, or what the step made
\* of it before its save failed.
Good(x) ==
    /\ x \in Memory /\ Shape(x) /\ x.records \subseteq Seen(x)
    /\ \A c \in x.records : \A e \in ExpertsOf(x.calls[c]) :
         shown[e] \in Terminal => x.calls[c].child[e] = shown[e]
    /\ told \intersect x.records = {} /\ mem.used \subseteq x.used
    /\ ~mem.failed => /\ SettledFinished(x)
                      /\ \A c \in CallId : ~x.calls[c].settled => c \in x.records
                      /\ \A c \in told : ToldIn(x.calls[c])
                      /\ disk.used \subseteq x.used

\* A memory or checkpoint that the step leaves.
From(d, x) ==
    /\ d.used = x.used /\ d.turn = x.turn
    /\ d.calls \in {x.calls, Settle(x).calls, Close(Settle(x)).calls}

\* The entries after settling and closing.
LEMMA SettledCall ==
    ASSUME NEW x \in Memory, NEW c \in CallId
    PROVE  LET n == x.calls[c] s == Settle(x).calls[c] z == Close(Settle(x)).calls[c] IN
           /\ n \in Entry /\ s \in Entry /\ z \in Entry
           /\ ExpertsOf(s) = ExpertsOf(n) /\ ExpertsOf(z) = ExpertsOf(n)
           /\ Finished(n) => s = n /\ Finished(z)
           /\ c \in x.records => s = SettledEntry(n) /\ Finished(s) /\ Finished(z)
           /\ s.settled = n.settled /\ z.settled /\ z.child = s.child
           /\ Finished(n) /\ n.settled => z = n
<1>1. x.calls[c] \in Entry /\ Settle(x) \in Memory
  BY MemoryFields, SettleFields
<1>2. Settle(x).calls[c] = IF c \in x.records THEN SettledEntry(x.calls[c]) ELSE x.calls[c]
  BY SettleFields
<1>3. Settle(x).calls[c] \in Entry
  BY <1>1, MemoryFields
<1>4. Close(Settle(x)).calls[c] = CloseEntry(Settle(x).calls[c])
  BY <1>1, CloseFields
<1> QED
  BY <1>1, <1>2, <1>3, <1>4, SettledEntryFields, CloseEntryFields

\* What is left has the shape of a checkpoint, and keeps what was told.
LEMMA FromGood ==
    ASSUME NEW x, Good(x), NEW d, From(d, x)
    PROVE  /\ Shape(d) /\ Seen(d) = Seen(x)
           /\ ~mem.failed => SettledFinished(d) /\ \A c \in told \intersect CallId : ToldIn(d.calls[c])
<1>1. x \in Memory /\ Shape(x)
  BY DEF Good
<1>2. \A c \in CallId : ExpertsOf(d.calls[c]) = ExpertsOf(x.calls[c])
  BY <1>1, SettledCall DEF From
<1>3. \A c \in CallId : x.calls[c] = NoEntry => d.calls[c] = NoEntry
  BY <1>1, SettledCall, NoEntryFields DEF From
<1>4. Shape(d) /\ Seen(d) = Seen(x)
  BY <1>1, <1>2, <1>3, ShapeKept DEF From
<1>5. ASSUME ~mem.failed, NEW c \in CallId, d.calls[c].settled PROVE Finished(d.calls[c])
  <2>1. x.calls[c].settled => Finished(x.calls[c])
    BY <1>5 DEF Good, SettledFinished
  <2>2. ~x.calls[c].settled => c \in x.records
    BY <1>5 DEF Good
  <2> QED
    BY <1>1, <1>5, <2>1, <2>2, SettledCall DEF From
<1>6. ASSUME ~mem.failed, NEW c \in told \intersect CallId PROVE ToldIn(d.calls[c])
  <2>1. ToldIn(x.calls[c]) /\ x.calls[c].settled /\ Finished(x.calls[c])
    BY <1>6 DEF Good, SettledFinished, ToldIn
  <2>2. d.calls[c] = x.calls[c]
    BY <1>1, <2>1, SettledCall DEF From
  <2> QED
    BY <2>1, <2>2
<1> QED
  BY <1>4, <1>5, <1>6 DEF SettledFinished

\* The children of all records are shown as they were settled: a terminal state that
\* was shown before is shown again.
LEMMA SettleShows ==
    ASSUME NEW x, Good(x), shown \in [Expert -> ChildState], Show(Settle(x), x.records)
    PROVE  /\ shown' \in [Expert -> ChildState]
           /\ \A e \in Expert : shown[e] \in Terminal => shown'[e] = shown[e]
           /\ \A c \in x.records : \A e \in ExpertsOf(x.calls[c]) : shown'[e] = Settle(x).calls[c].child[e]
           /\ \A e \in Expert : shown'[e] # shown[e] => e \in x.used
<1>1. x \in Memory /\ Shape(x) /\ x.records \subseteq CallId
  BY MemoryFields DEF Good
<1>2. \A c \in CallId : /\ ExpertsOf(Settle(x).calls[c]) = ExpertsOf(x.calls[c])
                         /\ ExpertsOf(x.calls[c]) \subseteq Expert
                         /\ Settle(x).calls[c].child \in [Expert -> ChildState]
  BY <1>1, SettledCall, EntryFields
<1>3. ASSUME NEW c \in x.records, NEW e \in ExpertsOf(x.calls[c])
      PROVE  shown'[e] = Settle(x).calls[c].child[e] /\ e \in Expert /\ e \in x.used
  <2>1. \A b \in x.records : e \in ExpertsOf(Settle(x).calls[b]) => b = c
    BY <1>1, <1>2, <1>3 DEF Shape
  <2>2. (CHOOSE b \in x.records : e \in ExpertsOf(Settle(x).calls[b])) = c
    BY <1>1, <1>2, <1>3, <2>1
  <2>3. e \in Expert /\ \E b \in x.records : e \in ExpertsOf(Settle(x).calls[b])
    BY <1>1, <1>2, <1>3
  <2>4. shown'[e] = Settle(x).calls[c].child[e]
    BY <2>2, <2>3 DEF Show
  <2> QED
    BY <1>1, <2>3, <2>4 DEF Shape
<1>4. ASSUME NEW e \in Expert, \A c \in x.records : e \notin ExpertsOf(x.calls[c])
      PROVE  shown'[e] = shown[e]
  BY <1>1, <1>2, <1>4 DEF Show
<1>5. ASSUME NEW c \in x.records, NEW e \in ExpertsOf(x.calls[c]), shown[e] \in Terminal
      PROVE  shown'[e] = shown[e]
  <2>1. x.calls[c].child[e] = shown[e] /\ e \in Expert /\ x.calls[c] \in Entry
    BY <1>1, <1>2, <1>5, MemoryFields DEF Good
  <2>2. Settle(x).calls[c] = SettledEntry(x.calls[c])
    BY <1>1, <1>5, SettledCall
  <2> QED
    BY <1>3, <1>5, <2>1, <2>2, SettledEntryFields
<1>6. shown' \in [Expert -> ChildState]
  <2>1. shown' = [e \in Expert |-> shown'[e]]
    BY DEF Show
  <2>2. \A e \in Expert : shown'[e] \in ChildState
    BY <1>1, <1>2, <1>3, <1>4
  <2> QED
    BY <2>1, <2>2
<1> QED
  BY <1>3, <1>4, <1>5, <1>6

\* Nothing runs on: what was recorded is settled, shown and, if the saves succeed,
\* saved, and every unfinished job is cancelled.
Halted(x) ==
    /\ mem' \in Memory /\ mem'.live = {} /\ mem'.records \subseteq x.records
    /\ mem'.used = x.used /\ mem'.turn = x.turn
    /\ mem'.calls \in {Settle(x).calls, Close(Settle(x)).calls}
    /\ \/ mem'.failed
       \/ /\ ~mem.failed /\ disk' = Checkpoint(mem')
          /\ mem'.records = x.records \/ mem'.calls = Close(Settle(x)).calls
    /\ \/ disk' = disk
       \/ ~mem.failed /\ \E d \in {x, Settle(x), Close(Settle(x)), mem'} : disk' = Checkpoint(d)
    /\ Show(Settle(x), x.records)
    /\ job' = job /\ asked' = asked /\ told' = told /\ Unfinished \subseteq jobCancel'

\* What it leaves is well typed.
LEMMA HaltTypes ==
    ASSUME TypeOK, NEW x, Good(x), Halted(x)
    PROVE  /\ disk' \in Checkpoints /\ shown' \in [Expert -> ChildState]
           /\ disk' = disk \/ (~mem.failed /\ From(disk', x))
           /\ From(mem', x)
<1>1. x \in Memory /\ Settle(x) \in Memory /\ Close(Settle(x)) \in Memory /\ mem' \in Memory
  BY SettleFields, CloseFields DEF Good, Halted
<1>2. From(mem', x) /\ From(Settle(x), x) /\ From(Close(Settle(x)), x)
  BY <1>1, SettleFields, CloseFields DEF Halted, From
<1>3. ASSUME NEW d \in {x, Settle(x), Close(Settle(x)), mem'}
      PROVE  Checkpoint(d) \in Checkpoints /\ From(Checkpoint(d), x)
  BY <1>1, <1>2, MemoryFields DEF From
<1>4. shown' \in [Expert -> ChildState]
  BY SettleShows DEF Halted, TypeOK
<1> QED
  BY <1>2, <1>3, <1>4 DEF Halted, TypeOK

LEMMA HaltStep ==
    ASSUME IInv, NEW x, Good(x), Halted(x), TypeOK', Turns',
           phase # "down", phase' \notin {"down", "lost"}, phase' = "running" => phase = "running"
    PROVE  IInv'
<1>1. /\ TypeOK /\ x \in Memory /\ x.records \subseteq CallId /\ told \subseteq CallId
      /\ \A e \in Expert : job[e] = "new" => e \in Unfinished
  BY MemoryFields DEF IInv, Good, TypeOK, Unfinished
<1>2. /\ disk' = disk \/ (~mem.failed /\ From(disk', x))
      /\ From(mem', x)
  BY <1>1, HaltTypes
<1>3. /\ shown' \in [Expert -> ChildState]
      /\ \A c \in x.records : \A e \in ExpertsOf(x.calls[c]) : shown'[e] = Settle(x).calls[c].child[e]
      /\ \A e \in Expert : shown'[e] # shown[e] => e \in x.used
  BY <1>1, SettleShows DEF Halted, TypeOK
<1>4. MemoryShape'
  <2>1. Shape(mem') /\ Seen(mem') = Seen(x)
    BY <1>2, FromGood
  <2>2. mem'.records \subseteq Seen(mem')
    BY <2>1 DEF Halted, Good
  <2> QED
    BY <2>1, <2>2 DEF MemoryShape, Shape, Seen, ExpertsOf
<1>5. DiskShape'
  <2>1. Shape(disk') /\ SettledFinished(disk') /\ \A c \in told : ToldIn(disk'.calls[c])
    BY <1>1, <1>2, FromGood DEF IInv, DiskShape
  <2>2. \A c \in told' : c \notin mem'.records
    BY DEF Good, Halted
  <2> QED
    BY <2>1, <2>2 DEF DiskShape, Halted, Shape, SettledFinished, Finished, Seen, ExpertsOf, ToldIn
<1>6. Synced'
  BY DEF Synced, Halted, Checkpoint
<1>7. LiveCalls' /\ NewJobs'
  BY <1>1 DEF LiveCalls, NewJobs, IInv, Halted
<1>8. Unfailed'
  <2> SUFFICES ASSUME ~mem'.failed
               PROVE  /\ \A c \in CallId : ~mem'.calls[c].settled => c \in mem'.records
                      /\ \A c \in mem'.records : Finished(mem'.calls[c])
                      /\ SettledFinished(mem')
    BY DEF Unfailed, SettledFinished, Finished, ExpertsOf, Halted
  <2>1. /\ ~mem.failed
        /\ mem'.records = x.records \/ mem'.calls = Close(Settle(x)).calls
    BY DEF Halted
  <2>2. ASSUME NEW c \in CallId, ~mem'.calls[c].settled PROVE c \in mem'.records
    <3>1. mem'.calls = Settle(x).calls /\ mem'.records = x.records
      BY <1>1, <2>1, <2>2, SettledCall DEF Halted
    <3>2. ~x.calls[c].settled
      BY <1>1, <2>2, <3>1, SettledCall
    <3> QED
      BY <2>1, <3>1, <3>2 DEF Good
  <2>3. \A c \in mem'.records : Finished(mem'.calls[c])
    BY <1>1, SettledCall DEF Halted
  <2>4. SettledFinished(mem')
    BY <1>2, <2>1, FromGood
  <2> QED
    BY <2>2, <2>3, <2>4
<1>9. AskedOnDisk'
  <2>1. disk.used \subseteq disk'.used
    BY <1>2 DEF Good, From
  <2> QED
    BY <2>1 DEF IInv, AskedOnDisk, Halted
<1>10. ShownAgrees'
  <2>1. ASSUME NEW c \in mem'.records, NEW e \in ExpertsOf(mem'.calls[c])
        PROVE  mem'.calls[c].child[e] = shown'[e]
    <3>1. c \in x.records /\ e \in ExpertsOf(x.calls[c])
      BY <1>1, <2>1, SettledCall DEF Halted
    <3>2. mem'.calls[c].child = Settle(x).calls[c].child
      BY <1>1, <3>1, SettledCall DEF Halted
    <3> QED
      BY <1>3, <3>1, <3>2
  <2>2. ASSUME phase' = "running", ~mem'.failed, NEW e \in Expert, shown'[e] # "none"
        PROVE  e \in mem'.used
    <3>1. shown[e] # "none" => e \in mem.used
      BY <2>2 DEF IInv, ShownAgrees, Halted
    <3> QED
      BY <1>3, <2>2, <3>1 DEF Good, Halted
  <2> QED
    BY <2>1, <2>2 DEF ShownAgrees, ExpertsOf
<1> QED
  BY <1>4, <1>5, <1>6, <1>7, <1>8, <1>9, <1>10 DEF IInv

-----------------------------------------------------------------------------
(* The steps that halt *)

\* While a call runs the process is up.
LEMMA CallsRun ==
    ASSUME IInv, NEW c \in CallId, pc[c] # "idle"
    PROVE  phase \notin {"down", "lost"} /\ c \in mem.records
<1>1. c \in mem.records
  BY DEF IInv, TypeOK, Pending
<1>2. NoMemory.records = {}
  BY DEF NoMemory
<1> QED
  BY <1>1, <1>2 DEF IInv, Synced

LEMMA GoodMemory ==
    ASSUME IInv, phase # "down"
    PROVE  Good(mem)
<1>1. mem \in Memory /\ told \subseteq CallId
  BY DEF IInv, TypeOK
<1>2. ~mem.failed => disk.used = mem.used /\ disk.calls = mem.calls
  BY <1>1, MemoryFields DEF IInv, Synced
<1> QED
  BY <1>1, <1>2 DEF IInv, MemoryShape, DiskShape, Unfailed, ShownAgrees, Good

\* Good looks at the calls, the records, the turn and the budget.
LEMMA GoodLike ==
    ASSUME NEW m, Good(m), NEW x \in Memory, x.used = m.used, x.turn = m.turn, x.calls = m.calls,
           x.records = m.records
    PROVE  Good(x)
<1>1. Shape(x) /\ Seen(x) = Seen(m)
  BY DEF Good, Shape, Seen
<1>2. SettledFinished(m) => SettledFinished(x)
  BY DEF SettledFinished
<1> QED
  BY <1>1, <1>2 DEF Good

\* revoke, of the runtime or of a call.
LEMMA RevokeHalts ==
    ASSUME IInv, phase # "down", NEW self \in SUBSET CallId, NEW k \in RevokeOutcomes(mem),
           Revoke(mem, self, k), job' = job, asked' = asked, told' = told
    PROVE  /\ \E x : Good(x) /\ Halted(x)
           /\ mem' \in Memory /\ mem'.records = mem.records \ self /\ mem'.turn = mem.turn /\ mem'.live = {}
           /\ env' \in [changes : Nat, faults : Nat]
           /\ callCancel' = (callCancel \union Pending) \ self
           /\ jobCancel' = jobCancel \union Unfinished
<1> DEFINE x == [mem EXCEPT !.revoked = TRUE]
           s == Settle(x)
           z == Close(s)
           y == CASE k = 0 -> Broken(s) [] k = 1 -> Broken(z) [] k = 2 -> z
<1>0. mem \in Memory /\ Good(mem) /\ mem.failed \in BOOLEAN
  BY GoodMemory, MemoryFields DEF IInv, TypeOK
<1>1. /\ x \in Memory /\ x.used = mem.used /\ x.turn = mem.turn /\ x.calls = mem.calls
      /\ x.records = mem.records /\ x.failed = mem.failed
  BY <1>0 DEF Memory
<1>2. Good(x)
  BY <1>0, <1>1, GoodLike
<1>3. /\ k \in {0, 1, 2} /\ (mem.failed => k = 0)
      /\ env.faults < MaxFaults \/ k = 2 \/ mem.failed
  BY <1>0 DEF RevokeOutcomes
<1>4. /\ mem' = [y EXCEPT !.records = @ \ self]
      /\ disk' \in CASE k = 0 /\ mem.failed -> {disk}
                     [] k = 0 /\ ~mem.failed -> {disk, Checkpoint(s)}
                     [] k = 1 -> {Checkpoint(s), Checkpoint(z)}
                     [] k = 2 -> {Checkpoint(z)}
      /\ env' = IF k = 2 \/ mem.failed THEN env ELSE [env EXCEPT !.faults = @ + 1]
      /\ Show(s, s.records)
      /\ callCancel' = (callCancel \union Pending) \ self
      /\ jobCancel' = jobCancel \union Unfinished
  BY DEF Revoke
<1> HIDE DEF x
<1>5. /\ s \in Memory /\ z \in Memory /\ s.live = {} /\ z.live = {}
      /\ s.used = x.used /\ z.used = x.used /\ s.turn = x.turn /\ z.turn = x.turn
      /\ s.records = x.records /\ z.records = x.records /\ s.failed = x.failed /\ z.failed = x.failed
  BY <1>1, SettleFields, CloseFields
<1> HIDE DEF s, z
<1>6. /\ y \in Memory /\ y.live = {} /\ y.used = x.used /\ y.turn = x.turn /\ y.records = x.records
      /\ k = 0 => y.calls = s.calls /\ y.failed
      /\ k = 1 => y.calls = z.calls /\ y.failed
      /\ k = 2 => y.calls = z.calls /\ y.failed = mem.failed
  BY <1>1, <1>3, <1>5, BrokenFields
<1> HIDE DEF y
<1>7. y.records \ self \in SUBSET CallId /\ mem' = [y EXCEPT !.records = y.records \ self]
  BY <1>4, <1>6, MemoryFields
<1>8. /\ mem' \in Memory /\ mem'.turn = y.turn /\ mem'.used = y.used /\ mem'.calls = y.calls
      /\ mem'.live = y.live /\ mem'.records = y.records \ self /\ mem'.failed = y.failed
  BY <1>6, <1>7, WithRecords
<1>9. /\ mem'.calls \in {s.calls, z.calls}
      /\ mem'.failed \/ (~mem.failed /\ disk' = Checkpoint(z) /\ mem'.calls = z.calls)
      /\ disk' = disk \/ (~mem.failed /\ disk' \in {Checkpoint(s), Checkpoint(z)})
  BY <1>0, <1>3, <1>4, <1>6, <1>8
<1>10. mem'.calls = z.calls => Checkpoint(mem') = Checkpoint(z)
  BY <1>5, <1>6, <1>8 DEF Checkpoint
<1>11. Halted(x)
  BY <1>4, <1>5, <1>6, <1>8, <1>9, <1>10 DEF Halted, s, z
<1>12. env' \in [changes : Nat, faults : Nat]
  BY <1>4 DEF IInv, TypeOK
<1> QED
  BY <1>1, <1>2, <1>4, <1>6, <1>8, <1>11, <1>12

\* The other variables of a step that halts.
LEMMA HaltKeepsTypes ==
    ASSUME IInv, NEW x, Good(x), Halted(x),
           pc' \in [CallId -> {"idle", "gather", "leave", "void", "unwind"}],
           mem'.records = Pending', callCancel' \subseteq Pending', jobCancel' = jobCancel \union Unfinished,
           phase' \in {"idle", "running", "draining"}, active' \in BOOLEAN, turn' \in {0, mem'.turn},
           source' = source, env' \in [changes : Nat, faults : Nat]
    PROVE  TypeOK'
<1>1. disk' \in Checkpoints /\ shown' \in [Expert -> ChildState] /\ mem' \in Memory /\ mem'.live = {}
  BY HaltTypes DEF IInv, Halted
<1>2. /\ job' = job /\ asked' = asked /\ told' = told
      /\ jobCancel' \subseteq Unfinished'
  BY DEF IInv, TypeOK, Halted, Unfinished
<1> QED
  BY <1>1, <1>2 DEF IInv, TypeOK

\* interrupt and the end of a turn.
LEMMA InterruptStep ==
    ASSUME IInv, Interrupt \/ EndTurn
    PROVE  IInv'
<1>1. /\ phase = "running" /\ phase' \in {"running", "draining"} /\ active' = FALSE
      /\ turn' = (IF phase' = "running" THEN turn ELSE 0)
      /\ pc' = pc /\ job' = job /\ source' = source /\ asked' = asked /\ told' = told
      /\ \E k \in RevokeOutcomes(mem) : Revoke(mem, {}, k)
  BY DEF Interrupt, EndTurn
<1>2. /\ \E x : Good(x) /\ Halted(x)
      /\ mem' \in Memory /\ mem'.records = mem.records \ {} /\ mem'.turn = mem.turn
      /\ env' \in [changes : Nat, faults : Nat]
      /\ callCancel' = (callCancel \union Pending) \ {}
      /\ jobCancel' = jobCancel \union Unfinished
  <2>1. {} \in SUBSET CallId
    OBVIOUS
  <2> QED
    BY <1>1, <2>1, RevokeHalts
<1>3. PICK x : Good(x) /\ Halted(x)
  BY <1>2
<1>4. mem'.records = Pending' /\ callCancel' \subseteq Pending'
  BY <1>1, <1>2 DEF IInv, TypeOK, Pending
<1>5. turn' \in {0, mem'.turn} /\ Turns'
  BY <1>1, <1>2 DEF IInv, Turns
<1>6. TypeOK'
  BY <1>1, <1>2, <1>3, <1>4, <1>5, HaltKeepsTypes DEF IInv, TypeOK
<1> QED
  BY <1>1, <1>3, <1>5, <1>6, HaltStep

\* A call ends with an exception.
LEMMA UnwindStep ==
    ASSUME IInv, NEW c \in CallId, Unwind(c)
    PROVE  IInv'
<1>1. /\ pc[c] # "idle" /\ pc' = [pc EXCEPT ![c] = "idle"]
      /\ phase' = phase /\ active' = active /\ turn' = turn
      /\ job' = job /\ source' = source /\ asked' = asked /\ told' = told
      /\ \E k \in RevokeOutcomes(mem) : Revoke(mem, {c}, k)
  BY DEF Unwind, runtime
<1>2. phase \notin {"down", "lost"} /\ c \in mem.records
  BY <1>1, CallsRun
<1>3. /\ \E x : Good(x) /\ Halted(x)
      /\ mem' \in Memory /\ mem'.records = mem.records \ {c} /\ mem'.turn = mem.turn
      /\ env' \in [changes : Nat, faults : Nat]
      /\ callCancel' = (callCancel \union Pending) \ {c}
      /\ jobCancel' = jobCancel \union Unfinished
  BY <1>1, <1>2, RevokeHalts
<1>4. PICK x : Good(x) /\ Halted(x)
  BY <1>3
<1>5. /\ pc' \in [CallId -> {"idle", "gather", "leave", "void", "unwind"}]
      /\ mem'.records = Pending' /\ callCancel' \subseteq Pending'
  BY <1>1, <1>3 DEF IInv, TypeOK, Pending
<1>6. turn' \in {0, mem'.turn} /\ Turns'
  BY <1>1, <1>3 DEF IInv, Turns, TypeOK
<1>7. phase \in {"idle", "running", "draining"}
  BY <1>2 DEF IInv, TypeOK
<1>8. TypeOK'
  BY <1>1, <1>3, <1>4, <1>5, <1>6, <1>7, HaltKeepsTypes DEF IInv, TypeOK
<1> QED
  BY <1>1, <1>2, <1>4, <1>6, <1>8, HaltStep

\* The memory with the entry of one call replaced.
Replaced(c, n) == [mem EXCEPT !.calls = [mem.calls EXCEPT ![c] = n]]

LEMMA ReplacedFields ==
    ASSUME TypeOK, NEW c \in CallId, NEW n \in Entry
    PROVE  LET x == Replaced(c, n) IN
           /\ x \in Memory /\ x.turn = mem.turn /\ x.used = mem.used /\ x.live = mem.live
           /\ x.records = mem.records /\ x.revoked = mem.revoked /\ x.failed = mem.failed
           /\ x.calls[c] = n /\ \A b \in CallId : b # c => x.calls[b] = mem.calls[b]
<1> DEFINE f == [mem.calls EXCEPT ![c] = n]
<1>1. mem \in Memory /\ mem.calls \in [CallId -> Entry]
  BY MemoryFields DEF TypeOK
<1>2. f \in [CallId -> Entry] /\ f[c] = n /\ \A b \in CallId : b # c => f[b] = mem.calls[b]
  BY <1>1
<1>3. Replaced(c, n) = [mem EXCEPT !.calls = f]
  BY DEF Replaced
<1> HIDE DEF f
<1> QED
  BY <1>1, <1>2, <1>3, WithCalls

\* The entry of a recorded call may change its children, but not to contradict what
\* was shown, and may be settled when they have finished.
LEMMA ReplacedGood ==
    ASSUME IInv, phase # "down", NEW c \in mem.records, NEW n \in Entry,
           ExpertsOf(n) = ExpertsOf(mem.calls[c]),
           \A e \in ExpertsOf(n) : shown[e] \in Terminal => n.child[e] = shown[e],
           ~mem.failed /\ n.settled => Finished(n)
    PROVE  Good(Replaced(c, n)) /\ Shape(Replaced(c, n)) /\ Seen(Replaced(c, n)) = Seen(mem)
<1> DEFINE x == Replaced(c, n)
<1>1. c \in CallId /\ mem.calls[c] # NoEntry /\ TypeOK
  BY MemoryFields DEF IInv, TypeOK, MemoryShape, Seen
<1>2. /\ x \in Memory /\ x.turn = mem.turn /\ x.used = mem.used /\ x.records = mem.records
      /\ x.calls[c] = n /\ \A b \in CallId : b # c => x.calls[b] = mem.calls[b]
  BY <1>1, ReplacedFields
<1> HIDE DEF x
<1>3. Good(mem)
  BY GoodMemory
<1>4. Shape(x) /\ Seen(x) = Seen(mem)
  <2>1. \A b \in CallId : ExpertsOf(x.calls[b]) = ExpertsOf(mem.calls[b])
    BY <1>2
  <2>2. \A b \in CallId : mem.calls[b] = NoEntry => x.calls[b] = NoEntry
    BY <1>1, <1>2
  <2> QED
    BY <1>2, <1>3, <2>1, <2>2, ShapeKept DEF Good
<1>5. \A b \in x.records : \A e \in ExpertsOf(x.calls[b]) :
         shown[e] \in Terminal => x.calls[b].child[e] = shown[e]
  <2> TAKE b \in x.records
  <2>1. b \in CallId
    BY <1>2, MemoryFields
  <2> QED
    BY <1>2, <1>3, <2>1 DEF Good
<1>6. c \notin told /\ told \subseteq CallId
  BY <1>1, <1>3 DEF Good, TypeOK
<1>7. ~mem.failed => /\ SettledFinished(x)
                     /\ \A b \in CallId : ~x.calls[b].settled => b \in x.records
                     /\ \A b \in told : ToldIn(x.calls[b])
  BY <1>2, <1>3, <1>6 DEF Good, SettledFinished
<1>8. told \intersect x.records = {} /\ mem.used \subseteq x.used /\ (~mem.failed => disk.used \subseteq x.used)
      /\ x.records \subseteq Seen(x)
  BY <1>2, <1>3, <1>4 DEF Good
<1>9. Good(x)
  BY <1>2, <1>4, <1>5, <1>7, <1>8 DEF Good
<1> QED
  BY <1>4, <1>9 DEF x

\* A save fails and the handlers settle what runs.
LEMMA FailureHalts ==
    ASSUME IInv, NEW x, Good(x), NEW self \in SUBSET CallId, NEW d \in {x, Settle(x)}, NEW after \in Memory,
           after.used = x.used, after.turn = x.turn, after.calls = Settle(x).calls,
           after.records = x.records \ self,
           SaveFails(d, after), Show(Settle(x), x.records),
           job' = job, asked' = asked, told' = told, Unfinished \subseteq jobCancel'
    PROVE  /\ Halted(x) /\ mem' \in Memory /\ mem'.records = x.records \ self /\ mem'.turn = x.turn
           /\ env' \in [changes : Nat, faults : Nat]
<1>1. /\ mem' \in Memory /\ mem'.turn = x.turn /\ mem'.used = x.used
      /\ mem'.calls = Settle(x).calls /\ mem'.records = x.records \ self
      /\ mem'.live = {} /\ mem'.failed
  BY BrokenFields DEF SaveFails
<1>2. disk' = disk \/ (~mem.failed /\ disk' = Checkpoint(d))
  BY DEF SaveFails
<1>3. env' \in [changes : Nat, faults : Nat]
  BY DEF SaveFails, IInv, TypeOK
<1> QED
  BY <1>1, <1>2, <1>3 DEF Halted

\* gather raises.
LEMMA BreakStep ==
    ASSUME IInv, NEW c \in CallId, Break(c)
    PROVE  IInv'
<1>1. /\ pc[c] = "gather" /\ pc' = [pc EXCEPT ![c] = "unwind"]
      /\ phase' = phase /\ active' = active /\ turn' = turn
      /\ job' = job /\ source' = source /\ asked' = asked /\ told' = told
      /\ callCancel' = callCancel \ {c} /\ jobCancel' = jobCancel \union Unfinished
      /\ \E ok \in SaveOutcomes : Save(Settle(mem), ok)
      /\ Show(Settle(mem), mem.records)
  BY DEF Break, runtime
<1>2. phase \notin {"down", "lost"} /\ c \in mem.records
  BY <1>1, CallsRun
<1>3. mem \in Memory /\ Good(mem) /\ mem.failed \in BOOLEAN
  BY <1>2, GoodMemory, MemoryFields DEF IInv, TypeOK
<1>4. /\ Settle(mem) \in Memory /\ Settle(mem).live = {} /\ Settle(mem).records = mem.records
      /\ Settle(mem).used = mem.used /\ Settle(mem).turn = mem.turn
  BY <1>3, SettleFields
<1>5. /\ Halted(mem) /\ mem' \in Memory /\ mem'.records = mem.records /\ mem'.turn = mem.turn
      /\ env' \in [changes : Nat, faults : Nat]
  <2>1. CASE Save(Settle(mem), TRUE) /\ TRUE \in SaveOutcomes
    <3>1. mem' = Settle(mem) /\ disk' = Checkpoint(Settle(mem)) /\ env' = env /\ ~mem.failed
      BY <2>1 DEF Save, SaveOutcomes
    <3> QED
      BY <1>1, <1>3, <1>4, <3>1 DEF Halted, IInv, TypeOK
  <2>2. CASE Save(Settle(mem), FALSE)
    <3>1. SaveFails(Settle(mem), Settle(mem))
      BY <2>2 DEF Save
    <3>2. mem.records = mem.records \ {} /\ {} \in SUBSET CallId
      OBVIOUS
    <3> QED
      BY <1>1, <1>3, <1>4, <3>1, <3>2, FailureHalts
  <2> QED
    BY <1>1, <2>1, <2>2 DEF SaveOutcomes
<1>6. /\ pc' \in [CallId -> {"idle", "gather", "leave", "void", "unwind"}]
      /\ mem'.records = Pending' /\ callCancel' \subseteq Pending'
  BY <1>1, <1>5 DEF IInv, TypeOK, Pending
<1>7. turn' \in {0, mem'.turn} /\ Turns'
  BY <1>1, <1>5 DEF IInv, Turns, TypeOK
<1>8. phase \in {"idle", "running", "draining"}
  BY <1>2 DEF IInv, TypeOK
<1>9. TypeOK'
  BY <1>1, <1>3, <1>5, <1>6, <1>7, <1>8, HaltKeepsTypes DEF IInv, TypeOK
<1> QED
  BY <1>1, <1>2, <1>3, <1>5, <1>7, <1>9, HaltStep

-----------------------------------------------------------------------------
(* Saves that succeed *)

\* The memory x, with fewer records or live calls, is saved.
LEMMA SaveGood ==
    ASSUME IInv, NEW x, Good(x), ~mem.failed, mem' \in Memory, mem'.used = x.used, mem'.turn = x.turn,
           mem'.calls = x.calls, mem'.records \subseteq x.records, disk' = Checkpoint(mem')
    PROVE  /\ MemoryShape' /\ disk' \in Checkpoints /\ disk'.used = x.used /\ disk'.calls = x.calls
           /\ Shape(disk') /\ SettledFinished(disk') /\ SettledFinished(mem')
           /\ \A c \in told : ToldIn(disk'.calls[c]) /\ c \notin mem'.records
<1>1. /\ disk' \in Checkpoints /\ disk'.used = x.used /\ disk'.turn = x.turn /\ disk'.calls = x.calls
  BY MemoryFields
<1>2. From(mem', x) /\ From(disk', x) /\ told \subseteq CallId
  BY <1>1 DEF From, IInv, TypeOK
<1>3. Shape(mem') /\ Seen(mem') = Seen(x) /\ Shape(disk')
  BY <1>2, FromGood
<1>4. SettledFinished(mem') /\ SettledFinished(disk') /\ \A c \in told : ToldIn(disk'.calls[c])
  BY <1>2, FromGood
<1>5. mem'.records \subseteq Seen(mem') /\ \A c \in told : c \notin mem'.records
  BY <1>3 DEF Good
<1>6. MemoryShape'
  BY <1>3, <1>5 DEF MemoryShape, Shape, Seen, ExpertsOf
<1> QED
  BY <1>1, <1>3, <1>4, <1>5, <1>6

\* The outcome of gather on the entry of a live call.
LEMMA JudgedEntry ==
    ASSUME IInv, NEW c \in mem.live
    PROVE  \E n \in Entry :
             /\ Judged(c) = Replaced(c, n)
             /\ ExpertsOf(n) = ExpertsOf(mem.calls[c]) /\ ~n.settled
             /\ JobsEnded(c) => Finished(n)
<1>1. c \in CallId /\ mem \in Memory /\ mem.calls[c] \in Entry /\ mem.calls \in [CallId -> Entry]
  BY MemoryFields DEF IInv, TypeOK
<1>2. ~mem.calls[c].settled
  BY DEF IInv, LiveCalls
<1>3. CASE Unchanged(c)
  <2>1. [mem.calls EXCEPT ![c] = mem.calls[c]] = mem.calls
    BY <1>1
  <2>2. Judged(c) = Replaced(c, mem.calls[c])
    BY <1>1, <1>3, <2>1 DEF Judged, Replaced, Memory
  <2>3. JobsEnded(c) => Finished(mem.calls[c])
    BY DEF IInv, LiveCalls, JobsEnded, Finished
  <2> QED
    BY <1>1, <1>2, <2>2, <2>3
<1>4. CASE ~Unchanged(c)
  <2> DEFINE f == [e \in Expert |-> IF mem.calls[c].child[e] = "none" THEN "none" ELSE "failed"]
             n == [mem.calls[c] EXCEPT !.child = f]
  <2>1. /\ f \in [Expert -> ChildState]
        /\ \A e \in Expert : f[e] = IF mem.calls[c].child[e] = "none" THEN "none" ELSE "failed"
    BY States
  <2>2. Judged(c) = Replaced(c, n)
    BY <1>1, <1>4 DEF Judged, Replaced, Memory
  <2> HIDE DEF f
  <2>3. n \in Entry /\ n.child = f /\ n.settled = mem.calls[c].settled
    BY <1>1, <2>1, ChildrenReplaced
  <2> HIDE DEF n
  <2>4. ExpertsOf(n) = ExpertsOf(mem.calls[c]) /\ Finished(n)
    BY <2>1, <2>3, States DEF ExpertsOf, Finished
  <2> QED
    BY <1>2, <2>2, <2>3, <2>4
<1> QED
  BY <1>3, <1>4

\* gather returns and the outcome cannot be saved.
LEMMA JudgeFails ==
    ASSUME IInv, NEW c \in mem.live, pc[c] = "gather",
           SaveFails(Judged(c), Settle(Judged(c))), Show(Settle(Judged(c)), mem.records),
           pc' = [pc EXCEPT ![c] = "unwind"], jobCancel' = jobCancel \union Unfinished,
           UNCHANGED <<job, callCancel, runtime, source, asked, told>>
    PROVE  IInv'
<1>1. c \in CallId /\ c \in mem.records /\ phase \notin {"down", "lost"}
  BY CallsRun, MemoryFields DEF IInv, TypeOK
<1>2. PICK n \in Entry : Judged(c) = Replaced(c, n) /\ ExpertsOf(n) = ExpertsOf(mem.calls[c]) /\ ~n.settled
  BY JudgedEntry
<1>3. \A e \in ExpertsOf(n) : shown[e] \notin Terminal
  BY <1>2 DEF IInv, LiveCalls
<1> DEFINE x == Judged(c)
<1>4. Good(x)
  BY <1>1, <1>2, <1>3, ReplacedGood
<1>5. x \in Memory /\ x.records = mem.records /\ x.turn = mem.turn
  BY <1>1, <1>2, ReplacedFields DEF IInv
<1> HIDE DEF x
<1>6. /\ Settle(x) \in Memory /\ Settle(x).used = x.used /\ Settle(x).turn = x.turn
      /\ Settle(x).records = x.records
  BY <1>5, SettleFields
<1>7. SaveFails(x, Settle(x)) /\ Show(Settle(x), x.records)
  BY <1>5 DEF x
<1>8. /\ phase' = phase /\ active' = active /\ turn' = turn
      /\ job' = job /\ source' = source /\ asked' = asked /\ told' = told /\ callCancel' = callCancel
      /\ Unfinished \subseteq jobCancel'
  BY DEF runtime
<1>9. /\ Halted(x) /\ mem' \in Memory /\ mem'.records = x.records /\ mem'.turn = x.turn
      /\ env' \in [changes : Nat, faults : Nat]
  <2>1. x.records = x.records \ {} /\ {} \in SUBSET CallId
    OBVIOUS
  <2> QED
    BY <1>4, <1>6, <1>7, <1>8, <2>1, FailureHalts
<1>10. /\ pc' \in [CallId -> {"idle", "gather", "leave", "void", "unwind"}]
       /\ mem'.records = Pending' /\ callCancel' \subseteq Pending'
  BY <1>1, <1>5, <1>8, <1>9 DEF IInv, TypeOK, Pending
<1>11. turn' \in {0, mem'.turn} /\ Turns'
  BY <1>5, <1>8, <1>9 DEF IInv, Turns, TypeOK
<1>12. phase \in {"idle", "running", "draining"}
  BY <1>1 DEF IInv, TypeOK
<1>13. TypeOK'
  BY <1>4, <1>8, <1>9, <1>10, <1>11, <1>12, HaltKeepsTypes DEF IInv, TypeOK
<1> QED
  BY <1>1, <1>4, <1>8, <1>9, <1>11, <1>13, HaltStep


\* A step that saves the memory x keeps the invariant if it keeps the parts about
\* live calls, jobs and what is shown.
LEMMA SavedStep ==
    ASSUME IInv, phase \notin {"down", "lost"}, NEW x, Good(x), ~mem.failed,
           mem' \in Memory, mem'.used = x.used, mem'.turn = x.turn, x.turn = mem.turn,
           mem'.calls = x.calls, mem'.records \subseteq x.records, disk' = Checkpoint(mem'),
           phase' = phase, turn' = turn, TypeOK', LiveCalls', NewJobs', ShownAgrees',
           \A c \in told' : ToldIn(x.calls[c]) /\ c \notin mem'.records,
           \A c \in CallId : ~x.calls[c].settled => c \in mem'.records,
           \A c \in mem'.records \ mem'.live : Finished(x.calls[c]),
           \A e \in Expert : asked'[e] \in {0, 1} /\ (asked'[e] = 1 => asked[e] = 1 \/ e \in x.used)
    PROVE  IInv'
<1>1. /\ MemoryShape' /\ disk' \in Checkpoints /\ disk'.used = x.used /\ disk'.calls = x.calls
      /\ Shape(disk') /\ SettledFinished(disk') /\ SettledFinished(mem')
  BY SaveGood
<1>2. DiskShape'
  BY <1>1 DEF DiskShape, Shape, SettledFinished, Finished, Seen, ExpertsOf, ToldIn
<1>3. Synced' /\ Turns'
  BY DEF Synced, Turns, Checkpoint, IInv
<1>4. Unfailed'
  BY <1>1 DEF Unfailed, SettledFinished, Finished, ExpertsOf
<1>5. disk.used \subseteq x.used
  BY DEF Good
<1>6. AskedOnDisk'
  BY <1>1, <1>5 DEF AskedOnDisk, IInv
<1> QED
  BY <1>1, <1>2, <1>3, <1>4, <1>6 DEF IInv

\* The experts of two calls are not the same ones.
LEMMA Apart ==
    ASSUME IInv, NEW b \in CallId, NEW c \in CallId, NEW e \in ExpertsOf(mem.calls[b]),
           e \in ExpertsOf(mem.calls[c])
    PROVE  b = c
  BY DEF IInv, MemoryShape, Shape

\* gather returns and the outcome is saved.
LEMMA JudgeSaves ==
    ASSUME IInv, NEW c \in mem.live, pc[c] = "gather", c \notin callCancel, JobsEnded(c), TRUE \in SaveOutcomes,
           Save([Judged(c) EXCEPT !.live = @ \ {c}], TRUE), Show(Judged(c), {c}),
           pc' = [pc EXCEPT ![c] = "leave"],
           UNCHANGED <<jobCancel, job, callCancel, runtime, source, asked, told>>
    PROVE  IInv'
<1>1. c \in CallId /\ c \in mem.records /\ phase \notin {"down", "lost"} /\ ~mem.failed
  BY CallsRun, MemoryFields DEF IInv, TypeOK, SaveOutcomes
<1>2. PICK n \in Entry : /\ Judged(c) = Replaced(c, n) /\ ExpertsOf(n) = ExpertsOf(mem.calls[c])
                          /\ ~n.settled /\ Finished(n)
  BY JudgedEntry
<1>3. \A e \in ExpertsOf(n) : shown[e] \notin Terminal
  BY <1>2 DEF IInv, LiveCalls
<1> DEFINE x == Judged(c)
<1>4. Good(x)
  BY <1>1, <1>2, <1>3, ReplacedGood
<1>5. /\ x \in Memory /\ x.records = mem.records /\ x.turn = mem.turn /\ x.used = mem.used
      /\ x.live = mem.live /\ x.failed = mem.failed
      /\ x.calls[c] = n /\ \A b \in CallId : b # c => x.calls[b] = mem.calls[b]
  BY <1>1, <1>2, ReplacedFields DEF IInv
<1>6. /\ mem' = [x EXCEPT !.live = x.live \ {c}] /\ disk' = Checkpoint(mem') /\ env' = env
      /\ Show(x, {c})
  BY DEF Save
<1> HIDE DEF x
<1>7. /\ mem' \in Memory /\ mem'.turn = x.turn /\ mem'.used = x.used /\ mem'.calls = x.calls
      /\ mem'.live = mem.live \ {c} /\ mem'.records = x.records /\ mem'.failed = x.failed
  <2>1. x.live \ {c} \in SUBSET CallId
    BY <1>5, MemoryFields
  <2> QED
    BY <1>5, <1>6, <2>1, WithLive
<1>8. /\ phase' = phase /\ active' = active /\ turn' = turn /\ jobCancel' = jobCancel
      /\ job' = job /\ source' = source /\ asked' = asked /\ told' = told /\ callCancel' = callCancel
  BY DEF runtime
<1>9. /\ \A e \in Expert : shown'[e] = IF e \in ExpertsOf(n) THEN n.child[e] ELSE shown[e]
      /\ shown' \in [Expert -> ChildState]
  <2>1. (CHOOSE b \in {c} : TRUE) = c
    OBVIOUS
  <2>2. ASSUME NEW e \in Expert
        PROVE  shown'[e] = IF e \in ExpertsOf(n) THEN n.child[e] ELSE shown[e]
    <3>1. CASE e \in ExpertsOf(n)
      <4>1. (CHOOSE b \in {c} : e \in ExpertsOf(x.calls[b])) = c
        BY <1>5, <3>1
      <4> QED
        BY <1>5, <1>6, <3>1, <4>1 DEF Show
    <3>2. CASE e \notin ExpertsOf(n)
      BY <1>5, <1>6, <3>2 DEF Show
    <3> QED
      BY <3>1, <3>2
  <2>3. shown' = [e \in Expert |-> shown'[e]]
    BY <1>6 DEF Show
  <2>4. \A e \in Expert : shown'[e] \in ChildState
    BY <2>2, EntryFields DEF IInv, TypeOK
  <2> QED
    BY <2>2, <2>3, <2>4
<1>10. disk' \in Checkpoints
  BY <1>6, <1>7, MemoryFields
<1>11. /\ pc' \in [CallId -> {"idle", "gather", "leave", "void", "unwind"}]
       /\ Pending' = Pending /\ Unfinished' = Unfinished
       /\ \A b \in mem'.live : pc'[b] = "gather"
  <2>1. \A b \in mem.live : b \in CallId
    BY MemoryFields DEF IInv, TypeOK
  <2> QED
    BY <1>1, <1>7, <1>8, <2>1 DEF IInv, TypeOK, Pending, Unfinished
<1>12. TypeOK'
  BY <1>5, <1>6, <1>7, <1>8, <1>9, <1>10, <1>11 DEF IInv, TypeOK
<1>13. LiveCalls'
  <2> SUFFICES ASSUME NEW b \in mem.live, b # c
               PROVE  /\ b \in CallId /\ mem'.calls[b] = mem.calls[b] /\ ~mem'.failed
                      /\ \A e \in ExpertsOf(mem.calls[b]) : shown'[e] = shown[e]
    BY <1>7, <1>8 DEF IInv, LiveCalls, ExpertsOf
  <2>1. b \in CallId
    BY MemoryFields DEF IInv, TypeOK
  <2>2. \A e \in ExpertsOf(mem.calls[b]) : e \in Expert /\ e \notin ExpertsOf(n)
    BY <1>1, <1>2, <2>1, Apart DEF ExpertsOf
  <2> QED
    BY <1>1, <1>5, <1>7, <1>9, <2>1, <2>2
<1>14. NewJobs'
  <2> SUFFICES ASSUME NEW e \in Expert, job[e] = "new", e \notin jobCancel
               PROVE  \E b \in mem.live \ {c} : e \in ExpertsOf(mem'.calls[b])
    BY <1>7, <1>8 DEF IInv, NewJobs, ExpertsOf
  <2>1. PICK b \in mem.live : e \in ExpertsOf(mem.calls[b])
    BY DEF IInv, NewJobs
  <2>2. b # c /\ b \in CallId
    BY <2>1, MemoryFields DEF JobsEnded, IInv, TypeOK
  <2> QED
    BY <1>5, <1>7, <2>1, <2>2
<1>15. ShownAgrees'
  <2>1. ASSUME NEW b \in mem'.records, NEW e \in ExpertsOf(mem'.calls[b]), shown'[e] \in Terminal
        PROVE  mem'.calls[b].child[e] = shown'[e]
    <3>1. b \in CallId /\ b \in mem.records
      BY <1>5, <1>7, <2>1, MemoryFields
    <3>2. CASE b = c
      BY <1>5, <1>7, <1>9, <2>1, <3>2, EntryFields
    <3>3. CASE b # c
      <4>1. mem'.calls[b] = mem.calls[b] /\ e \in ExpertsOf(mem.calls[b])
        BY <1>5, <1>7, <2>1, <3>1, <3>3
      <4>2. e \in Expert /\ e \notin ExpertsOf(n)
        BY <1>1, <1>2, <3>1, <3>3, <4>1, Apart DEF ExpertsOf
      <4> QED
        BY <1>9, <2>1, <3>1, <4>1, <4>2 DEF IInv, ShownAgrees
    <3> QED
      BY <3>2, <3>3
  <2>2. ASSUME NEW e \in Expert, shown'[e] # "none", phase = "running"
        PROVE  e \in mem'.used
    <3>1. CASE e \in ExpertsOf(n)
      BY <1>1, <1>2, <1>5, <1>7, <3>1 DEF IInv, MemoryShape, Shape
    <3>2. CASE e \notin ExpertsOf(n)
      BY <1>1, <1>5, <1>7, <1>9, <2>2, <3>2 DEF IInv, ShownAgrees
    <3> QED
      BY <3>1, <3>2
  <2> QED
    BY <1>8, <2>1, <2>2 DEF ShownAgrees, ExpertsOf
<1>16. \A b \in told' : ToldIn(x.calls[b]) /\ b \notin mem'.records
  BY <1>1, <1>4, <1>7, <1>8 DEF Good
<1>17. \A b \in CallId : ~x.calls[b].settled => b \in mem'.records
  BY <1>1, <1>4, <1>7 DEF Good
<1>18. \A b \in mem'.records \ mem'.live : Finished(x.calls[b])
  <2>1. mem.records \subseteq CallId
    BY MemoryFields DEF IInv, TypeOK
  <2> QED
    BY <1>1, <1>2, <1>5, <1>7, <2>1 DEF IInv, Unfailed
<1>19. \A e \in Expert : asked'[e] \in {0, 1} /\ (asked'[e] = 1 => asked[e] = 1 \/ e \in x.used)
  BY <1>8 DEF IInv, AskedOnDisk
<1> QED
  BY <1>1, <1>4, <1>5, <1>6, <1>7, <1>8, <1>12, <1>13, <1>14, <1>15, <1>16, <1>17, <1>18, <1>19, SavedStep


\* A step that touches neither the memory nor the checkpoint nor what is seen of them.
LEMMA QuietStep ==
    ASSUME IInv, UNCHANGED <<mem, disk, turn, shown, asked, told>>,
           phase' = phase \/ (phase \in {"idle", "draining"} /\ phase' \in {"idle", "draining"}),
           TypeOK', LiveCalls', NewJobs'
    PROVE  IInv'
<1>1. MemoryShape' /\ DiskShape'
  BY DEF IInv, MemoryShape, DiskShape, Shape, SettledFinished, Finished, Seen, ExpertsOf, ToldIn
<1>2. Synced' /\ Turns' /\ Unfailed'
  BY DEF IInv, Synced, Turns, Unfailed, Checkpoint, SettledFinished, Finished, ExpertsOf
<1>3. AskedOnDisk' /\ ShownAgrees'
  BY DEF IInv, AskedOnDisk, ShownAgrees, ExpertsOf
<1> QED
  BY <1>1, <1>2, <1>3 DEF IInv

LEMMA JudgeStep ==
    ASSUME IInv, NEW c \in CallId, Judge(c)
    PROVE  IInv'
<1>1. /\ pc[c] = "gather" /\ c \notin callCancel /\ JobsEnded(c)
      /\ UNCHANGED <<job, callCancel, runtime, source, asked, told>>
  BY DEF Judge
<1>2. CASE c \in mem.live
  <2>1. PICK ok \in SaveOutcomes :
          IF ok
          THEN /\ Save([Judged(c) EXCEPT !.live = @ \ {c}], TRUE)
               /\ Show(Judged(c), {c})
               /\ pc' = [pc EXCEPT ![c] = "leave"]
               /\ UNCHANGED jobCancel
          ELSE /\ SaveFails(Judged(c), Settle(Judged(c)))
               /\ Show(Settle(Judged(c)), mem.records)
               /\ pc' = [pc EXCEPT ![c] = "unwind"]
               /\ jobCancel' = jobCancel \union Unfinished
    BY <1>2 DEF Judge
  <2>2. ok \in BOOLEAN
    BY DEF SaveOutcomes
  <2>3. CASE ok = TRUE
    BY <1>1, <1>2, <2>1, <2>3, JudgeSaves
  <2>4. CASE ok = FALSE
    BY <1>1, <1>2, <2>1, <2>4, JudgeFails
  <2> QED
    BY <2>2, <2>3, <2>4
<1>3. CASE c \notin mem.live
  <2>1. /\ pc' = [pc EXCEPT ![c] = "void"] /\ UNCHANGED <<mem, disk, env, shown, jobCancel, job, callCancel>>
        /\ UNCHANGED <<phase, active, turn, source, asked, told>>
    BY <1>1, <1>3 DEF Judge, runtime
  <2>2. /\ pc' \in [CallId -> {"idle", "gather", "leave", "void", "unwind"}]
        /\ Pending' = Pending /\ Unfinished' = Unfinished
        /\ \A b \in mem'.live : pc'[b] = "gather"
    <3>1. \A b \in mem.live : b \in CallId
      BY MemoryFields DEF IInv, TypeOK
    <3> QED
      BY <1>1, <1>3, <2>1, <3>1 DEF IInv, TypeOK, Pending, Unfinished
  <2>3. TypeOK'
    BY <2>1, <2>2 DEF IInv, TypeOK
  <2>4. LiveCalls' /\ NewJobs'
    BY <2>1 DEF IInv, LiveCalls, NewJobs, ExpertsOf
  <2> QED
    BY <2>1, <2>3, <2>4, QuietStep
<1> QED
  BY <1>2, <1>3

-----------------------------------------------------------------------------
(* A call returns *)

\* The entry that Return settles.
Returned(c) == [mem.calls[c] EXCEPT !.settled = TRUE, !.interrupted = @ \/ Interrupted(c)]

LEMMA ReturnedFields ==
    ASSUME IInv, NEW c \in CallId
    PROVE  /\ Returned(c) \in Entry /\ Returned(c).child = mem.calls[c].child
           /\ Returned(c).settled /\ ExpertsOf(Returned(c)) = ExpertsOf(mem.calls[c])
<1>1. mem.calls[c] \in Entry
  BY MemoryFields DEF IInv, TypeOK
<1>2. /\ Returned(c) \in Entry /\ Returned(c).child = mem.calls[c].child /\ Returned(c).settled
  BY <1>1 DEF Returned, Entry
<1> QED
  BY <1>2 DEF ExpertsOf

LEMMA ReturnedReplaced ==
    ASSUME IInv, NEW c \in CallId
    PROVE  [mem EXCEPT !.calls[c].settled = TRUE,
                       !.calls[c].interrupted = @ \/ Interrupted(c)] = Replaced(c, Returned(c))
<1>1. mem \in Memory /\ mem.calls \in [CallId -> Entry] /\ mem.calls[c] \in Entry
  BY MemoryFields DEF IInv, TypeOK
<1> QED
  BY <1>1 DEF Returned, Replaced, Memory, Entry

\* The memory in which the entry of the returning call is settled.
LEMMA ReturnedGood ==
    ASSUME IInv, NEW c \in mem.records, pc[c] \in {"leave", "void"}
    PROVE  LET x == Replaced(c, Returned(c)) IN
           /\ c \in CallId /\ c \notin mem.live /\ phase \notin {"down", "lost"}
           /\ Good(x) /\ x \in Memory /\ x.records = mem.records /\ x.turn = mem.turn /\ x.used = mem.used
           /\ x.live = mem.live /\ x.failed = mem.failed
           /\ x.calls[c] = Returned(c) /\ \A b \in CallId : b # c => x.calls[b] = mem.calls[b]
           /\ ~mem.failed => Finished(Returned(c))
<1>1. c \in CallId /\ c \notin mem.live /\ mem.calls[c] \in Entry
  BY MemoryFields DEF IInv, TypeOK
<1>2. phase \notin {"down", "lost"}
  BY <1>1, CallsRun
<1>3. ~mem.failed => Finished(Returned(c))
  BY <1>1, ReturnedFields DEF IInv, Unfailed, Finished
<1>4. \A e \in ExpertsOf(Returned(c)) : shown[e] \in Terminal => Returned(c).child[e] = shown[e]
  BY <1>1, ReturnedFields DEF IInv, ShownAgrees
<1>5. Good(Replaced(c, Returned(c)))
  BY <1>1, <1>2, <1>3, <1>4, ReturnedFields, ReplacedGood
<1> QED
  BY <1>1, <1>2, <1>3, <1>5, ReturnedFields, ReplacedFields DEF IInv

LEMMA ReturnSaves ==
    ASSUME IInv, NEW c \in mem.records, pc[c] \in {"leave", "void"}, c \notin callCancel, TRUE \in SaveOutcomes,
           Save([Replaced(c, Returned(c)) EXCEPT !.records = @ \ {c}], TRUE),
           told' = told \/ (/\ told' = told \union {c} /\ ~Returned(c).interrupted
                            /\ \A e \in ExpertsOf(Returned(c)) : Returned(c).child[e] = "completed"),
           UNCHANGED <<shown, callCancel, jobCancel>>, pc' = [pc EXCEPT ![c] = "idle"],
           UNCHANGED <<job, runtime, source, asked>>
    PROVE  IInv'
<1> DEFINE x == Replaced(c, Returned(c))
<1>1. /\ c \in CallId /\ c \notin mem.live /\ phase \notin {"down", "lost"}
      /\ Good(x) /\ x \in Memory /\ x.records = mem.records /\ x.turn = mem.turn /\ x.used = mem.used
      /\ x.live = mem.live /\ x.failed = mem.failed
      /\ x.calls[c] = Returned(c) /\ \A b \in CallId : b # c => x.calls[b] = mem.calls[b]
      /\ ~mem.failed => Finished(Returned(c))
  BY ReturnedGood
<1>2. mem' = [x EXCEPT !.records = x.records \ {c}] /\ disk' = Checkpoint(mem') /\ env' = env
  BY DEF Save
<1> HIDE DEF x
<1>3. /\ mem' \in Memory /\ mem'.turn = x.turn /\ mem'.used = x.used /\ mem'.calls = x.calls
      /\ mem'.live = mem.live /\ mem'.records = mem.records \ {c} /\ mem'.failed = x.failed
  <2>1. x.records \ {c} \in SUBSET CallId
    BY <1>1, MemoryFields
  <2> QED
    BY <1>1, <1>2, <2>1, WithRecords
<1>4. /\ UNCHANGED <<shown, callCancel, jobCancel, job, phase, active, turn, source, asked>>
      /\ ~mem.failed /\ told' \subseteq told \union {c}
  BY DEF runtime, SaveOutcomes
<1>5. disk' \in Checkpoints /\ mem.live \subseteq CallId /\ mem.records \subseteq CallId
  BY <1>2, <1>3, MemoryFields DEF IInv, TypeOK
<1>6. /\ pc' \in [CallId -> {"idle", "gather", "leave", "void", "unwind"}]
      /\ Pending' = Pending \ {c} /\ Unfinished' = Unfinished
      /\ \A b \in mem'.live : pc'[b] = "gather"
  BY <1>1, <1>3, <1>4, <1>5 DEF IInv, TypeOK, Pending, Unfinished
<1>7. TypeOK'
  BY <1>1, <1>2, <1>3, <1>4, <1>5, <1>6 DEF IInv, TypeOK
<1>8. LiveCalls' /\ NewJobs'
  <2>1. \A b \in mem.live : mem'.calls[b] = mem.calls[b]
    BY <1>1, <1>3, <1>5
  <2> QED
    BY <1>1, <1>3, <1>4, <2>1 DEF IInv, LiveCalls, NewJobs, ExpertsOf
<1>9. ShownAgrees'
  <2>1. \A b \in mem'.records : b \in mem.records /\ mem'.calls[b] = mem.calls[b]
    BY <1>1, <1>3, <1>5
  <2> QED
    BY <1>1, <1>3, <1>4, <2>1 DEF IInv, ShownAgrees, ExpertsOf
<1>10. \A b \in told' : ToldIn(x.calls[b]) /\ b \notin mem'.records
  <2>1. ASSUME NEW b \in told PROVE ToldIn(x.calls[b]) /\ b \notin mem'.records
    BY <1>1, <1>3, <1>4, <2>1 DEF Good
  <2>2. ASSUME c \in told', c \notin told PROVE ToldIn(x.calls[c])
    <3>1. /\ Returned(c).settled /\ ~Returned(c).interrupted /\ Returned(c).child = mem.calls[c].child
          /\ \A e \in ExpertsOf(Returned(c)) : Returned(c).child[e] = "completed"
      BY <1>1, <2>2, ReturnedFields
    <3>2. ExpertsOf(Returned(c)) # {}
      BY <1>1, ReturnedFields DEF IInv, MemoryShape, Shape, Seen
    <3>3. Returned(c) # NoEntry
      BY <3>2, NoEntryFields
    <3>4. \A e \in Expert : Returned(c).child[e] \in {"none", "completed"}
      BY <3>1 DEF ExpertsOf
    <3> QED
      BY <1>1, <3>1, <3>3, <3>4 DEF ToldIn
  <2> QED
    BY <1>3, <1>4, <2>1, <2>2
<1>11. \A b \in CallId : ~x.calls[b].settled => b \in mem'.records
  BY <1>1, <1>3, <1>4, ReturnedFields DEF Good
<1>12. \A b \in mem'.records \ mem'.live : Finished(x.calls[b])
  BY <1>1, <1>3, <1>4, <1>5 DEF IInv, Unfailed
<1>13. \A e \in Expert : asked'[e] \in {0, 1} /\ (asked'[e] = 1 => asked[e] = 1 \/ e \in x.used)
  BY <1>4 DEF IInv, AskedOnDisk
<1> QED
  BY <1>1, <1>2, <1>3, <1>4, <1>7, <1>8, <1>9, <1>10, <1>11, <1>12, <1>13, SavedStep

\* A call cannot save its end, or its beginning: what FailureHalts leaves.
LEMMA CallFails ==
    ASSUME IInv, NEW x, Good(x), NEW c \in CallId, phase \notin {"down", "lost"}, x.turn = mem.turn,
           SaveFails(x, [Settle(x) EXCEPT !.records = @ \ {c}]), Show(Settle(x), x.records),
           jobCancel' = jobCancel \union Unfinished, UNCHANGED <<job, runtime, source, asked, told>>,
           pc' \in [CallId -> {"idle", "gather", "leave", "void", "unwind"}],
           x.records \ {c} = Pending', callCancel' \subseteq Pending'
    PROVE  IInv'
<1> DEFINE after == [Settle(x) EXCEPT !.records = Settle(x).records \ {c}]
<1>1. x \in Memory /\ x.records \subseteq CallId
  BY MemoryFields DEF Good
<1>2. /\ Settle(x) \in Memory /\ Settle(x).used = x.used /\ Settle(x).turn = x.turn
      /\ Settle(x).records = x.records
  BY <1>1, SettleFields
<1>3. /\ after \in Memory /\ after.used = x.used /\ after.turn = x.turn /\ after.calls = Settle(x).calls
      /\ after.records = x.records \ {c}
  <2>1. Settle(x).records \ {c} \in SUBSET CallId
    BY <1>1, <1>2
  <2> QED
    BY <1>2, <2>1, WithRecords
<1>4. SaveFails(x, after)
  OBVIOUS
<1> HIDE DEF after
<1>5. /\ phase' = phase /\ active' = active /\ turn' = turn
      /\ job' = job /\ source' = source /\ asked' = asked /\ told' = told
      /\ Unfinished \subseteq jobCancel'
  BY DEF runtime
<1>6. /\ Halted(x) /\ mem' \in Memory /\ mem'.records = x.records \ {c} /\ mem'.turn = x.turn
      /\ env' \in [changes : Nat, faults : Nat]
  BY <1>3, <1>4, <1>5, FailureHalts
<1>7. turn' \in {0, mem'.turn} /\ Turns'
  BY <1>5, <1>6 DEF IInv, Turns, TypeOK
<1>8. phase \in {"idle", "running", "draining"}
  BY DEF IInv, TypeOK
<1>9. TypeOK'
  BY <1>5, <1>6, <1>7, <1>8, HaltKeepsTypes DEF IInv, TypeOK
<1> QED
  BY <1>5, <1>6, <1>7, <1>9, HaltStep

LEMMA ReturnStep ==
    ASSUME IInv, NEW c \in CallId, Return(c)
    PROVE  IInv'
<1> DEFINE x == Replaced(c, Returned(c))
<1>1. /\ pc[c] \in {"leave", "void"} /\ c \notin callCancel /\ pc' = [pc EXCEPT ![c] = "idle"]
      /\ UNCHANGED <<job, runtime, source, asked>>
  BY DEF Return
<1>2. c \in mem.records
  BY <1>1, CallsRun
<1>3. /\ c \notin mem.live /\ phase \notin {"down", "lost"} /\ Good(x) /\ x \in Memory
      /\ x.records = mem.records /\ x.turn = mem.turn /\ x.calls[c] = Returned(c)
  BY <1>1, <1>2, ReturnedGood
<1>4. \/ /\ TRUE \in SaveOutcomes
         /\ Save([x EXCEPT !.records = @ \ {c}], TRUE)
         /\ told' = IF pc[c] = "leave" /\ Completed(x, c) /\ ~x.calls[c].interrupted /\ active
                    THEN told \union {c} ELSE told
         /\ UNCHANGED <<shown, callCancel, jobCancel>>
      \/ /\ FALSE \in SaveOutcomes
         /\ SaveFails(x, [Settle(x) EXCEPT !.records = @ \ {c}])
         /\ Show(Settle(x), x.records)
         /\ callCancel' = (callCancel \union Pending) \ {c}
         /\ jobCancel' = jobCancel \union Unfinished
         /\ UNCHANGED told
  BY ReturnedReplaced DEF Return
<1> HIDE DEF x
<1>5. CASE /\ TRUE \in SaveOutcomes
           /\ Save([x EXCEPT !.records = @ \ {c}], TRUE)
           /\ told' = IF pc[c] = "leave" /\ Completed(x, c) /\ ~x.calls[c].interrupted /\ active
                      THEN told \union {c} ELSE told
           /\ UNCHANGED <<shown, callCancel, jobCancel>>
  <2>1. told' = told \/ (/\ told' = told \union {c} /\ ~Returned(c).interrupted
                         /\ \A e \in ExpertsOf(Returned(c)) : Returned(c).child[e] = "completed")
    BY <1>3, <1>5 DEF Completed
  <2>2. Save([Replaced(c, Returned(c)) EXCEPT !.records = @ \ {c}], TRUE)
    BY <1>5 DEF x
  <2> QED
    BY <1>1, <1>2, <1>5, <2>1, <2>2, ReturnSaves
<1>6. CASE /\ FALSE \in SaveOutcomes
           /\ SaveFails(x, [Settle(x) EXCEPT !.records = @ \ {c}])
           /\ Show(Settle(x), x.records)
           /\ callCancel' = (callCancel \union Pending) \ {c}
           /\ jobCancel' = jobCancel \union Unfinished
           /\ UNCHANGED told
  <2>1. /\ pc' \in [CallId -> {"idle", "gather", "leave", "void", "unwind"}]
        /\ x.records \ {c} = Pending' /\ callCancel' \subseteq Pending'
    BY <1>1, <1>3, <1>6 DEF IInv, TypeOK, Pending
  <2> QED
    BY <1>1, <1>3, <1>6, <2>1, CallFails
<1> QED
  BY <1>4, <1>5, <1>6


-----------------------------------------------------------------------------
(* A call begins *)

NewEntry(E) == [child |-> [e \in Expert |-> IF e \in E THEN "waiting" ELSE "none"],
                source |-> source, settled |-> FALSE, interrupted |-> FALSE]
Begun(c, E) == [mem EXCEPT !.used = @ \union E, !.calls[c] = NewEntry(E), !.records = @ \union {c}]

LEMMA NewEntryFields ==
    ASSUME NEW E \in SUBSET Expert, source \in Source
    PROVE  /\ NewEntry(E) \in Entry /\ ExpertsOf(NewEntry(E)) = E /\ ~NewEntry(E).settled
           /\ \A e \in E : NewEntry(E).child[e] = "waiting"
  BY States DEF NewEntry, Entry, ExpertsOf

LEMMA BegunFields ==
    ASSUME IInv, NEW c \in CallId, NEW E \in SUBSET Expert, source \in Source
    PROVE  LET x == Begun(c, E) IN
           /\ x \in Memory /\ x.turn = mem.turn /\ x.used = mem.used \union E /\ x.live = mem.live
           /\ x.records = mem.records \union {c} /\ x.revoked = mem.revoked /\ x.failed = mem.failed
           /\ x.calls[c] = NewEntry(E) /\ \A b \in CallId : b # c => x.calls[b] = mem.calls[b]
<1>1. mem \in Memory /\ mem.calls \in [CallId -> Entry] /\ mem.used \in SUBSET Expert
      /\ mem.records \in SUBSET CallId
  BY MemoryFields DEF IInv, TypeOK
<1>2. NewEntry(E) \in Entry
  BY NewEntryFields
<1> DEFINE f == [mem.calls EXCEPT ![c] = NewEntry(E)]
           U == mem.used \union E
           R == mem.records \union {c}
<1>3. f \in [CallId -> Entry] /\ f[c] = NewEntry(E) /\ \A b \in CallId : b # c => f[b] = mem.calls[b]
  BY <1>1, <1>2
<1>4. Begun(c, E) = [mem EXCEPT !.used = U, !.calls = f, !.records = R]
  BY <1>1 DEF Begun, Memory
<1>5. U \in SUBSET Expert /\ R \in SUBSET CallId
  BY <1>1
<1>6. U = mem.used \union E /\ R = mem.records \union {c}
  OBVIOUS
<1> HIDE DEF f, U, R
<1>7. LET x == Begun(c, E) IN
      /\ x \in Memory /\ x.turn = mem.turn /\ x.used = U /\ x.live = mem.live
      /\ x.records = R /\ x.revoked = mem.revoked /\ x.failed = mem.failed /\ x.calls = f
  BY <1>1, <1>3, <1>4, <1>5 DEF Memory
<1> QED
  BY <1>3, <1>6, <1>7

\* A call that is not yet seen, of experts that are not yet used, fits the budget.
LEMMA BegunShape ==
    ASSUME IInv, NEW c \in CallId, NEW E \in SUBSET Expert, source \in Source, mem.turn # 0,
           c \notin Seen(mem), E # {}, WithinBudget(E)
    PROVE  Shape(Begun(c, E)) /\ Seen(Begun(c, E)) = Seen(mem) \union {c}
<1> DEFINE x == Begun(c, E)
<1>1. /\ x.turn = mem.turn /\ x.used = mem.used \union E
      /\ x.calls[c] = NewEntry(E) /\ \A b \in CallId : b # c => x.calls[b] = mem.calls[b]
  BY BegunFields
<1> HIDE DEF x
<1>2. /\ Shape(mem) /\ mem.used \subseteq Expert /\ \A b \in CallId : mem.calls[b] \in Entry
  BY MemoryFields DEF IInv, TypeOK, MemoryShape
<1>3. ExpertsOf(x.calls[c]) = E /\ x.calls[c] # NoEntry /\ mem.calls[c] = NoEntry
  BY <1>1, NewEntryFields, NoEntryFields DEF Seen
<1>4. Seen(x) = Seen(mem) \union {c}
  BY <1>1, <1>3 DEF Seen
<1>5. Cardinality(x.used) <= Budget
  BY <1>1 DEF WithinBudget
<1>6. IsFiniteSet(Seen(x)) /\ Cardinality(Seen(x)) <= Cardinality(x.used)
  <2>1. PICK e \in E : TRUE
    OBVIOUS
  <2>2. IsFiniteSet(mem.used) /\ IsFiniteSet(x.used) /\ e \notin mem.used
    BY <1>1, <1>2, <2>1, ReviewAssumption, FS_Subset DEF WithinBudget
  <2>3. Cardinality(mem.used \union {e}) = Cardinality(mem.used) + 1 /\ IsFiniteSet(mem.used \union {e})
    BY <2>2, FS_AddElement
  <2>4. Cardinality(mem.used \union {e}) <= Cardinality(x.used)
    <3>1. mem.used \union {e} \subseteq x.used
      BY <1>1, <2>1
    <3> QED
      BY <2>2, <3>1, FS_Subset
  <2>5. IsFiniteSet(Seen(x)) /\ Cardinality(Seen(x)) = Cardinality(Seen(mem)) + 1
    BY <1>2, <1>4, FS_AddElement DEF Shape
  <2>6. Cardinality(Seen(mem)) <= Cardinality(mem.used) /\ IsFiniteSet(Seen(mem))
    BY <1>2 DEF Shape
  <2>7. /\ Cardinality(Seen(mem)) \in Nat /\ Cardinality(mem.used) \in Nat /\ Cardinality(x.used) \in Nat
        /\ Cardinality(Seen(x)) \in Nat /\ Cardinality(mem.used \union {e}) \in Nat
    BY <2>2, <2>3, <2>5, <2>6, FS_CardinalityType
  <2> QED
    BY <2>3, <2>4, <2>5, <2>6, <2>7
<1>7. \A b \in CallId : ExpertsOf(mem.calls[b]) \intersect E = {}
  BY <1>2, EntryFields DEF Shape, WithinBudget
<1>8. \A e \in Expert : e \in x.used <=> \E b \in CallId : e \in ExpertsOf(x.calls[b])
  <2>1. ExpertsOf(mem.calls[c]) = {}
    BY <1>3, NoEntryFields
  <2> QED
    BY <1>1, <1>2, <1>3, <2>1 DEF Shape
<1>9. \A a, b \in CallId : a # b => ExpertsOf(x.calls[a]) \intersect ExpertsOf(x.calls[b]) = {}
  <2> SUFFICES ASSUME NEW a \in CallId, NEW b \in CallId, a # b
               PROVE  ExpertsOf(x.calls[a]) \intersect ExpertsOf(x.calls[b]) = {}
    OBVIOUS
  <2>1. CASE a = c
    BY <1>1, <1>3, <1>7, <2>1
  <2>2. CASE b = c
    BY <1>1, <1>3, <1>7, <2>2
  <2>3. CASE a # c /\ b # c
    BY <1>1, <1>2, <2>3 DEF Shape
  <2> QED
    BY <2>1, <2>2, <2>3
<1>10. \A b \in CallId : ExpertsOf(x.calls[b]) = {} => x.calls[b] = NoEntry
  BY <1>1, <1>2, <1>3 DEF Shape
<1>11. Shape(x)
  BY <1>1, <1>5, <1>6, <1>8, <1>9, <1>10 DEF Shape
<1> QED
  BY <1>4, <1>11 DEF x

\* What a call may begin on was neither shown nor asked.
LEMMA BegunGood ==
    ASSUME IInv, NEW c \in CallId, NEW E \in SUBSET Expert, source \in Source, phase = "running", ~mem.failed,
           c \notin Seen(mem), E # {}, WithinBudget(E)
    PROVE  /\ Good(Begun(c, E)) /\ c \notin told /\ c \notin mem.records
           /\ \A e \in E : shown[e] = "none" /\ asked[e] = 0
           /\ \A b \in CallId : ExpertsOf(mem.calls[b]) \intersect E = {}
<1> DEFINE x == Begun(c, E)
<1>1. /\ x \in Memory /\ x.used = mem.used \union E /\ x.records = mem.records \union {c}
      /\ x.calls[c] = NewEntry(E) /\ \A b \in CallId : b # c => x.calls[b] = mem.calls[b]
  BY BegunFields
<1>2. Shape(x) /\ Seen(x) = Seen(mem) \union {c}
  BY BegunShape DEF IInv, Turns
<1> HIDE DEF x
<1>3. Good(mem) /\ mem.used \subseteq Expert /\ \A b \in CallId : mem.calls[b] \in Entry
  BY GoodMemory, MemoryFields DEF IInv, TypeOK
<1>4. disk.used = mem.used /\ disk.calls = mem.calls
  BY MemoryFields DEF IInv, TypeOK, Synced
<1>5. \A e \in E : shown[e] = "none" /\ asked[e] = 0
  BY <1>4 DEF IInv, ShownAgrees, AskedOnDisk, WithinBudget
<1>6. \A b \in CallId : ExpertsOf(mem.calls[b]) \intersect E = {}
  BY <1>3, EntryFields DEF Good, Shape, WithinBudget
<1>7. c \notin told /\ c \notin mem.records
  BY <1>3 DEF Good, ToldIn, Seen
<1>8. x.records \subseteq Seen(x) /\ mem.records \subseteq CallId /\ told \subseteq CallId
  BY <1>1, <1>2, <1>3 DEF Good, Seen, IInv, TypeOK
<1>9. \A b \in x.records : \A e \in ExpertsOf(x.calls[b]) :
         shown[e] \in Terminal => x.calls[b].child[e] = shown[e]
  <2> SUFFICES ASSUME NEW b \in x.records, NEW e \in ExpertsOf(x.calls[b]), shown[e] \in Terminal
               PROVE  x.calls[b].child[e] = shown[e]
    OBVIOUS
  <2>1. b # c
    BY <1>1, <1>5, NewEntryFields, States
  <2>2. b \in CallId /\ b \in mem.records
    BY <1>1, <1>8, <2>1
  <2> QED
    BY <1>1, <1>3, <2>1, <2>2 DEF Good
<1>10. SettledFinished(x)
  BY <1>1, <1>3, NewEntryFields DEF Good, SettledFinished
<1>11. /\ \A b \in CallId : ~x.calls[b].settled => b \in x.records
       /\ \A b \in told : ToldIn(x.calls[b])
  BY <1>1, <1>3, <1>7, <1>8 DEF Good
<1>12. told \intersect x.records = {} /\ mem.used \subseteq x.used /\ disk.used \subseteq x.used
  BY <1>1, <1>3, <1>4, <1>7 DEF Good
<1>13. Good(x)
  BY <1>1, <1>2, <1>8, <1>9, <1>10, <1>11, <1>12 DEF Good
<1> QED
  BY <1>5, <1>6, <1>7, <1>13 DEF x


LEMMA BeginSaves ==
    ASSUME IInv, NEW c \in CallId, NEW E \in SUBSET Expert, source \in Source, phase = "running", ~mem.failed,
           c \notin Seen(mem), E # {}, WithinBudget(E),
           Save([Begun(c, E) EXCEPT !.live = @ \union {c}], TRUE),
           pc' = [pc EXCEPT ![c] = "gather"],
           job' = [e \in Expert |-> IF e \in E THEN "new" ELSE job[e]],
           UNCHANGED <<callCancel, jobCancel, shown>>, UNCHANGED <<runtime, source, asked, told>>
    PROVE  IInv'
<1> DEFINE x == Begun(c, E)
<1>1. /\ x \in Memory /\ x.turn = mem.turn /\ x.used = mem.used \union E /\ x.live = mem.live
      /\ x.records = mem.records \union {c} /\ x.failed = mem.failed
      /\ x.calls[c] = NewEntry(E) /\ \A b \in CallId : b # c => x.calls[b] = mem.calls[b]
  BY BegunFields
<1>2. /\ Good(x) /\ c \notin told /\ c \notin mem.records
      /\ \A e \in E : shown[e] = "none" /\ asked[e] = 0
      /\ \A b \in CallId : ExpertsOf(mem.calls[b]) \intersect E = {}
  BY BegunGood
<1>3. mem' = [x EXCEPT !.live = x.live \union {c}] /\ disk' = Checkpoint(mem') /\ env' = env
  BY DEF Save
<1> HIDE DEF x
<1>4. /\ mem' \in Memory /\ mem'.turn = x.turn /\ mem'.used = x.used /\ mem'.calls = x.calls
      /\ mem'.live = mem.live \union {c} /\ mem'.records = x.records /\ mem'.failed = x.failed
  <2>1. x.live \union {c} \in SUBSET CallId
    BY <1>1, MemoryFields
  <2> QED
    BY <1>1, <1>3, <2>1, WithLive
<1>5. UNCHANGED <<shown, callCancel, jobCancel, phase, active, turn, source, asked, told>>
  BY DEF runtime
<1>6. disk' \in Checkpoints /\ mem.live \subseteq CallId /\ mem.records \subseteq CallId /\ told \subseteq CallId
  BY <1>3, <1>4, MemoryFields DEF IInv, TypeOK
<1>7. /\ pc' \in [CallId -> {"idle", "gather", "leave", "void", "unwind"}]
      /\ job' \in [Expert -> {"none", "new", "run", "ended", "raised", "cancelled"}]
      /\ Pending' = Pending \union {c} /\ Unfinished \subseteq Unfinished'
      /\ \A b \in mem'.live : pc'[b] = "gather"
  BY <1>4, <1>6 DEF IInv, TypeOK, Pending, Unfinished
<1>8. TypeOK'
  BY <1>1, <1>3, <1>4, <1>5, <1>6, <1>7 DEF IInv, TypeOK
<1>9. ASSUME NEW b \in mem.live
      PROVE  /\ b # c /\ mem'.calls[b] = mem.calls[b]
             /\ \A e \in ExpertsOf(mem.calls[b]) : e \in Expert /\ job'[e] = job[e]
  <2>1. b # c /\ b \in CallId
    BY <1>2, <1>6, <1>9, CallsRun DEF IInv, TypeOK
  <2> QED
    BY <1>1, <1>2, <1>4, <2>1 DEF ExpertsOf
<1>10. LiveCalls'
  <2>1. ASSUME NEW e \in ExpertsOf(mem'.calls[c])
        PROVE  /\ job'[e] = "new" /\ mem'.calls[c].child[e] = "waiting" /\ shown'[e] \notin Terminal
    BY <1>1, <1>2, <1>4, <1>5, <2>1, NewEntryFields, States
  <2>2. ~mem'.calls[c].settled
    BY <1>1, <1>4, NewEntryFields
  <2>3. ASSUME NEW b \in mem.live
        PROVE  /\ ~mem'.calls[b].settled
               /\ \A e \in ExpertsOf(mem'.calls[b]) :
                    /\ job'[e] # "none"
                    /\ job'[e] = "new" => mem'.calls[b].child[e] = "waiting"
                    /\ job'[e] = "run" => mem'.calls[b].child[e] = "running"
                    /\ job'[e] = "ended" => mem'.calls[b].child[e] \in Terminal
                    /\ shown'[e] \notin Terminal
    BY <1>5, <1>9, <2>3 DEF IInv, LiveCalls
  <2> SUFFICES ASSUME NEW b \in mem.live \union {c}
               PROVE  /\ ~mem'.calls[b].settled
                      /\ \A e \in ExpertsOf(mem'.calls[b]) :
                           /\ job'[e] # "none"
                           /\ job'[e] = "new" => mem'.calls[b].child[e] = "waiting"
                           /\ job'[e] = "run" => mem'.calls[b].child[e] = "running"
                           /\ job'[e] = "ended" => mem'.calls[b].child[e] \in Terminal
                           /\ shown'[e] \notin Terminal
    BY <1>1, <1>4, <1>5 DEF LiveCalls, ExpertsOf
  <2> QED
    BY <2>1, <2>2, <2>3
<1>11. NewJobs'
  <2> SUFFICES ASSUME NEW e \in Expert, job'[e] = "new"
               PROVE  /\ asked[e] = 0
                      /\ e \in jobCancel \/ \E b \in mem'.live : e \in ExpertsOf(mem'.calls[b])
    BY <1>5 DEF NewJobs, ExpertsOf
  <2>1. CASE e \in E
    BY <1>1, <1>2, <1>4, <2>1, NewEntryFields
  <2>2. CASE e \notin E
    BY <1>4, <1>9, <2>2 DEF IInv, NewJobs
  <2> QED
    BY <2>1, <2>2
<1>12. ShownAgrees'
  <2>1. \A b \in mem'.records : \A e \in ExpertsOf(mem'.calls[b]) :
           shown'[e] \in Terminal => mem'.calls[b].child[e] = shown'[e]
    BY <1>2, <1>4, <1>5 DEF Good
  <2>2. phase = "running" => \A e \in Expert : shown'[e] # "none" => e \in mem'.used
    BY <1>1, <1>4, <1>5 DEF IInv, ShownAgrees
  <2> QED
    BY <1>5, <2>1, <2>2 DEF ShownAgrees, ExpertsOf
<1>13. \A b \in told' : ToldIn(x.calls[b]) /\ b \notin mem'.records
  BY <1>2, <1>4, <1>5 DEF Good
<1>14. \A b \in CallId : ~x.calls[b].settled => b \in mem'.records
  BY <1>2, <1>4 DEF Good
<1>15. \A b \in mem'.records \ mem'.live : Finished(x.calls[b])
  BY <1>1, <1>4, <1>6 DEF IInv, Unfailed
<1>16. \A e \in Expert : asked'[e] \in {0, 1} /\ (asked'[e] = 1 => asked[e] = 1 \/ e \in x.used)
  BY <1>5 DEF IInv, AskedOnDisk
<1> QED
  BY <1>1, <1>2, <1>3, <1>4, <1>5, <1>8, <1>10, <1>11, <1>12, <1>13, <1>14, <1>15, <1>16, SavedStep

LEMMA CallBeginStep ==
    ASSUME IInv, NEW c \in CallId, NEW E \in SUBSET Expert, CallBegin(c, E)
    PROVE  IInv'
<1> DEFINE x == Begun(c, E)
<1>1. /\ phase = "running" /\ ~mem.failed /\ source \in Source /\ c \notin Seen(mem)
      /\ E # {} /\ WithinBudget(E) /\ UNCHANGED <<runtime, source, asked, told>>
  BY DEF CallBegin, Available, IInv, TypeOK
<1>2. \/ /\ TRUE \in SaveOutcomes
         /\ Save([x EXCEPT !.live = @ \union {c}], TRUE)
         /\ pc' = [pc EXCEPT ![c] = "gather"]
         /\ job' = [e \in Expert |-> IF e \in E THEN "new" ELSE job[e]]
         /\ UNCHANGED <<callCancel, jobCancel, shown>>
      \/ /\ FALSE \in SaveOutcomes
         /\ SaveFails(x, [Settle(x) EXCEPT !.records = @ \ {c}])
         /\ Show(Settle(x), x.records)
         /\ callCancel' = callCancel \union Pending
         /\ jobCancel' = jobCancel \union Unfinished
         /\ UNCHANGED <<pc, job>>
  BY DEF CallBegin, Begun, NewEntry
<1>3. CASE /\ Save([x EXCEPT !.live = @ \union {c}], TRUE)
           /\ pc' = [pc EXCEPT ![c] = "gather"]
           /\ job' = [e \in Expert |-> IF e \in E THEN "new" ELSE job[e]]
           /\ UNCHANGED <<callCancel, jobCancel, shown>>
  BY <1>1, <1>3, BeginSaves
<1>4. CASE /\ SaveFails(x, [Settle(x) EXCEPT !.records = @ \ {c}])
           /\ Show(Settle(x), x.records)
           /\ callCancel' = callCancel \union Pending
           /\ jobCancel' = jobCancel \union Unfinished
           /\ UNCHANGED <<pc, job>>
  <2>1. Good(x) /\ c \notin mem.records
    BY <1>1, BegunGood
  <2>2. x.turn = mem.turn /\ x.records = mem.records \union {c}
    BY <1>1, BegunFields
  <2> HIDE DEF x
  <2>3. /\ pc' \in [CallId -> {"idle", "gather", "leave", "void", "unwind"}]
        /\ x.records \ {c} = Pending' /\ callCancel' \subseteq Pending'
    BY <1>4, <2>1, <2>2 DEF IInv, TypeOK, Pending
  <2> QED
    BY <1>1, <1>4, <2>1, <2>2, <2>3, CallFails
<1> QED
  BY <1>2, <1>3, <1>4


-----------------------------------------------------------------------------
(* Jobs *)

\* The entry of a live call with the state of one child replaced.
LEMMA ChildEntry ==
    ASSUME IInv, NEW c \in mem.live, NEW e \in ExpertsOf(mem.calls[c]), NEW st \in {"running"} \union Terminal
    PROVE  \E n \in Entry :
             /\ WithChild(c, e, st) = Replaced(c, n)
             /\ ExpertsOf(n) = ExpertsOf(mem.calls[c]) /\ ~n.settled
             /\ n.child[e] = st /\ \A d \in Expert : d # e => n.child[d] = mem.calls[c].child[d]
<1>1. /\ c \in CallId /\ mem \in Memory /\ mem.calls[c] \in Entry /\ mem.calls \in [CallId -> Entry]
      /\ e \in Expert /\ mem.calls[c].child \in [Expert -> ChildState]
  BY MemoryFields, EntryFields DEF IInv, TypeOK
<1>2. ~mem.calls[c].settled
  BY DEF IInv, LiveCalls
<1> DEFINE f == [mem.calls[c].child EXCEPT ![e] = st]
           n == [mem.calls[c] EXCEPT !.child = f]
<1>3. f \in [Expert -> ChildState] /\ f[e] = st /\ \A d \in Expert : d # e => f[d] = mem.calls[c].child[d]
  BY <1>1, States
<1>4. WithChild(c, e, st) = Replaced(c, n)
  BY <1>1 DEF WithChild, Replaced, Memory, Entry
<1> HIDE DEF f
<1>5. n \in Entry /\ n.child = f /\ n.settled = mem.calls[c].settled
  BY <1>1, <1>3, ChildrenReplaced
<1> HIDE DEF n
<1>6. ExpertsOf(n) = ExpertsOf(mem.calls[c])
  BY <1>1, <1>3, <1>5, States DEF ExpertsOf
<1> QED
  BY <1>2, <1>3, <1>4, <1>5, <1>6

\* What a job makes of the memory.
LEMMA ChildGood ==
    ASSUME IInv, NEW c \in mem.live, NEW e \in ExpertsOf(mem.calls[c]), NEW st \in {"running"} \union Terminal
    PROVE  LET x == WithChild(c, e, st) IN
           /\ c \in CallId /\ c \in mem.records /\ e \in Expert /\ phase = "running" /\ ~mem.failed /\ turn = mem.turn
           /\ Good(x) /\ x \in Memory /\ x.records = mem.records /\ x.turn = mem.turn /\ x.used = mem.used
           /\ x.live = mem.live /\ x.failed = mem.failed
           /\ \A b \in CallId : b # c => x.calls[b] = mem.calls[b]
           /\ ExpertsOf(x.calls[c]) = ExpertsOf(mem.calls[c]) /\ ~x.calls[c].settled
           /\ x.calls[c].child[e] = st
           /\ \A d \in Expert : d # e => x.calls[c].child[d] = mem.calls[c].child[d]
<1>1. c \in CallId /\ c \in mem.records /\ mem.calls[c] \in Entry
  BY CallsRun, MemoryFields DEF IInv, TypeOK
<1>2. /\ phase = "running" /\ ~mem.failed /\ turn = mem.turn /\ e \in Expert
  BY <1>1, EntryFields DEF IInv, LiveCalls, Turns
<1>3. PICK n \in Entry :
             /\ WithChild(c, e, st) = Replaced(c, n)
             /\ ExpertsOf(n) = ExpertsOf(mem.calls[c]) /\ ~n.settled
             /\ n.child[e] = st /\ \A d \in Expert : d # e => n.child[d] = mem.calls[c].child[d]
  BY ChildEntry
<1>4. \A d \in ExpertsOf(n) : shown[d] \notin Terminal
  BY <1>3 DEF IInv, LiveCalls
<1>5. Good(Replaced(c, n))
  BY <1>1, <1>2, <1>3, <1>4, ReplacedGood
<1> QED
  BY <1>1, <1>2, <1>3, <1>5, ReplacedFields DEF IInv

\* A job saves that it starts or how it ends.
LEMMA JobSaves ==
    ASSUME IInv, NEW c \in mem.live, NEW e \in ExpertsOf(mem.calls[c]), NEW st \in {"running"} \union Terminal,
           Save(WithChild(c, e, st), TRUE),
           job' = [job EXCEPT ![e] = IF st = "running" THEN "run" ELSE "ended"], jobCancel' = jobCancel \ {e},
           shown' \in {shown, [shown EXCEPT ![e] = "running"]},
           asked' = asked \/ (asked[e] = 0 /\ asked' = [asked EXCEPT ![e] = @ + 1]),
           UNCHANGED <<pc, callCancel, runtime, source, told>>
    PROVE  IInv'
<1> DEFINE x == WithChild(c, e, st)
<1>1. /\ c \in CallId /\ c \in mem.records /\ e \in Expert /\ phase = "running" /\ ~mem.failed /\ turn = mem.turn
      /\ Good(x) /\ x \in Memory /\ x.records = mem.records /\ x.turn = mem.turn /\ x.used = mem.used
      /\ x.live = mem.live /\ x.failed = mem.failed
      /\ \A b \in CallId : b # c => x.calls[b] = mem.calls[b]
      /\ ExpertsOf(x.calls[c]) = ExpertsOf(mem.calls[c]) /\ ~x.calls[c].settled
      /\ x.calls[c].child[e] = st
      /\ \A d \in Expert : d # e => x.calls[c].child[d] = mem.calls[c].child[d]
  BY ChildGood
<1>2. mem' = x /\ disk' = Checkpoint(mem') /\ env' = env
  BY DEF Save
<1> HIDE DEF x
<1>3. /\ UNCHANGED <<pc, callCancel, phase, active, turn, source, told>>
      /\ \A d \in Expert : d # e => job'[d] = job[d] /\ shown'[d] = shown[d] /\ asked'[d] = asked[d]
      /\ job'[e] = (IF st = "running" THEN "run" ELSE "ended") /\ shown'[e] \in {shown[e], "running"}
      /\ job' \in [Expert -> {"none", "new", "run", "ended", "raised", "cancelled"}]
      /\ shown' \in [Expert -> ChildState]
  BY <1>1, States DEF runtime, IInv, TypeOK
<1>4. /\ asked' \in [Expert -> Nat] /\ asked'[e] \in {asked[e], 1}
  BY <1>1 DEF IInv, TypeOK
<1>5. disk' \in Checkpoints /\ mem.live \subseteq CallId /\ mem.records \subseteq CallId /\ told \subseteq CallId
  BY <1>1, <1>2, MemoryFields DEF IInv, TypeOK
<1>6. Pending' = Pending /\ jobCancel' \subseteq Unfinished'
  BY <1>3 DEF IInv, TypeOK, Pending, Unfinished
<1>7. TypeOK'
  BY <1>1, <1>2, <1>3, <1>4, <1>5, <1>6 DEF IInv, TypeOK
<1>8. \A b \in mem.records : b # c => \A d \in ExpertsOf(mem.calls[b]) : d \in Expert /\ d # e
  BY <1>1, <1>5, Apart DEF ExpertsOf
<1>9. mem.live \subseteq mem.records
  BY <1>5, CallsRun DEF IInv, TypeOK
<1>10. LiveCalls'
  <2> SUFFICES ASSUME NEW b \in mem.live
               PROVE  /\ ~mem'.calls[b].settled
                      /\ \A d \in ExpertsOf(mem'.calls[b]) :
                           /\ job'[d] # "none"
                           /\ job'[d] = "new" => mem'.calls[b].child[d] = "waiting"
                           /\ job'[d] = "run" => mem'.calls[b].child[d] = "running"
                           /\ job'[d] = "ended" => mem'.calls[b].child[d] \in Terminal
                           /\ shown'[d] \notin Terminal
    BY <1>1, <1>2, <1>3 DEF LiveCalls, ExpertsOf
  <2>1. CASE b # c
    <3>1. mem'.calls[b] = mem.calls[b] /\ \A d \in ExpertsOf(mem.calls[b]) : d \in Expert /\ d # e
      BY <1>1, <1>2, <1>5, <1>8, <1>9, <2>1
    <3> QED
      BY <1>3, <3>1 DEF IInv, LiveCalls
  <2>2. CASE b = c
    <3> SUFFICES ASSUME NEW d \in ExpertsOf(mem.calls[c])
                 PROVE  /\ job'[d] # "none"
                        /\ job'[d] = "new" => x.calls[c].child[d] = "waiting"
                        /\ job'[d] = "run" => x.calls[c].child[d] = "running"
                        /\ job'[d] = "ended" => x.calls[c].child[d] \in Terminal
                        /\ shown'[d] \notin Terminal
      BY <1>1, <1>2, <2>2
    <3>1. d \in Expert
      BY DEF ExpertsOf
    <3>2. CASE d = e
      BY <1>1, <1>3, <3>2, States DEF IInv, LiveCalls
    <3>3. CASE d # e
      BY <1>1, <1>3, <3>1, <3>3 DEF IInv, LiveCalls
    <3> QED
      BY <3>2, <3>3
  <2> QED
    BY <2>1, <2>2
<1>11. NewJobs'
  <2> SUFFICES ASSUME NEW d \in Expert, job'[d] = "new"
               PROVE  /\ asked'[d] = 0
                      /\ d \in jobCancel' \/ \E b \in mem'.live : d \in ExpertsOf(mem'.calls[b])
    BY DEF NewJobs, ExpertsOf
  <2>1. d # e /\ job[d] = "new" /\ asked'[d] = asked[d]
    BY <1>3
  <2>2. ASSUME NEW b \in mem.live PROVE ExpertsOf(mem'.calls[b]) = ExpertsOf(mem.calls[b])
    BY <1>1, <1>2, <1>5
  <2> QED
    BY <1>1, <1>2, <2>1, <2>2 DEF IInv, NewJobs
<1>12. ShownAgrees'
  <2>1. ASSUME NEW b \in mem.records, NEW d \in ExpertsOf(mem'.calls[b]), shown'[d] \in Terminal
        PROVE  mem'.calls[b].child[d] = shown'[d]
    <3>1. b # c
      BY <1>1, <1>3, <1>10, <2>1, <1>2 DEF LiveCalls, ExpertsOf
    <3>2. mem'.calls[b] = mem.calls[b] /\ d \in Expert /\ d # e
      BY <1>1, <1>2, <1>5, <1>8, <2>1, <3>1
    <3> QED
      BY <1>3, <2>1, <3>2 DEF IInv, ShownAgrees
  <2>2. ASSUME NEW d \in Expert, shown'[d] # "none"
        PROVE  d \in mem'.used
    <3>1. e \in mem.used
      BY <1>1 DEF IInv, MemoryShape, Shape
    <3> QED
      BY <1>1, <1>2, <1>3, <2>2, <3>1 DEF IInv, ShownAgrees
  <2> QED
    BY <1>1, <1>2, <2>1, <2>2 DEF ShownAgrees, ExpertsOf
<1>13. \A b \in told' : ToldIn(x.calls[b]) /\ b \notin mem'.records
  BY <1>1, <1>2, <1>3 DEF Good
<1>14. \A b \in CallId : ~x.calls[b].settled => b \in mem'.records
  BY <1>1, <1>2 DEF Good
<1>15. \A b \in mem'.records \ mem'.live : Finished(x.calls[b])
  BY <1>1, <1>2, <1>5 DEF IInv, Unfailed
<1>16. \A d \in Expert : asked'[d] \in {0, 1} /\ (asked'[d] = 1 => asked[d] = 1 \/ d \in x.used)
  <2>1. e \in x.used
    BY <1>1 DEF IInv, MemoryShape, Shape
  <2> QED
    BY <1>3, <1>4, <2>1 DEF IInv, AskedOnDisk
<1> QED
  BY <1>1, <1>2, <1>3, <1>7, <1>10, <1>11, <1>12, <1>13, <1>14, <1>15, <1>16, SavedStep


\* A job whose save fails raises and takes the others with it.
LEMMA JobFails ==
    ASSUME IInv, NEW c \in mem.live, NEW e \in ExpertsOf(mem.calls[c]), NEW st \in {"running"} \union Terminal,
           JobRaises(e, WithChild(c, e, st)),
           UNCHANGED <<pc, callCancel, runtime, source, observed>>
    PROVE  IInv'
<1> DEFINE x == WithChild(c, e, st)
<1>1. /\ e \in Expert /\ phase = "running" /\ ~mem.failed /\ turn = mem.turn
      /\ Good(x) /\ x \in Memory /\ x.records = mem.records /\ x.turn = mem.turn /\ x.used = mem.used
  BY ChildGood
<1>2. /\ mem' = Broken(x) /\ disk' \in {disk, Checkpoint(x)} /\ env' = [env EXCEPT !.faults = @ + 1]
      /\ job' = [job EXCEPT ![e] = "raised"] /\ jobCancel' = (jobCancel \union Unfinished) \ {e}
  BY <1>1 DEF JobRaises, Save, SaveFails
<1> HIDE DEF x
<1>3. /\ mem' \in Memory /\ mem'.turn = x.turn /\ mem'.used = x.used /\ mem'.calls = x.calls
      /\ mem'.records = x.records /\ mem'.live = {} /\ mem'.failed
  BY <1>1, <1>2, BrokenFields
<1>4. UNCHANGED <<pc, callCancel, phase, active, turn, source, shown, asked, told>>
  BY DEF runtime, observed
<1>5. /\ job' \in [Expert -> {"none", "new", "run", "ended", "raised", "cancelled"}]
      /\ Pending' = Pending /\ jobCancel' \subseteq Unfinished'
      /\ \A d \in Expert : job'[d] = "new" => job[d] = "new" /\ d \in jobCancel'
  BY <1>1, <1>2, <1>4 DEF IInv, TypeOK, Pending, Unfinished
<1>6. /\ Checkpoint(x) \in Checkpoints /\ Checkpoint(x).used = x.used /\ Checkpoint(x).turn = x.turn
      /\ Checkpoint(x).calls = x.calls
  BY <1>1, MemoryFields
<1>7. TypeOK'
  BY <1>1, <1>2, <1>3, <1>4, <1>5, <1>6 DEF IInv, TypeOK
<1>8. /\ Shape(mem') /\ Seen(mem') = Seen(x) /\ told \subseteq CallId
      /\ Shape(Checkpoint(x)) /\ SettledFinished(Checkpoint(x))
      /\ \A b \in told : ToldIn(Checkpoint(x).calls[b])
  <2>1. From(mem', x) /\ From(Checkpoint(x), x) /\ told \subseteq CallId
    BY <1>3, <1>6 DEF From, IInv, TypeOK
  <2> QED
    BY <1>1, <2>1, FromGood
<1>9. MemoryShape'
  BY <1>1, <1>3, <1>8 DEF Good, MemoryShape, Shape, Seen, ExpertsOf
<1>10. DiskShape'
  <2>1. Shape(disk') /\ SettledFinished(disk') /\ \A b \in told : ToldIn(disk'.calls[b])
    BY <1>2, <1>8 DEF IInv, DiskShape
  <2>2. \A b \in told' : b \notin mem'.records
    BY <1>1, <1>3, <1>4 DEF Good
  <2> QED
    BY <1>4, <2>1, <2>2 DEF DiskShape, Shape, SettledFinished, Finished, Seen, ExpertsOf, ToldIn
<1>11. Synced' /\ Turns' /\ LiveCalls' /\ Unfailed'
  BY <1>1, <1>3, <1>4 DEF IInv, Synced, Turns, LiveCalls, Unfailed
<1>12. NewJobs'
  BY <1>4, <1>5 DEF IInv, NewJobs
<1>13. AskedOnDisk'
  <2>1. disk.used \subseteq disk'.used
    BY <1>1, <1>2, <1>6 DEF Good
  <2> QED
    BY <1>4, <2>1 DEF IInv, AskedOnDisk
<1>14. ShownAgrees'
  BY <1>1, <1>3, <1>4 DEF Good, ShownAgrees, ExpertsOf
<1> QED
  BY <1>7, <1>9, <1>10, <1>11, <1>12, <1>13, <1>14 DEF IInv

\* The call of an expert is the one that asked for it.
LEMMA CallOfExpert ==
    ASSUME IInv, NEW c \in CallId, NEW e \in ExpertsOf(mem.calls[c])
    PROVE  CallOf(e) = c
<1>1. \A b \in CallId : e \in ExpertsOf(mem.calls[b]) => b = c
  BY Apart
<1> QED
  BY <1>1 DEF CallOf

LEMMA JobStartStep ==
    ASSUME IInv, NEW e \in Expert, JobStart(e)
    PROVE  IInv'
<1>1. /\ job[e] = "new" /\ e \notin jobCancel /\ UNCHANGED <<pc, callCancel, runtime, source, told>>
  BY DEF JobStart
<1>2. PICK c \in mem.live : e \in ExpertsOf(mem.calls[c])
  BY <1>1 DEF IInv, NewJobs
<1>3. CallOf(e) = c /\ "running" \in {"running"} \union Terminal
  BY <1>2, CallOfExpert, MemoryFields DEF IInv, TypeOK
<1> DEFINE m == WithChild(c, e, "running")
<1>4. m.turn = turn /\ asked[e] = 0
  BY <1>1, <1>2, <1>3, ChildGood DEF IInv, NewJobs
<1>5. PICK ok \in SaveOutcomes :
        IF ok
        THEN /\ Save(m, TRUE)
             /\ shown' = [shown EXCEPT ![e] = "running"]
             /\ job' = [job EXCEPT ![e] = IF m.turn = turn THEN "run" ELSE "ended"]
             /\ asked' = IF m.turn = turn THEN [asked EXCEPT ![e] = @ + 1] ELSE asked
             /\ UNCHANGED jobCancel
        ELSE JobRaises(e, m) /\ UNCHANGED <<shown, asked>>
  BY <1>3 DEF JobStart
<1> HIDE DEF m
<1>6. ok \in BOOLEAN
  BY DEF SaveOutcomes
<1>7. CASE ok = TRUE
  <2>1. /\ Save(m, TRUE) /\ shown' \in {shown, [shown EXCEPT ![e] = "running"]}
        /\ job' = [job EXCEPT ![e] = "run"] /\ asked' = [asked EXCEPT ![e] = @ + 1]
        /\ jobCancel' = jobCancel \ {e}
    BY <1>1, <1>4, <1>5, <1>7
  <2> QED
    BY <1>1, <1>2, <1>3, <1>4, <2>1, JobSaves DEF m
<1>8. CASE ok = FALSE
  <2>1. JobRaises(e, m) /\ UNCHANGED <<pc, callCancel, runtime, source, observed>>
    BY <1>1, <1>5, <1>8 DEF observed
  <2> QED
    BY <1>2, <1>3, <2>1, JobFails DEF m
<1> QED
  BY <1>6, <1>7, <1>8

\* A job that ends without a result that counts, or is cancelled.
LEMMA JobLeaves ==
    ASSUME IInv, NEW e \in Expert, NEW j \in {"ended", "cancelled"}, job' = [job EXCEPT ![e] = j],
           jobCancel' = jobCancel \ {e},
           UNCHANGED <<mem, disk, env, pc, callCancel, runtime, source, observed>>,
           j = "ended" => \A c \in mem.live : e \notin ExpertsOf(mem.calls[c])
    PROVE  IInv'
<1>1. UNCHANGED <<mem, disk, env, pc, callCancel, phase, active, turn, source, shown, asked, told>>
  BY DEF runtime, observed
<1>2. /\ job' \in [Expert -> {"none", "new", "run", "ended", "raised", "cancelled"}]
      /\ Pending' = Pending /\ jobCancel' \subseteq Unfinished'
      /\ job'[e] = j /\ \A d \in Expert : d # e => job'[d] = job[d]
  BY <1>1 DEF IInv, TypeOK, Pending, Unfinished
<1>3. TypeOK'
  BY <1>1, <1>2 DEF IInv, TypeOK
<1>4. LiveCalls'
  <2> SUFFICES ASSUME NEW c \in mem.live, NEW d \in ExpertsOf(mem.calls[c])
               PROVE  /\ job'[d] # "none"
                      /\ job'[d] = "new" => mem.calls[c].child[d] = "waiting"
                      /\ job'[d] = "run" => mem.calls[c].child[d] = "running"
                      /\ job'[d] = "ended" => mem.calls[c].child[d] \in Terminal
    BY <1>1 DEF IInv, LiveCalls, ExpertsOf
  <2>1. d \in Expert
    BY DEF ExpertsOf
  <2> QED
    BY <1>2, <2>1 DEF IInv, LiveCalls
<1>5. NewJobs'
  BY <1>1, <1>2 DEF IInv, NewJobs, ExpertsOf
<1> QED
  BY <1>1, <1>3, <1>4, <1>5, QuietStep

LEMMA JobEndStep ==
    ASSUME IInv, NEW e \in Expert, NEW good \in BOOLEAN, JobEnd(e, good)
    PROVE  IInv'
<1> DEFINE c == CallOf(e)
           st == IF good /\ Unchanged(c) THEN "completed" ELSE "failed"
           m == WithChild(c, e, st)
<1>1. job[e] = "run" /\ UNCHANGED <<pc, callCancel, runtime, source, observed>>
  BY DEF JobEnd
<1>2. st \in {"running"} \union Terminal /\ st # "running"
  BY States
<1>3. IF KeepsResult(c, e)
      THEN \E ok \in SaveOutcomes :
             IF ok THEN /\ Save(m, TRUE)
                        /\ job' = [job EXCEPT ![e] = "ended"]
                        /\ jobCancel' = jobCancel \ {e}
             ELSE JobRaises(e, m)
      ELSE /\ job' = [job EXCEPT ![e] = "ended"]
           /\ jobCancel' = jobCancel \ {e}
           /\ UNCHANGED <<mem, disk, env>>
  BY DEF JobEnd
<1> HIDE DEF st, c
<1>4. CASE KeepsResult(c, e)
  <2>1. c \in mem.live /\ e \in ExpertsOf(mem.calls[c])
    BY <1>4 DEF KeepsResult, ExpertsOf
  <2>2. PICK ok \in SaveOutcomes :
             IF ok THEN /\ Save(m, TRUE)
                        /\ job' = [job EXCEPT ![e] = "ended"]
                        /\ jobCancel' = jobCancel \ {e}
             ELSE JobRaises(e, m)
    BY <1>3, <1>4
  <2>3. ok \in BOOLEAN
    BY DEF SaveOutcomes
  <2>4. CASE ok = TRUE
    <3>1. /\ job' = [job EXCEPT ![e] = IF st = "running" THEN "run" ELSE "ended"]
          /\ Save(m, TRUE) /\ jobCancel' = jobCancel \ {e}
      BY <1>2, <2>2, <2>4
    <3>2. shown' = shown /\ asked' = asked /\ UNCHANGED <<pc, callCancel, runtime, source, told>>
      BY <1>1 DEF observed
    <3> QED
      BY <1>2, <2>1, <3>1, <3>2, JobSaves
  <2>5. CASE ok = FALSE
    BY <1>1, <1>2, <2>1, <2>2, <2>5, JobFails
  <2> QED
    BY <2>3, <2>4, <2>5
<1>5. CASE ~KeepsResult(c, e)
  <2>1. ASSUME NEW b \in mem.live, e \in ExpertsOf(mem.calls[b]) PROVE FALSE
    <3>1. CallOf(e) = b
      BY <2>1, CallOfExpert, MemoryFields DEF IInv, TypeOK
    <3>2. mem.calls[b].child[e] = "running" /\ mem.turn = turn
      BY <1>1, <2>1 DEF IInv, LiveCalls, Turns
    <3> QED
      BY <1>5, <2>1, <3>1, <3>2 DEF KeepsResult, c
  <2>2. /\ job' = [job EXCEPT ![e] = "ended"] /\ jobCancel' = jobCancel \ {e}
        /\ UNCHANGED <<mem, disk, env, pc, callCancel, runtime, source, observed>>
    BY <1>1, <1>3, <1>5
  <2> QED
    BY <2>1, <2>2, JobLeaves
<1> QED
  BY <1>4, <1>5

LEMMA JobCancelledStep ==
    ASSUME IInv, NEW e \in Expert, JobCancelled(e)
    PROVE  IInv'
<1>1. /\ job' = [job EXCEPT ![e] = "cancelled"] /\ jobCancel' = jobCancel \ {e}
      /\ UNCHANGED <<mem, disk, env, pc, callCancel, runtime, source, observed>>
  BY DEF JobCancelled
<1> QED
  BY <1>1, JobLeaves


-----------------------------------------------------------------------------
(* The runtime *)

LEMMA ChangeSourceStep ==
    ASSUME IInv, NEW s \in Source \union {NoTask}, ChangeSource(s)
    PROVE  IInv'
<1>1. /\ UNCHANGED <<mem, disk, pc, job, callCancel, jobCancel, phase, active, turn, shown, asked, told>>
      /\ source' = s /\ env' \in [changes : Nat, faults : Nat]
  BY DEF ChangeSource, tasks, runtime, IInv, TypeOK
<1>2. TypeOK' /\ LiveCalls' /\ NewJobs'
  BY <1>1 DEF IInv, TypeOK, Pending, Unfinished, LiveCalls, NewJobs, ExpertsOf
<1> QED
  BY <1>1, <1>2, QuietStep

\* The runtime turns from idle to draining or back.
LEMMA IdleStep ==
    ASSUME IInv, phase \in {"idle", "draining"}, phase' \in {"idle", "draining"},
           UNCHANGED <<mem, disk, tasks, active, turn, source, observed, env>>
    PROVE  IInv'
<1>1. UNCHANGED <<mem, disk, pc, job, callCancel, jobCancel, active, turn, source, shown, asked, told, env>>
  BY DEF tasks, observed
<1>2. TypeOK' /\ NewJobs'
  BY <1>1 DEF IInv, TypeOK, Pending, Unfinished, NewJobs, ExpertsOf
<1>3. mem'.live = {}
  BY <1>1 DEF IInv, LiveCalls
<1>4. LiveCalls'
  BY <1>3 DEF LiveCalls
<1> QED
  BY <1>1, <1>2, <1>4, QuietStep

\* A memory without calls, at the start of a process or of a turn.
LEMMA EmptyShape ==
    ASSUME NEW d, d.used = {}, d.calls = [c \in CallId |-> NoEntry]
    PROVE  Shape(d) /\ SettledFinished(d) /\ Seen(d) = {}
<1>1. Seen(d) = {}
  BY DEF Seen
<1>2. IsFiniteSet({}) /\ Cardinality({}) = 0
  BY FS_EmptySet
<1>3. \A c \in CallId : d.calls[c] = NoEntry /\ ExpertsOf(d.calls[c]) = {}
  BY NoEntryFields
<1> QED
  BY <1>1, <1>2, <1>3, NoEntryFields DEF Shape, SettledFinished, Budget

LEMMA NoMemoryFields ==
    /\ NoMemory \in Memory /\ NoMemory.used = {} /\ NoMemory.calls = [c \in CallId |-> NoEntry]
    /\ NoMemory.turn = 0 /\ NoMemory.live = {} /\ NoMemory.records = {} /\ NoMemory.revoked /\ ~NoMemory.failed
    /\ NoCheckpoint \in Checkpoints /\ NoCheckpoint.used = {}
    /\ NoCheckpoint.calls = [c \in CallId |-> NoEntry] /\ NoCheckpoint.turn = 0
  BY NoEntryFields DEF NoMemory, Memory, NoCheckpoint, Checkpoints

LEMMA DieStep ==
    ASSUME IInv, Die, env' \in [changes : Nat, faults : Nat]
    PROVE  IInv'
<1>1. /\ mem' = NoMemory /\ pc' = [c \in CallId |-> "idle"] /\ job' = [e \in Expert |-> "none"]
      /\ callCancel' = {} /\ jobCancel' = {} /\ phase' = "down" /\ active' = FALSE /\ turn' = 0
      /\ UNCHANGED <<disk, source, shown, asked, told>>
  BY DEF Die, observed
<1>2. TypeOK'
  <2>1. Pending' = {}
    BY <1>1 DEF Pending
  <2> QED
    BY <1>1, <2>1, NoMemoryFields DEF IInv, TypeOK
<1>3. MemoryShape'
  <2>1. Shape(mem') /\ mem'.records = {}
    BY <1>1, EmptyShape, NoMemoryFields
  <2> QED
    BY <2>1 DEF MemoryShape, Shape, Seen, ExpertsOf
<1>4. DiskShape'
  BY <1>1, NoMemoryFields DEF IInv, DiskShape, Shape, SettledFinished, Finished, Seen, ExpertsOf, ToldIn
<1>5. Synced' /\ Turns'
  BY <1>1 DEF Synced, Turns, NoMemory, NoEntry
<1>6. LiveCalls' /\ NewJobs'
  BY <1>1, NoMemoryFields DEF LiveCalls, NewJobs
<1>7. Unfailed'
  <2>1. SettledFinished(mem') /\ mem'.records = {} /\ \A c \in CallId : mem'.calls[c].settled
    BY <1>1, EmptyShape, NoMemoryFields, NoEntryFields
  <2> QED
    BY <2>1 DEF Unfailed, SettledFinished, Finished, ExpertsOf
<1>8. AskedOnDisk' /\ ShownAgrees'
  BY <1>1, NoMemoryFields DEF IInv, AskedOnDisk, ShownAgrees
<1> QED
  BY <1>2, <1>3, <1>4, <1>5, <1>6, <1>7, <1>8 DEF IInv

LEMMA CrashStep ==
    ASSUME IInv, Crash \/ Reopen
    PROVE  IInv'
<1>1. env' \in [changes : Nat, faults : Nat] /\ Die
  BY DEF Crash, Reopen, IInv, TypeOK
<1> QED
  BY <1>1, DieStep

LEMMA InitHolds ==
    ASSUME Init
    PROVE  IInv
<1>1. /\ mem = NoMemory /\ disk = NoCheckpoint /\ pc = [c \in CallId |-> "idle"]
      /\ job = [e \in Expert |-> "none"] /\ callCancel = {} /\ jobCancel = {}
      /\ phase = "down" /\ active = FALSE /\ turn = 0 /\ source \in Source
      /\ shown = [e \in Expert |-> "none"] /\ asked = [e \in Expert |-> 0] /\ told = {}
      /\ env = [changes |-> 0, faults |-> 0]
  BY ReviewAssumption DEF Init
<1>2. /\ Shape(mem) /\ SettledFinished(mem) /\ Shape(disk) /\ SettledFinished(disk)
  BY <1>1, EmptyShape, NoMemoryFields
<1>3. TypeOK
  <2>1. Pending = {}
    BY <1>1 DEF Pending
  <2> QED
    BY <1>1, <2>1, NoMemoryFields, States DEF TypeOK
<1>4. MemoryShape /\ DiskShape /\ Synced /\ Turns /\ LiveCalls /\ NewJobs /\ AskedOnDisk /\ ShownAgrees
  BY <1>1, <1>2, NoMemoryFields
     DEF MemoryShape, DiskShape, Synced, Turns, LiveCalls, NewJobs, AskedOnDisk, ShownAgrees
<1>5. Unfailed
  BY <1>1, <1>2, NoMemoryFields, NoEntryFields DEF Unfailed
<1> QED
  BY <1>3, <1>4, <1>5 DEF IInv


\* A turn is bound: the budget is fresh, nothing runs, was shown or asked.
Fresh(t) == [mem EXCEPT !.revoked = FALSE, !.turn = t, !.used = {}, !.calls = NoCheckpoint.calls]

LEMMA BindStep ==
    ASSUME IInv, phase = "idle", NEW t \in Turn, MayBegin(t), ~mem.failed,
           NEW ok \in BOOLEAN, Save(Fresh(t), ok),
           IF ok THEN phase' = "running" /\ active' = TRUE /\ turn' = t
           ELSE phase' = "draining" /\ UNCHANGED <<active, turn>>,
           shown' = [e \in Expert |-> "none"], asked' = [e \in Expert |-> 0], told' = {},
           UNCHANGED <<tasks, source>>
    PROVE  IInv'
<1> DEFINE m == Fresh(t)
<1>1. mem.records = {} /\ Unfinished = {} /\ mem \in Memory /\ turn = 0 /\ t # 0 /\ mem.live = {}
  BY DEF MayBegin, IInv, TypeOK, Turns, Turn, LiveCalls
<1>2. /\ m \in Memory /\ m.turn = t /\ m.used = {} /\ m.calls = [c \in CallId |-> NoEntry]
      /\ m.live = {} /\ m.records = {} /\ ~m.failed
  BY <1>1, NoMemoryFields DEF Fresh, Memory, Checkpoints
<1> HIDE DEF m
<1>3. /\ mem' \in Memory /\ mem'.turn = t /\ mem'.used = {} /\ mem'.calls = [c \in CallId |-> NoEntry]
      /\ mem'.live = {} /\ mem'.records = {} /\ (mem'.failed <=> ~ok)
      /\ disk' \in {disk, Checkpoint(m)} /\ (ok => mem' = m /\ disk' = Checkpoint(m))
      /\ env' \in [changes : Nat, faults : Nat]
  <2>1. CASE ok
    <3>1. mem' = m /\ disk' = Checkpoint(m) /\ env' = env
      BY <2>1 DEF Save, m
    <3> QED
      BY <1>2, <2>1, <3>1 DEF IInv, TypeOK
  <2>2. CASE ~ok
    <3>1. mem' = Broken(m) /\ disk' \in {disk, Checkpoint(m)} /\ env' = [env EXCEPT !.faults = @ + 1]
      BY <2>2 DEF Save, SaveFails, m
    <3>2. env' \in [changes : Nat, faults : Nat]
      BY <3>1 DEF IInv, TypeOK
    <3> QED
      BY <1>2, <2>2, <3>1, <3>2, BrokenFields
  <2> QED
    BY <2>1, <2>2
<1>4. UNCHANGED <<pc, job, callCancel, jobCancel, source>>
  BY DEF tasks
<1>5. /\ Checkpoint(m) \in Checkpoints /\ Checkpoint(m).used = {}
      /\ Checkpoint(m).calls = [c \in CallId |-> NoEntry]
  BY <1>2, MemoryFields
<1>6. /\ phase' \in {"running", "draining"} /\ (phase' = "running" <=> ok) /\ active' \in BOOLEAN
      /\ turn' = IF ok THEN t ELSE 0
  BY <1>1 DEF IInv, TypeOK
<1>7. TypeOK'
  <2>1. Pending' = Pending /\ Unfinished' = Unfinished
    BY <1>4 DEF Pending, Unfinished
  <2>2. disk' \in Checkpoints /\ turn' \in {0, mem'.turn} /\ shown' \in [Expert -> ChildState]
    BY <1>3, <1>5, <1>6, States DEF IInv, TypeOK
  <2>3. mem'.records = Pending' /\ asked' \in [Expert -> Nat] /\ told' \subseteq CallId
    BY <1>1, <1>3, <2>1 DEF IInv, TypeOK
  <2> QED
    BY <1>3, <1>4, <1>6, <2>1, <2>2, <2>3 DEF IInv, TypeOK
<1>8. MemoryShape'
  <2>1. Shape(mem')
    BY <1>3, EmptyShape
  <2> QED
    BY <1>3, <2>1 DEF MemoryShape, Shape, Seen, ExpertsOf
<1>9. DiskShape'
  <2>1. Shape(disk') /\ SettledFinished(disk')
    BY <1>3, <1>5, EmptyShape DEF IInv, DiskShape
  <2> QED
    BY <2>1 DEF DiskShape, Shape, SettledFinished, Finished, Seen, ExpertsOf
<1>10. Synced' /\ Turns'
  BY <1>1, <1>3, <1>6 DEF Synced, Turns, Checkpoint
<1>11. LiveCalls' /\ NewJobs'
  BY <1>1, <1>3, <1>4 DEF LiveCalls, NewJobs, Unfinished
<1>12. Unfailed'
  <2>1. SettledFinished(mem') /\ \A c \in CallId : mem'.calls[c].settled
    BY <1>3, EmptyShape, NoEntryFields
  <2> QED
    BY <1>3, <2>1 DEF Unfailed, SettledFinished, Finished, ExpertsOf
<1>13. AskedOnDisk' /\ ShownAgrees'
  BY <1>3 DEF AskedOnDisk, ShownAgrees
<1> QED
  BY <1>7, <1>8, <1>9, <1>10, <1>11, <1>12, <1>13 DEF IInv

LEMMA RunStep ==
    ASSUME IInv, NEW t \in Turn, Run(t)
    PROVE  IInv'
<1>1. PICK ok \in SaveOutcomes :
         IF MayBegin(t) /\ ~mem.failed
         THEN /\ Save(Fresh(t), ok)
              /\ IF ok THEN phase' = "running" /\ active' = TRUE /\ turn' = t
                 ELSE phase' = "draining" /\ UNCHANGED <<active, turn>>
              /\ shown' = [e \in Expert |-> IF t = mem.turn THEN shown[e] ELSE "none"]
              /\ asked' = [e \in Expert |-> IF t = mem.turn THEN asked[e] ELSE 0]
              /\ told' = IF t = mem.turn THEN told ELSE {}
         ELSE phase' = "draining" /\ UNCHANGED <<mem, disk, env, active, turn, observed>>
  BY DEF Run, Fresh
<1>2. phase = "idle" /\ UNCHANGED <<tasks, source>> /\ ok \in BOOLEAN
  BY DEF Run, SaveOutcomes
<1>3. CASE MayBegin(t) /\ ~mem.failed
  <2>1. t # mem.turn
    BY <1>3 DEF MayBegin
  <2>2. shown' = [e \in Expert |-> "none"] /\ asked' = [e \in Expert |-> 0] /\ told' = {}
    BY <1>1, <1>3, <2>1
  <2> QED
    BY <1>1, <1>2, <1>3, <2>2, BindStep
<1>4. CASE ~(MayBegin(t) /\ ~mem.failed)
  BY <1>1, <1>2, <1>4, IdleStep
<1> QED
  BY <1>3, <1>4

\* The memory restore builds from the checkpoint.
Restored == [NoMemory EXCEPT !.turn = disk.turn, !.used = disk.used, !.calls = RestoredCalls]

LEMMA RestoredFields ==
    ASSUME IInv
    PROVE  /\ Restored \in Memory /\ Restored.turn = disk.turn /\ Restored.used = disk.used
           /\ Restored.live = {} /\ Restored.records = {} /\ ~Restored.failed
           /\ \A c \in CallId : /\ disk.calls[c] \in Entry /\ Restored.calls[c] \in Entry
                                /\ Restored.calls[c].settled /\ Finished(Restored.calls[c])
                                /\ ExpertsOf(Restored.calls[c]) = ExpertsOf(disk.calls[c])
                                /\ disk.calls[c].settled => Restored.calls[c] = disk.calls[c]
<1>1. /\ disk.turn \in Turn \union {0} /\ disk.used \in SUBSET Expert
      /\ disk.calls \in [CallId -> Entry] /\ \A c \in CallId : disk.calls[c] \in Entry
  BY DEF IInv, TypeOK, Checkpoints
<1>2. ASSUME NEW c \in CallId
      PROVE  /\ RestoredCalls[c] \in Entry /\ RestoredCalls[c].settled /\ Finished(RestoredCalls[c])
             /\ ExpertsOf(RestoredCalls[c]) = ExpertsOf(disk.calls[c])
             /\ disk.calls[c].settled => RestoredCalls[c] = disk.calls[c]
  <2>1. disk.calls[c].settled => Finished(disk.calls[c])
    BY DEF IInv, DiskShape, SettledFinished
  <2>2. RestoredCalls[c] = IF disk.calls[c].settled THEN disk.calls[c]
                           ELSE CloseEntry(SettledEntry(disk.calls[c]))
    BY DEF RestoredCalls
  <2>3. disk.calls[c] \in Entry
    BY <1>1
  <2> QED
    BY <2>1, <2>2, <2>3, SettledEntryFields, CloseEntryFields
<1>3. RestoredCalls \in [CallId -> Entry]
  <2>1. RestoredCalls = [c \in CallId |-> RestoredCalls[c]]
    BY DEF RestoredCalls
  <2> QED
    BY <1>2, <2>1
<1>4. /\ Restored \in Memory /\ Restored.turn = disk.turn /\ Restored.used = disk.used
      /\ Restored.live = {} /\ Restored.records = {} /\ ~Restored.failed /\ Restored.calls = RestoredCalls
  BY <1>1, <1>3, NoMemoryFields DEF Restored, Memory
<1> QED
  BY <1>1, <1>2, <1>4

LEMMA RestoreStep ==
    ASSUME IInv, Restore
    PROVE  IInv'
<1> DEFINE m == Restored
<1>1. /\ phase = "down" /\ mem = NoMemory /\ turn = 0 /\ Pending = {}
      /\ UNCHANGED <<pc, job, callCancel, jobCancel, active, turn, source, shown, asked, told>>
  BY NoMemoryFields DEF Restore, IInv, Synced, Turns, TypeOK, tasks, observed
<1>2. /\ m \in Memory /\ m.turn = disk.turn /\ m.used = disk.used
      /\ m.live = {} /\ m.records = {} /\ ~m.failed
      /\ \A c \in CallId : /\ disk.calls[c] \in Entry /\ m.calls[c] \in Entry
                           /\ m.calls[c].settled /\ Finished(m.calls[c])
                           /\ ExpertsOf(m.calls[c]) = ExpertsOf(disk.calls[c])
                           /\ disk.calls[c].settled => m.calls[c] = disk.calls[c]
  BY RestoredFields
<1>3. PICK ok \in SaveOutcomes :
         IF disk = NoCheckpoint
         THEN ok /\ mem' = m /\ phase' = "idle" /\ UNCHANGED <<disk, env>>
         ELSE Save(m, ok) /\ phase' = IF ok THEN "idle" ELSE "lost"
  BY DEF Restore, Restored
<1> HIDE DEF m
<1>4. ok \in BOOLEAN /\ ~mem.failed
  BY <1>1, NoMemoryFields DEF SaveOutcomes
<1>5. /\ Checkpoint(m) \in Checkpoints /\ Checkpoint(m).used = disk.used
      /\ Checkpoint(m).turn = disk.turn /\ Checkpoint(m).calls = m.calls
  BY <1>2, MemoryFields
<1>6. disk = NoCheckpoint => disk = Checkpoint(m)
  <2> SUFFICES ASSUME disk = NoCheckpoint PROVE disk = Checkpoint(m)
    OBVIOUS
  <2>1. \A c \in CallId : m.calls[c] = NoEntry
    BY <1>2, NoMemoryFields, NoEntryFields
  <2>2. m.calls = [c \in CallId |-> NoEntry]
    BY <1>2, <2>1, MemoryFields
  <2> QED
    BY <1>2, <2>2, NoMemoryFields DEF Checkpoint, NoCheckpoint
<1>7. /\ mem' \in Memory /\ mem'.turn = m.turn /\ mem'.used = m.used /\ mem'.calls = m.calls
      /\ mem'.live = {} /\ mem'.records = {}
      /\ phase' \in {"idle", "lost"} /\ disk' \in {disk, Checkpoint(m)}
      /\ ~mem'.failed => mem' = m /\ disk' = Checkpoint(m)
      /\ env' \in [changes : Nat, faults : Nat]
  <2>1. CASE ok
    BY <1>2, <1>3, <1>6, <2>1 DEF Save, IInv, TypeOK
  <2>2. CASE ~ok
    <3>1. /\ mem' = Broken(m) /\ disk' \in {disk, Checkpoint(m)} /\ env' = [env EXCEPT !.faults = @ + 1]
          /\ phase' = "lost"
      BY <1>3, <1>4, <2>2 DEF Save, SaveFails
    <3>2. env' \in [changes : Nat, faults : Nat]
      BY <3>1 DEF IInv, TypeOK
    <3> QED
      BY <1>2, <3>1, <3>2, BrokenFields
  <2> QED
    BY <2>1, <2>2
<1>8. TypeOK'
  <2>1. Pending' = Pending /\ Unfinished' = Unfinished
    BY <1>1 DEF Pending, Unfinished
  <2> QED
    BY <1>1, <1>5, <1>7, <2>1 DEF IInv, TypeOK
<1>9. Shape(m) /\ SettledFinished(m)
  <2>1. Shape(disk)
    BY DEF IInv, DiskShape
  <2>2. \A c \in CallId : ExpertsOf(m.calls[c]) = ExpertsOf(disk.calls[c])
    BY <1>2
  <2>3. \A c \in CallId : disk.calls[c] = NoEntry => m.calls[c] = NoEntry
    BY <1>2, NoEntryFields
  <2> QED
    BY <1>2, <2>1, <2>2, <2>3, ShapeKept DEF SettledFinished
<1>10. MemoryShape'
  <2>1. Shape(mem')
    BY <1>7, <1>9 DEF Shape, Seen
  <2> QED
    BY <1>7, <2>1 DEF MemoryShape, Shape, Seen, ExpertsOf
<1>11. DiskShape'
  <2>1. Shape(Checkpoint(m)) /\ SettledFinished(Checkpoint(m))
    BY <1>2, <1>5, <1>9 DEF Shape, Seen, SettledFinished
  <2>2. \A c \in told : ToldIn(Checkpoint(m).calls[c])
    BY <1>2, <1>5 DEF IInv, TypeOK, DiskShape, ToldIn
  <2>3. Shape(disk') /\ SettledFinished(disk') /\ \A c \in told : ToldIn(disk'.calls[c])
    BY <1>7, <2>1, <2>2 DEF IInv, DiskShape
  <2> QED
    BY <1>1, <1>7, <2>3 DEF DiskShape, Shape, SettledFinished, Finished, Seen, ExpertsOf, ToldIn
<1>12. Synced' /\ Turns'
  BY <1>1, <1>7 DEF Synced, Turns, Checkpoint
<1>13. LiveCalls' /\ NewJobs'
  BY <1>1, <1>7, NoMemoryFields DEF LiveCalls, NewJobs, IInv
<1>14. Unfailed'
  <2>1. SettledFinished(mem')
    BY <1>7, <1>9 DEF SettledFinished
  <2> QED
    BY <1>2, <1>7, <2>1 DEF Unfailed, SettledFinished, Finished, ExpertsOf
<1>15. AskedOnDisk' /\ ShownAgrees'
  BY <1>1, <1>5, <1>7 DEF IInv, AskedOnDisk, ShownAgrees
<1> QED
  BY <1>8, <1>10, <1>11, <1>12, <1>13, <1>14, <1>15 DEF IInv


-----------------------------------------------------------------------------
(* The theorems *)

\* Every step of the code keeps the invariant: the calls, the jobs, the runtime, the
\* sources and the deaths of the process.
THEOREM ReviewInvariance == Spec => []IInv
<1>1. Init => IInv
  BY InitHolds
<1>2. IInv /\ [Next]_vars => IInv'
  <2> SUFFICES ASSUME IInv, [Next]_vars PROVE IInv'
    OBVIOUS
  <2>1. CASE Restore
    BY <2>1, RestoreStep
  <2>2. CASE Interrupt \/ EndTurn
    BY <2>2, InterruptStep
  <2>3. CASE Drain
    BY <2>3, IdleStep DEF Drain
  <2>4. CASE Crash \/ Reopen
    BY <2>4, CrashStep
  <2>5. ASSUME NEW t \in Turn, Run(t) PROVE IInv'
    BY <2>5, RunStep
  <2>6. ASSUME NEW c \in CallId, NEW E \in SUBSET Expert, CallBegin(c, E) PROVE IInv'
    BY <2>6, CallBeginStep
  <2>7. ASSUME NEW c \in CallId, CallStep(c) PROVE IInv'
    BY <2>7, JudgeStep, BreakStep, UnwindStep, ReturnStep DEF CallStep
  <2>8. ASSUME NEW e \in Expert, JobStep(e) PROVE IInv'
    BY <2>8, JobStartStep, JobEndStep, JobCancelledStep DEF JobStep
  <2>9. ASSUME NEW s \in Source \union {NoTask}, ChangeSource(s) PROVE IInv'
    BY <2>9, ChangeSourceStep
  <2>10. CASE UNCHANGED vars
    <3>1. UNCHANGED <<mem, disk, pc, job, callCancel, jobCancel, phase, active, turn, source,
                      shown, asked, told, env>>
      BY <2>10 DEF vars, tasks, runtime, observed
    <3>2. TypeOK' /\ LiveCalls' /\ NewJobs'
      BY <3>1 DEF IInv, TypeOK, Pending, Unfinished, LiveCalls, NewJobs, ExpertsOf
    <3> QED
      BY <3>1, <3>2, QuietStep
  <2> QED
    BY <2>1, <2>2, <2>3, <2>4, <2>5, <2>6, <2>7, <2>8, <2>9, <2>10 DEF Next
<1> QED
  BY <1>1, <1>2, PTL DEF Spec

\* Each expert is asked at most once in a parent turn and at most two are asked, in
\* whatever order calls, cancellations, failed saves, crashes and restarts come.
THEOREM ExpertsWithinBudget == Spec => []BudgetKept
<1>1. IInv => BudgetKept
  <2> SUFFICES ASSUME IInv PROVE BudgetKept
    OBVIOUS
  <2> DEFINE A == {e \in Expert : asked[e] > 0}
  <2>1. \A e \in Expert : asked[e] \in {0, 1} /\ (asked[e] = 1 => e \in disk.used)
    BY DEF IInv, AskedOnDisk
  <2>2. A \subseteq disk.used
    BY <2>1
  <2>3. disk.used \subseteq Expert /\ Cardinality(disk.used) <= Budget
    BY DEF IInv, TypeOK, Checkpoints, DiskShape, Shape
  <2>4. IsFiniteSet(disk.used) /\ IsFiniteSet(A)
    BY <2>2, <2>3, ReviewAssumption, FS_Subset
  <2>5. Cardinality(A) <= Cardinality(disk.used)
    BY <2>2, <2>4, FS_Subset
  <2>6. Cardinality(A) \in Nat /\ Cardinality(disk.used) \in Nat
    BY <2>4, FS_CardinalityType
  <2>7. Cardinality(A) <= Budget
    BY <2>3, <2>5, <2>6 DEF Budget
  <2>8. \A e \in Expert : asked[e] <= 1
    BY <2>1
  <2> QED
    BY <2>7, <2>8 DEF BudgetKept
<1> QED
  BY <1>1, ReviewInvariance, PTL

\* Whatever save, death or refusal came last, restore accepts the checkpoint on disk.
THEOREM AlwaysRestorable == Spec => []CheckpointRestorable
<1>1. IInv => CheckpointRestorable
  BY ShapeValid DEF IInv, TypeOK, DiskShape, CheckpointRestorable
<1> QED
  BY <1>1, ReviewInvariance, PTL

\* A review that the engine was told has completed is settled and complete in the
\* checkpoint for as long as its turn is the last one.
THEOREM ToldReviewsAreRecorded == Spec => []ToldIsRecorded
<1>1. IInv => ToldIsRecorded
  BY DEF IInv, TypeOK, DiskShape, ToldIn, ToldIsRecorded, Seen
<1> QED
  BY <1>1, ReviewInvariance, PTL

\* A revocation shows a terminal state only as it was shown before.
LEMMA HaltShows ==
    ASSUME IInv, NEW x, Good(x), Show(Settle(x), x.records), NEW e \in Expert, shown[e] \in Terminal
    PROVE  shown'[e] = shown[e]
  BY SettleShows DEF IInv, TypeOK

LEMMA RevokeShows ==
    ASSUME IInv, phase # "down", NEW self \in SUBSET CallId, NEW k \in RevokeOutcomes(mem),
           Revoke(mem, self, k), job' = job, asked' = asked, told' = told,
           NEW e \in Expert, shown[e] \in Terminal
    PROVE  shown'[e] = shown[e]
<1>1. PICK x : Good(x) /\ Halted(x)
  BY RevokeHalts
<1> QED
  BY <1>1, HaltShows DEF Halted

LEMMA JudgeShows ==
    ASSUME IInv, NEW c \in CallId, Judge(c), NEW e \in Expert, shown[e] \in Terminal
    PROVE  shown'[e] = shown[e]
<1>1. CASE c \notin mem.live
  BY <1>1 DEF Judge
<1>2. CASE c \in mem.live
  <2>1. c \in mem.records /\ phase \notin {"down", "lost"}
    BY CallsRun DEF Judge
  <2>2. PICK n \in Entry : Judged(c) = Replaced(c, n) /\ ExpertsOf(n) = ExpertsOf(mem.calls[c]) /\ ~n.settled
    BY <1>2, JudgedEntry
  <2>3. \A d \in ExpertsOf(n) : shown[d] \notin Terminal
    BY <1>2, <2>2 DEF IInv, LiveCalls
  <2> DEFINE x == Judged(c)
  <2>4. Good(x)
    BY <2>1, <2>2, <2>3, ReplacedGood
  <2>5. x.records = mem.records /\ x.calls[c] = n
    BY <2>2, ReplacedFields DEF IInv
  <2>6. Show(x, {c}) \/ Show(Settle(x), mem.records)
    BY <1>2 DEF Judge
  <2> HIDE DEF x
  <2>7. CASE Show(x, {c})
    BY <2>3, <2>5, <2>7 DEF Show
  <2>8. CASE Show(Settle(x), mem.records)
    BY <2>4, <2>5, <2>8, HaltShows
  <2> QED
    BY <2>6, <2>7, <2>8
<1> QED
  BY <1>1, <1>2

LEMMA CallShows ==
    ASSUME IInv, NEW c \in CallId, CallStep(c), NEW e \in Expert, shown[e] \in Terminal
    PROVE  shown'[e] = shown[e]
<1>1. CASE Judge(c)
  BY <1>1, JudgeShows
<1>2. CASE Break(c)
  <2>1. phase # "down" /\ Show(Settle(mem), mem.records)
    BY <1>2, CallsRun DEF Break
  <2> QED
    BY <2>1, GoodMemory, HaltShows
<1>3. CASE Unwind(c)
  <2>1. /\ phase # "down" /\ job' = job /\ asked' = asked /\ told' = told /\ {c} \in SUBSET CallId
        /\ \E k \in RevokeOutcomes(mem) : Revoke(mem, {c}, k)
    BY <1>3, CallsRun DEF Unwind
  <2> QED
    BY <2>1, RevokeShows
<1>4. CASE Return(c)
  <2> DEFINE x == Replaced(c, Returned(c))
  <2>1. c \in mem.records /\ pc[c] \in {"leave", "void"}
    BY <1>4, CallsRun DEF Return
  <2>2. Good(x)
    BY <2>1, ReturnedGood
  <2>3. shown' = shown \/ Show(Settle(x), x.records)
    BY <1>4, ReturnedReplaced DEF Return
  <2> HIDE DEF x
  <2> QED
    BY <2>2, <2>3, HaltShows
<1> QED
  BY <1>1, <1>2, <1>3, <1>4 DEF CallStep

LEMMA BeginShows ==
    ASSUME IInv, NEW c \in CallId, NEW E \in SUBSET Expert, CallBegin(c, E), NEW e \in Expert, shown[e] \in Terminal
    PROVE  shown'[e] = shown[e]
<1> DEFINE x == Begun(c, E)
<1>1. /\ phase = "running" /\ ~mem.failed /\ source \in Source /\ c \notin Seen(mem)
      /\ E # {} /\ WithinBudget(E)
  BY DEF CallBegin, Available, IInv, TypeOK
<1>2. Good(x)
  BY <1>1, BegunGood
<1>3. shown' = shown \/ Show(Settle(x), x.records)
  BY DEF CallBegin, Begun, NewEntry
<1> HIDE DEF x
<1> QED
  BY <1>2, <1>3, HaltShows

LEMMA JobShows ==
    ASSUME IInv, NEW d \in Expert, JobStep(d), NEW e \in Expert, shown[e] \in Terminal
    PROVE  shown'[e] = shown[e]
<1>1. CASE JobStart(d)
  <2>1. job[d] = "new" /\ d \notin jobCancel /\ shown' \in {shown, [shown EXCEPT ![d] = "running"]}
    BY <1>1 DEF JobStart
  <2>2. shown[d] \notin Terminal
    BY <2>1 DEF IInv, NewJobs, LiveCalls
  <2> QED
    BY <2>1, <2>2 DEF IInv, TypeOK
<1>2. CASE shown' = shown
  BY <1>2
<1> QED
  BY <1>1, <1>2 DEF JobStep, JobEnd, JobCancelled, observed

\* Whoever follows the events of a review sees at most one terminal state: only a new
\* parent turn starts over.
THEOREM TerminalEventsAreFinal == Spec => ShownIsFinal
<1> DEFINE A == \A e \in Expert : shown[e] \in Terminal =>
                   \/ shown'[e] = shown[e]
                   \/ phase = "idle" /\ mem'.turn # mem.turn
<1>1. IInv /\ [Next]_vars => A
  <2> SUFFICES ASSUME IInv, [Next]_vars, NEW e \in Expert, shown[e] \in Terminal
               PROVE  shown'[e] = shown[e] \/ (phase = "idle" /\ mem'.turn # mem.turn)
    OBVIOUS
  <2>1. CASE Restore \/ Drain \/ Crash \/ Reopen
    BY <2>1 DEF Restore, Drain, Crash, Reopen, Die, observed
  <2>2. CASE Interrupt \/ EndTurn
    <3>1. /\ phase # "down" /\ job' = job /\ asked' = asked /\ told' = told /\ {} \in SUBSET CallId
          /\ \E k \in RevokeOutcomes(mem) : Revoke(mem, {}, k)
      BY <2>2 DEF Interrupt, EndTurn
    <3> QED
      BY <3>1, RevokeShows
  <2>3. ASSUME NEW t \in Turn, Run(t)
        PROVE  shown'[e] = shown[e] \/ (phase = "idle" /\ mem'.turn # mem.turn)
    <3>1. CASE MayBegin(t) /\ ~mem.failed
      <4>1. PICK ok \in SaveOutcomes : Save(Fresh(t), ok)
        BY <2>3, <3>1 DEF Run, Fresh
      <4>2. Fresh(t) \in Memory /\ Fresh(t).turn = t
        BY NoMemoryFields DEF Fresh, Memory, Checkpoints, IInv, TypeOK
      <4>3. mem' = Fresh(t) \/ mem' = Broken(Fresh(t))
        BY <4>1 DEF Save, SaveFails
      <4> QED
        BY <2>3, <3>1, <4>2, <4>3, BrokenFields DEF MayBegin, Run
    <3>2. CASE ~(MayBegin(t) /\ ~mem.failed)
      BY <2>3, <3>2 DEF Run, observed
    <3> QED
      BY <3>1, <3>2
  <2>4. ASSUME NEW c \in CallId, NEW E \in SUBSET Expert, CallBegin(c, E) PROVE shown'[e] = shown[e]
    BY <2>4, BeginShows
  <2>5. ASSUME NEW c \in CallId, CallStep(c) PROVE shown'[e] = shown[e]
    BY <2>5, CallShows
  <2>6. ASSUME NEW d \in Expert, JobStep(d) PROVE shown'[e] = shown[e]
    BY <2>6, JobShows
  <2>7. ASSUME NEW s \in Source \union {NoTask}, ChangeSource(s) PROVE shown'[e] = shown[e]
    BY <2>7 DEF ChangeSource
  <2>8. CASE UNCHANGED vars
    BY <2>8 DEF vars, observed
  <2> QED
    BY <2>1, <2>2, <2>3, <2>4, <2>5, <2>6, <2>7, <2>8 DEF Next
<1>2. IInv /\ [Next]_vars => [A]_vars
  BY <1>1
<1> HIDE DEF A
<1>3. Spec => [][A]_vars
  BY <1>2, ReviewInvariance, PTL DEF Spec
<1> QED
  BY <1>3 DEF ShownIsFinal, A
=============================================================================
