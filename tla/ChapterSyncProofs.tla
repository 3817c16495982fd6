------------------------- MODULE ChapterSyncProofs -------------------------
(***************************************************************************)
(* Theorems about ChapterSync, for every set of processes, parts, texts    *)
(* and titles and every bound on versions and editor saves.                *)
(***************************************************************************)
EXTENDS ChapterSync, TLAPS

\* Render over the version rows v.
RenderOf(v, docs) ==
    [title |-> docs.title,
     text |-> [d \in Part |-> IF docs.act[d] = 0 THEN NoText ELSE v[docs.act[d]].text]]

\* The version rows w are v and possibly more.
Longer(v, w) == Len(v) <= Len(w) /\ \A i \in 1 .. Len(v) : w[i] = v[i]

\* Every version that a is about is a row of its part.
Known(v, a) == \A d \in Part : a[d] # 0 => a[d] \in 1 .. Len(v) /\ v[a[d]].part = d

\* Every text of the file f is a version.
Covered(v, f) ==
    \A d \in Part : f.text[d] # NoText =>
        \E i \in 1 .. Len(v) : v[i] = [part |-> d, text |-> f.text[d]]

Rows ==
    /\ Known(ver, act) /\ Known(ver, baseline.docs.act)
    /\ \A p \in Proc : Known(ver, op[p].docs.act)
    /\ saved \in Files /\ touches \in Nat /\ crashed \in BOOLEAN

\* A baseline pairs documents with their own rendering, and so does a process that is
\* about to save one; an import works on the documents of the baseline.
Paired ==
    /\ baseline.file = RenderOf(ver, baseline.docs)
    /\ \A p \in Proc :
         /\ op[p].at \in {"baseline", "importBaseline"} => op[p].text = RenderOf(ver, op[p].docs)
         /\ op[p].at \in {"importFile", "importCommit"} => op[p].docs = baseline.docs
         /\ op[p].at = "importCommit" => Parses(op[p].text, op[p].docs)

\* What an export is about to overwrite is in the database.
Overwritable == EditorWaits => \A p \in Proc : InWindow(p) => Covered(ver, file)

\* While nobody touched the file: it is the baseline's, or that of the process which is
\* about to save the baseline.
FileFollows ==
    touches = 0 /\ ~crashed =>
        /\ \A p \in Proc :
             op[p].at \in {"baseline", "importCommit", "importBaseline"} => op[p].text = file
        /\ (\A p \in Proc : op[p].at # "baseline") => file = baseline.file

\* While no process died: a change of the database that an export may have missed is
\* still to be exported by the process that made it.
Exporting(p) == op[p].at \in {"readChapter", "readScenes", "write", "baseline"}
NoneOwed == \A p \in Proc : op[p].at # "sync"
DocsFollow ==
    touches = 0 /\ ~crashed /\ NoneOwed =>
        /\ \A p \in Proc :
             /\ op[p].at \in {"readScenes", "importScenes"} =>
                   op[p].docs.title = title /\ op[p].docs.act[Chapter] = act[Chapter]
             /\ op[p].at \in {"write", "baseline", "importFile", "importCommit", "importBaseline"} =>
                   op[p].docs = Current
        /\ (\A p \in Proc : ~Exporting(p)) => baseline.docs = Current

\* The inductive invariant.
IInv ==
    /\ TypeOK /\ Rows /\ Paired /\ Overwritable /\ (EditorWaits => AuthorTextKept)
    /\ FileFollows /\ DocsFollow

-----------------------------------------------------------------------------
(* Renderings *)

LEMMA RenderIs ==
    ASSUME NEW docs
    PROVE  Render(docs) = RenderOf(ver, docs)
  BY DEF Render, RenderOf

\* More rows change no rendering.
LEMMA RenderLonger ==
    ASSUME NEW v, NEW w, Longer(v, w), NEW docs, Known(v, docs.act), Len(v) \in Nat, Len(w) \in Nat
    PROVE  RenderOf(w, docs) = RenderOf(v, docs) /\ Known(w, docs.act)
<1>1. \A d \in Part : docs.act[d] # 0 => docs.act[d] \in 1 .. Len(w) /\ w[docs.act[d]] = v[docs.act[d]]
  BY DEF Longer, Known
<1> QED
  BY <1>1 DEF RenderOf, Known

LEMMA CoveredLonger ==
    ASSUME NEW v, NEW w, Longer(v, w), NEW f, Covered(v, f), Len(v) \in Nat, Len(w) \in Nat
    PROVE  Covered(w, f)
<1> SUFFICES ASSUME NEW d \in Part, f.text[d] # NoText
             PROVE  \E i \in 1 .. Len(w) : w[i] = [part |-> d, text |-> f.text[d]]
  BY DEF Covered
<1>1. PICK i \in 1 .. Len(v) : v[i] = [part |-> d, text |-> f.text[d]]
  BY DEF Covered
<1>2. i \in 1 .. Len(w) /\ w[i] = v[i]
  BY DEF Longer
<1> QED
  BY <1>1, <1>2

\* A rendering is a file and says nothing that is not a version.
LEMMA RenderTyped ==
    ASSUME NEW v \in Seq(Versions), NEW docs \in Docs, Known(v, docs.act)
    PROVE  /\ RenderOf(v, docs) \in Files /\ Covered(v, RenderOf(v, docs))
           /\ RenderOf(v, docs).title = docs.title
           /\ \A d \in Part : RenderOf(v, docs).text[d] =
                IF docs.act[d] = 0 THEN NoText ELSE v[docs.act[d]].text
<1>1. docs.title \in Title \union {"none"} /\ docs.act \in [Part -> Nat]
  BY DEF Docs
<1>2. \A i \in 1 .. Len(v) : v[i] \in Versions
  OBVIOUS
<1>3. ASSUME NEW d \in Part, docs.act[d] # 0
      PROVE  /\ docs.act[d] \in 1 .. Len(v) /\ v[docs.act[d]].text \in Text
             /\ v[docs.act[d]] = [part |-> d, text |-> v[docs.act[d]].text]
  BY <1>2, <1>3 DEF Known, Versions
<1> DEFINE f == [d \in Part |-> IF docs.act[d] = 0 THEN NoText ELSE v[docs.act[d]].text]
<1>4. f \in [Part -> Text \union {NoText}]
  BY <1>3
<1>5. RenderOf(v, docs) = [title |-> docs.title, text |-> f]
  BY DEF RenderOf
<1>6. \A d \in Part : f[d] = IF docs.act[d] = 0 THEN NoText ELSE v[docs.act[d]].text
  OBVIOUS
<1> HIDE DEF f
<1>7. RenderOf(v, docs) \in Files
  BY <1>1, <1>4, <1>5 DEF Files
<1>8. Covered(v, RenderOf(v, docs))
  BY <1>3, <1>5, <1>6 DEF Covered
<1> QED
  BY <1>5, <1>6, <1>7, <1>8

LEMMA NoFileFields ==
    /\ NoFile \in Files /\ NoDocs \in Docs /\ NoDocs.act = [d \in Part |-> 0] /\ NoDocs.title = "none"
    /\ \A v : RenderOf(v, NoDocs) = NoFile /\ Known(v, NoDocs.act) /\ Covered(v, NoFile)
    /\ NoBaseline.docs = NoDocs /\ NoBaseline.file = NoFile /\ NoBaseline \in [docs : Docs, file : Files]
    /\ Idle.at = "idle" /\ Idle.docs = NoDocs /\ Idle.text = NoFile
    /\ Idle \in [at : Steps, docs : Docs, text : Files]
<1>1. NoFile \in Files /\ NoDocs \in Docs /\ NoDocs.act = [d \in Part |-> 0] /\ NoDocs.title = "none"
  BY DEF NoFile, NoDocs, Files, Docs
<1>2. \A v : RenderOf(v, NoDocs) = NoFile /\ Known(v, NoDocs.act) /\ Covered(v, NoFile)
  BY DEF NoFile, NoDocs, RenderOf, Known, Covered
<1> QED
  BY <1>1, <1>2 DEF NoBaseline, Idle, Steps

-----------------------------------------------------------------------------
(* Processes *)

Ops == [at : Steps, docs : Docs, text : Files]

LEMMA OpFields ==
    ASSUME TypeOK, NEW p \in Proc
    PROVE  op[p] \in Ops /\ op[p].at \in Steps /\ op[p].docs \in Docs /\ op[p].text \in Files
  BY DEF TypeOK, Ops

\* The step of one process replaces its record.
LEMMA OpReplaced ==
    ASSUME TypeOK, NEW p \in Proc, NEW r \in Ops, op' = [op EXCEPT ![p] = r]
    PROVE  op' \in [Proc -> Ops] /\ op'[p] = r /\ \A q \in Proc : q # p => op'[q] = op[q]
<1>1. op \in [Proc -> Ops]
  BY DEF TypeOK, Ops
<1> QED
  BY <1>1

LEMMA GotoMoves ==
    ASSUME TypeOK, NEW p \in Proc, NEW a \in Steps, Goto(p, a)
    PROVE  /\ op' \in [Proc -> Ops] /\ op'[p].at = a /\ op'[p].docs = op[p].docs /\ op'[p].text = op[p].text
           /\ \A q \in Proc : q # p => op'[q] = op[q]
<1> DEFINE r == [op[p] EXCEPT !.at = a]
<1>1. op[p] \in Ops
  BY OpFields
<1>2. r \in Ops /\ r.at = a /\ r.docs = op[p].docs /\ r.text = op[p].text
  BY <1>1 DEF Ops
<1>3. op' = [op EXCEPT ![p] = r]
  BY DEF Goto
<1> HIDE DEF r
<1> QED
  BY <1>2, <1>3, OpReplaced

LEMMA FinishMoves ==
    ASSUME TypeOK, NEW p \in Proc, Finish(p)
    PROVE  op' \in [Proc -> Ops] /\ op'[p] = Idle /\ \A q \in Proc : q # p => op'[q] = op[q]
  BY OpReplaced, NoFileFields DEF Finish, Ops

\* The lock is held by the one process that is inside an export or an import.
LEMMA Exclusive ==
    ASSUME TypeOK
    PROVE  /\ \A p, q \in Proc : p # q /\ op[p].at \notin {"idle", "sync"} => op[q].at \in {"idle", "sync"}
           /\ LockFree => \A q \in Proc : op[q].at \in {"idle", "sync"}
  BY ChapterAssumption DEF TypeOK, LockFree

\* The version rows of the state and of the baseline stay what they were.
LEMMA RowsKept ==
    ASSUME IInv, ver' \in Seq(Versions), Longer(ver, ver')
    PROVE  /\ Known(ver', act) /\ Known(ver', baseline.docs.act)
           /\ RenderOf(ver', baseline.docs) = RenderOf(ver, baseline.docs)
           /\ \A p \in Proc : /\ Known(ver', op[p].docs.act)
                              /\ RenderOf(ver', op[p].docs) = RenderOf(ver, op[p].docs)
           /\ \A f : Covered(ver, f) => Covered(ver', f)
<1>1. Len(ver) \in Nat /\ Len(ver') \in Nat
  BY DEF IInv, TypeOK
<1>2. Known(ver', act)
  BY <1>1 DEF IInv, Rows, Known, Longer
<1> QED
  BY <1>1, <1>2, RenderLonger, CoveredLonger DEF IInv, Rows

\* Nothing that the author left is lost while the file stays and rows are only added.
LEMMA AuthorLonger ==
    ASSUME IInv, ver' \in Seq(Versions), Longer(ver, ver'), UNCHANGED <<file, saved>>, EditorWaits
    PROVE  AuthorTextKept'
<1>1. saved = NoFile \/ file = saved \/ Covered(ver, saved)
  BY DEF IInv, AuthorTextKept, Covered
<1>2. saved = NoFile \/ file = saved \/ Covered(ver', saved)
  BY <1>1, RowsKept
<1> QED
  BY <1>2 DEF AuthorTextKept, Covered

\* A change of the database leaves an export to be made.
LEMMA DatabaseStep ==
    ASSUME IInv, NEW p \in Proc, op[p] = Idle, Goto(p, "sync"), UNCHANGED <<file, baseline, lock, history>>,
           ver' \in Seq(Versions), Longer(ver, ver'), act' \in [Part -> 0 .. Len(ver')], Known(ver', act'),
           title' \in Title \union {"none"}
    PROVE  IInv'
<1>1. TypeOK /\ UNCHANGED <<file, baseline, lock, saved, touches, crashed>> /\ op[p].at = "idle"
  BY NoFileFields DEF IInv, history
<1>2. /\ op' \in [Proc -> Ops] /\ op'[p].at = "sync" /\ op'[p].docs = op[p].docs /\ op'[p].text = op[p].text
      /\ \A q \in Proc : q # p => op'[q] = op[q]
  BY <1>1, GotoMoves DEF Steps
<1>3. TypeOK'
  <2>1. \A q \in Proc : lock = q <=> op'[q].at \notin {"idle", "sync"}
    BY <1>1, <1>2 DEF TypeOK
  <2> QED
    BY <1>1, <1>2, <2>1 DEF TypeOK, Ops
<1>4. /\ Known(ver', baseline.docs.act) /\ RenderOf(ver', baseline.docs) = RenderOf(ver, baseline.docs)
      /\ \A q \in Proc : /\ Known(ver', op[q].docs.act)
                         /\ RenderOf(ver', op[q].docs) = RenderOf(ver, op[q].docs)
      /\ \A f : Covered(ver, f) => Covered(ver', f)
  BY RowsKept
<1>5. Rows'
  <2>1. \A q \in Proc : Known(ver', op'[q].docs.act)
    BY <1>2, <1>4
  <2> QED
    BY <1>1, <1>4, <2>1 DEF IInv, Rows, Known
<1>6. Paired'
  <2>1. ASSUME NEW q \in Proc
        PROVE  /\ op'[q].at \in {"baseline", "importBaseline"} => op'[q].text = RenderOf(ver', op'[q].docs)
               /\ op'[q].at \in {"importFile", "importCommit"} => op'[q].docs = baseline'.docs
               /\ op'[q].at = "importCommit" => Parses(op'[q].text, op'[q].docs)
    BY <1>1, <1>2, <1>4 DEF IInv, Paired
  <2>2. baseline'.file = RenderOf(ver', baseline'.docs)
    BY <1>1, <1>4 DEF IInv, Paired
  <2> QED
    BY <2>1, <2>2 DEF Paired, RenderOf, Parses
<1>7. Overwritable'
  <2>1. EditorWaits => \A q \in Proc : op'[q].at \in {"readChapter", "readScenes", "write"} => Covered(ver', file')
    BY <1>1, <1>2, <1>4 DEF IInv, Overwritable, InWindow
  <2> QED
    BY <2>1 DEF Overwritable, InWindow, Covered
<1>8. (EditorWaits => AuthorTextKept)'
  BY <1>1, AuthorLonger
<1>9. FileFollows' /\ DocsFollow'
  BY <1>1, <1>2 DEF IInv, FileFollows, DocsFollow, NoneOwed
<1> QED
  BY <1>3, <1>5, <1>6, <1>7, <1>8, <1>9 DEF IInv

LEMMA AppendLonger ==
    ASSUME TypeOK, NEW d \in Part, NEW t \in Text, ver' = Append(ver, [part |-> d, text |-> t])
    PROVE  /\ ver' \in Seq(Versions) /\ Longer(ver, ver') /\ Len(ver') = Len(ver) + 1
           /\ ver'[Len(ver) + 1].part = d
  BY DEF TypeOK, Versions, Longer

\* A version is added and becomes the active one of its part.
LEMMA AddStep ==
    ASSUME IInv, NEW p \in Proc, NEW d \in Part, NEW t \in Text,
           op[p] = Idle, ver' = Append(ver, [part |-> d, text |-> t]),
           act' = [act EXCEPT ![d] = Len(ver) + 1], title' \in Title \union {"none"},
           Goto(p, "sync"), UNCHANGED <<file, baseline, lock, history>>
    PROVE  IInv'
<1>1. TypeOK /\ act \in [Part -> 0 .. Len(ver)] /\ Len(ver) \in Nat
  BY DEF IInv, TypeOK
<1>2. /\ ver' \in Seq(Versions) /\ Longer(ver, ver') /\ Len(ver') = Len(ver) + 1
      /\ ver'[Len(ver) + 1].part = d
  BY <1>1, AppendLonger
<1>3. act' \in [Part -> 0 .. Len(ver')]
  BY <1>1, <1>2
<1>4. Known(ver', act)
  BY <1>2, RowsKept
<1>5. Known(ver', act')
  BY <1>1, <1>2, <1>4 DEF Known
<1> QED
  BY <1>2, <1>3, <1>5, DatabaseStep

LEMMA WriterStep ==
    ASSUME IInv, NEW p \in Proc,
           \/ \E d \in Part, t \in Text, h \in Title : CreatePart(p, d, t, h)
           \/ \E d \in Part, t \in Text : EditPart(p, d, t)
           \/ \E i \in 1 .. Len(ver) : ReactivateVersion(p, i)
           \/ \E h \in Title : UpdateTitle(p, h)
    PROVE  IInv'
<1>0. title \in Title \union {"none"} /\ Len(ver) \in Nat /\ ver \in Seq(Versions) /\ act \in [Part -> 0 .. Len(ver)]
  BY DEF IInv, TypeOK
<1>1. ASSUME NEW d \in Part, NEW t \in Text, NEW h \in Title, CreatePart(p, d, t, h) PROVE IInv'
  <2>1. title' \in Title \union {"none"}
    BY <1>0, <1>1 DEF CreatePart
  <2> QED
    BY <1>1, <2>1, AddStep DEF CreatePart
<1>2. ASSUME NEW d \in Part, NEW t \in Text, EditPart(p, d, t) PROVE IInv'
  BY <1>0, <1>2, AddStep DEF EditPart
<1>3. ASSUME NEW i \in 1 .. Len(ver), ReactivateVersion(p, i) PROVE IInv'
  <2>1. /\ op[p] = Idle /\ Goto(p, "sync") /\ UNCHANGED <<file, baseline, lock, history>>
        /\ ver' = ver /\ title' = title /\ act' = [act EXCEPT ![ver[i].part] = i]
    BY <1>3 DEF ReactivateVersion
  <2>2. ver[i] \in Versions
    BY <1>0
  <2>3. act' \in [Part -> 0 .. Len(ver)] /\ Known(ver, act') /\ Longer(ver, ver)
    BY <1>0, <2>1, <2>2 DEF IInv, Rows, Known, Longer, Versions
  <2>4. act' \in [Part -> 0 .. Len(ver')] /\ Known(ver', act') /\ Longer(ver, ver')
    BY <2>1, <2>3
  <2> QED
    BY <1>0, <2>1, <2>4, DatabaseStep
<1>4. ASSUME NEW h \in Title, UpdateTitle(p, h) PROVE IInv'
  <2>1. /\ op[p] = Idle /\ Goto(p, "sync") /\ UNCHANGED <<file, baseline, lock, history>>
        /\ ver' = ver /\ title' \in Title \union {"none"} /\ act' = act
    BY <1>4 DEF UpdateTitle
  <2>2. act' \in [Part -> 0 .. Len(ver')] /\ Known(ver', act') /\ Longer(ver, ver')
    BY <1>0, <2>1 DEF IInv, Rows, Longer
  <2> QED
    BY <1>0, <2>1, <2>2, DatabaseStep
<1> QED
  BY <1>1, <1>2, <1>3, <1>4


-----------------------------------------------------------------------------
(* Exports and imports *)

\* A step of the process p while no other is inside an export or an import.
Step(p) ==
    /\ op' \in [Proc -> Ops] /\ \A q \in Proc : q # p => op'[q] = op[q] /\ op[q].at \in {"idle", "sync"}
    /\ ver' \in Seq(Versions) /\ Longer(ver, ver') /\ act' \in [Part -> 0 .. Len(ver')] /\ Known(ver', act')
    /\ title' = title /\ UNCHANGED <<saved, touches, crashed>>
    /\ file' \in Files /\ baseline' \in [docs : Docs, file : Files]
    /\ \A q \in Proc : lock' = q <=> op'[q].at \notin {"idle", "sync"}

\* What such a step has to establish, apart from the quiet case.
Establishes(p) ==
    /\ Known(ver', op'[p].docs.act) /\ Known(ver', baseline'.docs.act)
    /\ baseline'.file = RenderOf(ver', baseline'.docs)
    /\ op'[p].at \in {"baseline", "importBaseline"} => op'[p].text = RenderOf(ver', op'[p].docs)
    /\ op'[p].at \in {"importFile", "importCommit"} => op'[p].docs = baseline'.docs
    /\ op'[p].at = "importCommit" => Parses(op'[p].text, op'[p].docs)
    /\ EditorWaits /\ op'[p].at \in {"readChapter", "readScenes", "write"} => Covered(ver', file')
    /\ EditorWaits => AuthorTextKept'

\* What it has to establish while the file was not touched and no process died.
StaysQuiet(p) ==
    /\ op'[p].at \in {"baseline", "importCommit", "importBaseline"} => op'[p].text = file'
    /\ op'[p].at # "baseline" => file' = baseline'.file
    /\ NoneOwed' =>
         /\ op'[p].at \in {"readScenes", "importScenes"} =>
               op'[p].docs.title = title' /\ op'[p].docs.act[Chapter] = act'[Chapter]
         /\ op'[p].at \in {"write", "baseline", "importFile", "importCommit", "importBaseline"} =>
               op'[p].docs = Current'
         /\ op'[p].at \notin {"readChapter", "readScenes", "write", "baseline"} => baseline'.docs = Current'

LEMMA SyncStep ==
    ASSUME IInv, NEW p \in Proc, Step(p), Establishes(p), touches = 0 /\ ~crashed => StaysQuiet(p)
    PROVE  IInv'
<1>1. TypeOK'
  BY DEF Step, TypeOK, Ops, IInv
<1>2. \A q \in Proc : Known(ver', op[q].docs.act)
  BY RowsKept DEF Step
<1>3. Rows'
  <2>1. \A q \in Proc : Known(ver', op'[q].docs.act)
    BY <1>2 DEF Step, Establishes
  <2> QED
    BY <2>1 DEF IInv, Rows, Known, Step, Establishes
<1>4. Paired'
  <2>1. ASSUME NEW q \in Proc
        PROVE  /\ op'[q].at \in {"baseline", "importBaseline"} => op'[q].text = RenderOf(ver', op'[q].docs)
               /\ op'[q].at \in {"importFile", "importCommit"} => op'[q].docs = baseline'.docs
               /\ op'[q].at = "importCommit" => Parses(op'[q].text, op'[q].docs)
    BY DEF Step, Establishes
  <2> QED
    BY <2>1 DEF Paired, RenderOf, Parses, Establishes
<1>5. Overwritable'
  <2>1. EditorWaits => \A q \in Proc : op'[q].at \in {"readChapter", "readScenes", "write"} => Covered(ver', file')
    BY DEF Step, Establishes
  <2> QED
    BY <2>1 DEF Overwritable, InWindow, Covered
<1>6. FileFollows'
  BY DEF FileFollows, Step, StaysQuiet
<1>7. DocsFollow'
  BY DEF DocsFollow, Step, StaysQuiet, NoneOwed, Exporting, Current
<1> QED
  BY <1>1, <1>3, <1>4, <1>5, <1>6, <1>7 DEF IInv, Establishes

\* A step that leaves the database alone.
LEMMA StepOf ==
    ASSUME IInv, NEW p \in Proc, op' \in [Proc -> Ops], \A q \in Proc : q # p => op'[q] = op[q],
           op[p].at \notin {"idle", "sync"} \/ LockFree, UNCHANGED <<db, history>>,
           file' \in Files, baseline' \in [docs : Docs, file : Files],
           lock' = (IF op'[p].at \in {"idle", "sync"} THEN Nobody ELSE p)
                \/ (lock' = lock /\ (op'[p].at \in {"idle", "sync"} <=> op[p].at \in {"idle", "sync"}))
    PROVE  /\ Step(p) /\ UNCHANGED <<ver, act, title, saved, touches, crashed>>
           /\ Longer(ver, ver') /\ ver' \in Seq(Versions) /\ Known(ver, act)
<1>1. UNCHANGED <<ver, act, title, saved, touches, crashed>>
  BY DEF db, history
<1>2. /\ ver \in Seq(Versions) /\ act \in [Part -> 0 .. Len(ver)] /\ Known(ver, act) /\ Longer(ver, ver)
      /\ Len(ver) \in Nat
  BY DEF IInv, TypeOK, Rows, Longer
<1>3. \A q \in Proc : q # p => op[q].at \in {"idle", "sync"}
  BY Exclusive DEF IInv
<1>4. \A q \in Proc : lock' = q <=> op'[q].at \notin {"idle", "sync"}
  BY <1>3, ChapterAssumption DEF IInv, TypeOK
<1> QED
  BY <1>1, <1>2, <1>3, <1>4 DEF Step

\* The author's text under a step that leaves the file.
LEMMA AuthorKept ==
    ASSUME IInv, UNCHANGED <<ver, saved, file>>
    PROVE  EditorWaits => AuthorTextKept'
<1>1. ver' \in Seq(Versions) /\ Longer(ver, ver')
  BY DEF IInv, TypeOK, Longer
<1> QED
  BY <1>1, AuthorLonger


Reads(p, a, D) == op' = [op EXCEPT ![p].at = a, ![p].docs = D]

LEMMA ReadMoves ==
    ASSUME TypeOK, NEW p \in Proc, NEW a \in Steps, NEW D \in Docs, Reads(p, a, D)
    PROVE  /\ op' \in [Proc -> Ops] /\ op'[p].at = a /\ op'[p].docs = D /\ op'[p].text = op[p].text
           /\ \A q \in Proc : q # p => op'[q] = op[q]
<1> DEFINE r == [op[p] EXCEPT !.at = a, !.docs = D]
<1>1. op[p] \in Ops
  BY OpFields
<1>2. r \in Ops /\ r.at = a /\ r.docs = D /\ r.text = op[p].text
  BY <1>1 DEF Ops
<1>3. op' = [op EXCEPT ![p] = r]
  BY DEF TypeOK, Reads
<1> HIDE DEF r
<1> QED
  BY <1>2, <1>3, OpReplaced

LEMMA TextMoves ==
    ASSUME TypeOK, NEW p \in Proc, NEW a \in Steps, NEW f \in Files,
           op' = [op EXCEPT ![p].at = a, ![p].text = f]
    PROVE  /\ op' \in [Proc -> Ops] /\ op'[p].at = a /\ op'[p].docs = op[p].docs /\ op'[p].text = f
           /\ \A q \in Proc : q # p => op'[q] = op[q]
<1> DEFINE r == [op[p] EXCEPT !.at = a, !.text = f]
<1>1. op[p] \in Ops
  BY OpFields
<1>2. r \in Ops /\ r.at = a /\ r.docs = op[p].docs /\ r.text = f
  BY <1>1 DEF Ops
<1>3. op' = [op EXCEPT ![p] = r]
  BY DEF TypeOK
<1> HIDE DEF r
<1> QED
  BY <1>2, <1>3, OpReplaced

\* The chapter row, and the scene rows read after it.
ChapterRow == [title |-> title, act |-> [d \in Part |-> IF d = Chapter THEN act[d] ELSE 0]]

LEMMA RowsRead ==
    ASSUME IInv
    PROVE  /\ ChapterRow \in Docs /\ ChapterRow.title = title /\ ChapterRow.act[Chapter] = act[Chapter]
           /\ Known(ver, ChapterRow.act)
           /\ \A p \in Proc :
                LET D == WithScenes(op[p].docs) IN
                /\ D \in Docs /\ Known(ver, D.act)
                /\ op[p].docs.title = title /\ op[p].docs.act[Chapter] = act[Chapter] => D = Current
<1>1. /\ title \in Title \union {"none"} /\ act \in [Part -> Nat] /\ Known(ver, act) /\ Chapter \in Part
  BY ChapterAssumption DEF IInv, TypeOK, Rows
<1>2. /\ ChapterRow \in Docs /\ ChapterRow.title = title /\ ChapterRow.act[Chapter] = act[Chapter]
      /\ Known(ver, ChapterRow.act)
  BY <1>1 DEF ChapterRow, Docs, Known
<1>3. ASSUME NEW p \in Proc
      PROVE  LET D == WithScenes(op[p].docs) IN
             /\ D \in Docs /\ Known(ver, D.act)
             /\ op[p].docs.title = title /\ op[p].docs.act[Chapter] = act[Chapter] => D = Current
  <2> DEFINE docs == op[p].docs
             f == [d \in Part |-> IF d = Chapter THEN docs.act[d] ELSE act[d]]
             D == WithScenes(docs)
  <2>1. docs \in Docs /\ docs.act \in [Part -> Nat] /\ Known(ver, docs.act)
    BY OpFields DEF IInv, Docs, Rows
  <2>2. f \in [Part -> Nat] /\ Known(ver, f)
    BY <1>1, <2>1 DEF Known
  <2>3. docs.act[Chapter] = act[Chapter] => f = act
    BY <1>1, <2>1
  <2>4. D = [docs EXCEPT !.act = f]
    BY DEF WithScenes
  <2> HIDE DEF f, docs
  <2>5. D \in Docs /\ D.act = f /\ D.title = docs.title
    BY <2>1, <2>2, <2>4 DEF Docs
  <2>6. D = [title |-> D.title, act |-> D.act]
    BY <2>5 DEF Docs
  <2>7. docs.title = title /\ docs.act[Chapter] = act[Chapter] => D = Current
    BY <2>3, <2>5, <2>6 DEF Current
  <2> QED
    BY <2>2, <2>5, <2>7 DEF docs
<1> QED
  BY <1>2, <1>3

LEMMA ExportBeginStep ==
    ASSUME IInv, NEW p \in Proc, ExportBegin(p)
    PROVE  IInv'
<1>1. /\ op[p].at \in {"idle", "sync"} /\ LockFree /\ UNCHANGED <<db, history>>
      /\ file' = file /\ baseline' = baseline
      /\ IF MayOverwrite THEN lock' = p /\ Goto(p, "readChapter") ELSE Finish(p) /\ UNCHANGED lock
  BY DEF ExportBegin
<1>2. /\ TypeOK /\ file \in Files /\ baseline \in [docs : Docs, file : Files] /\ ver \in Seq(Versions)
      /\ baseline.docs \in Docs /\ Known(ver, baseline.docs.act) /\ Known(ver, op[p].docs.act)
      /\ baseline.file = RenderOf(ver, baseline.docs)
  BY DEF IInv, TypeOK, Rows, Paired
<1>3. touches = 0 /\ ~crashed => file = baseline.file
  <2>1. \A q \in Proc : op[q].at # "baseline"
    BY <1>1, <1>2, Exclusive
  <2> QED
    BY <2>1 DEF IInv, FileFollows
<1>4. CASE MayOverwrite
  <2>1. lock' = p /\ Goto(p, "readChapter")
    BY <1>1, <1>4
  <2>2. /\ op' \in [Proc -> Ops] /\ op'[p].at = "readChapter" /\ op'[p].docs = op[p].docs
        /\ \A q \in Proc : q # p => op'[q] = op[q]
    BY <1>2, <2>1, GotoMoves DEF Steps
  <2>3. Step(p) /\ UNCHANGED <<ver, act, title, saved, touches, crashed>>
    BY <1>1, <1>2, <2>1, <2>2, StepOf
  <2>4. Covered(ver, file)
    <3>1. file = NoFile \/ file = RenderOf(ver, baseline.docs)
      BY <1>2, <1>4 DEF MayOverwrite, FileEdited
    <3> QED
      BY <1>2, <3>1, NoFileFields, RenderTyped
  <2>5. Establishes(p)
    BY <1>1, <1>2, <2>2, <2>3, <2>4, AuthorKept DEF Establishes
  <2>6. touches = 0 /\ ~crashed => StaysQuiet(p)
    BY <1>1, <1>3, <2>2 DEF StaysQuiet
  <2> QED
    BY <2>3, <2>5, <2>6, SyncStep
<1>5. CASE ~MayOverwrite
  <2>1. Finish(p) /\ lock' = lock
    BY <1>1, <1>5
  <2>2. op' \in [Proc -> Ops] /\ op'[p] = Idle /\ \A q \in Proc : q # p => op'[q] = op[q]
    BY <1>2, <2>1, FinishMoves
  <2>3. op'[p].at = "idle" /\ op'[p].docs = NoDocs /\ Known(ver, NoDocs.act)
    BY <2>2, NoFileFields
  <2>4. Step(p) /\ UNCHANGED <<ver, act, title, saved, touches, crashed>>
    BY <1>1, <1>2, <2>1, <2>2, <2>3, StepOf
  <2>5. Establishes(p)
    BY <1>1, <1>2, <2>3, <2>4, AuthorKept DEF Establishes
  <2>6. ~(touches = 0 /\ ~crashed)
    BY <1>3, <1>5, NoFileFields DEF MayOverwrite, FileEdited
  <2> QED
    BY <2>4, <2>5, <2>6, SyncStep
<1> QED
  BY <1>4, <1>5


\* What holds while p is inside an export or an import.
LEMMA Inside ==
    ASSUME IInv, NEW p \in Proc
    PROVE  /\ TypeOK /\ file \in Files /\ baseline \in [docs : Docs, file : Files] /\ ver \in Seq(Versions)
           /\ baseline.docs \in Docs /\ Known(ver, baseline.docs.act)
           /\ op[p].docs \in Docs /\ Known(ver, op[p].docs.act)
           /\ baseline.file = RenderOf(ver, baseline.docs)
           /\ op[p].at \notin {"idle", "sync", "baseline"} /\ touches = 0 /\ ~crashed => file = baseline.file
<1>1. /\ TypeOK /\ file \in Files /\ baseline \in [docs : Docs, file : Files] /\ ver \in Seq(Versions)
      /\ baseline.docs \in Docs /\ Known(ver, baseline.docs.act)
      /\ op[p].docs \in Docs /\ Known(ver, op[p].docs.act)
      /\ baseline.file = RenderOf(ver, baseline.docs)
  BY OpFields DEF IInv, TypeOK, Rows, Paired
<1>2. ASSUME op[p].at \notin {"idle", "sync", "baseline"}, touches = 0, ~crashed PROVE file = baseline.file
  <2>1. \A q \in Proc : op[q].at # "baseline"
    BY <1>1, <1>2, Exclusive
  <2> QED
    BY <1>2, <2>1 DEF IInv, FileFollows
<1> QED
  BY <1>1, <1>2

\* Nobody owes an export before the step if nobody does after it.
LEMMA OwedBefore ==
    ASSUME NEW p \in Proc, op[p].at # "sync", \A q \in Proc : q # p => op'[q] = op[q], NoneOwed'
    PROVE  NoneOwed
  BY DEF NoneOwed

LEMMA ReadStep ==
    ASSUME IInv, NEW p \in Proc, ReadChapter(p) \/ ReadScenes(p)
    PROVE  IInv'
<1>1. PICK a \in Steps, D \in Docs :
        /\ Reads(p, a, D) /\ Known(ver, D.act)
        /\ UNCHANGED <<db, history>> /\ file' = file /\ baseline' = baseline /\ lock' = lock
        /\ op[p].at \in {"readChapter", "readScenes"}
        /\ \/ a = "readScenes" /\ D = ChapterRow
           \/ a = "write" /\ D = WithScenes(op[p].docs) /\ op[p].at = "readScenes"
  <2>1. CASE ReadChapter(p)
    BY <2>1, RowsRead DEF ReadChapter, ChapterRow, Steps, Reads
  <2>2. CASE ReadScenes(p)
    BY <2>2, RowsRead DEF ReadScenes, Steps, Reads
  <2> QED
    BY <2>1, <2>2
<1>2. /\ TypeOK /\ file \in Files /\ baseline \in [docs : Docs, file : Files] /\ Known(ver, baseline.docs.act)
      /\ baseline.file = RenderOf(ver, baseline.docs)
      /\ touches = 0 /\ ~crashed => file = baseline.file
  BY <1>1, Inside
<1>3. /\ op' \in [Proc -> Ops] /\ op'[p].at = a /\ op'[p].docs = D
      /\ \A q \in Proc : q # p => op'[q] = op[q]
  BY <1>1, <1>2, ReadMoves
<1>4. Step(p) /\ UNCHANGED <<ver, act, title, saved, touches, crashed>>
  BY <1>1, <1>2, <1>3, StepOf
<1>5. EditorWaits => Covered(ver, file)
  BY <1>1 DEF IInv, Overwritable, InWindow
<1>6. Establishes(p)
  BY <1>1, <1>2, <1>3, <1>4, <1>5, AuthorKept DEF Establishes
<1>7. ASSUME touches = 0, ~crashed PROVE StaysQuiet(p)
  <2>1. ASSUME NoneOwed', a = "write" PROVE D = Current
    <3>1. NoneOwed
      BY <1>1, <1>3, <2>1, OwedBefore
    <3>2. op[p].docs.title = title /\ op[p].docs.act[Chapter] = act[Chapter]
      BY <1>1, <1>7, <2>1, <3>1 DEF IInv, DocsFollow
    <3> QED
      BY <1>1, <2>1, <3>2, RowsRead
  <2>2. a = "readScenes" => D.title = title /\ D.act[Chapter] = act[Chapter]
    BY <1>1, RowsRead
  <2>3. Current' = Current
    BY <1>4 DEF Current
  <2> QED
    BY <1>1, <1>2, <1>3, <1>4, <1>7, <2>1, <2>2, <2>3 DEF StaysQuiet
<1> QED
  BY <1>4, <1>6, <1>7, SyncStep

LEMMA WriteFileStep ==
    ASSUME IInv, NEW p \in Proc, WriteFile(p)
    PROVE  IInv'
<1> DEFINE f == RenderOf(ver, op[p].docs)
<1>1. /\ op[p].at = "write" /\ file' = f /\ op' = [op EXCEPT ![p].at = "baseline", ![p].text = f]
      /\ UNCHANGED <<db, history>> /\ baseline' = baseline /\ lock' = lock
  BY RenderIs DEF WriteFile
<1>2. /\ TypeOK /\ file \in Files /\ baseline \in [docs : Docs, file : Files] /\ Known(ver, baseline.docs.act)
      /\ baseline.file = RenderOf(ver, baseline.docs)
      /\ op[p].docs \in Docs /\ Known(ver, op[p].docs.act) /\ ver \in Seq(Versions)
  BY Inside
<1>3. f \in Files
  BY <1>2, RenderTyped
<1> HIDE DEF f
<1>4. /\ op' \in [Proc -> Ops] /\ op'[p].at = "baseline" /\ op'[p].docs = op[p].docs /\ op'[p].text = f
      /\ \A q \in Proc : q # p => op'[q] = op[q]
  BY <1>1, <1>2, <1>3, TextMoves DEF Steps
<1>5. Step(p) /\ UNCHANGED <<ver, act, title, saved, touches, crashed>>
  BY <1>1, <1>2, <1>3, <1>4, StepOf
<1>6. ASSUME EditorWaits PROVE AuthorTextKept'
  <2>1. Covered(ver, file)
    BY <1>1, <1>6 DEF IInv, Overwritable, InWindow
  <2>2. saved = NoFile \/ Covered(ver, saved)
    BY <1>6, <2>1 DEF IInv, AuthorTextKept, Covered
  <2> QED
    BY <1>5, <2>2 DEF AuthorTextKept, Covered
<1>7. Establishes(p)
  BY <1>1, <1>2, <1>4, <1>5, <1>6 DEF Establishes, f
<1>8. ASSUME touches = 0, ~crashed PROVE StaysQuiet(p)
  <2>1. NoneOwed' => op[p].docs = Current
    BY <1>1, <1>4, <1>8, OwedBefore DEF IInv, DocsFollow
  <2>2. Current' = Current
    BY <1>5 DEF Current
  <2> QED
    BY <1>1, <1>4, <2>1, <2>2 DEF StaysQuiet
<1> QED
  BY <1>5, <1>7, <1>8, SyncStep

LEMMA SaveBaselineStep ==
    ASSUME IInv, NEW p \in Proc, SaveBaseline(p)
    PROVE  IInv'
<1>1. /\ op[p].at \in {"baseline", "importBaseline"} /\ baseline' = [docs |-> op[p].docs, file |-> op[p].text]
      /\ lock' = Nobody /\ Finish(p) /\ UNCHANGED <<db, history>> /\ file' = file
  BY DEF SaveBaseline, BaselineOf
<1>2. /\ TypeOK /\ file \in Files /\ op[p].docs \in Docs /\ Known(ver, op[p].docs.act) /\ op[p].text \in Files
  BY Inside, OpFields
<1>3. /\ baseline' \in [docs : Docs, file : Files] /\ baseline'.docs = op[p].docs /\ baseline'.file = op[p].text
  BY <1>1, <1>2
<1>4. op' \in [Proc -> Ops] /\ op'[p] = Idle /\ \A q \in Proc : q # p => op'[q] = op[q]
  BY <1>1, <1>2, FinishMoves
<1>5. op'[p].at = "idle" /\ op'[p].docs = NoDocs /\ Known(ver, NoDocs.act)
  BY <1>4, NoFileFields
<1>6. Step(p) /\ UNCHANGED <<ver, act, title, saved, touches, crashed>>
  BY <1>1, <1>2, <1>3, <1>4, <1>5, StepOf
<1>7. op[p].text = RenderOf(ver, op[p].docs)
  BY <1>1 DEF IInv, Paired
<1>8. Establishes(p)
  BY <1>1, <1>2, <1>3, <1>5, <1>6, <1>7, AuthorKept DEF Establishes
<1>9. ASSUME touches = 0, ~crashed PROVE StaysQuiet(p)
  <2>1. NoneOwed' => op[p].docs = Current
    BY <1>1, <1>4, <1>9, OwedBefore DEF IInv, DocsFollow
  <2>2. file = op[p].text
    BY <1>1, <1>9 DEF IInv, FileFollows
  <2>3. Current' = Current
    BY <1>6 DEF Current
  <2> QED
    BY <1>1, <1>3, <1>5, <2>1, <2>2, <2>3 DEF StaysQuiet
<1> QED
  BY <1>6, <1>8, <1>9, SyncStep


\* While an import runs, nobody exports.
LEMMA ImportQuiet ==
    ASSUME IInv, NEW p \in Proc, touches = 0, ~crashed, NoneOwed,
           LockFree \/ op[p].at \in {"importScenes", "importFile", "importCommit", "importBaseline"}
    PROVE  baseline.docs = Current
<1>1. \A q \in Proc : ~Exporting(q)
  BY Exclusive DEF IInv, Exporting
<1> QED
  BY <1>1 DEF IInv, DocsFollow

LEMMA ImportBeginStep ==
    ASSUME IInv, NEW p \in Proc, ImportBegin(p)
    PROVE  IInv'
<1>1. /\ op[p].at = "idle" /\ LockFree /\ lock' = p /\ Reads(p, "importScenes", ChapterRow)
      /\ UNCHANGED <<db, history>> /\ file' = file /\ baseline' = baseline
  BY NoFileFields DEF ImportBegin, Reads, ChapterRow
<1>2. /\ TypeOK /\ file \in Files /\ baseline \in [docs : Docs, file : Files] /\ Known(ver, baseline.docs.act)
      /\ baseline.file = RenderOf(ver, baseline.docs)
  BY Inside
<1>3. /\ op' \in [Proc -> Ops] /\ op'[p].at = "importScenes" /\ op'[p].docs = ChapterRow
      /\ \A q \in Proc : q # p => op'[q] = op[q]
  BY <1>1, <1>2, RowsRead, ReadMoves DEF Steps
<1>4. Step(p) /\ UNCHANGED <<ver, act, title, saved, touches, crashed>>
  BY <1>1, <1>2, <1>3, StepOf
<1>5. Establishes(p)
  BY <1>1, <1>2, <1>3, <1>4, AuthorKept, RowsRead DEF Establishes
<1>6. ASSUME touches = 0, ~crashed PROVE StaysQuiet(p)
  <2>1. \A q \in Proc : op[q].at # "baseline"
    BY <1>1, <1>2, Exclusive
  <2>2. file = baseline.file
    BY <1>6, <2>1 DEF IInv, FileFollows
  <2>3. NoneOwed' => baseline.docs = Current
    BY <1>1, <1>3, <1>6, OwedBefore, ImportQuiet
  <2>4. Current' = Current
    BY <1>4 DEF Current
  <2> QED
    BY <1>1, <1>3, <1>4, <2>2, <2>3, <2>4, RowsRead DEF StaysQuiet
<1> QED
  BY <1>4, <1>5, <1>6, SyncStep

\* An import that gives up.
LEMMA ImportAborts ==
    ASSUME IInv, NEW p \in Proc, op[p].at \in {"importScenes", "importFile", "importCommit"},
           Finish(p), lock' = Nobody, UNCHANGED <<ver, act, title, file, baseline, saved, touches, crashed>>
    PROVE  IInv'
<1>1. /\ TypeOK /\ file \in Files /\ baseline \in [docs : Docs, file : Files] /\ Known(ver, baseline.docs.act)
      /\ baseline.file = RenderOf(ver, baseline.docs)
      /\ touches = 0 /\ ~crashed => file = baseline.file
  BY Inside
<1>2. op' \in [Proc -> Ops] /\ op'[p] = Idle /\ \A q \in Proc : q # p => op'[q] = op[q]
  BY <1>1, FinishMoves
<1>3. op'[p].at = "idle" /\ op'[p].docs = NoDocs /\ Known(ver, NoDocs.act)
  BY <1>2, NoFileFields
<1>4. Step(p)
  <2>1. UNCHANGED <<db, history>>
    BY DEF db, history
  <2> QED
    BY <1>1, <1>2, <1>3, <2>1, StepOf
<1>5. Establishes(p)
  BY <1>1, <1>3, AuthorKept DEF Establishes
<1>6. ASSUME touches = 0, ~crashed PROVE StaysQuiet(p)
  <2>1. NoneOwed' => baseline.docs = Current
    BY <1>2, <1>6, OwedBefore, ImportQuiet
  <2>2. Current' = Current
    BY DEF Current
  <2> QED
    BY <1>1, <1>3, <1>6, <2>1, <2>2 DEF StaysQuiet
<1> QED
  BY <1>4, <1>5, <1>6, SyncStep

LEMMA ImportScenesStep ==
    ASSUME IInv, NEW p \in Proc, ImportScenes(p)
    PROVE  IInv'
<1> DEFINE D == WithScenes(op[p].docs)
<1>1. /\ op[p].at = "importScenes" /\ UNCHANGED <<db, history>> /\ file' = file /\ baseline' = baseline
      /\ UNCHANGED <<ver, act, title, file, baseline, saved, touches, crashed>>
      /\ IF baseline # NoBaseline /\ D = baseline.docs
         THEN Reads(p, "importFile", D) /\ lock' = lock
         ELSE Finish(p) /\ lock' = Nobody
  BY DEF ImportScenes, Reads, db, history
<1>2. /\ TypeOK /\ file \in Files /\ baseline \in [docs : Docs, file : Files] /\ Known(ver, baseline.docs.act)
      /\ baseline.file = RenderOf(ver, baseline.docs)
      /\ touches = 0 /\ ~crashed => file = baseline.file
  BY <1>1, Inside
<1>3. D \in Docs /\ Known(ver, D.act)
  BY RowsRead
<1>4. CASE baseline # NoBaseline /\ D = baseline.docs
  <2>1. Reads(p, "importFile", D) /\ lock' = lock
    BY <1>1, <1>4
  <2> HIDE DEF D
  <2>2. /\ op' \in [Proc -> Ops] /\ op'[p].at = "importFile" /\ op'[p].docs = D
        /\ \A q \in Proc : q # p => op'[q] = op[q]
    BY <1>2, <1>3, <2>1, ReadMoves DEF Steps
  <2>3. Step(p)
    BY <1>1, <1>2, <2>1, <2>2, StepOf
  <2>4. Establishes(p)
    BY <1>1, <1>2, <1>3, <1>4, <2>2, AuthorKept DEF Establishes
  <2>5. ASSUME touches = 0, ~crashed PROVE StaysQuiet(p)
    <3>1. NoneOwed' => baseline.docs = Current
      BY <1>1, <2>2, <2>5, OwedBefore, ImportQuiet
    <3>2. Current' = Current
      BY <1>1 DEF Current
    <3> QED
      BY <1>1, <1>2, <1>4, <2>2, <2>5, <3>1, <3>2 DEF StaysQuiet
  <2> QED
    BY <2>3, <2>4, <2>5, SyncStep
<1>5. CASE ~(baseline # NoBaseline /\ D = baseline.docs)
  BY <1>1, <1>5, ImportAborts
<1> QED
  BY <1>4, <1>5

LEMMA ImportFileStep ==
    ASSUME IInv, NEW p \in Proc, ImportFile(p)
    PROVE  IInv'
<1>1. /\ op[p].at = "importFile" /\ UNCHANGED <<db, history>> /\ file' = file /\ baseline' = baseline
      /\ UNCHANGED <<ver, act, title, file, baseline, saved, touches, crashed>>
      /\ IF Parses(file, op[p].docs)
         THEN op' = [op EXCEPT ![p].at = "importCommit", ![p].text = file] /\ lock' = lock
         ELSE Finish(p) /\ lock' = Nobody
  BY DEF ImportFile, db, history
<1>2. /\ TypeOK /\ file \in Files /\ baseline \in [docs : Docs, file : Files] /\ Known(ver, baseline.docs.act)
      /\ baseline.file = RenderOf(ver, baseline.docs) /\ Known(ver, op[p].docs.act)
      /\ touches = 0 /\ ~crashed => file = baseline.file
  BY <1>1, Inside
<1>3. CASE Parses(file, op[p].docs)
  <2>1. op' = [op EXCEPT ![p].at = "importCommit", ![p].text = file] /\ lock' = lock
    BY <1>1, <1>3
  <2>2. /\ op' \in [Proc -> Ops] /\ op'[p].at = "importCommit" /\ op'[p].docs = op[p].docs /\ op'[p].text = file
        /\ \A q \in Proc : q # p => op'[q] = op[q]
    BY <1>2, <2>1, TextMoves DEF Steps
  <2>3. Step(p)
    BY <1>1, <1>2, <2>1, <2>2, StepOf
  <2>4. op[p].docs = baseline.docs
    BY <1>1 DEF IInv, Paired
  <2>5. Establishes(p)
    BY <1>1, <1>2, <1>3, <2>2, <2>4, AuthorKept DEF Establishes
  <2>6. ASSUME touches = 0, ~crashed PROVE StaysQuiet(p)
    <3>1. NoneOwed' => baseline.docs = Current
      BY <1>1, <2>2, <2>6, OwedBefore, ImportQuiet
    <3>2. Current' = Current
      BY <1>1 DEF Current
    <3> QED
      BY <1>1, <1>2, <2>2, <2>4, <2>6, <3>1, <3>2 DEF StaysQuiet
  <2> QED
    BY <2>3, <2>5, <2>6, SyncStep
<1>4. CASE ~Parses(file, op[p].docs)
  BY <1>1, <1>4, ImportAborts
<1> QED
  BY <1>3, <1>4


\* The text that the active versions a of the rows v give the part d.
Shown(v, a, d) == IF a[d] = 0 THEN NoText ELSE v[a[d]].text

\* The rows an import adds, one for each part of s, and the versions it activates.
NewRows(v, s, k, f) == v \o [i \in 1 .. k |-> [part |-> s[i], text |-> f.text[s[i]]]]
NewActive(v, a, s, k) ==
    [d \in Part |-> IF \E i \in 1 .. k : s[i] = d
                    THEN Len(v) + CHOOSE i \in 1 .. k : s[i] = d
                    ELSE a[d]]

\* One new row for every part whose text differs makes the database say what the file says.
Differ(v, a, f, s, k) == \A d \in Part : (\E i \in 1 .. k : s[i] = d) <=> f.text[d] # Shown(v, a, d)
Imported(v, a, f, w, b) ==
    /\ w \in Seq(Versions) /\ Longer(v, w) /\ b \in [Part -> 0 .. Len(w)] /\ Known(w, b)
    /\ \A d \in Part : f.text[d] = Shown(w, b, d)
    /\ (\A d \in Part : f.text[d] = Shown(v, a, d)) => b = a

LEMMA CommitRows ==
    ASSUME NEW v \in Seq(Versions), NEW a \in [Part -> 0 .. Len(v)], Known(v, a), NEW f \in Files,
           \A d \in Part : f.text[d] = NoText <=> a[d] = 0,
           NEW k \in Nat, NEW s \in [1 .. k -> Part], Differ(v, a, f, s, k)
    PROVE  Imported(v, a, f, NewRows(v, s, k, f), NewActive(v, a, s, k))
<1> DEFINE w == NewRows(v, s, k, f)
           b == NewActive(v, a, s, k)
<1>0. \A d \in Part : (\E i \in 1 .. k : s[i] = d) <=> f.text[d] # Shown(v, a, d)
  BY DEF Differ
<1> DEFINE u == [i \in 1 .. k |-> [part |-> s[i], text |-> f.text[s[i]]]]
<1>1. Len(v) \in Nat /\ f.text \in [Part -> Text \union {NoText}]
  BY DEF Files
<1>2. ASSUME NEW i \in 1 .. k PROVE s[i] \in Part /\ f.text[s[i]] \in Text
  <2>1. s[i] \in Part /\ f.text[s[i]] # Shown(v, a, s[i])
    BY <1>0
  <2>2. f.text[s[i]] # NoText
    BY <2>1 DEF Shown
  <2> QED
    BY <1>1, <2>1, <2>2
<1>3. u \in Seq(Versions) /\ Len(u) = k
  <2>1. \A i \in 1 .. k : [part |-> s[i], text |-> f.text[s[i]]] \in Versions
    BY <1>2 DEF Versions
  <2>2. u \in [1 .. k -> Versions]
    BY <2>1
  <2> HIDE DEF u
  <2> QED
    BY <2>2
<1>4. \A i \in 1 .. k : u[i].part = s[i] /\ u[i].text = f.text[s[i]]
  OBVIOUS
<1>5. w = v \o u
  BY DEF NewRows
<1> HIDE DEF u, w
<1>6. /\ w \in Seq(Versions) /\ Len(w) = Len(v) + k
      /\ \A i \in 1 .. Len(v) : w[i] = v[i]
      /\ \A i \in 1 .. k : w[Len(v) + i] = u[i]
  <2>1. w \in Seq(Versions) /\ Len(w) = Len(v) + k
    BY <1>3, <1>5
  <2>2. \A i \in 1 .. Len(v) : w[i] = v[i]
    BY <1>1, <1>3, <1>5
  <2>3. ASSUME NEW i \in 1 .. k PROVE w[Len(v) + i] = u[i]
    <3>1. Len(v) + i \in 1 .. (Len(v) + Len(u)) /\ Len(v) + i > Len(v) /\ Len(v) + i - Len(v) = i
      BY <1>1, <1>3
    <3> QED
      BY <1>3, <1>5, <3>1
  <2> QED
    BY <2>1, <2>2, <2>3
<1>7. Longer(v, w)
  BY <1>1, <1>6 DEF Longer
<1>8. ASSUME NEW d \in Part, \E i \in 1 .. k : s[i] = d
      PROVE  \E i \in 1 .. k : s[i] = d /\ b[d] = Len(v) + i
  BY <1>8 DEF NewActive
<1>9. ASSUME NEW d \in Part, ~\E i \in 1 .. k : s[i] = d
      PROVE  b[d] = a[d]
  BY <1>9 DEF NewActive
<1>b. b = [d \in Part |-> b[d]]
  BY DEF NewActive
<1> HIDE DEF b
<1>10. ASSUME NEW d \in Part
       PROVE  /\ b[d] \in 0 .. Len(w) /\ f.text[d] = Shown(w, b, d)
              /\ b[d] # 0 => b[d] \in 1 .. Len(w) /\ w[b[d]].part = d
  <2>1. CASE \E i \in 1 .. k : s[i] = d
    <3>1. PICK i \in 1 .. k : s[i] = d /\ b[d] = Len(v) + i
      BY <1>8, <2>1
    <3>2. b[d] \in 1 .. Len(w) /\ b[d] # 0
      BY <1>1, <1>6, <3>1
    <3>3. w[b[d]] = u[i]
      BY <1>6, <3>1
    <3>4. w[b[d]].part = d /\ w[b[d]].text = f.text[d]
      BY <1>4, <3>1, <3>3
    <3> QED
      BY <1>1, <1>6, <3>2, <3>4 DEF Shown
  <2>2. CASE ~\E i \in 1 .. k : s[i] = d
    <3>1. b[d] = a[d] /\ f.text[d] = Shown(v, a, d)
      BY <1>0, <1>9, <2>2
    <3>2. a[d] \in 0 .. Len(v) /\ (a[d] # 0 => a[d] \in 1 .. Len(v) /\ v[a[d]].part = d)
      BY DEF Known
    <3>3. a[d] # 0 => w[a[d]] = v[a[d]]
      BY <1>6, <3>2
    <3> QED
      BY <1>1, <1>6, <3>1, <3>2, <3>3 DEF Shown
  <2> QED
    BY <2>1, <2>2
<1>11. b \in [Part -> 0 .. Len(w)] /\ Known(w, b)
  BY <1>10, <1>b DEF Known
<1>12. ASSUME \A d \in Part : f.text[d] = Shown(v, a, d) PROVE b = a
  <2>1. \A d \in Part : b[d] = a[d]
    BY <1>0, <1>9, <1>12
  <2> QED
    BY <1>11, <2>1
<1> QED
  BY <1>6, <1>7, <1>10, <1>11, <1>12 DEF Imported, w, b

Commits(p, b) == op' = [op EXCEPT ![p].at = "importBaseline", ![p].docs.act = b]

LEMMA CommitMoves ==
    ASSUME TypeOK, NEW p \in Proc, NEW b \in [Part -> Nat], Commits(p, b)
    PROVE  /\ op' \in [Proc -> Ops] /\ op'[p].at = "importBaseline" /\ op'[p].text = op[p].text
           /\ op'[p].docs = [title |-> op[p].docs.title, act |-> b]
           /\ \A q \in Proc : q # p => op'[q] = op[q]
<1> DEFINE D == [op[p].docs EXCEPT !.act = b]
           r == [op[p] EXCEPT !.at = "importBaseline", !.docs = D]
<1>1. op[p] \in Ops /\ op[p].docs \in Docs
  BY OpFields
<1>2. D \in Docs /\ D = [title |-> op[p].docs.title, act |-> b]
  BY <1>1 DEF Docs
<1>3. r \in Ops /\ r.at = "importBaseline" /\ r.docs = D /\ r.text = op[p].text
  BY <1>1, <1>2 DEF Ops, Steps
<1>4. op' = [op EXCEPT ![p] = r]
  BY DEF TypeOK, Commits
<1> HIDE DEF r, D
<1> QED
  BY <1>2, <1>3, <1>4, OpReplaced


LEMMA ImportCommitStep ==
    ASSUME IInv, NEW p \in Proc, ImportCommit(p)
    PROVE  IInv'
<1>1. op[p].at = "importCommit" /\ UNCHANGED <<title, file, baseline, saved, touches, crashed>>
  BY DEF ImportCommit, history
<1>2. /\ TypeOK /\ file \in Files /\ baseline \in [docs : Docs, file : Files] /\ Known(ver, baseline.docs.act)
      /\ baseline.file = RenderOf(ver, baseline.docs) /\ op[p].docs \in Docs
      /\ touches = 0 /\ ~crashed => file = baseline.file
  BY <1>1, Inside
<1>3. CASE ~StillCurrent(p)
  <2>1. Finish(p) /\ lock' = Nobody /\ UNCHANGED <<ver, act>>
    BY <1>3 DEF ImportCommit
  <2> QED
    BY <1>1, <2>1, ImportAborts
<1>4. CASE StillCurrent(p)
  <2> DEFINE f == op[p].text
  <2>0. PICK k \in 0 .. (MaxVersions - Len(ver)) : \E s \in [1 .. k -> Part] : ImportParts(p, k, s)
    BY <1>4 DEF ImportCommit
  <2>1. PICK s \in [1 .. k -> Part] :
          /\ \A d \in Part : (\E i \in 1 .. k : s[i] = d) <=> f.text[d] # Render(Current).text[d]
          /\ ver' = NewRows(ver, s, k, f) /\ act' = NewActive(ver, act, s, k)
          /\ Commits(p, act') /\ lock' = lock
    BY <2>0 DEF ImportParts, NewRows, NewActive, Commits
  <2>2. /\ ver \in Seq(Versions) /\ act \in [Part -> 0 .. Len(ver)] /\ Known(ver, act) /\ Len(ver) \in Nat
        /\ f \in Files /\ k \in Nat
    BY <1>2, OpFields DEF IInv, TypeOK, Rows
  <2>3. op[p].docs = baseline.docs /\ Parses(f, op[p].docs) /\ act = op[p].docs.act
    BY <1>1, <1>4 DEF IInv, Paired, StillCurrent
  <2>4. \A d \in Part : f.text[d] = NoText <=> act[d] = 0
    BY <2>3 DEF Parses
  <2>5. \A d \in Part : Render(Current).text[d] = Shown(ver, act, d)
    BY DEF Render, Current, Shown
  <2>6. Differ(ver, act, f, s, k)
    BY <2>1, <2>5 DEF Differ
  <2> HIDE DEF f
  <2>7. /\ ver' \in Seq(Versions) /\ Longer(ver, ver') /\ act' \in [Part -> 0 .. Len(ver')] /\ Known(ver', act')
        /\ \A d \in Part : f.text[d] = Shown(ver', act', d)
        /\ (\A d \in Part : f.text[d] = Shown(ver, act, d)) => act' = act
    <3>1. Imported(ver, act, f, NewRows(ver, s, k, f), NewActive(ver, act, s, k))
      BY <2>2, <2>4, <2>6, CommitRows
    <3>2. Imported(ver, act, f, ver', act')
      BY <2>1, <3>1
    <3> QED
      BY <3>2 DEF Imported
  <2>8. act' \in [Part -> Nat]
    BY <2>7
  <2>9. /\ op' \in [Proc -> Ops] /\ op'[p].at = "importBaseline" /\ op'[p].text = f
        /\ op'[p].docs = [title |-> op[p].docs.title, act |-> act']
        /\ \A q \in Proc : q # p => op'[q] = op[q]
    BY <1>2, <2>1, <2>8, CommitMoves DEF f
  <2>10. Step(p)
    <3>1. \A q \in Proc : q # p => op[q].at \in {"idle", "sync"}
      BY <1>1, <1>2, Exclusive
    <3>2. \A q \in Proc : lock' = q <=> op'[q].at \notin {"idle", "sync"}
      BY <1>1, <1>2, <2>1, <2>9 DEF TypeOK
    <3> QED
      BY <1>1, <1>2, <2>7, <2>9, <3>1, <3>2 DEF Step
  <2>11. f = RenderOf(ver', op'[p].docs)
    <3>1. f = [title |-> f.title, text |-> f.text] /\ f.text \in [Part -> Text \union {NoText}]
      BY <2>2 DEF Files
    <3>2. f.title = op[p].docs.title
      BY <2>3 DEF Parses
    <3> DEFINE g == [d \in Part |-> IF act'[d] = 0 THEN NoText ELSE ver'[act'[d]].text]
    <3>3. RenderOf(ver', op'[p].docs) = [title |-> op[p].docs.title, text |-> g]
      BY <2>9 DEF RenderOf
    <3>4. f.text = g
      BY <2>7, <3>1 DEF Shown
    <3> HIDE DEF g
    <3> QED
      BY <3>1, <3>2, <3>3, <3>4
  <2>12. Establishes(p)
    <3>1. Known(ver', baseline.docs.act) /\ RenderOf(ver', baseline.docs) = RenderOf(ver, baseline.docs)
      BY <2>7, RowsKept
    <3>2. EditorWaits => AuthorTextKept'
      BY <1>1, <2>7, AuthorLonger
    <3>3. op'[p].docs.act = act'
      BY <2>9
    <3> QED
      BY <1>1, <1>2, <2>7, <2>9, <2>11, <3>1, <3>2, <3>3 DEF Establishes
  <2>13. ASSUME touches = 0, ~crashed PROVE StaysQuiet(p)
    <3>1. f = file
      BY <1>1, <2>13 DEF IInv, FileFollows, f
    <3>2. \A d \in Part : f.text[d] = Shown(ver, act, d)
      BY <1>2, <2>3, <2>13, <3>1 DEF RenderOf, Shown
    <3>3. act' = act
      BY <2>7, <3>2
    <3>4. NoneOwed' => baseline.docs = Current
      BY <1>1, <2>9, <2>13, OwedBefore, ImportQuiet
    <3>5. Current' = Current
      BY <1>1, <3>3 DEF Current
    <3>6. op'[p].docs = baseline.docs
      <4>1. baseline.docs = [title |-> baseline.docs.title, act |-> baseline.docs.act]
        BY <1>2, <2>3 DEF Docs
      <4> QED
        BY <2>3, <2>9, <3>3, <4>1
    <3> QED
      BY <1>1, <1>2, <2>9, <2>13, <3>1, <3>4, <3>5, <3>6 DEF StaysQuiet
  <2> QED
    BY <2>10, <2>12, <2>13, SyncStep
<1> QED
  BY <1>3, <1>4
-----------------------------------------------------------------------------
(* The environment *)

LEMMA CrashStep ==
    ASSUME IInv, NEW p \in Proc, Crash(p)
    PROVE  IInv'
<1>1. /\ Finish(p) /\ lock' = (IF lock = p THEN Nobody ELSE lock) /\ crashed' = TRUE
      /\ UNCHANGED <<ver, act, title, file, baseline, saved, touches>>
  BY DEF Crash, db
<1>2. TypeOK /\ Idle.at = "idle" /\ Idle.docs = NoDocs /\ Known(ver, NoDocs.act)
  BY NoFileFields DEF IInv
<1>3. op' \in [Proc -> Ops] /\ op'[p] = Idle /\ \A q \in Proc : q # p => op'[q] = op[q]
  BY <1>1, <1>2, FinishMoves
<1>4. TypeOK'
  <2>1. \A q \in Proc : lock' = q <=> op'[q].at \notin {"idle", "sync"}
    BY <1>1, <1>2, <1>3, ChapterAssumption DEF TypeOK
  <2> QED
    BY <1>1, <1>2, <1>3, <2>1 DEF TypeOK, Ops
<1>5. Rows'
  <2>1. \A q \in Proc : Known(ver, op'[q].docs.act)
    BY <1>2, <1>3 DEF IInv, Rows
  <2> QED
    BY <1>1, <2>1 DEF IInv, Rows, Known
<1>6. Paired'
  <2>1. ASSUME NEW q \in Proc
        PROVE  /\ op'[q].at \in {"baseline", "importBaseline"} => op'[q].text = RenderOf(ver, op'[q].docs)
               /\ op'[q].at \in {"importFile", "importCommit"} => op'[q].docs = baseline.docs
               /\ op'[q].at = "importCommit" => Parses(op'[q].text, op'[q].docs)
    BY <1>2, <1>3 DEF IInv, Paired
  <2>2. baseline.file = RenderOf(ver, baseline.docs)
    BY DEF IInv, Paired
  <2> QED
    BY <1>1, <2>1, <2>2 DEF Paired, RenderOf, Parses
<1>7. Overwritable'
  <2>1. EditorWaits => \A q \in Proc : op'[q].at \in {"readChapter", "readScenes", "write"} => Covered(ver, file)
    BY <1>2, <1>3 DEF IInv, Overwritable, InWindow
  <2> QED
    BY <1>1, <2>1 DEF Overwritable, InWindow, Covered
<1>8. (EditorWaits => AuthorTextKept)'
  BY <1>1, AuthorKept
<1>9. FileFollows' /\ DocsFollow'
  BY <1>1 DEF FileFollows, DocsFollow
<1> QED
  BY <1>4, <1>5, <1>6, <1>7, <1>8, <1>9 DEF IInv

\* Whatever the editor leaves in the file is a file.
LEMMA EditsAreFiles ==
    ASSUME IInv, NEW f \in Edits
    PROVE  f \in Files
<1>1. file \in Files
  BY DEF IInv, TypeOK
<1>2. [NoFile EXCEPT !.title = "broken"] \in Files /\ [file EXCEPT !.title = "broken"] \in Files
  BY <1>1, NoFileFields DEF Files
<1>3. ASSUME NEW d \in Part, NEW t \in Text PROVE [file EXCEPT !.text[d] = t] \in Files
  BY <1>1 DEF Files
<1> QED
  BY <1>2, <1>3 DEF Edits

LEMMA EditorStep ==
    ASSUME IInv, EditorSave \/ EditorDelete
    PROVE  IInv'
<1>1. PICK f \in Files : EditorTouches(f)
  BY EditsAreFiles, NoFileFields DEF EditorSave, EditorDelete
<1>2. /\ EditorWaits => \A p \in Proc : ~InWindow(p)
      /\ file' = f /\ saved' = f /\ touches' = touches + 1
      /\ UNCHANGED <<ver, act, title, baseline, lock, op, crashed>>
  BY <1>1 DEF EditorTouches, db
<1>3. TypeOK'
  BY <1>2 DEF IInv, TypeOK
<1>4. Rows'
  BY <1>2 DEF IInv, Rows, Known
<1>5. Paired'
  BY <1>2 DEF IInv, Paired, RenderOf, Parses
<1>6. Overwritable'
  BY <1>2 DEF Overwritable, InWindow
<1>7. AuthorTextKept'
  BY <1>2 DEF AuthorTextKept
<1>8. touches' # 0
  BY <1>2 DEF IInv, Rows
<1>9. FileFollows' /\ DocsFollow'
  BY <1>8 DEF FileFollows, DocsFollow
<1> QED
  BY <1>3, <1>4, <1>5, <1>6, <1>7, <1>9 DEF IInv

-----------------------------------------------------------------------------
(* The specification *)

LEMMA InitHolds == Init => IInv
<1> SUFFICES ASSUME Init PROVE IInv
  OBVIOUS
<1>1. /\ ver = << >> /\ act = [d \in Part |-> 0] /\ title = "none" /\ file = NoFile /\ baseline = NoBaseline
      /\ lock = Nobody /\ op = [p \in Proc |-> Idle] /\ saved = NoFile /\ touches = 0 /\ crashed = FALSE
  BY DEF Init
<1>2. \A p \in Proc : op[p].at = "idle" /\ op[p].docs = NoDocs
  BY <1>1, NoFileFields
<1>3. TypeOK
  <2>1. act \in [Part -> 0 .. Len(ver)] /\ ver \in Seq(Versions)
    BY <1>1
  <2>2. op \in [Proc -> [at : Steps, docs : Docs, text : Files]]
    BY <1>1, NoFileFields
  <2>3. \A p \in Proc : lock = p <=> op[p].at \notin {"idle", "sync"}
    BY <1>1, <1>2, ChapterAssumption
  <2> QED
    BY <1>1, <2>1, <2>2, <2>3, NoFileFields DEF TypeOK
<1>4. Rows
  <2>1. Known(ver, act)
    BY <1>1 DEF Known
  <2>2. Known(ver, baseline.docs.act) /\ \A p \in Proc : Known(ver, op[p].docs.act)
    BY <1>1, <1>2, NoFileFields
  <2> QED
    BY <1>1, <2>1, <2>2, NoFileFields DEF Rows
<1>5. Paired
  BY <1>1, <1>2, NoFileFields DEF Paired
<1>6. Overwritable /\ AuthorTextKept
  BY <1>1, <1>2 DEF Overwritable, InWindow, AuthorTextKept
<1>7. FileFollows
  BY <1>1, <1>2, NoFileFields DEF FileFollows
<1>8. DocsFollow
  BY <1>1, <1>2, NoFileFields DEF DocsFollow, Current, NoDocs
<1> QED
  BY <1>3, <1>4, <1>5, <1>6, <1>7, <1>8 DEF IInv

LEMMA StepHolds == IInv /\ [Next]_vars => IInv'
<1> SUFFICES ASSUME IInv, [Next]_vars PROVE IInv'
  OBVIOUS
<1>1. ASSUME NEW p \in Proc, ProcStep(p) PROVE IInv'
  <2>1. ASSUME Continue(p) PROVE IInv'
    BY <2>1, ReadStep, WriteFileStep, SaveBaselineStep, ImportScenesStep, ImportFileStep, ImportCommitStep
      DEF Continue
  <2> QED
    BY <1>1, <2>1, WriterStep, ExportBeginStep, ImportBeginStep, CrashStep DEF ProcStep
<1>2. CASE UNCHANGED vars
  <2>1. UNCHANGED <<ver, act, title, file, baseline, lock, op, saved, touches, crashed>>
    BY <1>2 DEF vars
  <2>2. TypeOK' /\ Rows' /\ Paired'
    <3>1. TypeOK' /\ Rows'
      BY <2>1 DEF IInv, TypeOK, Rows, Known
    <3>2. Paired'
      BY <2>1 DEF IInv, Paired, RenderOf, Parses
    <3> QED
      BY <3>1, <3>2
  <2>3. Overwritable' /\ (EditorWaits => AuthorTextKept)' /\ FileFollows' /\ DocsFollow'
    BY <2>1 DEF IInv, Overwritable, InWindow, Covered, AuthorTextKept, FileFollows, DocsFollow, NoneOwed,
                Exporting, Current
  <2> QED
    BY <2>2, <2>3 DEF IInv
<1> QED
  BY <1>1, <1>2, EditorStep DEF Next

\* Whatever exports, imports, database writers, editor saves and crashes interleave: the
\* lock has one holder, a baseline always pairs documents with their own rendering, and
\* what an import commits is checked against the baseline it was read with.
THEOREM SyncInvariance == Spec => []IInv
  BY InitHolds, StepHolds, PTL DEF Spec

\* ChapterSync.status never says "clean" of a file that differs from the database: a torn
\* read of chapter and scenes is saved as what was read, so it shows as a changed database.
THEOREM CleanIsEqual == Spec => []CleanMeansEqual
<1>1. IInv => CleanMeansEqual
  <2> SUFFICES ASSUME IInv, Status = "clean" PROVE file = Render(Current)
    BY DEF CleanMeansEqual
  <2>1. ~FileEdited /\ ~DatabaseChanged
    BY DEF Status
  <2>2. file = RenderOf(ver, Current)
    BY <2>1 DEF FileEdited, DatabaseChanged, IInv, Paired
  <2> QED
    BY <2>2, RenderIs
<1> QED
  BY <1>1, SyncInvariance, PTL

\* No export or import discards what the author left in the file, as long as the editor
\* does not save between an export's check of the file and its write.
THEOREM AuthorTextSurvives == ASSUME EditorWaits PROVE Spec => []AuthorTextKept
<1>1. IInv => AuthorTextKept
  BY DEF IInv
<1> QED
  BY <1>1, SyncInvariance, PTL

\* Once every process has finished, and nobody touched the file and no process died, the
\* chapter's file is the database's: the export that follows each commit makes up for
\* every export that read before it.
THEOREM QuietIsClean == Spec => []QuietMeansClean
<1>1. IInv => QuietMeansClean
  <2> SUFFICES ASSUME IInv, touches = 0, ~crashed, Created(Chapter), \A p \in Proc : op[p] = Idle
               PROVE  Status = "clean"
    BY DEF QuietMeansClean
  <2>1. \A p \in Proc : op[p].at = "idle"
    BY NoFileFields
  <2>2. file = baseline.file
    BY <2>1 DEF IInv, FileFollows
  <2>3. baseline.docs = Current
    BY <2>1 DEF IInv, DocsFollow, NoneOwed, Exporting
  <2>4. ver \in Seq(Versions) /\ Known(ver, act) /\ act[Chapter] # 0 /\ Chapter \in Part
    BY ChapterAssumption DEF IInv, TypeOK, Rows, Created
  <2>5. act[Chapter] \in 1 .. Len(ver)
    BY <2>4 DEF Known
  <2>6. ver[act[Chapter]].text # NoText
    <3>1. ver[act[Chapter]] \in Versions
      BY <2>4, <2>5
    <3> QED
      BY <3>1, ChapterAssumption DEF Versions
  <2>7. file = RenderOf(ver, Current)
    BY <2>2, <2>3 DEF IInv, Paired
  <2>8. file.text[Chapter] # NoText
    BY <2>4, <2>6, <2>7 DEF RenderOf, Current
  <2>9. file # NoFile
    BY <2>4, <2>8 DEF NoFile
  <2>10. baseline # NoBaseline
    BY <2>2, <2>9, NoFileFields
  <2> QED
    BY <2>2, <2>3, <2>9, <2>10 DEF Status, FileEdited, DatabaseChanged
<1> QED
  BY <1>1, SyncInvariance, PTL

LEMMA OthersStay ==
    ASSUME TypeOK, NEW p \in Proc, NEW q \in Proc, ProcStep(q), p # q
    PROVE  op'[p] = op[p]
<1>1. op \in [Proc -> Ops]
  BY DEF TypeOK, Ops
<1>2. ASSUME NEW a, Goto(q, a) PROVE op'[p] = op[p]
  BY <1>1, <1>2 DEF Goto
<1>3. ASSUME Finish(q) PROVE op'[p] = op[p]
  BY <1>1, <1>3 DEF Finish
<1>4. ASSUME Continue(q) PROVE op'[p] = op[p]
  BY <1>1, <1>3, <1>4 DEF Continue, ReadChapter, ReadScenes, WriteFile, SaveBaseline, ImportScenes, ImportFile,
                           ImportCommit, ImportParts
<1>5. ASSUME ImportBegin(q) PROVE op'[p] = op[p]
  BY <1>1, <1>5 DEF ImportBegin
<1> QED
  BY <1>2, <1>3, <1>4, <1>5 DEF ProcStep, CreatePart, EditPart, ReactivateVersion, UpdateTitle, ExportBegin, Crash

\* import_file replaces only what the author saw: between reading the documents and the
\* commit any writer may run, and still each version replaced is the baseline's.
THEOREM ImportsReplaceTheBaseline == Spec => ImportReplacesBaseline
<1> DEFINE Replaces(p) ==
      op[p].at = "importCommit" /\ op'[p].at = "importBaseline" =>
        \A d \in Part : act'[d] # act[d] => act[d] = baseline.docs.act[d]
<1>1. ASSUME IInv, [Next]_vars, NEW p \in Proc PROVE Replaces(p)
  <2> SUFFICES ASSUME op[p].at = "importCommit", op'[p].at = "importBaseline"
               PROVE  \A d \in Part : act'[d] # act[d] => act[d] = baseline.docs.act[d]
    OBVIOUS
  <2>1. op' # op
    OBVIOUS
  <2>2. ProcStep(p)
    <3>1. PICK q \in Proc : ProcStep(q)
      BY <1>1, <2>1 DEF Next, EditorSave, EditorDelete, EditorTouches, vars
    <3>2. q = p
      BY <1>1, <3>1, OthersStay DEF IInv
    <3> QED
      BY <3>1, <3>2
  <2>3. op[p] # Idle /\ op'[p] # Idle
    BY NoFileFields
  <2>4. ~Crash(p)
    <3>1. Finish(p) => op'[p] = Idle
      BY <1>1, FinishMoves DEF IInv
    <3> QED
      BY <2>3, <3>1 DEF Crash
  <2>5. ImportCommit(p)
    BY <2>2, <2>3, <2>4 DEF ProcStep, Continue, CreatePart, EditPart, ReactivateVersion, UpdateTitle, ExportBegin,
      ImportBegin, ReadChapter, ReadScenes, WriteFile, SaveBaseline, ImportScenes, ImportFile
  <2>6. CASE StillCurrent(p)
    BY <1>1, <2>6 DEF IInv, Paired, StillCurrent
  <2>7. CASE ~StillCurrent(p)
    BY <2>5, <2>7 DEF ImportCommit
  <2> QED
    BY <2>6, <2>7
<1>2. IInv /\ [Next]_vars => [\A p \in Proc : Replaces(p)]_vars
  BY <1>1
<1> QED
  BY <1>2, SyncInvariance, PTL DEF Spec, ImportReplacesBaseline
=============================================================================
