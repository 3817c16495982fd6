---------------------------- MODULE ChapterSync ----------------------------
(***************************************************************************)
(* The plain-text mirror of one chapter (lg-cli/lg_cli/chapter_sync.py):   *)
(* the database, the Markdown file an author may edit with any editor, and *)
(* the baseline that remembers what was last exported or imported.         *)
(*                                                                         *)
(* Exports and imports hold an flock; database writers and the editor do   *)
(* not take it.  Reading the chapter row and reading its scene rows are    *)
(* two database snapshots.  Every database write that touches the chapter  *)
(* is followed, after its commit, by an export of its process.             *)
(*                                                                         *)
(* A version is a row id with an immutable text.  title stands for the     *)
(* snapshot fields an edit of the text does not move (title, state,        *)
(* sequence); the heading of the file shows it.  The digest of a file is   *)
(* the file itself.  Writing a file or a baseline is atomic (os.replace).  *)
(***************************************************************************)
EXTENDS Integers, Sequences

CONSTANTS
    Proc,         \* processes that write the database and run the sync
    Part,         \* the chapter and its scenes
    Chapter,      \* the chapter's own document
    Text,         \* texts of a part
    Title,        \* titles of the chapter
    MaxVersions,  \* bound on version rows
    MaxTouches,   \* bound on saves and deletions by the external editor
    EditorWaits   \* TRUE: the editor never saves between an export's check and its write

NoText == "none"
Nobody == "nobody"

ASSUME ChapterAssumption ==
    /\ Chapter \in Part /\ Nobody \notin Proc
    /\ NoText \notin Text
    /\ "none" \notin Title /\ "broken" \notin Title
    /\ MaxVersions \in Nat /\ MaxTouches \in Nat
    /\ EditorWaits \in BOOLEAN

VARIABLES
    ver,       \* version rows: the part and its text
    act,       \* active version of every part, 0 before it is created
    title,     \* the chapter's title
    file,      \* the chapter file
    baseline,  \* the saved baseline
    lock,      \* the holder of chapter-sync.lock
    op,        \* where each process is, and what it has read
    saved,     \* what the external editor last left: a file, or NoFile after none
    touches,   \* how often it did
    crashed    \* some process died inside an operation

db == <<ver, act, title>>
history == <<saved, touches, crashed>>
vars == <<ver, act, title, file, baseline, lock, op, saved, touches, crashed>>

NoFile == [title |-> "none", text |-> [d \in Part |-> NoText]]
NoDocs == [title |-> "none", act |-> [d \in Part |-> 0]]
NoBaseline == [docs |-> NoDocs, file |-> NoFile]
Idle == [at |-> "idle", docs |-> NoDocs, text |-> NoFile]

Files == [title : Title \union {"none", "broken"}, text : [Part -> Text \union {NoText}]]
Docs == [title : Title \union {"none"}, act : [Part -> Nat]]
Steps == {"idle", "sync", "readChapter", "readScenes", "write", "baseline",
          "importScenes", "importFile", "importCommit", "importBaseline"}

Versions == [part : Part, text : Text]
Created(d) == act[d] # 0
Scenes == Part \ {Chapter}

\* What _snapshot would return now.
Current == [title |-> title, act |-> act]

\* _render of the documents read: heading, and one marked section per document.
Render(docs) ==
    [title |-> docs.title,
     text |-> [d \in Part |-> IF docs.act[d] = 0 THEN NoText ELSE ver[docs.act[d]].text]]

\* _parse: same heading, same markers.
Parses(f, docs) ==
    /\ f.title = docs.title
    /\ \A d \in Part : f.text[d] = NoText <=> docs.act[d] = 0

\* ChapterSync.status.
FileEdited == file # baseline.file
DatabaseChanged == Current # baseline.docs
Status ==
    CASE file = NoFile -> "missing"
      [] baseline = NoBaseline -> "untracked"
      [] FileEdited /\ DatabaseChanged -> "conflict"
      [] FileEdited -> "file-edited"
      [] DatabaseChanged -> "database-changed"
      [] OTHER -> "clean"

Init ==
    /\ ver = << >>
    /\ act = [d \in Part |-> 0]
    /\ title = "none"
    /\ file = NoFile
    /\ baseline = NoBaseline
    /\ lock = Nobody
    /\ op = [p \in Proc |-> Idle]
    /\ saved = NoFile
    /\ touches = 0
    /\ crashed = FALSE

\* _lock: an exclusive flock, released by the kernel when its holder dies.
LockLeftBehind == lock = Nobody /\ baseline = NoBaseline
LockFree == lock = Nobody

Goto(p, at) == op' = [op EXCEPT ![p].at = at]
Finish(p) == op' = [op EXCEPT ![p] = Idle]
-----------------------------------------------------------------------------
(***************************************************************************)
(* Database writers: after the commit the process goes on to export.       *)
(***************************************************************************)
CreatePart(p, d, t, h) ==
    /\ op[p] = Idle
    /\ ~Created(d)
    /\ d # Chapter => Created(Chapter)
    /\ Len(ver) < MaxVersions
    /\ ver' = Append(ver, [part |-> d, text |-> t])
    /\ act' = [act EXCEPT ![d] = Len(ver) + 1]
    /\ title' = IF d = Chapter THEN h ELSE title
    /\ Goto(p, "sync")
    /\ UNCHANGED <<file, baseline, lock, history>>

\* edit_active_document, or a candidate that is created and then accepted.
EditPart(p, d, t) ==
    /\ op[p] = Idle
    /\ Created(d)
    /\ Len(ver) < MaxVersions
    /\ ver' = Append(ver, [part |-> d, text |-> t])
    /\ act' = [act EXCEPT ![d] = Len(ver) + 1]
    /\ Goto(p, "sync")
    /\ UNCHANGED <<title, file, baseline, lock, history>>

\* accept_version of an older version.
ReactivateVersion(p, i) ==
    /\ op[p] = Idle
    /\ act[ver[i].part] # i
    /\ act' = [act EXCEPT ![ver[i].part] = i]
    /\ Goto(p, "sync")
    /\ UNCHANGED <<ver, title, file, baseline, lock, history>>

UpdateTitle(p, h) ==
    /\ op[p] = Idle
    /\ Created(Chapter)
    /\ title # h
    /\ title' = h
    /\ Goto(p, "sync")
    /\ UNCHANGED <<ver, act, file, baseline, lock, history>>
-----------------------------------------------------------------------------
(***************************************************************************)
(* export: check the file, read the documents, write the file, save the    *)
(* baseline.                                                               *)
(***************************************************************************)
\* Only a missing file, or one that is exactly what the baseline recorded.
OverwriteAnything == TRUE
OverwriteMissing == file = NoFile
MayOverwrite == file = NoFile \/ (baseline # NoBaseline /\ ~FileEdited)

\* From idle it is `chapter sync`, from sync the tail of a database write.
ExportBegin(p) ==
    /\ op[p].at \in {"idle", "sync"}
    /\ Created(Chapter)
    /\ LockFree
    /\ IF MayOverwrite
       THEN lock' = p /\ Goto(p, "readChapter")
       ELSE Finish(p) /\ UNCHANGED lock
    /\ UNCHANGED <<db, file, baseline, history>>

ReadChapter(p) ==
    /\ op[p].at = "readChapter"
    /\ op' = [op EXCEPT ![p].at = "readScenes",
                        ![p].docs = [title |-> title,
                                     act |-> [d \in Part |-> IF d = Chapter THEN act[d] ELSE 0]]]
    /\ UNCHANGED <<db, file, baseline, lock, history>>

\* The scene rows, added to the chapter row read before.
WithScenes(docs) ==
    [docs EXCEPT !.act = [d \in Part |-> IF d = Chapter THEN docs.act[d] ELSE act[d]]]

ReadScenes(p) ==
    /\ op[p].at = "readScenes"
    /\ op' = [op EXCEPT ![p].at = "write", ![p].docs = WithScenes(op[p].docs)]
    /\ UNCHANGED <<db, file, baseline, lock, history>>

WriteFile(p) ==
    /\ op[p].at = "write"
    /\ file' = Render(op[p].docs)
    /\ op' = [op EXCEPT ![p].at = "baseline", ![p].text = Render(op[p].docs)]
    /\ UNCHANGED <<db, baseline, lock, history>>

\* The baseline takes the documents and the text this process used, not what
\* the file or the database hold by now.
BaselineOfNow(p) == [docs |-> Current, file |-> op[p].text]
BaselineOf(p) == [docs |-> op[p].docs, file |-> op[p].text]

SaveBaseline(p) ==
    /\ op[p].at \in {"baseline", "importBaseline"}
    /\ baseline' = BaselineOf(p)
    /\ lock' = Nobody
    /\ Finish(p)
    /\ UNCHANGED <<db, file, history>>
-----------------------------------------------------------------------------
(***************************************************************************)
(* import_file: read the documents and compare them with the baseline,     *)
(* read and parse the file, commit against the versions read, save the     *)
(* baseline.                                                               *)
(***************************************************************************)
ImportBegin(p) ==
    /\ op[p] = Idle
    /\ Created(Chapter)
    /\ LockFree
    /\ lock' = p
    /\ op' = [op EXCEPT ![p].at = "importScenes",
                        ![p].docs = [title |-> title,
                                     act |-> [d \in Part |-> IF d = Chapter THEN act[d] ELSE 0]]]
    /\ UNCHANGED <<db, file, baseline, history>>

ImportScenes(p) ==
    /\ op[p].at = "importScenes"
    /\ IF baseline # NoBaseline /\ WithScenes(op[p].docs) = baseline.docs
       THEN /\ op' = [op EXCEPT ![p].at = "importFile", ![p].docs = WithScenes(op[p].docs)]
            /\ UNCHANGED lock
       ELSE Finish(p) /\ lock' = Nobody
    /\ UNCHANGED <<db, file, baseline, history>>

ImportFile(p) ==
    /\ op[p].at = "importFile"
    /\ IF Parses(file, op[p].docs)
       THEN op' = [op EXCEPT ![p].at = "importCommit", ![p].text = file] /\ UNCHANGED lock
       ELSE Finish(p) /\ lock' = Nobody
    /\ UNCHANGED <<db, file, baseline, history>>

\* edit_chapter_documents: every active version is still the one read.
ImportUnchecked(p) == op[p].at = "importCommit"
StillCurrent(p) == act = op[p].docs.act

\* One new version for each of the k parts s, which are those whose text changed.
ImportParts(p, k, s) ==
    /\ \A i, j \in 1 .. k : s[i] = s[j] => i = j
    /\ \A d \in Part : (\E i \in 1 .. k : s[i] = d) <=> op[p].text.text[d] # Render(Current).text[d]
    /\ ver' = ver \o [i \in 1 .. k |-> [part |-> s[i], text |-> op[p].text.text[s[i]]]]
    /\ act' = [d \in Part |->
                 IF \E i \in 1 .. k : s[i] = d
                 THEN Len(ver) + CHOOSE i \in 1 .. k : s[i] = d
                 ELSE act[d]]
    /\ op' = [op EXCEPT ![p].at = "importBaseline", ![p].docs.act = act']
    /\ UNCHANGED lock

\* All in one transaction.
ImportCommit(p) ==
    /\ op[p].at = "importCommit"
    /\ IF StillCurrent(p)
       THEN \E k \in 0 .. (MaxVersions - Len(ver)) : \E s \in [1 .. k -> Part] : ImportParts(p, k, s)
       ELSE Finish(p) /\ lock' = Nobody /\ UNCHANGED <<ver, act>>
    /\ UNCHANGED <<title, file, baseline, history>>
-----------------------------------------------------------------------------
(***************************************************************************)
(* The environment.                                                        *)
(***************************************************************************)
\* A process dies; the kernel releases its flock.
Crash(p) ==
    /\ op[p] # Idle
    /\ Finish(p)
    /\ lock' = IF lock = p THEN Nobody ELSE lock
    /\ crashed' = TRUE
    /\ UNCHANGED <<db, file, baseline, saved, touches>>

\* Texts an author may leave in the file: one part rewritten, the heading
\* broken, or a file of the author's own where there was none.
Edits ==
    IF file = NoFile THEN {[NoFile EXCEPT !.title = "broken"]}
    ELSE {[file EXCEPT !.text[d] = t] : d \in {d \in Part : file.text[d] # NoText}, t \in Text}
         \union {[file EXCEPT !.title = "broken"]}

InWindow(p) == op[p].at \in {"readChapter", "readScenes", "write"}

EditorTouches(f) ==
    /\ touches < MaxTouches
    /\ EditorWaits => \A p \in Proc : ~InWindow(p)
    /\ f # file
    /\ file' = f
    /\ saved' = f
    /\ touches' = touches + 1
    /\ UNCHANGED <<db, baseline, lock, op, crashed>>

EditorSave == \E f \in Edits : EditorTouches(f)
EditorDelete == EditorTouches(NoFile)
-----------------------------------------------------------------------------
\* Steps a process takes once it has begun an operation.
Continue(p) ==
    \/ ReadChapter(p) \/ ReadScenes(p) \/ WriteFile(p) \/ SaveBaseline(p)
    \/ ImportScenes(p) \/ ImportFile(p) \/ ImportCommit(p)

ProcStep(p) ==
    \/ \E d \in Part, t \in Text, h \in Title : CreatePart(p, d, t, h)
    \/ \E d \in Part, t \in Text : EditPart(p, d, t)
    \/ \E i \in 1 .. Len(ver) : ReactivateVersion(p, i)
    \/ \E h \in Title : UpdateTitle(p, h)
    \/ ExportBegin(p)
    \/ ImportBegin(p)
    \/ Continue(p)
    \/ Crash(p)

Next == (\E p \in Proc : ProcStep(p)) \/ EditorSave \/ EditorDelete

Spec == Init /\ [][Next]_vars

\* A process that runs keeps running, and a process that waits in flock gets
\* the lock when it keeps being released (the kernel wakes waiters in turn).
Fairness == \A p \in Proc :
    /\ WF_vars(Continue(p))
    /\ SF_vars(op[p].at = "sync" /\ ExportBegin(p))

FairSpec == Spec /\ Fairness
-----------------------------------------------------------------------------
(***************************************************************************)
(* Properties.                                                             *)
(***************************************************************************)
\* Every variable has its shape, and the lock is held exactly by the process
\* that is inside an export or an import.
TypeOK ==
    /\ ver \in Seq(Versions)
    /\ act \in [Part -> 0 .. Len(ver)]
    /\ title \in Title \union {"none"}
    /\ file \in Files
    /\ baseline \in [docs : Docs, file : Files]
    /\ op \in [Proc -> [at : Steps, docs : Docs, text : Files]]
    /\ \A p \in Proc : lock = p <=> op[p].at \notin {"idle", "sync"}

\* "clean" is true: whenever status reports it, the file is exactly what an
\* export of the database would write, whatever torn reads, racing commits,
\* editor saves and crashes led there.
CleanMeansEqual == Status = "clean" => file = Render(Current)

\* No author text is discarded: what the external editor last left is still the
\* file, or every part of it is a version in the database.
AuthorTextKept ==
    saved = NoFile \/ file = saved \/
    \A d \in Part : saved.text[d] # NoText =>
        \E i \in 1 .. Len(ver) : ver[i] = [part |-> d, text |-> saved.text[d]]

\* While nobody touches the file and no process dies, the mirror is never left
\* behind: once every process has finished, status is clean.
QuietMeansClean ==
    touches = 0 /\ ~crashed /\ Created(Chapter) /\ (\A p \in Proc : op[p] = Idle)
        => Status = "clean"

\* An import replaces only text its author had in the file: each active version
\* it replaces is the one the baseline recorded.
ImportReplacesBaseline ==
    [][\A p \in Proc : op[p].at = "importCommit" /\ op'[p].at = "importBaseline" =>
        \A d \in Part : act'[d] # act[d] => act[d] = baseline.docs.act[d]]_vars

\* The mirror catches up: once the database stops changing, status becomes clean
\* and stays so, unless an editor or a crash interfered.
MirrorCatchesUp ==
    <>[][act' = act /\ title' = title]_vars =>
        <>[](Created(Chapter) => Status = "clean" \/ touches > 0 \/ crashed)
=============================================================================
