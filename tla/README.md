# Verification of LiteraryAgent

TLA+ models of the parts of LiteraryAgent that decide what is in a book (the
documents and their versions, the Story Bible, creative decisions, narrative
knowledge, the plain-text mirror of a chapter), of the parts that run work on
it (expert reviews, workflows and their control), and of the memory pipeline of
its engine.  TLC checks the models on small instances; TLAPS proves the
properties that matter most for every instance.

## 1. The system

LiteraryAgent is a writing assistant around a vendored agent engine.  The
engine (`core/codex`) is third-party code; the product is the Python package
`lg-cli/lg_cli`, a VS Code client (`lg-vscode`) and declarative data (prompts,
skills, workflows).  Several processes work on one book at the same time: the
CLI, the studio backend, an MCP server that the engine calls, and workflow
runs.  They share an SQLite database (WAL, 5 s busy timeout), the files next to
it, and nothing else.

By lines the repository is almost entirely the vendored engine: some 900,000
lines of Rust, of which the models cover the memory pipeline (`state`,
`memories/write`) and nothing else.  The logic that is this project's own is the
Python package, and the models follow it.

| component | state | operations | what makes it correct |
|---|---|---|---|
| document and version store (`project_store.py`) | documents, versions, scene cards | create, revise, edit, import a chapter, accept, reject, restore, plan and approve scenes | no update is lost, version numbers name one text, rejected text stays out, a card tells the truth about its manuscript |
| Story Bible (`project_store.py`) | facts, their history, proposals | add, set, promote, archive, propose, accept, reject | canon comes from current accepted text, history explains every fact, a proposal is applied once or not at all |
| chapter mirror (`chapter_sync.py`) | chapter file, baseline, lock | status, export, import | "clean" is true, the author's text is never thrown away, the mirror catches up |
| narrative knowledge (`narrative_knowledge.py`, `narrative_view.py`) | append-only records with a head | propose, confirm, withdraw, project a view | only the author confirms, one answer per position |
| creative decisions (`creative_decisions.py`) | append-only records with a head | save options, select, withdraw, review context | only the author selects, what was selected is what was shown |
| supervision (`supervision.py`, `story_review.py`) | analysis reports, receipts | gate an acceptance, publish afterwards | accepted text has its reports |
| workflow control (`workflow_control.py`) and studio backend (`backend.py`, `backend_analysis.py`) | the current job, its worker process, the tasks of a session, the journal of runs | open, schedule, approve, stop, retry, cancel, close | one worker at a time, which can be stopped; a stop or a close that returns has stopped what it knew of; every started run is journalled as ended, once; every request ends |
| run store (`run_store.py`), stages of a workflow (`workflow_runner.py`, `story_workflow.py`) | runs, stages | run, adopt | adoption happens once |
| expert reviews (`bounded_reviews.py`, `codex_reviews.py`) | calls, jobs, budget, checkpoint | begin, call, execute, settle, revoke, drain, restore | budget kept, nothing replayed, what was settled or shown is final, the checkpoint can be restored |
| memory pipeline of the engine (`memories.rs`, `phase1.rs`, `phase2.rs`) | extraction jobs with leases, outputs, the global job, the memory workspace and its git baseline | scan, claim, succeed, fail, select, consolidate, reset, forget | leases within the cap, a memory is of the last success, one consolidator at a time, a polluted thread is finally forgotten |
| conversations (`conversation_store.py`) | log of messages | append, read | append-only |
| adapters, provider bridge, CLI and terminal, configuration, library, VS Code client | – | – | protocol translation, rendering, parsing |

How they interact: every process calls `ProjectStore`; decisions and knowledge
records are *managed* documents of the same tables, which the generic
operations refuse; facts, decisions and knowledge cite versions as sources; a
database write that touches a chapter is followed, after its commit, by an
export of the chapter file.

What is hard here: Python's sqlite3 runs a SELECT before the first write in
autocommit mode, so an operation without `BEGIN IMMEDIATE` decides on values
that may have changed; `create_scene` is two transactions; files, baseline and
database are changed one after the other and any process may die in between;
authors save files while the mirror works; candidates, proposals and previews
are applied long after they were made; a stop, a retry, a cancellation and the
end of a worker process meet at every await of one event loop; models answer
after they were cancelled; leases expire under workers that are still alive.  `PROJECT.json` lists these hazards at
their lines.

## 2. The modules

`DocumentStore` – `doc`, `ver` and `card` are the tables `documents`,
`document_versions` and `scene_cards`; `op[p]` is what process `p` has read and
not yet acted on.  A row id is a position in `ver`.  Operations that begin with
`BEGIN IMMEDIATE`, or write before they read, are single actions
(`CreateDocument`, `CreateVersion`, `EditActiveDocument`,
`EditChapterDocuments`, `AcceptVersion`, `SetScenePlan`, `ApproveScene`,
`MarkSceneDrafted`, `ManagedWrite`); `reject_version`, `restore_version` and
`create_scene` are two, and `Crash` may fall between them.  A refusal changes
nothing, so it is the action not being enabled.  Abstracted: texts, titles,
tags, search index, the analysis gate of `accept_version` (it only refuses).

`StoryBible` extends it with `fact`, `hist` and `proposal`; `reject_proposal`
is two actions.  The documents its facts cite keep moving by the actions of
`DocumentStore`.

`ChapterSync` – `ver`, `act`, `title` are the database as the mirror sees it,
`file` the Markdown file, `baseline` the saved manifest, `lock` the flock,
`op[p]` the step of a process and what it has read.  An export is
`ExportBegin` (status under the lock), `ReadChapter`, `ReadScenes`,
`WriteFile`, `SaveBaseline`; an import `ImportBegin`, `ImportScenes`,
`ImportFile`, `ImportCommit`, `SaveBaseline`.  `EditorSave` and `EditorDelete`
are the author's text editor.  `saved`, `touches` and `crashed` are history
variables for the properties.  The digest of a file is the file.

`NarrativeKnowledge` – `log[r]` is the list of payloads of a record, its head
the last one; `source` and `closed` stand for the manuscript and the character
documents, which move freely.  `Visible` is `narrative_view.project`.

`CreativeDecisions` extends `DocumentStore`: options cite version rows, and
`ReviewContext`/`ProjectedContext` are `review_context` without and with
projected versions.

`AuthorChoice` is the abstract specification of these two: what is in force
is something that was offered for that record and that the author chose.  Both
modules instantiate it with a refinement mapping.

`ExpertReviews` – `mem` are the objects of `BoundedReviews` and `CodexReviews`,
`disk` the checkpoint in the session's metadata, `pc` and `job` the coroutines
of calls and experts, `callCancel` and `jobCancel` cancellations that have not
been seen yet, `phase`, `active` and `turn` the runtime.  `shown`, `asked` and
`told` record what left the process.  A save may fail before or after the file
was replaced; the process may die at every await; a model may return although
it was cancelled.

`WorkflowControl` – `job`, `changed` and `lock` are the fields of
`WorkflowControl`, `handle` is `ProcessHost.process`, `run` the tasks of
`Backend.tasks`, `proc` the worker processes, `journal` the `run/started` and
`run/completed` events, `op` the coroutines of `stop`, `retry` and `cancel`,
`owned` the list that each `cancel` makes.  A job is named by its first run.  Kinds
of workflow: a command, whose request is fed to the worker; an analysis (approved
before every attempt); the review of an acceptance (never retried).  The steps of a
task follow the awaits of `run_command`: making the process, reading its output,
`await feed` and the wait (`last`), the end of the feeding in the `finally` (`feed`),
the wait for the signalled worker (`reap`).  Requests to stop and retry come from the
agent's socket, which `cancel_requests` cancels, and from the author's words, which
are part of the agent's task.

The backend serves every message in a task of its own (`backend_stdio.py:56`), so
workflows and turns are started, and any number of `run/cancel` and `session/close`
(`Canceller`) run, beside each other, until a close takes the session out of
`Backend.sessions`.  A client that switches sessions closes one and goes on with the
same backend (`lg-vscode/src/backend/LiteraryBackend.ts:97,134`): `Reopen` gives the
session a new control and host, the tasks the close did not know of are `left` and go on
by `LeftTask`, which abstracts their steps to a start, a worker and an end.  `Quit` and
`Crash` end the backend, `Open` opens the session in the next one.  Of a session,
`popped` is a close in progress, `abandoned` one that cannot be opened again in this
backend because its close raised or a cancel that ended after it took the lock again.

`MemoryTables` declares the rows that both phases of the memory pipeline read and
write: `mode` (the threads and their memory mode) and `output` (the published
memories).  `MemoryStage1` – `job` are the extraction jobs with lease, back-off, retries and
watermark, `seen` and `held` what a worker has
scanned and claimed; every SQL transaction is an action, the clock passing a
lease or a back-off another.  `MemoryPhase2` – `global` is the job of the
consolidation, `workspace` and `baseline` the files and the last commit,
`phase2` the steps of a consolidator from the claim to the new baseline.
`environment` is *calm* (leases outlast their consolidation, nobody resets the
memories) or *rough*.  `MemoryOutputs` is what the two phases promise each other
about the rows they share; both implement it.

Every module states the types of its variables (`TypeOK` or its like); the runs
list the type invariant of the core, `DocumentStore`, and otherwise properties
that say more.

`MC*` modules give the constants their values.  Next to some definitions stand
variants that a bug could have produced (`AcceptableAlways` before
`Acceptable`, ...); no action uses them, they serve to show that the properties
notice the bug.

## 3. The runs

| run | instance | shows |
|---|---|---|
| `document_store` | 2 processes, chapter, scene and managed document, 3 versions | numbers, managed logs, cards, lost updates and rejection under every interleaving and crash |
| `reject_race` (violation) | 2 processes, 1 document | a rejection racing with an acceptance leaves the active version rejected |
| `story_bible` | 2 processes, 1 source with 2 versions, 2 history rows, 1 proposal | history, single application and current sources |
| `chapter_sync` | 2 processes, chapter and scene, 3 versions, 2 editor saves | clean means equal, no author text lost, quiet means clean, imports replace only the baseline |
| `mirror_liveness` | 2 processes, 3 versions, 1 editor save, fairness | the mirror catches up |
| `export_window` (violation) | 1 process, 1 editor save | a save between an export's check and its write is lost |
| `narrative_knowledge` | 2 records, 2 positions, logs of 4 | no overlap, unambiguous view, implements `AuthorChoice` |
| `creative_decisions` | 1 process, chapter with 2 versions, 2 decisions, 3 payloads | implements `AuthorChoice`; review evidence survives adoption |
| `expert_reviews` | 2 experts, 2 calls, 2 turns, 1 change of the source, 1 fault, fairness | budget, restorable checkpoint, results told are recorded, what was shown is final, draining ends |
| `workflow_control` | 2 runs and retries; of any kind with 1 stop, 1 cancel or close, 1 slow step or death; or commands and analyses with 2 cancels or closes; fairness | one worker, held by the host, except for lost ones (section 4); an active job has its task, with one exception (section 4); the journal is settled, also over a reopening; stops and closes are effective; every request ends |
| `memory_stage1` | 2 workers, 2 threads with 2 updates, 1 live lease, 1 retry | leases within the cap, outputs of the last success, watermarks that advance, implements `MemoryOutputs` |
| `memory_phase2` | 2 consolidators, 1 thread with 2 extractions, fairness | one consolidation at a time, the baseline is digested, success records what the baseline holds, only the owner settles, polluted threads are forgotten, implements `MemoryOutputs` |

Bounds.  A race here needs two processes and one document.  Three versions are
an active one, a candidate and a version inserted meanwhile; four add an edit
between a draft and its acceptance.  Two history rows are a fact and its
rewrite.  A log of four is propose, confirm, propose, confirm; two records and
two positions plus the open end give every relation of two half-open intervals
(apart, touching, overlapping, containing).  Two option ids stand for the three
of a slate; three payloads reach options, options, select of the older slate.
Two calls of two experts reach the budget of a turn and exceed it; two turns let
an answer of the first arrive in the second.  Two runs are an attempt and its
retry, or two jobs, so that a request can name a job that is gone; a stop and the
stop of a cancel can wait for one lock; two cancels or closes meet in every order, or
the second meets what the first one left.  The two scenarios of `MCWorkflowControl`
divide the work: what a client's stop and a fault add is checked with one cancel, what
two cancels do to each other without them; the theorems have no such division.  Two threads and one lease let a claim meet
the cap; one retry is the last one.
`MaxVersions`, `MaxHistory`, `MaxProposals`, `MaxTouches`, `MaxLog`, `MaxTurn`,
`MaxChanges`, `MaxRuns`, the numbers of a `Scenario`, `MaxFaults`, `MaxSource` and
`RoughSource` are the only bounds; no property depends on them.  Where deadlock
is not checked, the bounds stop the instance.

`chapter_sync` sets `EditorWaits`: the editor does not save between an export's
check and its write.  That excludes exactly the behaviour `export_window`
exhibits, and nothing else: the editor may still save during every other step
of exports and imports.

Fairness.  `mirror_liveness`: a process inside an export or import continues
(weak fairness), and one that waits in `flock` obtains the lock if it is
released again and again (strong fairness); nothing forces a database write, an
import, a crash or an editor to happen.  `expert_reviews` and
`workflow_control`: the event loop runs what is ready, so every coroutine that
can go on does; a cancelled model request returns or raises, a worker that was
signalled ends (SIGKILL is the last signal), an interrupted turn ends; nothing
forces an approval to be given, a worker to end by itself or a model to answer.
`memory_phase2`: the steps of a consolidator continue and the clock goes on,
sessions keep being started, so that a possible claim is made, and faults stop
at some time; nothing is assumed of the first phase.

`memory_phase2` starts in either environment.  In the rough one a lease may
expire under a live consolidator (its heartbeat is late) and the memories may be
reset during a consolidation; two consolidators may then work on the directory,
and only `OnlyOwnerSettles` and the refinement of `MemoryOutputs` are claimed: the
job is settled by who holds its token, and only snapshots that exist are marked.
The run leaves the rough environment without extractions (`RoughSource` is 0) to
stay small; with one extraction there TLC visits 2.2 million states and finds no
error either, and the theorems hold for every bound.

## 4. Disagreements with the code's own words

1. `reject_race`: `reject_version` reads, decides and writes without
   `BEGIN IMMEDIATE`; it can reject the version that has just become active,
   against "Cannot reject the active version".
2. `export_window`: `docs/book-assets.md` says that sync never overwrites
   externally edited files; the check and the write are separate steps and the
   editor takes no lock.

Other behaviour that the models contain and a reader of the code may not expect;
the properties are stated so that they hold with it:

* `reject_proposal` has the shape of `reject_version`: it can mark as rejected a
  proposal whose fact has just been written.
* A worker can be lost.  The `finally` of `run_command` cancels the feeding of the
  worker and awaits it (`backend.py:98-100`) before it looks at the worker.  A task that
  is cancelled while it reads, and cancelled a second time at that await (two
  `run/cancel`, or a cancel and a close), or once after bad output, skips the rest:
  the worker lives on without a signal while its job is reported as failed, a stop of
  the job returns at once, and a retry starts a second worker.
  `docs/oh-story-integration.md:519` says that cancelling stops the process group.  Only
  commands have a feeding, so an analysis or a review is not lost in this way.  In the
  model such a worker is `lost`; `OneWorker` speaks of the others, and the handle that
  stays with the host is the one of the exception of `ActiveHasTask`.
* `run/cancel` ends the runs that exist when it makes its list.  A retry of the
  agent that waits on the action lock during cancel's own stop is accepted
  afterwards, and its run outlives the cancel; `docs/extension-backend.md:122`
  says that the current execution tree is stopped.  `session/close` stops such a
  run (`CloseSettles`).
* A workflow that is started while its session is being closed, and has not made its
  job when `control.close` looks for one (it has not begun or waits for an approval),
  survives the close and makes its worker in a session that is closed.  `CloseSettles`
  names this as the only way.  When the session is opened again in the same backend,
  the run is journalled as interrupted, its task still counts as active, so that nothing
  else starts, and at its end it writes a second `run/completed`.
* Of two cancels that work on the same agent the later one raises, because what the
  earlier one put in its place holds the session's lock; a close that raises in this
  way, or whose stop timed out, leaves the session open.  A cancel that ends after the
  close locks the session again, and it can then not be opened in this backend.
* A worker that ends successfully while it is being stopped, or whose result
  `on_finish` refuses, leaves a job that is stopped or failed and may be retried,
  although its writes were made.
* A stop gives up its poll after two seconds, while a worker is still being made or an
  approval is still open; a worker made later is not signalled and the stop ends with a
  timeout.
* A task that is cancelled while it waits for the end of its feeding or of its worker
  leaves `ProcessHost.process` set.  When the next attempt of the job is cancelled before
  it began, the stop inside that cancel finds the old handle, signals a process that is
  gone or of the attempt before, sees the event of the previous end and is satisfied; the
  cancel then ends the attempt's task before it ran.  The job stays "stopping" without a
  task, and the session refuses workflows until it is opened again.  `ActiveHasTask`
  names this state as its only exception; the attempt to prove the property without it
  is what showed it.
* A worker has its own process group and outlives a death of the backend.
* `settle_interrupted` publishes a child that is already completed before the
  joint check of the source; and after a failing save a child may have been shown
  as completed that restoring records as cancelled.
* A scan that is older than `delete_threads_strict` can leave a job row of a
  deleted thread.

## 5. The proofs

`DocumentStoreProofs` proves `Spec => []IInv` and from it the type invariant,
`VersionNumbersIncrease`, `ManagedHeadNewest`, `CardMatchesManuscript`, and the
action properties `RejectedStaysRejected` and `NoLostUpdate`, for any number of
processes, documents and versions.  The assumption is `DocumentAssumption` (the
constants have their types).  The properties are not inductive by themselves;
`IInv` adds:

* `Owned`, `Heads` – every version belongs to a document that exists, an active
  version to its own document, and a document that exists has a real state;
* `NoGap` – the numbers of a document are 1..n.  Without it a number read as
  "maximum plus one" and inserted later could fall below a newer one: with it,
  a number that is still free is still the next one;
* `Pending` – what a process holds in `op` still fits: the number before the one
  a pending restore holds is in use, a pending scene card is for a scene
  document, and no pending rejection or restore is about a managed document;
* `CardOwned` – cards belong to scene documents that exist.

`NarrativeKnowledgeProofs` proves that `TypeOK`, `NoOverlap`, `TopicsUnique` and
`ConfirmedWasProposed` are together inductive (an interval check at
confirmation is enough because proposals carry the confirmation over and topics
never change), that the view is unambiguous, and that the module implements
`AuthorChoice`: `Propose` is an offer (its number is past the end of the log, so
it is new), `Confirm` a choice of something offered, `Withdraw` a withdrawal,
everything else a stutter.

`StoryBibleProofs` and `CreativeDecisionsProofs` extend `DocumentStoreProofs`: a step
of their specifications is a step of the documents, for which the lemmas of that module
give the document invariant, or one of their own that leaves the documents
alone.  `BibleInv` adds to it the types of the tables, `RowsExist` (history
rows name facts and proposals that exist), `HistoryExplainsFacts`, `AcceptedOnce` and
`OpenUnwritten`: nothing was written for a proposal that is still open, without which an
acceptance could write a second row.  `Writes` says what every way of writing a
fact does; the action property `CanonWrittenFromCurrentSource` follows from
it.  `DecisionInv` adds that a topic has one decision; from it the refinement of
`AuthorChoice` and `EvidenceSurvivesAdoption` (the projection of a candidate before its
acceptance equals the context after it, through `StepSafe`: only an acceptance makes an
older row the head, and it writes row and head as projected).  Assumptions: `BibleAssumption`, `DecisionAssumption`, `DocumentAssumption`.

`ChapterSyncProofs` proves `CleanMeansEqual`, `QuietMeansClean`, the action property
`ImportReplacesBaseline`, and `AuthorTextKept` under the assumption `EditorWaits`
(without it the property is false, as `export_window` shows).  The invariant:

* `Rows` – every row id that the database, the baseline or a process holds is a row of
  its part, and rows are only added, so a rendering never changes afterwards;
* `Paired` – the baseline, and what a process is about to save as one, pairs documents
  with their own rendering; an import past its comparison works on the documents of the
  baseline and on a text that parses against them;
* `Overwritable` – what an export in its window is about to overwrite is in the database;
* `FileFollows`, `DocsFollow` – while nobody touched the file and nobody died, file and
  baseline agree except between the two writes of an export, and a database change that
  an export may have missed still has its own export ahead (`"sync"`).  `DocsFollow` is
  stated for states in which no such export is owed; it does not hold in the others,
  because reads are torn there.

The lock makes the process inside an export or import the only one that moves file and
baseline, so every step but the writers', the editor's and a crash goes through the one
lemma `SyncStep`.  `CommitRows` shows that one new row for each part that differs makes
the database say what the file says.

`ExpertReviewsProofs` proves `BudgetKept`, `CheckpointRestorable`, `ToldIsRecorded` and
the action property `ShownIsFinal`, for any calls and sources and any finite set of
experts (`ReviewAssumption`).  Its invariant describes memory and disk by the same
`Shape` (budget, one call per expert, used experts are those of the calls);
`Synced` says that they are equal until a save failed, `LiveCalls` and `NewJobs` tie the
children of a live call to their coroutines, `Unfailed` says what holds as long as every
save succeeded, `AskedOnDisk` that an expert is on disk as used before its model is
asked (this gives the budget across a restart), and `ShownAgrees` that a terminal state
that was shown is the one recorded.  The proof divides the steps into those that save
successfully, which keep all parts, and those after which memory and disk differ, after
which the process only drains: for these the parts that speak of memory hold vacuously
or were kept.

`WorkflowControlProofs` proves `OneWorker`, `ActiveHasTask`, `JournalSettled` and the
action properties `CloseSettles` and `StopIsSettled`, for any number of runs, stops and
faults, any scenarios and any set of concurrent cancels and closes (`ControlAssumption`).
None of the properties is inductive; `IInv` adds to the types:

* `RunsNumbered` – runs are numbered in order, and a retry that was accepted has a number
  left (it makes the bound of the model harmless);
* `SingleTask`, `TaskServesJob` – one task at a time, and one that works, or is about to
  go on with a job, is of the current, active job; a task that is left is of none.
  `OneWorker` rests on them, since a new worker is only made by such a task;
* `EventClear` – the event is clear while a task works, so that a stop is not woken by an
  earlier end, which is what `StopIsSettled` needs;
* `JobServed` – an active job has a task that serves it, or is `Stranded` with a handle, a
  set event and a stop: the exception of section 4;
* `JournalFollows` – what the journal says of a run by the state of its task;
* `LockHeld`, `StopMarks` – the lock is held by the stop that is under way, and a retry
  that has not begun is marked while a stop holds the lock;
* for every canceller, `Phase` (where it may be, and that the session is popped while it
  shuts), `Owns` (what it has listed, over when it shuts), `OwnedRetry` (a retry that it
  listed and that has not begun is being stopped, and can be passed only against an old
  handle) and `ShutStops` (no other job takes the place of the one a close stops).
  `CloseSettles` follows from the last three;
* `CancelsMeet` – only one close shuts, and a task has a cancellation pending only while
  a cancel waits for it.

The steps of a task are first reduced to the few kinds of `TaskMoves` (it asks, works,
spawns, minds its worker, settles, gives up, ends or never begins), for which each part is
shown once; steps that leave the tasks alone go through `TasksStand`.

`MemoryProofs` is about both phases.  It proves `LeasesWithinCap`, `OutputIsLastSuccess`,
the action property `WatermarkAdvances` and that the first phase implements
`MemoryOutputs`, for any workers, cap and retry budget and any finite set of threads (the
cap counts rows of a table).  `JobsAhead` (a running job reads a source newer than its last
success) and `ClaimsMatch` (who still owns a claim holds the source it was claimed for)
make them inductive.

Of the second phase it proves `OnlyOneConsolidation`, `BaselineIsDigested`, the action
properties `OnlyOwnerSettles` and `SuccessMatchesBaseline`, and that it too implements
`MemoryOutputs`, for any threads, consolidators and limit on the selection.  The
assumptions are `MaxSourceAssumption` and `RoughSourceAssumption` (bounds on
`updated_at`) and `ConsolidatorAssumption` (a NULL token is nobody's).  The invariant
`P2Inv` adds to the types and to `BaselineIsDigested`:

* `RunningOwned` – a running job has an owner.  Without it
  `mark_global_phase2_job_failed_if_unowned` could settle the job of someone else;
* `WorkersOwn` – in the calm environment whoever is not idle owns the job under a live
  lease, so no one else can claim it and there is one worker;
* `RootKept` – how far the memory root has come, by the stage of the worker (`RootAt`):
  there is a repository from the selection to its removal, the inputs are the loaded ones
  from their rewriting to the commit, the files are digested from the validation on, and
  at the mark the baseline is.  Its last part is about nobody's stage: a root without
  repository is empty or digested, which is what a process that dies between the removal
  and the commit leaves for the next one to take as a baseline.

`PollutedStaysForgotten` is the safety half of `PollutedForgotten`: once a polluted thread
is outside the baseline and nobody holds inputs loaded before it was polluted
(`Forgotten`), it never returns, in either environment.  That this state is reached is
left to the run.

Only model-checked: the liveness properties `MirrorCatchesUp`, `DrainEnds`,
`RequestsEnd` and `PollutedForgotten`, because the prover does not handle fairness.  That
the bodies of `AuthorChoice` and `MemoryOutputs` are implemented is proved for safety;
they state no fairness.

## 6. Not modelled

* The engine except for its memory pipeline: vendored third-party code.
* Approvals of writes and task scopes of the backend (`approvals.py`,
  `task_scope.py`), source leases: the grants live in the runtime metadata, and
  the policy that reads them is a table of operations.
* The run store and adoption, supervision, the stages inside a worker process:
  sequences of file writes and model requests between operations of the store
  that are modelled.  Adoption (`run_store.py:337`) looks for a version of the run
  and creates one in a later transaction; the reports of an acceptance
  (`supervision.py:223`) are published after its commit.
* The native variant of expert reviews (`native_delegation.py`), which keeps a
  checkpoint of another form around the same bounded reviews.
* Fields of scene cards other than their state and plan, document metadata, tags
  and the search index.  `update_scene_card` (`project_store.py:1247`) and
  `update_document` (`:526`) write back every field they read, so that of two
  concurrent changes one is lost; `edit_active_document` (`:604`) leaves the index
  with the old text.
* `create_version` with `activate` set (`project_store.py:545`): only tests pass it; the
  callers of the product that give an expected version write a candidate.  The newline at
  the end of a chapter file, and contexts projected over several documents at once
  (`creative_decisions.py:160`): each document is projected by itself.
* Conversation log, source impact reports, library listings, configuration,
  rendering and input of the terminal, the wire formats of the provider bridge,
  the VS Code client: I/O, parsing and translation, without state that two
  actors change.

## 7. How far the proofs reach

Every invariant, every action property and every refinement that a passing run checks is
a theorem; the runs show it on small instances and against the mutants, and are the only
check of the four liveness properties.  What bounds the value of
the theorems is the model: the two environments of `MemoryPhase2` are assumptions about
leases and resets; the exception of `JobServed`, the lost workers and left tasks of
`WorkflowControl` and the draining states of `ExpertReviews` are where the code gives up a
guarantee; and the parts of section 6 are not covered at all.  `OneWorker` counts no lost
worker and `StopIsSettled` speaks of the tasks of a job, so neither says anything of a
worker whose task was cancelled at `backend.py:100`.
