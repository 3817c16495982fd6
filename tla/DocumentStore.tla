--------------------------- MODULE DocumentStore ---------------------------
(***************************************************************************)
(* The documents, versions and scene cards of one book, as ProjectStore    *)
(* keeps them in SQLite (lg-cli/lg_cli/project_store.py).                  *)
(*                                                                         *)
(* Several processes (CLI, studio backend, MCP server, workflow runner)    *)
(* open the same database.  An operation that starts with BEGIN IMMEDIATE, *)
(* or whose only read follows its first write, is one atomic action.  An   *)
(* operation that SELECTs first and writes later runs its SELECTs in       *)
(* autocommit mode, so it is two actions with the values it read held in   *)
(* op[p] between them.  Every refusal (ProjectStoreError) rolls back and   *)
(* changes nothing: it is the action not being enabled.                    *)
(*                                                                         *)
(* A version is identified by its row id, which is its position in ver;    *)
(* rows are never deleted.  Text, titles, tags and reasons are abstracted: *)
(* no operation below looks at them, except that a chapter import skips    *)
(* the parts whose text is unchanged (the set of changed parts is chosen). *)
(***************************************************************************)
EXTENDS Integers, Sequences

CONSTANTS
    Proc,         \* processes that open the database
    Doc,          \* document slugs
    KindOf,       \* the kind each slug is created with
    ParentOf,     \* the chapter a scene is created under; itself when none
    UserStates,   \* the states authors pass to `document create` and `revise`
    MaxVersions   \* bound on version rows

DOCUMENT_STATES == {"draft", "candidate", "accepted", "final", "archived", "rejected"}
SCENE_STATES == {"planned", "approved", "drafted", "reviewed", "accepted", "final", "archived"}
PLAN_STATES == {"empty", "candidate", "approved"}
Kinds == {"chapter", "scene", "note", "managed"}

ASSUME DocumentAssumption ==
    /\ KindOf \in [Doc -> Kinds]
    /\ ParentOf \in [Doc -> Doc]
    /\ UserStates \subseteq DOCUMENT_STATES
    /\ MaxVersions \in Nat

VARIABLES
    doc,    \* documents: state and active_version_id of every slug
    ver,    \* document_versions, in row-id order
    card,   \* scene_cards: status and plan_state
    op      \* what each process has read and not yet acted on

docVars == <<doc, ver, card, op>>

(***************************************************************************)
(* Values.                                                                 *)
(***************************************************************************)
NoDoc == [state |-> "none", active |-> 0]
NoCard == [status |-> "none", plan |-> "none"]
Idle == [name |-> "idle", ver |-> 0, num |-> 0]

Documents == [state : DOCUMENT_STATES \union {"none"}, active : Nat]
Versions == [doc : Doc, num : Nat, state : DOCUMENT_STATES, base : Nat, prev : Nat]
Cards == [status : SCENE_STATES \union {"none"}, plan : PLAN_STATES \union {"none"}]
Ops == [name : {"idle", "reject", "restore", "scene"}, ver : Nat, num : Nat]

VersionIds == 1 .. Len(ver)
VersionsOf(d) == {i \in VersionIds : ver[i].doc = d}
Exists(d) == doc[d].active # 0

\* guard_kind: generic writes refuse the managed kinds.
AnyKind(d) == d \in Doc
Generic(d) == KindOf[d] # "managed"

\* SELECT MAX(version_number) ... + 1: a set with one element.
NumberAfter(d) ==
    {n \in 1 .. (Len(ver) + 1) :
        /\ \A i \in VersionsOf(d) : ver[i].num < n
        /\ n = 1 \/ \E i \in VersionsOf(d) : ver[i].num = n - 1}

\* The row _insert_version adds; base is metadata base_version_id and prev is
\* previous_version_id (0: absent).
Version(d, n, s, base, prev) ==
    [doc |-> d, num |-> n, state |-> s, base |-> base, prev |-> prev]

Room == Len(ver) < MaxVersions

\* _activate_version: the version and the document take the same state.
ActivatedNext(d, i, s) == [doc EXCEPT ![d] = [state |-> s, active |-> i + 1]]
Activated(d, i, s) == [doc EXCEPT ![d] = [state |-> s, active |-> i]]

Init ==
    /\ doc = [d \in Doc |-> NoDoc]
    /\ ver = << >>
    /\ card = [d \in Doc |-> NoCard]
    /\ op = [p \in Proc |-> Idle]
-----------------------------------------------------------------------------
(***************************************************************************)
(* Creation.                                                               *)
(***************************************************************************)
\* INSERT documents (UNIQUE slug, resolved parent), version 1 in the same state,
\* activate it.
InsertDocument(d, s) ==
    /\ ~Exists(d)
    /\ ParentOf[d] = d \/ Exists(ParentOf[d])
    /\ Room
    /\ ver' = Append(ver, Version(d, 1, s, 0, 0))
    /\ doc' = Activated(d, Len(ver) + 1, s)

CreateDocument(p, d, s) ==
    /\ op[p] = Idle
    /\ Generic(d)
    /\ InsertDocument(d, s)
    /\ UNCHANGED <<card, op>>

\* create_scene commits the document first and the card in a transaction of
\* its own; the process holds the new document's first version meanwhile.
CreateSceneDocument(p, d) ==
    /\ op[p] = Idle
    /\ KindOf[d] = "scene"
    /\ InsertDocument(d, "draft")
    /\ op' = [op EXCEPT ![p] = [name |-> "scene", ver |-> Len(ver) + 1, num |-> 0]]
    /\ UNCHANGED card

\* The second transaction also resolves the chapter's kind: when the parent is
\* no chapter it fails, and the scene document stays without a card.
CreateSceneCard(p) ==
    /\ op[p].name = "scene"
    /\ op' = [op EXCEPT ![p] = Idle]
    /\ LET d == ver[op[p].ver].doc IN
         card' = IF ParentOf[d] = d \/ KindOf[ParentOf[d]] = "chapter"
                 THEN [card EXCEPT ![d] = [status |-> "planned", plan |-> "empty"]]
                 ELSE card
    /\ UNCHANGED <<doc, ver>>

\* _write of creative_decisions and narrative_knowledge: the head of a managed
\* document moves to a new draft version, against the head the caller read.
ManagedWrite(p, d, e) ==
    /\ op[p] = Idle
    /\ KindOf[d] = "managed"
    /\ doc[d].active = e
    /\ Room
    /\ \E n \in NumberAfter(d) : ver' = Append(ver, Version(d, n, "draft", 0, e))
    /\ doc' = Activated(d, Len(ver) + 1, "draft")
    /\ UNCHANGED <<card, op>>
-----------------------------------------------------------------------------
(***************************************************************************)
(* Versions.                                                               *)
(***************************************************************************)
\* With an expected version the new one is bound to it (base_version_id) and
\* stays a candidate; without, the author chooses any state.  The product
\* never passes activate=True.
CreateVersion(p, d, s, e) ==
    /\ op[p] = Idle
    /\ Exists(d)
    /\ Generic(d)
    /\ e # 0 => doc[d].active = e /\ s = "candidate"
    /\ Room
    /\ \E n \in NumberAfter(d) : ver' = Append(ver, Version(d, n, s, e, 0))
    /\ UNCHANGED <<doc, card, op>>

EditActiveDocument(p, d, e) ==
    /\ op[p] = Idle
    /\ Exists(d)
    /\ Generic(d)
    /\ doc[d].active = e
    /\ Room
    /\ \E n \in NumberAfter(d) : ver' = Append(ver, Version(d, n, doc[d].state, 0, e))
    /\ doc' = Activated(d, Len(ver) + 1, doc[d].state)
    /\ UNCHANGED <<card, op>>

\* A chapter and the scenes below it.
ChapterGroup(c) == {d \in Doc : Exists(d) /\ (d = c \/ (KindOf[d] = "scene" /\ ParentOf[d] = c))}

\* What the caller read of every part must be what is active now, for the
\* whole group; changed lists the parts whose text differs, each once.
ChapterCurrent(c, e) == \A d \in ChapterGroup(c) : doc[d].active = e[d]

EditChapterDocuments(p, c, e, changed) ==
    LET k == Len(changed) IN
    /\ op[p] = Idle
    /\ Exists(c)
    /\ KindOf[c] = "chapter"
    /\ ChapterCurrent(c, e)
    /\ Len(ver) + k <= MaxVersions
    /\ \E num \in [1 .. k -> 1 .. (Len(ver) + 1)] :
         /\ \A i \in 1 .. k : num[i] \in NumberAfter(changed[i])
         /\ ver' = [i \in 1 .. (Len(ver) + k) |->
                      IF i <= Len(ver) THEN ver[i]
                      ELSE LET d == changed[i - Len(ver)] IN
                           Version(d, num[i - Len(ver)], doc[d].state, 0, e[d])]
    /\ doc' = [d \in Doc |->
                 IF \E i \in 1 .. k : changed[i] = d
                 THEN [state |-> doc[d].state,
                       active |-> Len(ver) + CHOOSE i \in 1 .. k : changed[i] = d]
                 ELSE doc[d]]
    /\ UNCHANGED <<card, op>>

\* A candidate that names a base is accepted only on that base; a rejected
\* version never.
AcceptableOnAnyBase(i) == ver[i].state # "rejected"
AcceptableAlways(i) ==
    ver[i].state = "candidate" /\ ver[i].base # 0 => doc[ver[i].doc].active = ver[i].base
Acceptable(i) ==
    /\ ver[i].state = "candidate" /\ ver[i].base # 0 => doc[ver[i].doc].active = ver[i].base
    /\ ver[i].state # "rejected"

\* A scene's card, when it has one, follows the acceptance.
SceneStatusFinal(d, s) ==
    IF card[d] = NoCard THEN card
    ELSE [card EXCEPT ![d] = [status |-> "final", plan |-> card[d].plan]]
SceneStatus(d, s) ==
    IF card[d] = NoCard THEN card
    ELSE [card EXCEPT ![d] = [status |-> s, plan |-> card[d].plan]]

\* e: what the caller previewed (0: no expectation).
AcceptVersion(p, i, e, final) ==
    LET d == ver[i].doc
        target == IF final THEN "final" ELSE "accepted"
    IN  /\ op[p] = Idle
        /\ Generic(d)
        /\ e # 0 => doc[d].active = e
        /\ Acceptable(i)
        /\ ver' = [ver EXCEPT ![i].state = target]
        /\ doc' = Activated(d, i, target)
        /\ card' = SceneStatus(d, target)
        /\ UNCHANGED op

\* "Cannot reject the active version."
NotActive(i) == doc[ver[i].doc].active # i

\* reject_version reads the document and the target without a transaction ...
RejectVersionRead(p, i) ==
    /\ op[p] = Idle
    /\ Generic(ver[i].doc)
    /\ NotActive(i)
    /\ op' = [op EXCEPT ![p] = [name |-> "reject", ver |-> i, num |-> 0]]
    /\ UNCHANGED <<doc, ver, card>>

\* ... and updates the version's state by its id.
RejectVersionWrite(p) ==
    /\ op[p].name = "reject"
    /\ ver' = [ver EXCEPT ![op[p].ver].state = "rejected"]
    /\ op' = [op EXCEPT ![p] = Idle]
    /\ UNCHANGED <<doc, card>>

\* restore_version reads the source and the next number without a transaction ...
RestoreVersionRead(p, i) ==
    /\ op[p] = Idle
    /\ Generic(ver[i].doc)
    /\ \E n \in NumberAfter(ver[i].doc) :
         op' = [op EXCEPT ![p] = [name |-> "restore", ver |-> i, num |-> n]]
    /\ UNCHANGED <<doc, ver, card>>

\* UNIQUE(document_id, version_number).
NumberIgnored(d, n) == d \in Doc /\ n \in Nat
NumberFree(d, n) == \A j \in VersionsOf(d) : ver[j].num # n

\* ... and inserts a candidate; a number taken meanwhile is an IntegrityError.
RestoreVersionWrite(p) ==
    LET d == ver[op[p].ver].doc IN
    /\ op[p].name = "restore"
    /\ op' = [op EXCEPT ![p] = Idle]
    /\ \/ /\ NumberFree(d, op[p].num)
          /\ Room
          /\ ver' = Append(ver, Version(d, op[p].num, "candidate", 0, 0))
       \/ /\ ~NumberFree(d, op[p].num)
          /\ UNCHANGED ver
    /\ UNCHANGED <<doc, card>>
-----------------------------------------------------------------------------
(***************************************************************************)
(* Scene cards.  A card's plan is empty exactly while plan_state is.       *)
(***************************************************************************)
SetScenePlan(p, d, s) ==
    /\ op[p] = Idle
    /\ card[d] # NoCard
    /\ card' = [card EXCEPT ![d] =
                   [status |-> IF s = "approved" THEN "approved" ELSE "planned", plan |-> s]]
    /\ UNCHANGED <<doc, ver, op>>

ApproveScene(p, d) ==
    /\ op[p] = Idle
    /\ card[d] # NoCard
    /\ card[d].plan # "empty"
    /\ card' = [card EXCEPT ![d] = [status |-> "approved", plan |-> "approved"]]
    /\ UNCHANGED <<doc, ver, op>>

MarkSceneDrafted(p, d) ==
    /\ op[p] = Idle
    /\ card[d] # NoCard
    /\ card' = [card EXCEPT ![d] = [status |-> "drafted", plan |-> card[d].plan]]
    /\ UNCHANGED <<doc, ver, op>>

\* A process dies between its two steps: what it had read is gone.
Crash(p) ==
    /\ op[p] # Idle
    /\ op' = [op EXCEPT ![p] = Idle]
    /\ UNCHANGED <<doc, ver, card>>
-----------------------------------------------------------------------------
DocStep(p) ==
    \/ \E d \in Doc, s \in UserStates : CreateDocument(p, d, s)
    \/ \E d \in Doc : CreateSceneDocument(p, d)
    \/ CreateSceneCard(p)
    \/ \E d \in Doc, e \in 0 .. Len(ver) : ManagedWrite(p, d, e)
    \/ \E d \in Doc, s \in UserStates, e \in 0 .. Len(ver) : CreateVersion(p, d, s, e)
    \/ \E d \in Doc, e \in VersionIds : EditActiveDocument(p, d, e)
    \/ \E c \in Doc, k \in 1 .. (MaxVersions - Len(ver)) :
         \E e \in [ChapterGroup(c) -> VersionIds], changed \in [1 .. k -> ChapterGroup(c)] :
           /\ \A i, j \in 1 .. k : changed[i] = changed[j] => i = j
           /\ EditChapterDocuments(p, c, e, changed)
    \/ \E i \in VersionIds, e \in 0 .. Len(ver), final \in BOOLEAN : AcceptVersion(p, i, e, final)
    \/ \E i \in VersionIds : RejectVersionRead(p, i)
    \/ RejectVersionWrite(p)
    \/ \E i \in VersionIds : RestoreVersionRead(p, i)
    \/ RestoreVersionWrite(p)
    \/ \E d \in Doc, s \in {"candidate", "approved"} : SetScenePlan(p, d, s)
    \/ \E d \in Doc : ApproveScene(p, d)
    \/ \E d \in Doc : MarkSceneDrafted(p, d)
    \/ Crash(p)

Next == \E p \in Proc : DocStep(p)

Spec == Init /\ [][Next]_docVars
-----------------------------------------------------------------------------
(***************************************************************************)
(* Properties.                                                             *)
(***************************************************************************)
\* Every variable holds rows of the shape the schema gives them, and every row
\* id a document or a pending operation holds is a row that exists.
TypeOK ==
    /\ doc \in [Doc -> Documents]
    /\ ver \in Seq(Versions)
    /\ card \in [Doc -> Cards]
    /\ op \in [Proc -> Ops]
    /\ \A d \in Doc : doc[d].active \in 0 .. Len(ver)
    /\ \A p \in Proc : op[p] # Idle => op[p].ver \in VersionIds

\* restore_version picks its number before its transaction starts.  Whatever the
\* other processes insert meanwhile, two versions of a document never share a
\* number and a later row has a larger one, so "v3" always names one text.
VersionNumbersIncrease ==
    \A i, j \in VersionIds :
        i < j /\ ver[i].doc = ver[j].doc => ver[i].num < ver[j].num

\* The active version of a document is one of its own versions.
ActiveOwned == \A d \in Doc : Exists(d) => ver[doc[d].active].doc = d

\* Creative decisions and narrative knowledge are append-only logs whose head is
\* the newest row: no generic operation (create, revise, restore, accept,
\* reject) ever adds to or rewinds them.
ManagedHeadNewest ==
    \A d \in Doc : KindOf[d] = "managed" =>
        \A i \in VersionsOf(d) : i <= doc[d].active /\ ver[i].state = "draft"

\* A scene card says accepted or final only while the manuscript of that scene
\* is in that state, through edits, imports, re-planning and late card creation.
CardMatchesManuscript ==
    \A d \in Doc : card[d].status \in {"accepted", "final"} => doc[d].state = card[d].status

\* The version that is active carries the state of its document.  It holds for a
\* single process; a rejection that races with an acceptance breaks it.
ActiveStateAgrees ==
    \A d \in Doc : Exists(d) => ver[doc[d].active].state = doc[d].state

\* No update is lost: when new text, or a candidate drafted from a named base,
\* becomes active, the version it replaces is the one its writer had read.
ReplacesWhatWasRead(d) ==
    LET old == doc[d].active
        new == doc'[d].active
    IN  old # 0 /\ new # old =>
          IF new > Len(ver) THEN ver'[new].prev = old
          ELSE ver[new].state = "candidate" /\ ver[new].base # 0 => ver[new].base = old

NoLostUpdate == [][\A d \in Doc : ReplacesWhatWasRead(d)]_docVars

\* A rejected version stays rejected: it is never activated or accepted again,
\* it can only be restored as a new candidate.
RejectedStaysRejected ==
    [][\A i \in VersionIds : ver[i].state = "rejected" => ver'[i].state = "rejected"]_docVars
=============================================================================
