------------------------- MODULE CreativeDecisions -------------------------
(***************************************************************************)
(* Creative decisions (lg-cli/lg_cli/creative_decisions.py): a model saves *)
(* three options for a topic, the author selects one of a saved version or *)
(* withdraws the selection, and chapter reviews read what is selected.     *)
(*                                                                         *)
(* A decision is a managed document: every operation is one BEGIN          *)
(* IMMEDIATE transaction that appends a version holding the whole payload  *)
(* and makes it the head, so a decision is the log of its payloads.  The   *)
(* documents and versions that options cite move as in DocumentStore.      *)
(*                                                                         *)
(* A topic is a (scope, document, key) triple.  Titles and requests are    *)
(* abstracted: a slate maps the three option ids to their contents.        *)
(***************************************************************************)
EXTENDS DocumentStore, FiniteSets

CONSTANTS
    Decision,   \* slugs of decisions
    Topic,      \* topics
    TargetOf,   \* the chapter or part of a topic; Work for a work-level one
    Work,
    OptionId,   \* ids of the options of a slate
    Content,    \* contents of options
    Slate,      \* the option lists _normalized lets through
    MaxLog      \* bound on the versions of all decisions together

NoTopic == "none"

ASSUME DecisionAssumption ==
    /\ Work \notin Doc
    /\ NoTopic \notin Topic
    /\ TargetOf \in [Topic -> Doc \union {Work}]
    /\ Slate \subseteq [OptionId -> Content]
    /\ \A s \in Slate : \A a, b \in OptionId : s[a] = s[b] => a = b
    /\ MaxLog \in Nat

VARIABLES
    topic,  \* the topic of every decision
    log     \* the payloads of every decision, oldest first

vars == <<doc, ver, card, op, topic, log>>

NoSelection == [num |-> 0]
Selections == [num : Nat, id : OptionId, content : Content, sources : SUBSET Nat]
Payloads == [op : {"options", "select", "withdraw"}, num : Nat, slate : Slate,
             sources : SUBSET Nat, selection : Selections \union {NoSelection}]
Payload(o, n, f, s, c) == [op |-> o, num |-> n, slate |-> f, sources |-> s, selection |-> c]

Saved(r) == log[r] # << >>
HeadOf(r) == log[r][Len(log[r])]
LogRows == UNION {{r} \X (1 .. Len(log[r])) : r \in Decision}
SelectionOf(r) == IF Saved(r) THEN HeadOf(r).selection ELSE NoSelection

DecisionInit ==
    /\ Init
    /\ topic = [r \in Decision |-> NoTopic]
    /\ log = [r \in Decision |-> << >>]
-----------------------------------------------------------------------------
(***************************************************************************)
(* _sources_status: what is recorded of a cited version, now or as it will *)
(* be once version i of document d is adopted in state s.                  *)
(***************************************************************************)
Detail(active, state, versionState, x) ==
    [active |-> active, state |-> state, version |-> versionState,
     current |-> active = x /\ {state, versionState} \intersect {"archived", "rejected"} = {}]

SourceDetail(x) ==
    Detail(doc[ver[x].doc].active, doc[ver[x].doc].state, ver[x].state, x)

ProjectedWithoutVersion(x, d, i, s) ==
    IF ver[x].doc = d THEN Detail(i, s, ver[x].state, x) ELSE SourceDetail(x)
ProjectedDetail(x, d, i, s) ==
    IF ver[x].doc = d THEN Detail(i, s, IF x = i THEN s ELSE ver[x].state, x)
    ELSE SourceDetail(x)

\* _require_sources.
AnySources(s) == s \subseteq VersionIds
SourcesHold(s) == \A x \in s : SourceDetail(x).current

\* _normalized: each source document once; a scoped topic cites its target.
SourcesFit(t, s) ==
    /\ \A x, y \in s : ver[x].doc = ver[y].doc => x = y
    /\ TargetOf[t] # Work => \E x \in s : ver[x].doc = TargetOf[t]
-----------------------------------------------------------------------------
\* _head: the caller read the version that is still the head (0: no decision).
HeadIs(r, e) == e = Len(log[r])

TopicFree(r, t) == \A q \in Decision \ {r} : Saved(q) => topic[q] # t

\* _write: append the payload and move the head to it.
Write(p, r, payload) ==
    /\ op[p] = Idle
    /\ Cardinality(LogRows) < MaxLog
    /\ log' = [log EXCEPT ![r] = Append(log[r], payload)]
    /\ UNCHANGED docVars

\* Saving options, new or again: the selection is retained.
SelectionDropped(r) == NoSelection
SelectionRetained(r) == SelectionOf(r)

SaveOptions(p, r, t, f, s, e) ==
    /\ SourcesFit(t, s)
    /\ SourcesHold(s)
    /\ HeadIs(r, e)
    /\ IF Saved(r) THEN topic[r] = t ELSE TopicFree(r, t)
    /\ topic' = [topic EXCEPT ![r] = t]
    /\ Write(p, r, Payload("options", Len(log[r]) + 1, f, s, SelectionRetained(r)))

\* The selection copies an option of the version named, not of the latest one.
OptionOfHead(r, n, a) ==
    [num |-> n, id |-> a, content |-> HeadOf(r).slate[a], sources |-> log[r][n].sources]
OptionOf(r, n, a) ==
    [num |-> n, id |-> a, content |-> log[r][n].slate[a], sources |-> log[r][n].sources]

SelectOption(p, r, n, a, e) ==
    /\ Saved(r)
    /\ HeadIs(r, e)
    /\ n \in 1 .. Len(log[r]) /\ log[r][n].op = "options"
    /\ SourcesHold(log[r][n].sources)
    /\ SelectionOf(r) # OptionOf(r, n, a)
    /\ Write(p, r, Payload("select", HeadOf(r).num, HeadOf(r).slate, HeadOf(r).sources, OptionOf(r, n, a)))
    /\ UNCHANGED topic

WithdrawSelection(p, r, e) ==
    /\ Saved(r)
    /\ HeadIs(r, e)
    /\ SelectionOf(r) # NoSelection
    /\ Write(p, r, Payload("withdraw", HeadOf(r).num, HeadOf(r).slate, HeadOf(r).sources, NoSelection))
    /\ UNCHANGED topic

DecisionStep(p) ==
    \E r \in Decision, e \in 0 .. MaxLog :
        \/ \E t \in Topic, f \in Slate, s \in SUBSET VersionIds : SaveOptions(p, r, t, f, s, e)
        \/ \E n \in 1 .. MaxLog, a \in OptionId : SelectOption(p, r, n, a, e)
        \/ WithdrawSelection(p, r, e)

DecisionNext ==
    \E p \in Proc : DecisionStep(p) \/ (DocStep(p) /\ UNCHANGED <<topic, log>>)

DecisionSpec == DecisionInit /\ [][DecisionNext]_vars
-----------------------------------------------------------------------------
(***************************************************************************)
(* review_context: the selections that matter to a chapter, with what is   *)
(* known of their sources.                                                 *)
(***************************************************************************)
Relevant(r, c) == SelectionOf(r) # NoSelection /\ TargetOf[topic[r]] \in {Work, c, ParentOf[c]}

ReviewContext(c) ==
    [r \in {q \in Decision : Relevant(q, c)} |->
        <<SelectionOf(r), [x \in SelectionOf(r).sources |-> SourceDetail(x)]>>]

ProjectedContext(c, d, i, s) ==
    [r \in {q \in Decision : Relevant(q, c)} |->
        <<SelectionOf(r), [x \in SelectionOf(r).sources |-> ProjectedDetail(x, d, i, s)]>>]
-----------------------------------------------------------------------------
(***************************************************************************)
(* Properties.                                                             *)
(***************************************************************************)
\* Decisions hold payloads that _payload would read back: every slate and every
\* selection cites rows that exist, one per document, the topic's target included.
Cites(t, s) == s \subseteq VersionIds /\ SourcesFit(t, s)

DecisionTypeOK ==
    /\ topic \in [Decision -> Topic \union {NoTopic}]
    /\ log \in [Decision -> Seq(Payloads)]
    /\ \A r \in Decision : \A k \in 1 .. Len(log[r]) :
         /\ topic[r] \in Topic
         /\ Cites(topic[r], log[r][k].sources)
         /\ log[r][k].selection # NoSelection => Cites(topic[r], log[r][k].selection.sources)

\* Options, selections and withdrawals implement AuthorChoice: regenerated
\* options, even under the same ids, never change what the author selected.
OffersIn(l) ==
    {[num |-> n, id |-> a, content |-> l[n].slate[a], sources |-> l[n].sources] :
        n \in {k \in 1 .. Len(l) : l[k].op = "options"}, a \in OptionId}

Choice == INSTANCE AuthorChoice WITH
    Record <- Decision,
    Nothing <- NoSelection,
    offered <- [r \in Decision |-> OffersIn(log[r])],
    choice <- [r \in Decision |-> SelectionOf(r)]

KeepsSelection == Choice!Spec

\* "Projecting source validity here keeps pre-adoption evidence equal to the
\* published post-adoption snapshot": the context a candidate is reviewed with is
\* the one a review right after its acceptance would read.
Adopts(d) == doc'[d] # doc[d] /\ doc'[d].active \in VersionIds /\ doc'[d].state \in {"accepted", "final"}
EvidenceSurvivesAdoption ==
    [][\A c, d \in Doc :
        KindOf[c] = "chapter" /\ (d = c \/ ParentOf[d] = c) /\ Adopts(d) =>
            ReviewContext(c)' = ProjectedContext(c, d, doc'[d].active, doc'[d].state)]_vars
=============================================================================
