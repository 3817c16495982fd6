----------------------------- MODULE StoryBible -----------------------------
(***************************************************************************)
(* The Story Bible of a book: facts, their history and the proposals that  *)
(* wait for the author (lg-cli/lg_cli/project_store.py), on top of the     *)
(* documents and versions that facts cite as their source.                 *)
(*                                                                         *)
(* Every operation opens with BEGIN IMMEDIATE except reject_proposal,      *)
(* which reads the proposal's status first and writes later: the proposal  *)
(* a process is about to reject is held in rejecting[p].                   *)
(*                                                                         *)
(* A fact's key stands for its (category, fact_key) pair.  A source is a   *)
(* version row (the document is that version's), 0 when none is bound.     *)
(* Tags and rationales are abstracted.                                     *)
(***************************************************************************)
EXTENDS DocumentStore

CONSTANTS
    Key,            \* (category, fact_key) pairs
    Value,          \* fact values
    UserFactStates, \* the states authors pass to `bible add` and `bible set`
    MaxHistory,     \* bound on fact_history rows
    MaxProposals    \* bound on fact_proposals rows

FACT_STATES == {"idea", "canonical", "archived", "rejected"}

ASSUME BibleAssumption ==
    /\ UserFactStates \subseteq FACT_STATES
    /\ MaxHistory \in Nat
    /\ MaxProposals \in Nat

VARIABLES
    fact,       \* story_facts, in row-id order
    hist,       \* fact_history, in row-id order
    proposal,   \* fact_proposals, in row-id order
    rejecting   \* the proposal a process has read and is about to reject

bibleVars == <<fact, hist, proposal, rejecting>>
vars == <<doc, ver, card, op, fact, hist, proposal, rejecting>>

Facts == [key : Key, value : Value, state : FACT_STATES, source : Nat]
Proposals == [key : Key, value : Value, source : Nat, status : {"proposed", "accepted", "rejected"}]
\* action: what _record_fact_history names the change; by: the proposal whose
\* acceptance wrote the row (its rationale says so), 0 when none did.
History == [fact : Nat, action : {"created", "updated", "state"}, new : Value, by : Nat]

FactIds == 1 .. Len(fact)
ProposalIds == 1 .. Len(proposal)
-----------------------------------------------------------------------------
(***************************************************************************)
(* _source_status of a bound version, and _require_current_source.         *)
(***************************************************************************)
SourceStatus(i) ==
    IF i = 0 THEN "unbound"
    ELSE LET d == ver[i].doc IN
         IF {doc[d].state, ver[i].state} \intersect {"archived", "rejected"} # {} THEN "unavailable"
         ELSE IF ~ ({doc[d].state, ver[i].state} \subseteq {"accepted", "final"}) THEN "pending"
         ELSE IF doc[d].active # i THEN "stale"
         ELSE "current"

AnySource(s, i) == s \in FACT_STATES /\ i \in Nat
SourceAllows(s, i) == s = "canonical" => SourceStatus(i) \in {"current", "unbound"}

\* When a fact was last written: every write of a fact adds a history row.
LastTouched(f) ==
    CHOOSE h \in 1 .. Len(hist) :
        hist[h].fact = f /\ \A g \in 1 .. Len(hist) : hist[g].fact = f => g <= h

Matching(k, s) == {f \in FactIds : fact[f].key = k /\ fact[f].state = s}

\* INSERT a fact with its "created" history row.
InsertFact(k, v, s, i, by) ==
    /\ fact' = Append(fact, [key |-> k, value |-> v, state |-> s, source |-> i])
    /\ hist' = Append(hist, [fact |-> Len(fact) + 1, action |-> "created", new |-> v, by |-> by])

\* _upsert_fact: rewrite the most recently touched fact of that key and state,
\* or insert one.
UpsertFactOldValue(k, v, s, i, by) ==
    \/ /\ Matching(k, s) = {}
       /\ InsertFact(k, v, s, i, by)
    \/ \E f \in Matching(k, s) :
         /\ fact' = [fact EXCEPT ![f].value = v, ![f].source = i]
         /\ hist' = Append(hist, [fact |-> f, action |-> "updated", new |-> fact[f].value, by |-> by])
UpsertFact(k, v, s, i, by) ==
    \/ /\ Matching(k, s) = {}
       /\ InsertFact(k, v, s, i, by)
    \/ \E f \in Matching(k, s) :
         /\ \A g \in Matching(k, s) : LastTouched(g) <= LastTouched(f)
         /\ fact' = [fact EXCEPT ![f].value = v, ![f].source = i]
         /\ hist' = Append(hist, [fact |-> f, action |-> "updated", new |-> v, by |-> by])

Free(p) == op[p] = Idle /\ rejecting[p] = 0
HistoryRoom == Len(hist) < MaxHistory
-----------------------------------------------------------------------------
AddFact(p, k, v, s, i) ==
    /\ Free(p)
    /\ HistoryRoom
    /\ SourceAllows(s, i)
    /\ InsertFact(k, v, s, i, 0)
    /\ UNCHANGED <<docVars, proposal, rejecting>>

SetFact(p, k, v, s, i) ==
    /\ Free(p)
    /\ HistoryRoom
    /\ SourceAllows(s, i)
    /\ UpsertFact(k, v, s, i, 0)
    /\ UNCHANGED <<docVars, proposal, rejecting>>

\* promote_fact (s = "canonical") and archive_fact (s = "archived").
SetFactState(p, f, s) ==
    /\ Free(p)
    /\ HistoryRoom
    /\ fact[f].state # s
    /\ SourceAllows(s, fact[f].source)
    /\ fact' = [fact EXCEPT ![f].state = s]
    /\ hist' = Append(hist, [fact |-> f, action |-> "state", new |-> fact[f].value, by |-> 0])
    /\ UNCHANGED <<docVars, proposal, rejecting>>

ProposeFact(p, k, v, i) ==
    /\ Free(p)
    /\ Len(proposal) < MaxProposals
    /\ proposal' = Append(proposal, [key |-> k, value |-> v, source |-> i, status |-> "proposed"])
    /\ UNCHANGED <<docVars, fact, hist, rejecting>>

OpenAlways(q) == q \in ProposalIds
Open(q) == proposal[q].status = "proposed"

AcceptProposal(p, q, s) ==
    /\ Free(p)
    /\ HistoryRoom
    /\ Open(q)
    /\ SourceAllows(s, proposal[q].source)
    /\ UpsertFact(proposal[q].key, proposal[q].value, s, proposal[q].source, q)
    /\ proposal' = [proposal EXCEPT ![q].status = "accepted"]
    /\ UNCHANGED <<docVars, rejecting>>

RejectProposalRead(p, q) ==
    /\ Free(p)
    /\ Open(q)
    /\ rejecting' = [rejecting EXCEPT ![p] = q]
    /\ UNCHANGED <<docVars, fact, hist, proposal>>

RejectProposalWrite(p) ==
    /\ rejecting[p] # 0
    /\ proposal' = [proposal EXCEPT ![rejecting[p]].status = "rejected"]
    /\ rejecting' = [rejecting EXCEPT ![p] = 0]
    /\ UNCHANGED <<docVars, fact, hist>>

CrashRejecting(p) ==
    /\ rejecting[p] # 0
    /\ rejecting' = [rejecting EXCEPT ![p] = 0]
    /\ UNCHANGED <<docVars, fact, hist, proposal>>
-----------------------------------------------------------------------------
Sources == 0 .. Len(ver)

BibleStep(p) ==
    \/ \E k \in Key, v \in Value, s \in UserFactStates, i \in Sources : AddFact(p, k, v, s, i)
    \/ \E k \in Key, v \in Value, s \in UserFactStates, i \in Sources : SetFact(p, k, v, s, i)
    \/ \E f \in FactIds, s \in {"canonical", "archived"} : SetFactState(p, f, s)
    \/ \E k \in Key, v \in Value, i \in Sources : ProposeFact(p, k, v, i)
    \/ \E q \in ProposalIds, s \in {"canonical", "idea"} : AcceptProposal(p, q, s)
    \/ \E q \in ProposalIds : RejectProposalRead(p, q)
    \/ RejectProposalWrite(p)
    \/ CrashRejecting(p)

BibleInit ==
    /\ Init
    /\ fact = << >>
    /\ hist = << >>
    /\ proposal = << >>
    /\ rejecting = [p \in Proc |-> 0]

BibleNext ==
    \E p \in Proc :
        \/ BibleStep(p)
        \/ rejecting[p] = 0 /\ DocStep(p) /\ UNCHANGED bibleVars

BibleSpec == BibleInit /\ [][BibleNext]_vars
-----------------------------------------------------------------------------
(***************************************************************************)
(* Properties.                                                             *)
(***************************************************************************)
\* Rows have the shape of their tables and cite rows that exist.
BibleTypeOK ==
    /\ fact \in Seq(Facts)
    /\ hist \in Seq(History)
    /\ proposal \in Seq(Proposals)
    /\ rejecting \in [Proc -> 0 .. Len(proposal)]
    /\ \A f \in FactIds : fact[f].source \in Sources

\* Whatever path writes a canonical fact (add, set, promote, accepted proposal),
\* and however long ago its source was read or proposed, at that moment the
\* source is the document's current accepted version or there is none.
CanonWrittenFromCurrentSource ==
    [][\A f \in 1 .. Len(fact') :
        /\ fact'[f].state = "canonical"
        /\ f \in FactIds => fact[f] # fact'[f]
        => SourceStatus(fact'[f].source) \in {"current", "unbound"}]_vars

\* The history explains the Bible: the value of every fact is the one its latest
\* history row recorded, whoever wrote it, so no change goes unrecorded.
HistoryExplainsFacts ==
    \A f \in FactIds :
        \E h \in 1 .. Len(hist) :
            /\ hist[h].fact = f
            /\ \A g \in 1 .. Len(hist) : hist[g].fact = f => g <= h
            /\ hist[h].new = fact[f].value

\* An accepted proposal reached the Bible once: exactly one history row was
\* written on its behalf.
AcceptedOnce ==
    \A q \in ProposalIds : proposal[q].status = "accepted" =>
        \E h \in 1 .. Len(hist) :
            /\ hist[h].by = q
            /\ \A g \in 1 .. Len(hist) : hist[g].by = q => g = h
=============================================================================
