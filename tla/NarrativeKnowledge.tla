------------------------- MODULE NarrativeKnowledge -------------------------
(***************************************************************************)
(* What a character or the reader knows from one story position to another *)
(* (lg-cli/lg_cli/narrative_knowledge.py, narrative_view.py): proposals    *)
(* anyone may save, confirmations and withdrawals of the author.           *)
(*                                                                         *)
(* A record is a managed document: every operation is one BEGIN IMMEDIATE  *)
(* transaction that appends a version holding the whole payload and makes  *)
(* it the head, so a record is the log of its payloads, a version number   *)
(* is a position in the log and the head is the last one.  Callers pass    *)
(* the head they read as expected_version_id.                              *)
(*                                                                         *)
(* A strand is an (audience, holder_document_id, key) triple.  An absent   *)
(* until_position is Forever, which lies after every position.  Contents,  *)
(* stances, titles and rationales are abstracted.                          *)
(***************************************************************************)
EXTENDS Integers, Sequences

CONSTANTS
    Record,     \* slugs of knowledge records
    Strand,     \* (audience, holder, key)
    Holder,     \* character documents
    Reader,     \* stands for the holder of a reader strand
    HolderOf,   \* the holder of every strand
    Position,   \* story or reading positions
    Forever,    \* the end of a statement without until_position
    Source,     \* manuscript versions a statement may cite
    MaxLog      \* bound on the versions of a record

Until == Position \union {Forever}

ASSUME KnowledgeAssumption ==
    /\ Position \subseteq Int
    /\ Forever \in Int
    /\ \A x \in Position : x < Forever
    /\ Reader \notin Holder
    /\ HolderOf \in [Strand -> Holder \union {Reader}]
    /\ MaxLog \in Nat

VARIABLES
    topic,    \* the strand and from_position of every record
    log,      \* the payloads of every record, oldest first
    source,   \* _source_status of every source (moved by the manuscript)
    closed    \* the holders that are archived or rejected

vars == <<topic, log, source, closed>>

\* other: stale, pending or unavailable.
SourceStates == {"current", "other"}
Topic == [strand : Strand, from : Position]
NoTopic == [strand |-> "none", from |-> 0]
Statement == [until : Until, sources : SUBSET Source]
NoStatement == [until |-> Forever, sources |-> {}]
NoConfirmation == [num |-> 0, stmt |-> NoStatement]
Confirmation == [num : Nat, stmt : Statement]
Payloads == [op : {"propose", "confirm", "withdraw"}, num : Nat, stmt : Statement,
             confirmed : Confirmation]
Payload(o, n, s, c) == [op |-> o, num |-> n, stmt |-> s, confirmed |-> c]

Saved(r) == log[r] # << >>
HeadOf(r) == log[r][Len(log[r])]
ConfirmationOf(r) == IF Saved(r) THEN HeadOf(r).confirmed ELSE NoConfirmation
Confirmed(r) == Saved(r) /\ HeadOf(r).confirmed.num # 0

\* _holder: the reader, or a character that is still in the book.
HolderOpen(s) == HolderOf[s] \notin closed

\* _sources_status is current or unbound: every cited version is current.
SourcesHold(s) == \A x \in s : source[x] = "current"

Init ==
    /\ topic = [r \in Record |-> NoTopic]
    /\ log = [r \in Record |-> << >>]
    /\ source \in [Source -> SourceStates]
    /\ closed = {}
-----------------------------------------------------------------------------
\* _head: the caller read the version that is still the head (0: no record).
HeadIgnored(r, e) == e \in 0 .. Len(log[r])
HeadIs(r, e) == e = Len(log[r])

\* A topic has one record, and a saved record never changes its topic.
TopicFree(r, t) == \A q \in Record \ {r} : Saved(q) => topic[q] # t

\* _write: append the payload and move the head to it.
Write(r, payload) ==
    /\ Len(log[r]) < MaxLog
    /\ log' = [log EXCEPT ![r] = Append(@, payload)]
    /\ UNCHANGED <<source, closed>>

\* _statement_valid: a statement ends after it starts.
StatementValid(t, stmt) == t.from < stmt.until

\* Saving a proposal, new or again: the confirmation in force is carried over.
DropsConfirmation(r) == NoConfirmation
CarriedOver(r) == ConfirmationOf(r)

Propose(r, t, stmt, e) ==
    /\ HeadIs(r, e)
    /\ HolderOpen(t.strand)
    /\ StatementValid(t, stmt)
    /\ IF Saved(r) THEN topic[r] = t ELSE TopicFree(r, t)
    /\ topic' = [topic EXCEPT ![r] = t]
    /\ Write(r, Payload("propose", Len(log[r]) + 1, stmt, CarriedOver(r)))

\* _overlap: half-open intervals of one strand.
Overlap(t, u, v, w) == t.from < w /\ v.from < u
ConfirmedApartAtStart(r, stmt) ==
    \A q \in Record \ {r} :
        Confirmed(q) /\ topic[q].strand = topic[r].strand => topic[q].from # topic[r].from
ConfirmedApart(r, stmt) ==
    \A q \in Record \ {r} :
        Confirmed(q) /\ topic[q].strand = topic[r].strand =>
            ~Overlap(topic[r], stmt.until, topic[q], HeadOf(q).confirmed.stmt.until)

\* The version confirmed is a saved proposal of this record, not another payload.
IsProposal(r, n) == n \in 1 .. Len(log[r]) /\ log[r][n].op = "propose" /\ log[r][n].num = n

Confirm(r, n, e) ==
    /\ Saved(r)
    /\ HeadIs(r, e)
    /\ IsProposal(r, n)
    /\ HolderOpen(topic[r].strand)
    /\ LET proposed == [num |-> n, stmt |-> log[r][n].stmt] IN
         /\ SourcesHold(proposed.stmt.sources)
         /\ HeadOf(r).confirmed # proposed
         /\ ConfirmedApart(r, proposed.stmt)
         /\ Write(r, Payload("confirm", HeadOf(r).num, HeadOf(r).stmt, proposed))
    /\ UNCHANGED topic

Withdraw(r, e) ==
    /\ Confirmed(r)
    /\ HeadIs(r, e)
    /\ Write(r, Payload("withdraw", HeadOf(r).num, HeadOf(r).stmt, NoConfirmation))
    /\ UNCHANGED topic

\* The manuscript moves on: a cited version is accepted, replaced or rejected.
SourceMoves(x, s) ==
    /\ source[x] # s
    /\ source' = [source EXCEPT ![x] = s]
    /\ UNCHANGED <<topic, log, closed>>

\* A character document is archived, or accepted again.
HolderMoves(h) ==
    /\ closed' = IF h \in closed THEN closed \ {h} ELSE closed \union {h}
    /\ UNCHANGED <<topic, log, source>>

Next ==
    \/ \E r \in Record, t \in Topic, stmt \in Statement, e \in 0 .. MaxLog : Propose(r, t, stmt, e)
    \/ \E r \in Record, n \in 1 .. MaxLog, e \in 1 .. MaxLog : Confirm(r, n, e)
    \/ \E r \in Record, e \in 1 .. MaxLog : Withdraw(r, e)
    \/ \E x \in Source, s \in SourceStates : SourceMoves(x, s)
    \/ \E h \in Holder : HolderMoves(h)

Spec == Init /\ [][Next]_vars
-----------------------------------------------------------------------------
\* narrative_view.project: what the holder of a strand knows at a position.
Visible(s, x) ==
    {r \in Record :
        /\ HolderOpen(s)
        /\ Confirmed(r)
        /\ topic[r].strand = s
        /\ topic[r].from <= x
        /\ x < HeadOf(r).confirmed.stmt.until
        /\ SourcesHold(HeadOf(r).confirmed.stmt.sources)}
-----------------------------------------------------------------------------
(***************************************************************************)
(* Properties.                                                             *)
(***************************************************************************)
\* The tables hold topics and payloads that _payload would read back: every
\* statement saved under a topic covers at least one position.
TypeOK ==
    /\ topic \in [Record -> Topic \union {NoTopic}]
    /\ log \in [Record -> Seq(Payloads)]
    /\ source \in [Source -> SourceStates]
    /\ closed \in SUBSET Holder
    /\ \A r \in Record : Saved(r) => topic[r] \in Topic
    /\ \A r \in Record : \A k \in 1 .. Len(log[r]) : topic[r].from < log[r][k].stmt.until

\* Confirmations of one strand never claim the same position, although each is
\* checked only when it is confirmed and proposals keep changing afterwards.
NoOverlap ==
    \A r, q \in Record :
        r # q /\ Confirmed(r) /\ Confirmed(q) /\ topic[r].strand = topic[q].strand =>
            ~Overlap(topic[r], HeadOf(r).confirmed.stmt.until, topic[q], HeadOf(q).confirmed.stmt.until)

\* narrative_view.project is unambiguous: at any position one record answers for
\* a strand, or none.
ViewUnambiguous ==
    \A s \in Strand, x \in Position : \A r, q \in Visible(s, x) : r = q

\* The identity checks of _snapshot never fail on saved data: in every version of
\* a record, the proposal it names and the confirmation in force are statements
\* of earlier proposals of that record, word for word.
NamesProposal(l, k, n, stmt) ==
    n \in 1 .. k /\ l[n].op = "propose" /\ l[n].num = n /\ l[n].stmt = stmt

ConfirmedWasProposed ==
    \A r \in Record : \A k \in 1 .. Len(log[r]) :
        LET p == log[r][k] IN
        /\ NamesProposal(log[r], k, p.num, p.stmt)
        /\ p.confirmed.num # 0 => NamesProposal(log[r], k - 1, p.confirmed.num, p.confirmed.stmt)

\* One record per topic.
TopicsUnique ==
    \A r, q \in Record : r # q /\ Saved(r) /\ Saved(q) => topic[r] # topic[q]

\* The record implements AuthorChoice: whoever saves proposals, the statement in
\* force stays in force, word for word, until the author confirms another saved
\* proposal of the same record or withdraws it.
OffersIn(l) ==
    {[num |-> n, stmt |-> l[n].stmt] : n \in {k \in 1 .. Len(l) : l[k].op = "propose"}}

Choice == INSTANCE AuthorChoice WITH
    Nothing <- NoConfirmation,
    offered <- [r \in Record |-> OffersIn(log[r])],
    choice <- [r \in Record |-> ConfirmationOf(r)]

KeepsAuthorChoice == Choice!Spec
=============================================================================
