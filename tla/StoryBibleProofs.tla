-------------------------- MODULE StoryBibleProofs --------------------------
(***************************************************************************)
(* Theorems about StoryBible, for every set of processes, documents, keys  *)
(* and values and every bound on the rows.                                 *)
(***************************************************************************)
EXTENDS StoryBible, DocumentStoreProofs

\* A history row is of a fact that exists, and of a proposal that does when it
\* names one; a proposal cites a version that exists.
RowsExist ==
    /\ \A h \in 1 .. Len(hist) : hist[h].fact \in FactIds /\ hist[h].by \in 0 .. Len(proposal)
    /\ \A q \in ProposalIds : proposal[q].source \in Sources

\* Nothing was written on behalf of a proposal that is still open.
OpenUnwritten ==
    \A q \in ProposalIds : Open(q) => \A h \in 1 .. Len(hist) : hist[h].by # q

\* The inductive invariant, on top of the one of the documents.
BibleInv ==
    /\ IInv
    /\ BibleTypeOK /\ RowsExist
    /\ HistoryExplainsFacts
    /\ AcceptedOnce /\ OpenUnwritten

-----------------------------------------------------------------------------
(* What the tables hold *)

LEMMA Rows ==
    ASSUME BibleTypeOK, TypeOK
    PROVE  /\ Len(fact) \in Nat /\ Len(hist) \in Nat /\ Len(proposal) \in Nat /\ Len(ver) \in Nat
           /\ \A f \in FactIds : fact[f] \in Facts /\ fact[f].source \in Sources
           /\ \A h \in 1 .. Len(hist) : hist[h] \in History
           /\ \A q \in ProposalIds : proposal[q] \in Proposals
  BY LenProperties, ElementOfSeq DEF BibleTypeOK, TypeOK, FactIds, ProposalIds

\* One fact is written, new or in place, with its history row on behalf of by;
\* a canonical one has a source that stands.
Writes(f, by) ==
    /\ fact' \in Seq(Facts) /\ Len(fact') \in {Len(fact), Len(fact) + 1}
    /\ f \in 1 .. Len(fact') /\ (Len(fact') = Len(fact) + 1 => f = Len(fact) + 1)
    /\ \A g \in FactIds : g # f => fact'[g] = fact[g]
    /\ fact'[f].source \in Sources
    /\ hist' \in Seq(History) /\ Len(hist') = Len(hist) + 1
    /\ \A h \in 1 .. Len(hist) : hist'[h] = hist[h]
    /\ hist'[Len(hist) + 1].fact = f
    /\ hist'[Len(hist) + 1].by = by
    /\ hist'[Len(hist) + 1].new = fact'[f].value
    /\ fact'[f].state = "canonical" => SourceStatus(fact'[f].source) \in {"current", "unbound"}

\* _record_fact_history adds one row.
LEMMA HistoryGrows ==
    ASSUME BibleTypeOK, NEW row \in History, hist' = Append(hist, row)
    PROVE  /\ hist' \in Seq(History) /\ Len(hist) \in Nat /\ Len(hist') = Len(hist) + 1
           /\ \A h \in 1 .. Len(hist) : hist'[h] = hist[h]
           /\ hist'[Len(hist) + 1] = row
  BY AppendProperties, LenProperties DEF BibleTypeOK

\* An inserted fact.
LEMMA InsertWrites ==
    ASSUME BibleTypeOK, TypeOK, NEW k \in Key, NEW v \in Value, NEW s \in FACT_STATES,
           NEW i \in Sources, NEW by \in Nat, SourceAllows(s, i), InsertFact(k, v, s, i, by)
    PROVE  Writes(Len(fact) + 1, by)
<1> DEFINE new == [key |-> k, value |-> v, state |-> s, source |-> i]
           row == [fact |-> Len(fact) + 1, action |-> "created", new |-> v, by |-> by]
<1>1. Len(fact) \in Nat /\ Len(ver) \in Nat
  BY Rows
<1>2. new \in Facts /\ row \in History
  BY <1>1 DEF Facts, History, Sources
<1>3. fact' = Append(fact, new) /\ hist' = Append(hist, row)
  BY DEF InsertFact
<1>4. new.value = v /\ new.state = s /\ new.source = i /\ row.fact = Len(fact) + 1 /\ row.by = by /\ row.new = v
  OBVIOUS
<1> HIDE DEF new, row
<1>5. /\ fact' \in Seq(Facts) /\ Len(fact') = Len(fact) + 1
      /\ \A g \in 1 .. Len(fact) : fact'[g] = fact[g]
      /\ fact'[Len(fact) + 1] = new
  BY <1>2, <1>3, AppendProperties DEF BibleTypeOK
<1>6. /\ hist' \in Seq(History) /\ Len(hist') = Len(hist) + 1
      /\ \A h \in 1 .. Len(hist) : hist'[h] = hist[h]
      /\ hist'[Len(hist) + 1] = row
  BY <1>2, <1>3, HistoryGrows
<1> QED
  BY <1>1, <1>4, <1>5, <1>6 DEF Writes, FactIds, SourceAllows

Rewritten(f, new) == fact' = [fact EXCEPT ![f] = new]

\* A fact rewritten in place.
LEMMA UpdateWrites ==
    ASSUME BibleTypeOK, TypeOK, NEW f \in FactIds, NEW new \in Facts, new.source \in Sources,
           NEW a \in {"updated", "state"}, NEW by \in Nat, SourceAllows(new.state, new.source),
           Rewritten(f, new),
           hist' = Append(hist, [fact |-> f, action |-> a, new |-> new.value, by |-> by])
    PROVE  Writes(f, by)
<1> DEFINE row == [fact |-> f, action |-> a, new |-> new.value, by |-> by]
<1>1. Len(fact) \in Nat /\ f \in Nat
  BY Rows DEF FactIds
<1>2. row \in History /\ row.fact = f /\ row.by = by /\ row.new = new.value
  BY <1>1 DEF Facts, History
<1> HIDE DEF row
<1>3. /\ fact' \in Seq(Facts) /\ Len(fact') = Len(fact)
      /\ \A g \in 1 .. Len(fact) : g # f => fact'[g] = fact[g]
      /\ fact'[f] = new
  BY ExceptSeq DEF BibleTypeOK, FactIds, Rewritten
<1>4. hist' = Append(hist, row)
  BY DEF row
<1>5. /\ hist' \in Seq(History) /\ Len(hist') = Len(hist) + 1
      /\ \A h \in 1 .. Len(hist) : hist'[h] = hist[h]
      /\ hist'[Len(hist) + 1] = row
  BY <1>2, <1>4, HistoryGrows
<1>6. f \in 1 .. Len(fact') /\ Len(fact') # Len(fact) + 1
  BY <1>1, <1>3 DEF FactIds
<1> QED
  BY <1>2, <1>3, <1>5, <1>6 DEF Writes, FactIds, SourceAllows

\* _upsert_fact writes one fact.
LEMMA UpsertWrites ==
    ASSUME BibleTypeOK, TypeOK, NEW k \in Key, NEW v \in Value, NEW s \in FACT_STATES,
           NEW i \in Sources, NEW by \in Nat, SourceAllows(s, i), UpsertFact(k, v, s, i, by)
    PROVE  \E f \in Nat : Writes(f, by)
<1>1. Len(fact) \in Nat /\ Len(ver) \in Nat
  BY Rows
<1>2. CASE InsertFact(k, v, s, i, by)
  BY <1>1, <1>2, InsertWrites
<1>3. CASE ~InsertFact(k, v, s, i, by)
  <2>1. PICK f \in Matching(k, s) :
           /\ fact' = [fact EXCEPT ![f].value = v, ![f].source = i]
           /\ hist' = Append(hist, [fact |-> f, action |-> "updated", new |-> v, by |-> by])
    BY <1>3 DEF UpsertFact
  <2> DEFINE new == [fact[f] EXCEPT !.value = v, !.source = i]
  <2>2. f \in FactIds /\ fact[f].state = s /\ fact[f] \in Facts /\ f \in Nat
    BY <1>1, Rows DEF Matching, FactIds
  <2>6. i \in Nat
    BY <1>1 DEF Sources
  <2>3. new \in Facts /\ new.value = v /\ new.state = s /\ new.source = i
    BY <2>2, <2>6 DEF Facts
  <2>4. Rewritten(f, new)
    BY <2>1 DEF Rewritten
  <2> HIDE DEF new
  <2>5. Writes(f, by)
    BY <2>1, <2>2, <2>3, <2>4, UpdateWrites
  <2> QED
    BY <2>2, <2>5
<1> QED
  BY <1>2, <1>3

\* promote_fact and archive_fact write one fact.
LEMMA StateWrites ==
    ASSUME BibleTypeOK, TypeOK, NEW p \in Proc, NEW f \in FactIds, NEW s \in {"canonical", "archived"},
           SetFactState(p, f, s)
    PROVE  Writes(f, 0)
<1> DEFINE new == [fact[f] EXCEPT !.state = s]
<1>1. /\ SourceAllows(s, fact[f].source) /\ fact' = [fact EXCEPT ![f].state = s]
      /\ hist' = Append(hist, [fact |-> f, action |-> "state", new |-> fact[f].value, by |-> 0])
  BY DEF SetFactState
<1>2. fact[f] \in Facts /\ fact[f].source \in Sources /\ s \in FACT_STATES
  BY Rows DEF FACT_STATES
<1>3. new \in Facts /\ new.value = fact[f].value /\ new.state = s /\ new.source = fact[f].source
  BY <1>2 DEF Facts
<1>4. Rewritten(f, new)
  BY <1>1 DEF Rewritten
<1> HIDE DEF new
<1> QED
  BY <1>1, <1>2, <1>3, <1>4, UpdateWrites

-----------------------------------------------------------------------------
(* The invariant *)

\* The proposal on whose behalf a fact is written is accepted with it.
Settled(by) ==
    \/ by = 0 /\ proposal' = proposal
    \/ by \in ProposalIds /\ Open(by) /\ proposal' = [proposal EXCEPT ![by].status = "accepted"]

\* A write explains its fact, and adds the first row of a proposal that was
\* open, or none of any.
LEMMA WriteStep ==
    ASSUME BibleInv, NEW f \in Nat, NEW by \in Nat, Writes(f, by),
           UNCHANGED docVars, Settled(by), rejecting' = rejecting
    PROVE  BibleInv'
<1> DEFINE n == Len(hist) + 1
<1>0. /\ Len(fact) \in Nat /\ Len(hist) \in Nat /\ Len(proposal) \in Nat /\ Len(ver) \in Nat
      /\ \A q \in ProposalIds : proposal[q] \in Proposals
  BY Rows DEF BibleInv, IInv
<1>1. IInv' /\ Sources' = Sources
  BY DEF BibleInv, IInv, docVars, TypeOK, Owned, Heads, NoGap, Pending, PendingOp, CardOwned, Exists, ActiveOwned,
     VersionNumbersIncrease, ManagedHeadNewest, CardMatchesManuscript, VersionIds, VersionsOf, Sources, Generic
<1>2. /\ proposal' \in Seq(Proposals) /\ Len(proposal') = Len(proposal)
      /\ \A q \in ProposalIds : /\ q # by => proposal'[q] = proposal[q]
                                /\ proposal'[q].source = proposal[q].source
      /\ by # 0 => by \in ProposalIds /\ Open(by) /\ proposal'[by].status = "accepted"
  <2>1. CASE by = 0 /\ proposal' = proposal
    BY <2>1 DEF BibleInv, BibleTypeOK
  <2>2. CASE by \in ProposalIds /\ Open(by) /\ proposal' = [proposal EXCEPT ![by].status = "accepted"]
    <3> DEFINE w == [proposal[by] EXCEPT !.status = "accepted"]
    <3>1. w \in Proposals /\ w.status = "accepted" /\ w.source = proposal[by].source
      BY <1>0, <2>2 DEF Proposals
    <3>2. proposal' = [proposal EXCEPT ![by] = w]
      BY <2>2
    <3> HIDE DEF w
    <3> QED
      <4>1. /\ proposal' \in Seq(Proposals) /\ Len(proposal') = Len(proposal)
            /\ \A q \in ProposalIds : proposal'[q] = IF q = by THEN w ELSE proposal[q]
        <5>1. proposal \in Seq(Proposals) /\ by \in 1 .. Len(proposal)
          BY <2>2 DEF BibleInv, BibleTypeOK, ProposalIds
        <5> QED
          BY <3>1, <3>2, <5>1, ExceptSeq DEF ProposalIds
      <4> QED
        BY <2>2, <3>1, <4>1
  <2> QED
    BY <2>1, <2>2 DEF Settled
<1>3. ProposalIds' = ProposalIds /\ Len(fact') \in Nat /\ Len(hist') = n
  BY <1>0, <1>2 DEF ProposalIds, Writes
<1>4. \A g \in 1 .. Len(fact') : g = f \/ (g \in FactIds /\ fact'[g] = fact[g])
  <2> TAKE g \in 1 .. Len(fact')
  <2>1. CASE Len(fact') = Len(fact)
    BY <1>0, <2>1 DEF Writes, FactIds
  <2>2. CASE Len(fact') = Len(fact) + 1
    <3>1. f = Len(fact) + 1 /\ (g = Len(fact) + 1 \/ g \in 1 .. Len(fact))
      BY <1>0, <2>2 DEF Writes
    <3> QED
      BY <1>0, <3>1 DEF Writes, FactIds
  <2> QED
    BY <2>1, <2>2 DEF Writes
<1>5. BibleTypeOK'
  <2>1. \A g \in FactIds' : fact'[g].source \in Sources'
    BY <1>1, <1>4 DEF Writes, BibleInv, BibleTypeOK, FactIds
  <2> QED
    BY <1>2, <2>1 DEF Writes, BibleInv, BibleTypeOK
<1>6. \A h \in 1 .. Len(hist') : h = n \/ (h \in 1 .. Len(hist) /\ hist'[h] = hist[h])
  <2>1. \A h \in 1 .. n : h = n \/ h \in 1 .. Len(hist)
    BY <1>0
  <2> QED
    BY <1>3, <2>1 DEF Writes
<1>7. RowsExist'
  <2>1. FactIds \subseteq FactIds' /\ f \in FactIds'
    BY <1>0 DEF Writes, FactIds
  <2>2. by \in 0 .. Len(proposal')
    BY <1>0, <1>2 DEF ProposalIds
  <2>3. \A h \in 1 .. Len(hist') : hist'[h].fact \in FactIds' /\ hist'[h].by \in 0 .. Len(proposal')
    BY <1>2, <1>6, <2>1, <2>2 DEF Writes, BibleInv, RowsExist
  <2>4. \A q \in ProposalIds' : proposal'[q].source \in Sources'
    BY <1>1, <1>2, <1>3 DEF BibleInv, RowsExist
  <2> QED
    BY <2>3, <2>4 DEF RowsExist
<1>8. HistoryExplainsFacts'
  <2> SUFFICES ASSUME NEW g \in 1 .. Len(fact')
               PROVE  \E h \in 1 .. Len(hist') :
                         /\ hist'[h].fact = g
                         /\ \A j \in 1 .. Len(hist') : hist'[j].fact = g => j <= h
                         /\ hist'[h].new = fact'[g].value
    BY DEF HistoryExplainsFacts, FactIds
  <2>1. CASE g = f
    <3>1. n \in 1 .. Len(hist') /\ \A j \in 1 .. Len(hist') : j <= n
      BY <1>0, <1>3
    <3> QED
      BY <2>1, <3>1 DEF Writes
  <2>2. CASE g # f
    <3>1. g \in FactIds /\ fact'[g] = fact[g]
      BY <1>4, <2>2
    <3>2. PICK h \in 1 .. Len(hist) :
             /\ hist[h].fact = g
             /\ \A j \in 1 .. Len(hist) : hist[j].fact = g => j <= h
             /\ hist[h].new = fact[g].value
      BY <3>1 DEF BibleInv, HistoryExplainsFacts
    <3>3. h \in 1 .. Len(hist') /\ hist'[h] = hist[h]
      BY <1>0, <1>3 DEF Writes
    <3>4. \A j \in 1 .. Len(hist') : hist'[j].fact = g => j <= h
      BY <1>6, <2>2, <3>2 DEF Writes
    <3> QED
      BY <3>1, <3>2, <3>3, <3>4
  <2> QED
    BY <2>1, <2>2
<1>9. AcceptedOnce'
  <2> SUFFICES ASSUME NEW q \in ProposalIds, proposal'[q].status = "accepted"
               PROVE  \E h \in 1 .. Len(hist') :
                         /\ hist'[h].by = q
                         /\ \A j \in 1 .. Len(hist') : hist'[j].by = q => j = h
    BY <1>3 DEF AcceptedOnce
  <2>1. CASE q = by
    <3>1. \A h \in 1 .. Len(hist) : hist[h].by # q
      BY <1>0, <1>2, <2>1 DEF BibleInv, OpenUnwritten, ProposalIds
    <3>2. n \in 1 .. Len(hist') /\ hist'[n].by = q
      BY <1>0, <1>3, <2>1 DEF Writes
    <3>3. \A j \in 1 .. Len(hist') : hist'[j].by = q => j = n
      BY <1>6, <3>1
    <3> QED
      BY <3>2, <3>3
  <2>2. CASE q # by
    <3>1. PICK h \in 1 .. Len(hist) : hist[h].by = q /\ \A j \in 1 .. Len(hist) : hist[j].by = q => j = h
      BY <1>2, <2>2 DEF BibleInv, AcceptedOnce
    <3>2. h \in 1 .. Len(hist') /\ hist'[h] = hist[h]
      BY <1>0, <1>3 DEF Writes
    <3>3. \A j \in 1 .. Len(hist') : hist'[j].by = q => j = h
      BY <1>6, <2>2, <3>1 DEF Writes
    <3> QED
      BY <3>1, <3>2, <3>3
  <2> QED
    BY <2>1, <2>2
<1>10. OpenUnwritten'
  <2> SUFFICES ASSUME NEW q \in ProposalIds, proposal'[q].status = "proposed",
                      NEW h \in 1 .. Len(hist')
               PROVE  hist'[h].by # q
    BY <1>3 DEF OpenUnwritten, Open
  <2>1. q # by /\ proposal'[q] = proposal[q]
    BY <1>0, <1>2 DEF ProposalIds
  <2> QED
    BY <1>6, <2>1 DEF Writes, BibleInv, OpenUnwritten, Open
<1> QED
  BY <1>1, <1>5, <1>7, <1>8, <1>9, <1>10 DEF BibleInv

\* Steps that write no fact: proposals may be added, and their status moves
\* only away from "proposed" and never to "accepted".
LEMMA QuietStep ==
    ASSUME BibleInv, IInv', Len(ver') >= Len(ver), fact' = fact, hist' = hist,
           proposal' \in Seq(Proposals), Len(proposal') >= Len(proposal),
           rejecting' \in [Proc -> 0 .. Len(proposal')],
           \A q \in 1 .. Len(proposal') :
              /\ proposal'[q].source \in 0 .. Len(ver')
              /\ q \in 1 .. Len(proposal) =>
                   proposal'[q].status = "rejected" \/ proposal'[q].status = proposal[q].status
              /\ q \notin 1 .. Len(proposal) => proposal'[q].status = "proposed"
    PROVE  BibleInv'
<1>0. /\ Len(proposal) \in Nat /\ Len(proposal') \in Nat /\ Len(ver) \in Nat /\ Len(ver') \in Nat
  BY Rows, LenProperties DEF BibleInv, IInv, TypeOK
<1>1. Sources \subseteq Sources' /\ FactIds' = FactIds
  BY <1>0 DEF Sources, FactIds
<1>2. BibleTypeOK'
  BY <1>1 DEF BibleInv, BibleTypeOK
<1>3. RowsExist'
  <2>1. 0 .. Len(proposal) \subseteq 0 .. Len(proposal')
    BY <1>0
  <2> QED
    BY <1>1, <2>1 DEF BibleInv, RowsExist, ProposalIds, Sources
<1>4. HistoryExplainsFacts'
  BY DEF BibleInv, HistoryExplainsFacts, FactIds
<1>5. AcceptedOnce'
  <2> SUFFICES ASSUME NEW q \in 1 .. Len(proposal'), proposal'[q].status = "accepted"
               PROVE  \E h \in 1 .. Len(hist) :
                         hist[h].by = q /\ \A g \in 1 .. Len(hist) : hist[g].by = q => g = h
    BY DEF AcceptedOnce, ProposalIds
  <2>1. q \in 1 .. Len(proposal) /\ proposal[q].status = "accepted"
    OBVIOUS
  <2> QED
    BY <2>1 DEF BibleInv, AcceptedOnce, ProposalIds
<1>6. OpenUnwritten'
  <2> SUFFICES ASSUME NEW q \in 1 .. Len(proposal'), proposal'[q].status = "proposed",
                      NEW h \in 1 .. Len(hist)
               PROVE  hist[h].by # q
    BY DEF OpenUnwritten, Open, ProposalIds
  <2>1. CASE q \in 1 .. Len(proposal)
    BY <2>1 DEF BibleInv, OpenUnwritten, Open, ProposalIds
  <2>2. CASE q \notin 1 .. Len(proposal)
    BY <1>0, <2>2 DEF BibleInv, RowsExist
  <2> QED
    BY <2>1, <2>2
<1> QED
  BY <1>2, <1>3, <1>4, <1>5, <1>6 DEF BibleInv

\* Where the documents stay as they are, so does what is known of them.
LEMMA DocumentsKept ==
    ASSUME IInv, UNCHANGED docVars
    PROVE  IInv' /\ ver' = ver
<1>1. doc' = doc /\ ver' = ver /\ card' = card /\ op' = op
  BY DEF docVars
<1> QED
  BY <1>1 DEF IInv, TypeOK, Owned, Heads, NoGap, Pending, PendingOp, CardOwned, Exists, ActiveOwned,
     VersionNumbersIncrease, ManagedHeadNewest, CardMatchesManuscript, VersionIds, VersionsOf, Generic

\* propose_fact adds an open proposal, which nothing was written for.
LEMMA ProposeStep ==
    ASSUME BibleInv, NEW p \in Proc, NEW k \in Key, NEW v \in Value, NEW i \in Sources,
           ProposeFact(p, k, v, i)
    PROVE  BibleInv'
<1> DEFINE row == [key |-> k, value |-> v, source |-> i, status |-> "proposed"]
<1>0. Len(ver) \in Nat /\ Len(proposal) \in Nat /\ IInv
  BY Rows DEF BibleInv, IInv
<1>1. proposal' = Append(proposal, row) /\ UNCHANGED docVars /\ UNCHANGED <<fact, hist, rejecting>>
  BY DEF ProposeFact
<1>2. row \in Proposals /\ row.source = i /\ row.status = "proposed"
  BY <1>0 DEF Proposals, Sources
<1> HIDE DEF row
<1>3. /\ proposal' \in Seq(Proposals) /\ Len(proposal') = Len(proposal) + 1
      /\ \A q \in 1 .. Len(proposal) : proposal'[q] = proposal[q]
      /\ proposal'[Len(proposal) + 1] = row
  BY <1>1, <1>2, AppendProperties DEF BibleInv, BibleTypeOK
<1>4. IInv' /\ ver' = ver
  BY <1>0, <1>1, DocumentsKept
<1>5. \A q \in 1 .. Len(proposal') : q \in 1 .. Len(proposal) \/ q = Len(proposal) + 1
  BY <1>0, <1>3
<1>6. rejecting' \in [Proc -> 0 .. Len(proposal')]
  <2>1. 0 .. Len(proposal) \subseteq 0 .. Len(proposal')
    BY <1>0, <1>3
  <2> QED
    BY <1>1, <2>1 DEF BibleInv, BibleTypeOK
<1>7. \A q \in 1 .. Len(proposal') :
         /\ proposal'[q].source \in 0 .. Len(ver')
         /\ q \in 1 .. Len(proposal) =>
              proposal'[q].status = "rejected" \/ proposal'[q].status = proposal[q].status
         /\ q \notin 1 .. Len(proposal) => proposal'[q].status = "proposed"
  BY <1>2, <1>3, <1>4, <1>5 DEF BibleInv, RowsExist, ProposalIds, Sources
<1>8. Len(proposal') >= Len(proposal) /\ Len(ver') >= Len(ver)
  BY <1>0, <1>3, <1>4
<1> QED
  BY <1>1, <1>3, <1>4, <1>6, <1>7, <1>8, QuietStep

\* reject_proposal overwrites the status, whatever it is by then.
LEMMA RejectStep ==
    ASSUME BibleInv, NEW p \in Proc, RejectProposalWrite(p)
    PROVE  BibleInv'
<1> DEFINE r == rejecting[p]
           w == [proposal[r] EXCEPT !.status = "rejected"]
<1>0. Len(ver) \in Nat /\ Len(proposal) \in Nat /\ IInv
  BY Rows DEF BibleInv, IInv
<1>1. /\ r # 0 /\ proposal' = [proposal EXCEPT ![r].status = "rejected"]
      /\ rejecting' = [rejecting EXCEPT ![p] = 0] /\ UNCHANGED docVars /\ UNCHANGED <<fact, hist>>
  BY DEF RejectProposalWrite
<1>2. r \in 1 .. Len(proposal) /\ proposal \in Seq(Proposals)
  BY <1>0, <1>1 DEF BibleInv, BibleTypeOK
<1>3. proposal[r] \in Proposals
  BY <1>2, ElementOfSeq
<1>4. w \in Proposals /\ w.source = proposal[r].source /\ w.status = "rejected"
  BY <1>3 DEF Proposals
<1>5. proposal' = [proposal EXCEPT ![r] = w]
  BY <1>1
<1> HIDE DEF w
<1>6. /\ proposal' \in Seq(Proposals) /\ Len(proposal') = Len(proposal)
      /\ \A q \in 1 .. Len(proposal) : proposal'[q] = IF q = r THEN w ELSE proposal[q]
  BY <1>2, <1>4, <1>5, ExceptSeq
<1>7. IInv' /\ ver' = ver
  BY <1>0, <1>1, DocumentsKept
<1>8. rejecting' \in [Proc -> 0 .. Len(proposal')]
  BY <1>0, <1>1, <1>6 DEF BibleInv, BibleTypeOK
<1> HIDE DEF r
<1>9. \A q \in 1 .. Len(proposal') :
         /\ proposal'[q].source \in 0 .. Len(ver')
         /\ q \in 1 .. Len(proposal) =>
              proposal'[q].status = "rejected" \/ proposal'[q].status = proposal[q].status
         /\ q \notin 1 .. Len(proposal) => proposal'[q].status = "proposed"
  BY <1>4, <1>6, <1>7 DEF BibleInv, RowsExist, ProposalIds, Sources
<1>10. Len(proposal') >= Len(proposal) /\ Len(ver') >= Len(ver)
  BY <1>0, <1>6, <1>7
<1> QED
  BY <1>1, <1>6, <1>7, <1>8, <1>9, <1>10, QuietStep

\* A process remembers, or forgets, the proposal it will reject; or the
\* documents move and the Bible does not.
LEMMA AsideStep ==
    ASSUME BibleInv, IInv', Len(ver') >= Len(ver), UNCHANGED <<fact, hist, proposal>>,
           rejecting' \in [Proc -> 0 .. Len(proposal)]
    PROVE  BibleInv'
<1>0. Len(ver) \in Nat /\ Len(proposal) \in Nat /\ Len(ver') \in Nat
  BY Rows, LenProperties DEF BibleInv, IInv, TypeOK
<1>1. \A q \in 1 .. Len(proposal) : proposal[q].source \in 0 .. Len(ver')
  BY <1>0 DEF BibleInv, RowsExist, ProposalIds, Sources
<1> QED
  BY <1>0, <1>1, QuietStep DEF BibleInv, BibleTypeOK

\* Every step keeps the invariant.
LEMMA BibleStepInv == BibleInv /\ [BibleNext]_vars => BibleInv'
<1> SUFFICES ASSUME BibleInv, [BibleNext]_vars PROVE BibleInv'
  OBVIOUS
<1>0. /\ BibleTypeOK /\ TypeOK /\ IInv /\ Len(ver) \in Nat /\ Len(proposal) \in Nat
      /\ rejecting \in [Proc -> 0 .. Len(proposal)]
      /\ \A q \in ProposalIds : proposal[q] \in Proposals /\ proposal[q].source \in Sources /\ q \in Nat
  BY Rows DEF BibleInv, IInv, RowsExist, BibleTypeOK, ProposalIds
<1>1. ASSUME NEW p \in Proc, NEW k \in Key, NEW v \in Value, NEW s \in UserFactStates, NEW i \in Sources,
             AddFact(p, k, v, s, i) \/ SetFact(p, k, v, s, i)
      PROVE  BibleInv'
  <2>1. s \in FACT_STATES /\ 0 \in Nat
    BY BibleAssumption
  <2>2. SourceAllows(s, i) /\ UNCHANGED docVars /\ rejecting' = rejecting /\ Settled(0)
    BY <1>1 DEF AddFact, SetFact, Settled
  <2>3. \E f \in Nat : Writes(f, 0)
    <3>1. CASE InsertFact(k, v, s, i, 0)
      <4>1. Len(fact) + 1 \in Nat
        BY <1>0, Rows
      <4> QED
        BY <1>0, <2>1, <2>2, <3>1, <4>1, InsertWrites
    <3>2. CASE UpsertFact(k, v, s, i, 0)
      BY <1>0, <2>1, <2>2, <3>2, UpsertWrites
    <3> QED
      BY <1>1, <3>1, <3>2 DEF AddFact, SetFact
  <2> QED
    BY <2>1, <2>2, <2>3, WriteStep
<1>2. ASSUME NEW p \in Proc, NEW f \in FactIds, NEW s \in {"canonical", "archived"}, SetFactState(p, f, s)
      PROVE  BibleInv'
  <2>1. Writes(f, 0) /\ f \in Nat /\ 0 \in Nat
    BY <1>0, <1>2, StateWrites DEF FactIds
  <2>2. UNCHANGED docVars /\ rejecting' = rejecting /\ Settled(0)
    BY <1>2 DEF SetFactState, Settled
  <2> QED
    BY <2>1, <2>2, WriteStep
<1>3. ASSUME NEW p \in Proc, NEW q \in ProposalIds, NEW s \in {"canonical", "idea"}, AcceptProposal(p, q, s)
      PROVE  BibleInv'
  <2>1. s \in FACT_STATES /\ proposal[q].key \in Key /\ proposal[q].value \in Value
    BY <1>0 DEF FACT_STATES, Proposals
  <2>2. /\ SourceAllows(s, proposal[q].source) /\ UNCHANGED docVars /\ rejecting' = rejecting /\ Settled(q)
        /\ UpsertFact(proposal[q].key, proposal[q].value, s, proposal[q].source, q)
    BY <1>3 DEF AcceptProposal, Settled
  <2>3. \E f \in Nat : Writes(f, q)
    BY <1>0, <2>1, <2>2, UpsertWrites
  <2> QED
    BY <1>0, <2>2, <2>3, WriteStep
<1>4. ASSUME NEW p \in Proc, CrashRejecting(p) \/ \E q \in ProposalIds : RejectProposalRead(p, q)
      PROVE  BibleInv'
  <2>1. UNCHANGED docVars /\ UNCHANGED <<fact, hist, proposal>>
    BY <1>4 DEF CrashRejecting, RejectProposalRead
  <2>2. rejecting' \in [Proc -> 0 .. Len(proposal)]
    BY <1>0, <1>4 DEF CrashRejecting, RejectProposalRead, ProposalIds
  <2>3. IInv' /\ Len(ver') >= Len(ver)
    BY <1>0, <2>1, DocumentsKept
  <2> QED
    BY <2>1, <2>2, <2>3, AsideStep
<1>5. ASSUME NEW p \in Proc, DocStep(p), UNCHANGED bibleVars
      PROVE  BibleInv'
  <2>1. Next
    BY <1>5 DEF Next
  <2>2. IInv' /\ StepSafe
    BY <1>0, <2>1, StepInvariant, EveryStepSafe
  <2> QED
    BY <1>0, <1>5, <2>2, AsideStep DEF StepSafe, bibleVars
<1>6. CASE UNCHANGED vars
  <2>1. UNCHANGED docVars /\ UNCHANGED <<fact, hist, proposal>> /\ rejecting' = rejecting
    BY <1>6 DEF vars, docVars
  <2>2. IInv' /\ Len(ver') >= Len(ver)
    BY <1>0, <2>1, DocumentsKept
  <2> QED
    BY <1>0, <2>1, <2>2, AsideStep
<1>7. ASSUME NEW p \in Proc, BibleStep(p)
      PROVE  BibleInv'
  BY <1>1, <1>2, <1>3, <1>4, <1>7, ProposeStep, RejectStep DEF BibleStep
<1> QED
  BY <1>5, <1>6, <1>7 DEF BibleNext

\* An empty Bible satisfies it.
LEMMA BibleInitInv == BibleInit => BibleInv
<1> SUFFICES ASSUME BibleInit PROVE BibleInv
  OBVIOUS
<1>1. IInv
  BY InitInvariant DEF BibleInit
<1>2. fact = << >> /\ hist = << >> /\ proposal = << >> /\ rejecting = [p \in Proc |-> 0]
  BY DEF BibleInit
<1>3. /\ fact \in Seq(Facts) /\ hist \in Seq(History) /\ proposal \in Seq(Proposals)
      /\ Len(fact) = 0 /\ Len(hist) = 0 /\ Len(proposal) = 0
  BY <1>2, EmptySeq
<1>4. 1 .. 0 = {} /\ 0 .. 0 = {0}
  OBVIOUS
<1>5. FactIds = {} /\ ProposalIds = {} /\ 1 .. Len(hist) = {}
  BY <1>3, <1>4 DEF FactIds, ProposalIds
<1>6. BibleTypeOK
  BY <1>2, <1>3, <1>4, <1>5 DEF BibleTypeOK
<1> QED
  BY <1>1, <1>5, <1>6 DEF BibleInv, RowsExist, HistoryExplainsFacts, AcceptedOnce, OpenUnwritten

-----------------------------------------------------------------------------
(* The theorems *)

\* The inductive invariant, through every interleaving of authors, models and
\* document operations.
THEOREM BibleInvariance == BibleSpec => []BibleInv
  BY BibleInitInv, BibleStepInv, PTL DEF BibleSpec

\* The value of every fact is the one its latest history row recorded.
THEOREM HistoryIsComplete == BibleSpec => []HistoryExplainsFacts
<1>1. BibleInv => HistoryExplainsFacts
  BY DEF BibleInv
<1> QED
  BY <1>1, BibleInvariance, PTL

\* An accepted proposal reached the Bible exactly once, however often it was
\* accepted, rejected and reread by other processes.
THEOREM ProposalsReachOnce == BibleSpec => []AcceptedOnce
<1>1. BibleInv => AcceptedOnce
  BY DEF BibleInv
<1> QED
  BY <1>1, BibleInvariance, PTL

\* What the write of a fact must show for its source.
CanonStep ==
    \A f \in 1 .. Len(fact') :
        /\ fact'[f].state = "canonical"
        /\ f \in FactIds => fact[f] # fact'[f]
        => SourceStatus(fact'[f].source) \in {"current", "unbound"}

\* A write shows it, and a step that writes no fact has nothing to show.
LEMMA WritesCanon ==
    ASSUME BibleInv, (\E f, by \in Nat : Writes(f, by)) \/ fact' = fact
    PROVE  CanonStep
<1>1. ASSUME NEW f \in Nat, NEW by \in Nat, Writes(f, by), NEW g \in 1 .. Len(fact')
      PROVE  g = f \/ (g \in FactIds /\ fact'[g] = fact[g])
  <2>0. Len(fact) \in Nat
    BY Rows DEF BibleInv, IInv
  <2>1. CASE Len(fact') = Len(fact)
    BY <1>1, <2>0, <2>1 DEF Writes, FactIds
  <2>2. CASE Len(fact') = Len(fact) + 1
    <3>1. f = Len(fact) + 1 /\ (g = Len(fact) + 1 \/ g \in 1 .. Len(fact))
      BY <1>1, <2>0, <2>2 DEF Writes
    <3> QED
      BY <1>1, <2>0, <3>1 DEF Writes, FactIds
  <2> QED
    BY <1>1, <2>1, <2>2 DEF Writes
<1>2. CASE \E f, by \in Nat : Writes(f, by)
  BY <1>1, <1>2 DEF CanonStep, Writes
<1>3. CASE fact' = fact
  BY <1>3 DEF CanonStep, FactIds
<1> QED
  BY <1>2, <1>3

\* A fact becomes or is rewritten as canonical only from a source that is, at
\* that moment, the current accepted version of its document, or from none.
THEOREM CanonFromCurrentSource == BibleSpec => CanonWrittenFromCurrentSource
<1>1. ASSUME BibleInv, BibleNext PROVE CanonStep
  <2>0. /\ BibleTypeOK /\ TypeOK /\ 0 \in Nat
        /\ \A q \in ProposalIds : proposal[q] \in Proposals /\ proposal[q].source \in Sources /\ q \in Nat
    BY <1>1, Rows DEF BibleInv, IInv, RowsExist, ProposalIds
  <2>1. ASSUME NEW p \in Proc, NEW k \in Key, NEW v \in Value, NEW s \in UserFactStates, NEW i \in Sources,
               AddFact(p, k, v, s, i) \/ SetFact(p, k, v, s, i)
        PROVE  \E f, by \in Nat : Writes(f, by)
    <3>1. s \in FACT_STATES /\ SourceAllows(s, i) /\ Len(fact) + 1 \in Nat
      BY <2>0, <2>1, BibleAssumption, Rows DEF AddFact, SetFact
    <3> QED
      BY <2>0, <2>1, <3>1, InsertWrites, UpsertWrites DEF AddFact, SetFact
  <2>2. ASSUME NEW p \in Proc, NEW f \in FactIds, NEW s \in {"canonical", "archived"}, SetFactState(p, f, s)
        PROVE  \E g, by \in Nat : Writes(g, by)
    BY <2>0, <2>2, StateWrites DEF FactIds
  <2>3. ASSUME NEW p \in Proc, NEW q \in ProposalIds, NEW s \in {"canonical", "idea"}, AcceptProposal(p, q, s)
        PROVE  \E f, by \in Nat : Writes(f, by)
    <3>1. s \in FACT_STATES /\ proposal[q].key \in Key /\ proposal[q].value \in Value
      BY <2>0 DEF FACT_STATES, Proposals
    <3>2. /\ SourceAllows(s, proposal[q].source)
          /\ UpsertFact(proposal[q].key, proposal[q].value, s, proposal[q].source, q)
      BY <2>3 DEF AcceptProposal
    <3> QED
      BY <2>0, <3>1, <3>2, UpsertWrites
  <2>4. ASSUME NEW p \in Proc,
               \/ \E k \in Key, v \in Value, i \in Sources : ProposeFact(p, k, v, i)
               \/ \E q \in ProposalIds : RejectProposalRead(p, q)
               \/ RejectProposalWrite(p) \/ CrashRejecting(p)
               \/ UNCHANGED bibleVars
        PROVE  fact' = fact
    BY <2>4 DEF ProposeFact, RejectProposalRead, RejectProposalWrite, CrashRejecting, bibleVars
  <2>5. (\E f, by \in Nat : Writes(f, by)) \/ fact' = fact
    BY <1>1, <2>1, <2>2, <2>3, <2>4 DEF BibleNext, BibleStep
  <2> QED
    BY <1>1, <2>5, WritesCanon
<1>2. BibleInv /\ [BibleNext]_vars =>
        [\A f \in 1 .. Len(fact') :
            /\ fact'[f].state = "canonical"
            /\ f \in FactIds => fact[f] # fact'[f]
            => SourceStatus(fact'[f].source) \in {"current", "unbound"}]_vars
  BY <1>1 DEF CanonStep
<1> QED
  BY <1>2, BibleInvariance, PTL DEF BibleSpec, CanonWrittenFromCurrentSource
=============================================================================
