---------------------- MODULE NarrativeKnowledgeProofs ----------------------
(***************************************************************************)
(* Theorems about NarrativeKnowledge, for every set of records, strands,   *)
(* positions and sources and every length of the logs.                     *)
(***************************************************************************)
EXTENDS NarrativeKnowledge, SequenceTheorems, TLAPS

\* The inductive invariant: the parts hold one another up through the types and
\* through the payload at the head of every log.
IInv == TypeOK /\ NoOverlap /\ TopicsUnique /\ ConfirmedWasProposed

\* What a saved record holds at its head and in its log.
LEMMA SavedLog ==
    ASSUME TypeOK, NEW r \in Record
    PROVE  /\ log[r] \in Seq(Payloads) /\ Len(log[r]) \in Nat
           /\ Saved(r) <=> Len(log[r]) # 0
           /\ \A k \in 1 .. Len(log[r]) : log[r][k] \in Payloads
           /\ Saved(r) => HeadOf(r) \in Payloads /\ Len(log[r]) \in 1 .. Len(log[r])
<1>1. log[r] \in Seq(Payloads)
  BY DEF TypeOK
<1>2. Len(log[r]) \in Nat /\ \A k \in 1 .. Len(log[r]) : log[r][k] \in Payloads
  BY <1>1, LenProperties, ElementOfSeq
<1>3. log[r] = << >> <=> Len(log[r]) = 0
  BY <1>1, EmptySeq
<1> QED
  BY <1>1, <1>2, <1>3 DEF Saved, HeadOf

\* _write: the log of one record grows by the payload, which becomes its head.
LEMMA LogGrows ==
    ASSUME TypeOK, NEW r \in Record, NEW p \in Payloads, Write(r, p)
    PROVE  /\ log' \in [Record -> Seq(Payloads)]
           /\ source' = source /\ closed' = closed
           /\ Len(log[r]) \in Nat /\ Len(log'[r]) = Len(log[r]) + 1
           /\ \A k \in 1 .. Len(log[r]) : log'[r][k] = log[r][k]
           /\ log'[r][Len(log[r]) + 1] = p
           /\ HeadOf(r)' = p /\ Saved(r)'
           /\ \A q \in Record : q # r => log'[q] = log[q]
<1>1. log \in [Record -> Seq(Payloads)] /\ log[r] \in Seq(Payloads)
  BY DEF TypeOK
<1>2. log' = [log EXCEPT ![r] = Append(log[r], p)] /\ source' = source /\ closed' = closed
  BY DEF Write
<1>3. log'[r] = Append(log[r], p) /\ \A q \in Record : q # r => log'[q] = log[q]
  BY <1>1, <1>2
<1>4. /\ Append(log[r], p) \in Seq(Payloads) /\ Len(log[r]) \in Nat
      /\ Len(Append(log[r], p)) = Len(log[r]) + 1
      /\ \A k \in 1 .. Len(log[r]) : Append(log[r], p)[k] = log[r][k]
      /\ Append(log[r], p)[Len(log[r]) + 1] = p
  BY <1>1, AppendProperties, LenProperties
<1>5. log' \in [Record -> Seq(Payloads)]
  BY <1>1, <1>2, <1>4
<1>6. log'[r] # << >>
  <2>1. Len(log'[r]) # 0
    BY <1>3, <1>4
  <2> QED
    BY <2>1, EmptySeq
<1> QED
  BY <1>2, <1>3, <1>4, <1>5, <1>6 DEF HeadOf, Saved

\* Well-typed statements make well-typed payloads.
LEMMA PayloadType ==
    ASSUME NEW o \in {"propose", "confirm", "withdraw"}, NEW n \in Nat, NEW s \in Statement,
           NEW c \in Confirmation
    PROVE  /\ Payload(o, n, s, c) \in Payloads
           /\ Payload(o, n, s, c).op = o /\ Payload(o, n, s, c).num = n
           /\ Payload(o, n, s, c).stmt = s /\ Payload(o, n, s, c).confirmed = c
  BY DEF Payload, Payloads

\* The absent confirmation is well typed, and is not a confirmation in force.
LEMMA NoConfirmationType == NoConfirmation \in Confirmation /\ NoConfirmation.num = 0
<1>1. NoStatement \in Statement
  BY DEF NoStatement, Statement, Until
<1> QED
  BY <1>1 DEF NoConfirmation, Confirmation

\* A payload read from the head of a saved record has typed parts.
LEMMA HeadType ==
    ASSUME TypeOK, NEW r \in Record, Saved(r)
    PROVE  /\ HeadOf(r).num \in Nat /\ HeadOf(r).stmt \in Statement /\ HeadOf(r).confirmed \in Confirmation
           /\ topic[r].from < HeadOf(r).stmt.until
<1>1. HeadOf(r) \in Payloads /\ topic[r].from < HeadOf(r).stmt.until
  BY SavedLog DEF TypeOK, HeadOf
<1> QED
  BY <1>1 DEF Payloads
-----------------------------------------------------------------------------
(***************************************************************************)
(* One append, seen by every part of the invariant.                        *)
(***************************************************************************)
\* The payload p keeps the record consistent: it names a proposal, which may be
\* itself, and the confirmation it carries names an earlier one.
Consistent(r, p) ==
    /\ \/ p.op = "propose" /\ p.num = Len(log[r]) + 1
       \/ NamesProposal(log[r], Len(log[r]), p.num, p.stmt)
    /\ p.confirmed.num # 0 => NamesProposal(log[r], Len(log[r]), p.confirmed.num, p.confirmed.stmt)

\* The confirmation p carries claims no position another record has confirmed.
Apart(r, p) ==
    p.confirmed.num # 0 =>
        \A q \in Record \ {r} :
            Confirmed(q) /\ topic[q].strand = topic[r].strand =>
                ~Overlap(topic[r], p.confirmed.stmt.until, topic[q], HeadOf(q).confirmed.stmt.until)

\* A consistent payload, apart from the other confirmations, keeps the invariant.
LEMMA WriteKeeps ==
    ASSUME IInv, NEW r \in Record, NEW p \in Payloads, NEW t \in Topic, Write(r, p), Consistent(r, p),
           t.from < p.stmt.until,
           topic' = [topic EXCEPT ![r] = t],
           \/ Saved(r) /\ t = topic[r] /\ Apart(r, p)
           \/ ~Saved(r) /\ TopicFree(r, t) /\ p.confirmed.num = 0
    PROVE  IInv'
<1>1. /\ log' \in [Record -> Seq(Payloads)]
      /\ source' = source /\ closed' = closed
      /\ Len(log[r]) \in Nat /\ Len(log'[r]) = Len(log[r]) + 1
      /\ \A k \in 1 .. Len(log[r]) : log'[r][k] = log[r][k]
      /\ log'[r][Len(log[r]) + 1] = p
      /\ HeadOf(r)' = p /\ Saved(r)'
      /\ \A q \in Record : q # r => log'[q] = log[q]
  BY LogGrows DEF IInv
<1>2. /\ topic \in [Record -> Topic \union {NoTopic}]
      /\ topic'[r] = t /\ \A q \in Record : q # r => topic'[q] = topic[q]
  BY DEF IInv, TypeOK
<1>3. /\ \A q \in Record : q # r => (Saved(q)' <=> Saved(q)) /\ HeadOf(q)' = HeadOf(q)
      /\ \A q \in Record : q # r => (Confirmed(q)' <=> Confirmed(q))
      /\ Confirmed(r)' <=> p.confirmed.num # 0
  BY <1>1 DEF Saved, HeadOf, Confirmed
<1>4. TypeOK'
  <2>1. topic' \in [Record -> Topic \union {NoTopic}]
    BY <1>2
  <2>2. \A q \in Record : Saved(q)' => topic'[q] \in Topic
    BY <1>2, <1>3 DEF IInv, TypeOK
  <2>3. source' \in [Source -> SourceStates] /\ closed' \in SUBSET Holder
    BY <1>1 DEF IInv, TypeOK
  <2>4. ASSUME NEW q \in Record, NEW k \in 1 .. Len(log'[q]) PROVE topic'[q].from < log'[q][k].stmt.until
    <3>1. CASE q # r
      BY <1>1, <1>2, <3>1 DEF IInv, TypeOK
    <3>2. CASE q = r /\ k = Len(log[r]) + 1
      BY <1>1, <1>2, <3>2
    <3>3. CASE q = r /\ k # Len(log[r]) + 1
      <4>1. k \in 1 .. Len(log[r])
        BY <1>1, <3>3
      <4>2. Saved(r)
        BY <1>1, <4>1, SavedLog DEF IInv
      <4> QED
        BY <1>1, <1>2, <3>3, <4>1, <4>2 DEF IInv, TypeOK
    <3> QED
      BY <3>1, <3>2, <3>3
  <2> QED
    BY <1>1, <2>1, <2>2, <2>3, <2>4 DEF TypeOK
<1>5. TopicsUnique'
  BY <1>2, <1>3 DEF IInv, TopicsUnique, TopicFree
<1>6. NoOverlap'
  <2>1. ASSUME NEW q \in Record, q # r, p.confirmed.num # 0, Confirmed(q), topic[q].strand = t.strand
        PROVE  /\ ~Overlap(t, p.confirmed.stmt.until, topic[q], HeadOf(q).confirmed.stmt.until)
               /\ ~Overlap(topic[q], HeadOf(q).confirmed.stmt.until, t, p.confirmed.stmt.until)
    BY <2>1 DEF Apart, Overlap
  <2> SUFFICES ASSUME NEW a \in Record, NEW b \in Record,
                      a # b, Confirmed(a)', Confirmed(b)', topic'[a].strand = topic'[b].strand
               PROVE  ~Overlap(topic'[a], HeadOf(a)'.confirmed.stmt.until,
                               topic'[b], HeadOf(b)'.confirmed.stmt.until)
    BY DEF NoOverlap, Overlap
  <2>2. CASE a = r
    BY <1>1, <1>2, <1>3, <2>1, <2>2
  <2>3. CASE b = r
    BY <1>1, <1>2, <1>3, <2>1, <2>3
  <2>4. CASE a # r /\ b # r
    BY <1>2, <1>3, <2>4 DEF IInv, NoOverlap
  <2> QED
    BY <2>2, <2>3, <2>4
<1>7. ConfirmedWasProposed'
  <2> DEFINE n == Len(log[r]) + 1
  <2>1. ASSUME NEW k \in 0 .. Len(log[r]), NEW j \in Nat, j >= k, NEW m, NEW s,
               NamesProposal(log[r], k, m, s)
        PROVE  NamesProposal(log'[r], j, m, s)
    <3>1. m \in 1 .. Len(log[r]) /\ m \in 1 .. j
      BY <1>1, <2>1 DEF NamesProposal
    <3> QED
      BY <1>1, <2>1, <3>1 DEF NamesProposal
  <2> SUFFICES ASSUME NEW q \in Record, NEW k \in 1 .. Len(log'[q])
               PROVE  /\ NamesProposal(log'[q], k, log'[q][k].num, log'[q][k].stmt)
                      /\ log'[q][k].confirmed.num # 0 =>
                           NamesProposal(log'[q], k - 1, log'[q][k].confirmed.num, log'[q][k].confirmed.stmt)
    BY DEF ConfirmedWasProposed
  <2>2. CASE q # r
    <3>1. log'[q] = log[q]
      BY <1>1, <2>2
    <3> QED
      BY <3>1 DEF IInv, ConfirmedWasProposed
  <2>3. CASE q = r /\ k # n
    <3>1. /\ k \in 1 .. Len(log[r]) /\ k \in 0 .. Len(log[r]) /\ k - 1 \in 0 .. Len(log[r])
          /\ k \in Nat /\ k - 1 \in Nat /\ k >= k /\ k - 1 >= k - 1
      BY <1>1, <2>3
    <3>2. log'[r][k] = log[r][k]
      BY <1>1, <3>1
    <3>3. /\ NamesProposal(log[r], k, log[r][k].num, log[r][k].stmt)
          /\ log[r][k].confirmed.num # 0 =>
               NamesProposal(log[r], k - 1, log[r][k].confirmed.num, log[r][k].confirmed.stmt)
      BY <3>1 DEF IInv, ConfirmedWasProposed
    <3> QED
      BY <2>1, <2>3, <3>1, <3>2, <3>3
  <2>4. CASE q = r /\ k = n
    <3>1. /\ log'[r][n] = p /\ n \in 1 .. n /\ n - 1 = Len(log[r]) /\ Len(log[r]) \in 0 .. Len(log[r])
          /\ n \in Nat /\ n >= Len(log[r]) /\ Len(log[r]) >= Len(log[r]) /\ Len(log[r]) \in Nat
      BY <1>1
    <3>2. p.confirmed.num # 0 => NamesProposal(log'[r], n - 1, p.confirmed.num, p.confirmed.stmt)
      BY <2>1, <3>1 DEF Consistent
    <3>3. NamesProposal(log'[r], n, p.num, p.stmt)
      <4>1. CASE p.op = "propose" /\ p.num = n
        BY <3>1, <4>1 DEF NamesProposal
      <4>2. CASE NamesProposal(log[r], Len(log[r]), p.num, p.stmt)
        BY <2>1, <3>1, <4>2
      <4> QED
        BY <4>1, <4>2 DEF Consistent
    <3> QED
      BY <2>4, <3>1, <3>2, <3>3
  <2> QED
    BY <2>2, <2>3, <2>4
<1> QED
  BY <1>4, <1>5, <1>6, <1>7 DEF IInv

-----------------------------------------------------------------------------
(***************************************************************************)
(* Every action.                                                           *)
(***************************************************************************)
\* At the head of a saved record the invariant speaks of the whole log.
LEMMA HeadConsistent ==
    ASSUME IInv, NEW r \in Record, Saved(r)
    PROVE  /\ NamesProposal(log[r], Len(log[r]), HeadOf(r).num, HeadOf(r).stmt)
           /\ HeadOf(r).confirmed.num # 0 =>
                NamesProposal(log[r], Len(log[r]), HeadOf(r).confirmed.num, HeadOf(r).confirmed.stmt)
<1>1. Len(log[r]) \in Nat /\ Len(log[r]) \in 1 .. Len(log[r])
  BY SavedLog DEF IInv
<1>2. /\ NamesProposal(log[r], Len(log[r]), HeadOf(r).num, HeadOf(r).stmt)
      /\ HeadOf(r).confirmed.num # 0 =>
           NamesProposal(log[r], Len(log[r]) - 1, HeadOf(r).confirmed.num, HeadOf(r).confirmed.stmt)
  BY <1>1 DEF IInv, ConfirmedWasProposed, HeadOf
<1> QED
  BY <1>1, <1>2 DEF NamesProposal

\* Saving a proposal, first or again.
LEMMA ProposeStep ==
    ASSUME IInv, NEW r \in Record, NEW t \in Topic, NEW stmt \in Statement, NEW e, Propose(r, t, stmt, e)
    PROVE  IInv'
<1>1. Len(log[r]) \in Nat /\ Len(log[r]) + 1 \in Nat
  BY SavedLog DEF IInv
<1>2. CarriedOver(r) \in Confirmation
  BY HeadType, NoConfirmationType DEF CarriedOver, ConfirmationOf, IInv
<1> DEFINE p == Payload("propose", Len(log[r]) + 1, stmt, CarriedOver(r))
<1>3. /\ p \in Payloads /\ p.op = "propose" /\ p.num = Len(log[r]) + 1
      /\ p.confirmed = CarriedOver(r) /\ p.stmt = stmt
  BY <1>1, <1>2, PayloadType
<1>4. /\ Write(r, p) /\ topic' = [topic EXCEPT ![r] = t] /\ t.from < stmt.until
      /\ Saved(r) => topic[r] = t
      /\ ~Saved(r) => TopicFree(r, t)
  BY DEF Propose, StatementValid
<1> HIDE DEF p
<1>5. Consistent(r, p)
  BY <1>3, HeadConsistent, NoConfirmationType DEF Consistent, CarriedOver, ConfirmationOf
<1>6. Saved(r) => Apart(r, p)
  BY <1>3 DEF Apart, CarriedOver, ConfirmationOf, Confirmed, IInv, NoOverlap
<1>7. ~Saved(r) => p.confirmed.num = 0
  BY <1>3, NoConfirmationType DEF CarriedOver, ConfirmationOf
<1> QED
  BY <1>3, <1>4, <1>5, <1>6, <1>7, WriteKeeps

\* The author confirms a proposal of the record.
LEMMA ConfirmStep ==
    ASSUME IInv, NEW r \in Record, NEW n, NEW e, Confirm(r, n, e)
    PROVE  IInv'
<1>1. Saved(r) /\ IsProposal(r, n) /\ TypeOK /\ topic[r] \in Topic
  BY DEF Confirm, IInv, TypeOK
<1>2. n \in 1 .. Len(log[r]) /\ log[r][n].op = "propose" /\ log[r][n] \in Payloads /\ n \in Nat /\ n # 0
  BY <1>1, SavedLog DEF IsProposal
<1>3. log[r][n].stmt \in Statement
  BY <1>2 DEF Payloads
<1> DEFINE c == [num |-> n, stmt |-> log[r][n].stmt]
<1>4. c \in Confirmation /\ c.num = n /\ c.stmt = log[r][n].stmt
  BY <1>2, <1>3 DEF Confirmation
<1> DEFINE p == Payload("confirm", HeadOf(r).num, HeadOf(r).stmt, c)
<1>5. Write(r, p) /\ ConfirmedApart(r, c.stmt) /\ topic' = topic
  BY DEF Confirm
<1> HIDE DEF c
<1>6. p \in Payloads /\ p.num = HeadOf(r).num /\ p.stmt = HeadOf(r).stmt /\ p.confirmed = c
  BY <1>1, <1>4, HeadType, PayloadType
<1> HIDE DEF p
<1>7. log[r][n].num = n
  BY <1>1 DEF IsProposal
<1>8. Consistent(r, p)
  BY <1>1, <1>2, <1>4, <1>6, <1>7, HeadConsistent DEF Consistent, NamesProposal
<1>9. Apart(r, p)
  BY <1>4, <1>5, <1>6 DEF Apart, ConfirmedApart
<1>10. topic' = [topic EXCEPT ![r] = topic[r]]
  BY <1>1, <1>5 DEF TypeOK
<1>11. topic[r].from < p.stmt.until
  BY <1>1, <1>6, HeadType
<1> QED
  BY <1>1, <1>5, <1>6, <1>8, <1>9, <1>10, <1>11, WriteKeeps

\* The author withdraws the confirmation in force.
LEMMA WithdrawStep ==
    ASSUME IInv, NEW r \in Record, NEW e, Withdraw(r, e)
    PROVE  IInv'
<1>1. Saved(r) /\ TypeOK /\ topic[r] \in Topic
  BY DEF Withdraw, Confirmed, IInv, TypeOK
<1> DEFINE p == Payload("withdraw", HeadOf(r).num, HeadOf(r).stmt, NoConfirmation)
<1>2. Write(r, p) /\ topic' = topic
  BY DEF Withdraw
<1>3. p \in Payloads /\ p.num = HeadOf(r).num /\ p.stmt = HeadOf(r).stmt /\ p.confirmed = NoConfirmation
  BY <1>1, HeadType, PayloadType, NoConfirmationType
<1> HIDE DEF p
<1>4. Consistent(r, p) /\ Apart(r, p)
  BY <1>1, <1>3, HeadConsistent, NoConfirmationType DEF Consistent, Apart
<1>5. topic' = [topic EXCEPT ![r] = topic[r]]
  BY <1>1, <1>2 DEF TypeOK
<1>6. topic[r].from < p.stmt.until
  BY <1>1, <1>3, HeadType
<1> QED
  BY <1>1, <1>2, <1>3, <1>4, <1>5, <1>6, WriteKeeps

\* The manuscript and its characters move without touching the records.
LEMMA FrameStep ==
    ASSUME IInv, topic' = topic, log' = log, source' \in [Source -> SourceStates], closed' \in SUBSET Holder
    PROVE  IInv'
  BY DEF IInv, TypeOK, NoOverlap, TopicsUnique, ConfirmedWasProposed, Saved, Confirmed, HeadOf

\* The empty book satisfies the invariant.
LEMMA InitInvariant == Init => IInv
<1> SUFFICES ASSUME Init PROVE IInv
  OBVIOUS
<1>1. \A r \in Record : log[r] = << >> /\ ~Saved(r) /\ Len(log[r]) = 0
  BY EmptySeq DEF Init, Saved
<1>2. TypeOK
  <2>1. << >> \in Seq(Payloads)
    BY EmptySeq
  <2> QED
    BY <1>1, <2>1 DEF Init, TypeOK
<1> QED
  BY <1>1, <1>2 DEF IInv, NoOverlap, TopicsUnique, ConfirmedWasProposed, Confirmed

\* Every step keeps the invariant.
LEMMA StepInvariant == IInv /\ [Next]_vars => IInv'
<1> SUFFICES ASSUME IInv, [Next]_vars PROVE IInv'
  OBVIOUS
<1>1. ASSUME NEW r \in Record, NEW t \in Topic, NEW stmt \in Statement, NEW e \in 0 .. MaxLog,
             Propose(r, t, stmt, e)
      PROVE  IInv'
  BY <1>1, ProposeStep
<1>2. ASSUME NEW r \in Record, NEW n \in 1 .. MaxLog, NEW e \in 1 .. MaxLog, Confirm(r, n, e)
      PROVE  IInv'
  BY <1>2, ConfirmStep
<1>3. ASSUME NEW r \in Record, NEW e \in 1 .. MaxLog, Withdraw(r, e) PROVE IInv'
  BY <1>3, WithdrawStep
<1>4. ASSUME NEW x \in Source, NEW s \in SourceStates, SourceMoves(x, s) PROVE IInv'
  <2>1. /\ topic' = topic /\ log' = log /\ closed' \in SUBSET Holder
        /\ source' \in [Source -> SourceStates]
    BY <1>4 DEF SourceMoves, IInv, TypeOK
  <2> QED
    BY <2>1, FrameStep
<1>5. ASSUME NEW h \in Holder, HolderMoves(h) PROVE IInv'
  <2>1. /\ topic' = topic /\ log' = log /\ closed' \in SUBSET Holder
        /\ source' \in [Source -> SourceStates]
    BY <1>5 DEF HolderMoves, IInv, TypeOK
  <2> QED
    BY <2>1, FrameStep
<1>6. CASE UNCHANGED vars
  <2>1. /\ topic' = topic /\ log' = log /\ closed' \in SUBSET Holder
        /\ source' \in [Source -> SourceStates]
    BY <1>6 DEF vars, IInv, TypeOK
  <2> QED
    BY <2>1, FrameStep
<1> QED
  BY <1>1, <1>2, <1>3, <1>4, <1>5, <1>6 DEF Next
-----------------------------------------------------------------------------
\* The invariant holds throughout.
THEOREM Invariance == Spec => []IInv
  BY InitInvariant, StepInvariant, PTL DEF Spec

\* The tables stay well typed.
THEOREM TypeCorrect == Spec => []TypeOK
<1>1. IInv => TypeOK
  BY DEF IInv
<1> QED
  BY <1>1, Invariance, PTL

\* Whatever is proposed, confirmed and withdrawn in whatever order, two
\* confirmations of a strand never cover the same position.
THEOREM ConfirmationsApart == Spec => []NoOverlap
<1>1. IInv => NoOverlap
  BY DEF IInv
<1> QED
  BY <1>1, Invariance, PTL

\* So the projection at a position never holds two answers.
THEOREM ViewIsUnambiguous == Spec => []ViewUnambiguous
<1>1. IInv => ViewUnambiguous
  <2> SUFFICES ASSUME IInv, NEW s \in Strand, NEW x \in Position,
                      NEW r \in Visible(s, x), NEW q \in Visible(s, x), r # q
               PROVE  FALSE
    BY DEF ViewUnambiguous
  <2>1. /\ r \in Record /\ q \in Record /\ Confirmed(r) /\ Confirmed(q)
        /\ topic[r].strand = topic[q].strand
        /\ topic[r].from <= x /\ x < HeadOf(r).confirmed.stmt.until
        /\ topic[q].from <= x /\ x < HeadOf(q).confirmed.stmt.until
    BY DEF Visible
  <2>2. /\ topic[r] \in Topic /\ topic[q] \in Topic
        /\ HeadOf(r).confirmed \in Confirmation /\ HeadOf(q).confirmed \in Confirmation
    BY <2>1, HeadType DEF Confirmed, IInv, TypeOK
  <2>3. /\ HeadOf(r).confirmed.stmt \in Statement /\ HeadOf(q).confirmed.stmt \in Statement
    BY <2>2 DEF Confirmation
  <2>4. /\ topic[r].from \in Int /\ topic[q].from \in Int /\ x \in Int
        /\ HeadOf(r).confirmed.stmt.until \in Int /\ HeadOf(q).confirmed.stmt.until \in Int
    BY <2>2, <2>3, KnowledgeAssumption DEF Topic, Statement, Until
  <2>5. Overlap(topic[r], HeadOf(r).confirmed.stmt.until, topic[q], HeadOf(q).confirmed.stmt.until)
    BY <2>1, <2>4 DEF Overlap
  <2> QED
    BY <2>1, <2>5 DEF IInv, NoOverlap
<1> QED
  BY <1>1, Invariance, PTL

\* The identity checks of _snapshot hold of every saved version of every record.
THEOREM SnapshotsConsistent == Spec => []ConfirmedWasProposed
<1>1. IInv => ConfirmedWasProposed
  BY DEF IInv
<1> QED
  BY <1>1, Invariance, PTL

\* A topic never has two records.
THEOREM OneRecordPerTopic == Spec => []TopicsUnique
<1>1. IInv => TopicsUnique
  BY DEF IInv
<1> QED
  BY <1>1, Invariance, PTL

-----------------------------------------------------------------------------
\* A write of one record leaves what is offered and in force for the others, and
\* for the record itself: a saved proposal is a new offer, nothing else is, and
\* the payload's confirmation is what is in force.
LEMMA WriteOffers ==
    ASSUME TypeOK, NEW r \in Record, NEW p \in Payloads, Write(r, p)
    PROVE  /\ \A q \in Record \ {r} : OffersIn(log'[q]) = OffersIn(log[q]) /\ ConfirmationOf(q)' = ConfirmationOf(q)
           /\ ConfirmationOf(r)' = p.confirmed
           /\ p.op = "propose" =>
                OffersIn(log'[r]) = OffersIn(log[r]) \union {[num |-> Len(log[r]) + 1, stmt |-> p.stmt]}
           /\ p.op # "propose" => OffersIn(log'[r]) = OffersIn(log[r])
<1>1. /\ Len(log[r]) \in Nat /\ Len(log'[r]) = Len(log[r]) + 1
      /\ log'[r][Len(log[r]) + 1] = p
      /\ \A k \in 1 .. Len(log[r]) : log'[r][k] = log[r][k]
      /\ \A q \in Record : q # r => log'[q] = log[q]
  BY LogGrows
<1>2. \A q \in Record \ {r} : OffersIn(log'[q]) = OffersIn(log[q]) /\ ConfirmationOf(q)' = ConfirmationOf(q)
  BY <1>1 DEF ConfirmationOf, Saved, HeadOf
<1>3. log'[r] \in Seq(Payloads)
  BY LogGrows
<1>4. ConfirmationOf(r)' = p.confirmed
  BY <1>1, <1>3, EmptySeq DEF ConfirmationOf, Saved, HeadOf
<1>5. p.op = "propose" =>
        OffersIn(log'[r]) = OffersIn(log[r]) \union {[num |-> Len(log[r]) + 1, stmt |-> p.stmt]}
  BY SMTT(30), <1>1 DEF OffersIn
<1>6. p.op # "propose" => OffersIn(log'[r]) = OffersIn(log[r])
  BY <1>1 DEF OffersIn
<1> QED
  BY <1>2, <1>4, <1>5, <1>6

\* An offer numbered past the end of the log is a new one.
LEMMA OfferIsNew ==
    ASSUME TypeOK, NEW r \in Record, NEW s
    PROVE  [num |-> Len(log[r]) + 1, stmt |-> s] \notin OffersIn(log[r])
<1>1. Len(log[r]) \in Nat
  BY SavedLog
<1> DEFINE o == [num |-> Len(log[r]) + 1, stmt |-> s]
<1>2. SUFFICES ASSUME o \in OffersIn(log[r]) PROVE FALSE
  OBVIOUS
<1>3. PICK n \in 1 .. Len(log[r]) : o = [num |-> n, stmt |-> log[r][n].stmt]
  BY <1>2 DEF OffersIn
<1>4. o.num = n /\ o.num = Len(log[r]) + 1
  BY <1>3
<1> QED
  BY <1>1, <1>4

\* Saving a proposal offers; confirming chooses; withdrawing withdraws: narrative
\* knowledge implements AuthorChoice for any number of records, positions,
\* sources and versions.
THEOREM AuthorDecides == Spec => KeepsAuthorChoice
<1> DEFINE offers == [r \in Record |-> OffersIn(log[r])]
           force == [r \in Record |-> ConfirmationOf(r)]
<1>1. Init => Choice!Init
  <2> SUFFICES ASSUME Init PROVE Choice!Init
    OBVIOUS
  <2>1. \A r \in Record : OffersIn(log[r]) = {} /\ ConfirmationOf(r) = NoConfirmation
    <3>1. \A r \in Record : log[r] = << >> /\ Len(log[r]) = 0
      BY EmptySeq DEF Init
    <3>2. 1 .. 0 = {}
      OBVIOUS
    <3>3. ASSUME NEW r \in Record PROVE OffersIn(log[r]) = {}
      <4>1. 1 .. Len(log[r]) = {}
        BY <3>1, <3>2
      <4> QED
        BY <4>1, Zenon DEF OffersIn
    <3>4. \A r \in Record : ConfirmationOf(r) = NoConfirmation
      BY <3>1 DEF ConfirmationOf, Saved
    <3> QED
      BY <3>3, <3>4
  <2> QED
    BY <2>1 DEF Choice!Init
<1>2. ASSUME IInv, NEW r \in Record, NEW t \in Topic, NEW stmt \in Statement, NEW e, Propose(r, t, stmt, e)
      PROVE  Choice!Offer(r)
  <2> DEFINE p == Payload("propose", Len(log[r]) + 1, stmt, ConfirmationOf(r))
             o == [num |-> Len(log[r]) + 1, stmt |-> stmt]
  <2>1. Len(log[r]) + 1 \in Nat /\ ConfirmationOf(r) \in Confirmation
    BY <1>2, SavedLog, HeadType, NoConfirmationType DEF ConfirmationOf, IInv
  <2>2. p \in Payloads /\ p.op = "propose" /\ p.confirmed = ConfirmationOf(r) /\ p.stmt = stmt
    BY <2>1, PayloadType
  <2>3. Write(r, p)
    BY <1>2 DEF Propose, CarriedOver
  <2> HIDE DEF p
  <2>4. /\ \A q \in Record \ {r} : OffersIn(log'[q]) = OffersIn(log[q]) /\ ConfirmationOf(q)' = ConfirmationOf(q)
        /\ ConfirmationOf(r)' = ConfirmationOf(r)
        /\ OffersIn(log'[r]) = OffersIn(log[r]) \union {o}
    BY <1>2, <2>2, <2>3, WriteOffers DEF IInv
  <2>5. o \notin OffersIn(log[r])
    BY <1>2, OfferIsNew DEF IInv
  <2> HIDE DEF o
  <2>6. force' = force
    BY <2>4
  <2>7. offers' = [offers EXCEPT ![r] = offers[r] \union {o}]
    BY <2>4
  <2>8. offers[r] \subseteq offers'[r] /\ offers'[r] # offers[r] /\ offers' = [offers EXCEPT ![r] = offers'[r]]
    BY <2>4, <2>5, <2>7
  <2> QED
    BY <2>6, <2>8 DEF Choice!Offer
<1>3. ASSUME IInv, NEW r \in Record, NEW n, NEW e, Confirm(r, n, e)
      PROVE  Choice!Choose(r)
  <2> DEFINE c == [num |-> n, stmt |-> log[r][n].stmt]
             p == Payload("confirm", HeadOf(r).num, HeadOf(r).stmt, c)
  <2>1. Saved(r) /\ IsProposal(r, n) /\ Write(r, p) /\ HeadOf(r).confirmed # c
    BY <1>3 DEF Confirm
  <2>2. n \in Nat /\ log[r][n] \in Payloads
    BY <1>3, <2>1, SavedLog DEF IsProposal, IInv
  <2>3. c \in Confirmation /\ c \in OffersIn(log[r])
    BY <2>1, <2>2 DEF Confirmation, Payloads, OffersIn, IsProposal
  <2> HIDE DEF c
  <2>4. p \in Payloads /\ p.op = "confirm" /\ p.confirmed = c
    BY <1>3, <2>1, <2>3, HeadType, PayloadType DEF IInv
  <2> HIDE DEF p
  <2>5. /\ \A q \in Record \ {r} : OffersIn(log'[q]) = OffersIn(log[q]) /\ ConfirmationOf(q)' = ConfirmationOf(q)
        /\ ConfirmationOf(r)' = c
        /\ OffersIn(log'[r]) = OffersIn(log[r])
    BY <1>3, <2>1, <2>4, WriteOffers DEF IInv
  <2>6. ConfirmationOf(r) # c
    BY <2>1 DEF ConfirmationOf
  <2>7. offers' = offers
    BY <2>5
  <2>8. force' = [force EXCEPT ![r] = c]
    BY <2>5
  <2>9. c \in offers[r] \ {force[r]}
    BY <2>3, <2>6
  <2> QED
    BY <2>7, <2>8, <2>9 DEF Choice!Choose
<1>4. ASSUME IInv, NEW r \in Record, NEW e, Withdraw(r, e)
      PROVE  Choice!Withdraw(r)
  <2> DEFINE p == Payload("withdraw", HeadOf(r).num, HeadOf(r).stmt, NoConfirmation)
  <2>1. Saved(r) /\ Write(r, p) /\ HeadOf(r).confirmed.num # 0
    BY <1>4 DEF Withdraw, Confirmed
  <2>2. p \in Payloads /\ p.op = "withdraw" /\ p.confirmed = NoConfirmation
    BY <1>4, <2>1, HeadType, PayloadType, NoConfirmationType DEF IInv
  <2> HIDE DEF p
  <2>3. /\ \A q \in Record \ {r} : OffersIn(log'[q]) = OffersIn(log[q]) /\ ConfirmationOf(q)' = ConfirmationOf(q)
        /\ ConfirmationOf(r)' = NoConfirmation
        /\ OffersIn(log'[r]) = OffersIn(log[r])
    BY <1>4, <2>1, <2>2, WriteOffers DEF IInv
  <2>4. ConfirmationOf(r) # NoConfirmation
    BY <2>1, NoConfirmationType DEF ConfirmationOf
  <2>5. offers' = offers
    BY <2>3
  <2>6. force' = [force EXCEPT ![r] = NoConfirmation]
    BY <2>3
  <2> QED
    BY <2>4, <2>5, <2>6 DEF Choice!Withdraw
<1>5. IInv /\ [Next]_vars => [Choice!Next]_(Choice!vars)
  <2> SUFFICES ASSUME IInv, [Next]_vars PROVE [Choice!Next]_(Choice!vars)
    OBVIOUS
  <2>1. CASE log' = log
    BY <2>1 DEF Choice!vars, ConfirmationOf, Saved, HeadOf
  <2>2. \A x \in Source, s \in SourceStates : SourceMoves(x, s) => log' = log
    BY DEF SourceMoves
  <2>3. \A h \in Holder : HolderMoves(h) => log' = log
    BY DEF HolderMoves
  <2> QED
    BY <1>2, <1>3, <1>4, <2>1, <2>2, <2>3 DEF Next, vars, Choice!Next
<1> QED
  BY <1>1, <1>5, Invariance, PTL DEF Spec, KeepsAuthorChoice, Choice!Spec
=============================================================================
