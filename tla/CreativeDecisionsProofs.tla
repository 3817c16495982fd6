---------------------- MODULE CreativeDecisionsProofs ----------------------
(***************************************************************************)
(* Theorems about CreativeDecisions, for every set of processes,           *)
(* documents, decisions, topics and options and every bound on the rows.   *)
(***************************************************************************)
EXTENDS CreativeDecisions, DocumentStoreProofs

\* A topic has at most one decision.
TopicsUnique == \A q, r \in Decision : Saved(q) /\ Saved(r) /\ topic[q] = topic[r] => q = r

\* The inductive invariant, on top of the one of the documents.
DecisionInv == IInv /\ DecisionTypeOK /\ TopicsUnique

-----------------------------------------------------------------------------
(* What the logs hold *)

\* A saved decision and the payload at its head.
LEMMA SavedLog ==
    ASSUME DecisionTypeOK, NEW r \in Decision
    PROVE  /\ log[r] \in Seq(Payloads) /\ Len(log[r]) \in Nat
           /\ Saved(r) <=> Len(log[r]) # 0
           /\ \A k \in 1 .. Len(log[r]) : log[r][k] \in Payloads
           /\ Saved(r) => HeadOf(r) \in Payloads /\ Len(log[r]) \in 1 .. Len(log[r])
<1>1. log[r] \in Seq(Payloads)
  BY DEF DecisionTypeOK
<1>2. Len(log[r]) \in Nat /\ \A k \in 1 .. Len(log[r]) : log[r][k] \in Payloads
  BY <1>1, LenProperties, ElementOfSeq
<1>3. log[r] = << >> <=> Len(log[r]) = 0
  BY <1>1, EmptySeq
<1> QED
  BY <1>1, <1>2, <1>3 DEF Saved, HeadOf

\* What is selected is nothing, or copied from versions that exist.
LEMMA SelectionType ==
    ASSUME DecisionTypeOK, NEW r \in Decision
    PROVE  /\ SelectionOf(r) \in Selections \union {NoSelection}
           /\ SelectionOf(r) # NoSelection =>
                Saved(r) /\ Cites(topic[r], SelectionOf(r).sources)
<1>1. CASE Saved(r)
  <2>1. HeadOf(r) \in Payloads /\ Len(log[r]) \in 1 .. Len(log[r]) /\ SelectionOf(r) = HeadOf(r).selection
    BY <1>1, SavedLog DEF SelectionOf
  <2>2. SelectionOf(r) # NoSelection => Cites(topic[r], SelectionOf(r).sources)
    BY <2>1 DEF DecisionTypeOK, HeadOf
  <2> QED
    BY <1>1, <2>1, <2>2 DEF Payloads
<1>2. CASE ~Saved(r)
  BY <1>2 DEF SelectionOf
<1> QED
  BY <1>1, <1>2

\* _write: the log of one decision grows by the payload, which becomes its head.
LEMMA LogGrows ==
    ASSUME DecisionTypeOK, NEW p \in Proc, NEW r \in Decision, NEW y \in Payloads, Write(p, r, y)
    PROVE  /\ log' \in [Decision -> Seq(Payloads)]
           /\ UNCHANGED docVars
           /\ Len(log[r]) \in Nat /\ Len(log'[r]) = Len(log[r]) + 1
           /\ \A k \in 1 .. Len(log[r]) : log'[r][k] = log[r][k]
           /\ log'[r][Len(log[r]) + 1] = y
           /\ HeadOf(r)' = y /\ Saved(r)'
           /\ \A q \in Decision : q # r => log'[q] = log[q]
<1>1. log \in [Decision -> Seq(Payloads)] /\ log[r] \in Seq(Payloads)
  BY DEF DecisionTypeOK
<1>2. log' = [log EXCEPT ![r] = Append(log[r], y)] /\ UNCHANGED docVars
  BY DEF Write
<1>3. log'[r] = Append(log[r], y) /\ \A q \in Decision : q # r => log'[q] = log[q]
  BY <1>1, <1>2
<1>4. /\ Append(log[r], y) \in Seq(Payloads) /\ Len(log[r]) \in Nat
      /\ Len(Append(log[r], y)) = Len(log[r]) + 1
      /\ \A k \in 1 .. Len(log[r]) : Append(log[r], y)[k] = log[r][k]
      /\ Append(log[r], y)[Len(log[r]) + 1] = y
  BY <1>1, AppendProperties, LenProperties
<1>5. log' \in [Decision -> Seq(Payloads)]
  BY <1>1, <1>2, <1>4
<1>6. log'[r] # << >>
  <2>1. Len(log'[r]) # 0
    BY <1>3, <1>4
  <2> QED
    BY <2>1, EmptySeq
<1> QED
  BY <1>2, <1>3, <1>4, <1>5, <1>6 DEF HeadOf, Saved

\* What a payload is made of.
LEMMA PayloadType ==
    ASSUME NEW o \in {"options", "select", "withdraw"}, NEW n \in Nat, NEW f \in Slate,
           NEW s \in SUBSET Nat, NEW c \in Selections \union {NoSelection}
    PROVE  /\ Payload(o, n, f, s, c) \in Payloads
           /\ Payload(o, n, f, s, c).op = o
           /\ Payload(o, n, f, s, c).slate = f
           /\ Payload(o, n, f, s, c).sources = s
           /\ Payload(o, n, f, s, c).selection = c
  BY DEF Payload, Payloads

\* An option that a saved version offers.
LEMMA OptionType ==
    ASSUME DecisionTypeOK, IInv, NEW r \in Decision, NEW n \in 1 .. Len(log[r]), NEW a \in OptionId
    PROVE  /\ OptionOf(r, n, a) \in Selections
           /\ OptionOf(r, n, a).sources = log[r][n].sources
           /\ Cites(topic[r], log[r][n].sources)
<1>1. log[r][n] \in Payloads /\ n \in Nat
  BY SavedLog
<1>2. log[r][n].slate[a] \in Content
  BY <1>1, DecisionAssumption DEF Payloads
<1>3. log[r][n].sources \in SUBSET Nat
  BY <1>1 DEF Payloads
<1>4. Cites(topic[r], log[r][n].sources)
  BY DEF DecisionTypeOK
<1> QED
  BY <1>1, <1>2, <1>3, <1>4 DEF OptionOf, Selections

-----------------------------------------------------------------------------
(* The invariant *)

\* The shape of the three operations: a payload whose sources, and whose
\* selection's sources, fit the topic is appended to one decision, whose topic is
\* set once.
Appends(p, r, t, y) ==
    /\ Write(p, r, y)
    /\ topic' = [topic EXCEPT ![r] = t]
    /\ IF Saved(r) THEN topic[r] = t ELSE TopicFree(r, t)
    /\ Cites(t, y.sources)
    /\ y.selection # NoSelection => Cites(t, y.selection.sources)

LEMMA AppendStep ==
    ASSUME DecisionInv, NEW p \in Proc, NEW r \in Decision, NEW t \in Topic, NEW y \in Payloads,
           Appends(p, r, t, y)
    PROVE  DecisionInv'
<1>1. /\ log' \in [Decision -> Seq(Payloads)]
      /\ UNCHANGED docVars
      /\ Len(log[r]) \in Nat /\ Len(log'[r]) = Len(log[r]) + 1
      /\ \A k \in 1 .. Len(log[r]) : log'[r][k] = log[r][k]
      /\ log'[r][Len(log[r]) + 1] = y
      /\ \A q \in Decision : q # r => log'[q] = log[q]
  BY LogGrows DEF Appends, DecisionInv
<1>2. IInv' /\ doc' = doc /\ ver' = ver
  BY <1>1, StepInvariant DEF DecisionInv, docVars
<1>3. /\ topic \in [Decision -> Topic \union {NoTopic}]
      /\ topic' = [topic EXCEPT ![r] = t]
  BY DEF Appends, DecisionInv, DecisionTypeOK
<1>4. /\ topic' \in [Decision -> Topic \union {NoTopic}] /\ topic'[r] = t
      /\ \A q \in Decision : q # r => topic'[q] = topic[q]
  BY <1>3
<1>5. \A u, s : Cites(u, s)' <=> Cites(u, s)
  BY <1>2 DEF Cites, SourcesFit, VersionIds
<1>6. ASSUME NEW q \in Decision, NEW k \in 1 .. Len(log'[q])
      PROVE  /\ topic'[q] \in Topic
             /\ Cites(topic'[q], log'[q][k].sources)
             /\ log'[q][k].selection # NoSelection => Cites(topic'[q], log'[q][k].selection.sources)
  <2>1. CASE q # r
    BY <1>1, <1>4, <1>6, <2>1 DEF DecisionInv, DecisionTypeOK
  <2>2. CASE q = r /\ k = Len(log[r]) + 1
    BY <1>1, <1>4, <2>2 DEF Appends
  <2>3. CASE q = r /\ k # Len(log[r]) + 1
    <3>1. k \in 1 .. Len(log[r]) /\ Len(log[r]) # 0
      BY <1>1, <1>6, <2>3
    <3>2. Saved(r) /\ topic[r] = t
      BY <3>1, SavedLog DEF Appends, DecisionInv
    <3> QED
      BY <1>1, <1>4, <2>3, <3>1, <3>2 DEF DecisionInv, DecisionTypeOK
  <2> QED
    BY <2>1, <2>2, <2>3
<1>7. DecisionTypeOK'
  <2>1. \A q \in Decision : \A k \in 1 .. Len(log'[q]) :
          (/\ topic[q] \in Topic
           /\ Cites(topic[q], log[q][k].sources)
           /\ log[q][k].selection # NoSelection => Cites(topic[q], log[q][k].selection.sources))'
    BY <1>2, <1>6 DEF Cites, SourcesFit, VersionIds
  <2> QED
    BY <1>1, <1>4, <2>1 DEF DecisionTypeOK
<1>8. TopicsUnique'
  <2>1. \A q \in Decision : q # r => (Saved(q)' <=> Saved(q)) /\ topic'[q] = topic[q]
    BY <1>1, <1>4 DEF Saved
  <2>2. \A q \in Decision \ {r} : Saved(q) => topic[q] # t
    BY DEF Appends, TopicFree, DecisionInv, TopicsUnique
  <2> QED
    BY <1>4, <2>1, <2>2 DEF TopicsUnique, DecisionInv
<1> QED
  BY <1>2, <1>7, <1>8 DEF DecisionInv

\* propose_options: the payload retains the selection.
LEMMA SaveAppends ==
    ASSUME DecisionInv, NEW p \in Proc, NEW r \in Decision, NEW t \in Topic, NEW f \in Slate,
           NEW s \in SUBSET VersionIds, NEW e, SaveOptions(p, r, t, f, s, e)
    PROVE  \E y \in Payloads :
             /\ Appends(p, r, t, y)
             /\ y.op = "options" /\ y.slate = f /\ y.sources = s /\ y.selection = SelectionOf(r)
<1> DEFINE y == Payload("options", Len(log[r]) + 1, f, s, SelectionOf(r))
<1>1. /\ Len(log[r]) + 1 \in Nat
      /\ SelectionOf(r) \in Selections \union {NoSelection}
      /\ SelectionOf(r) # NoSelection => Saved(r) /\ Cites(topic[r], SelectionOf(r).sources)
  BY SavedLog, SelectionType DEF DecisionInv
<1>2. s \in SUBSET Nat
  BY DEF VersionIds
<1>3. /\ y \in Payloads /\ y.op = "options" /\ y.slate = f /\ y.sources = s
      /\ y.selection = SelectionOf(r)
  <2> HIDE DEF y
  <2>1. \A n \in Nat, c \in Selections \union {NoSelection} :
          LET z == Payload("options", n, f, s, c) IN
          z \in Payloads /\ z.op = "options" /\ z.slate = f /\ z.sources = s /\ z.selection = c
    BY <1>2 DEF Payload, Payloads
  <2> QED
    BY <1>1, <2>1 DEF y
<1>4. /\ Write(p, r, y) /\ topic' = [topic EXCEPT ![r] = t] /\ SourcesFit(t, s)
      /\ IF Saved(r) THEN topic[r] = t ELSE TopicFree(r, t)
  BY DEF SaveOptions, SelectionRetained
<1> HIDE DEF y
<1>5. Cites(t, y.sources) /\ (y.selection # NoSelection => Cites(t, y.selection.sources))
  BY <1>1, <1>3, <1>4 DEF Cites
<1> QED
  BY <1>3, <1>4, <1>5 DEF Appends

\* select_option and withdraw_selection keep the slate and its sources.
LEMMA HeadAppends ==
    ASSUME DecisionInv, NEW p \in Proc, NEW r \in Decision, NEW o \in {"select", "withdraw"},
           NEW c \in Selections \union {NoSelection},
           Saved(r), c # NoSelection => Cites(topic[r], c.sources), UNCHANGED topic,
           Write(p, r, Payload(o, HeadOf(r).num, HeadOf(r).slate, HeadOf(r).sources, c))
    PROVE  /\ topic[r] \in Topic
           /\ \E y \in Payloads : Appends(p, r, topic[r], y) /\ y.op = o /\ y.selection = c
<1> DEFINE y == Payload(o, HeadOf(r).num, HeadOf(r).slate, HeadOf(r).sources, c)
<1>1. HeadOf(r) \in Payloads /\ Len(log[r]) \in 1 .. Len(log[r])
  BY SavedLog DEF DecisionInv
<1>2. HeadOf(r).num \in Nat /\ HeadOf(r).slate \in Slate /\ HeadOf(r).sources \in SUBSET Nat
  BY <1>1 DEF Payloads
<1>3. y \in Payloads /\ y.op = o /\ y.sources = HeadOf(r).sources /\ y.selection = c
  BY <1>2, PayloadType
<1>4. Write(p, r, y)
  OBVIOUS
<1> HIDE DEF y
<1>5. topic[r] \in Topic /\ Cites(topic[r], y.sources)
  BY <1>1, <1>3 DEF DecisionInv, DecisionTypeOK, HeadOf
<1>6. topic' = [topic EXCEPT ![r] = topic[r]]
  BY DEF DecisionInv, DecisionTypeOK
<1> QED
  BY <1>3, <1>4, <1>5, <1>6 DEF Appends

\* A selection is a payload that selects an option offered and not in force.
LEMMA SelectAppends ==
    ASSUME DecisionInv, NEW p \in Proc, NEW r \in Decision, NEW n, NEW a \in OptionId, NEW e,
           SelectOption(p, r, n, a, e)
    PROVE  /\ topic[r] \in Topic
           /\ n \in 1 .. Len(log[r]) /\ log[r][n].op = "options" /\ SelectionOf(r) # OptionOf(r, n, a)
           /\ \E y \in Payloads :
                Appends(p, r, topic[r], y) /\ y.op = "select" /\ y.selection = OptionOf(r, n, a)
<1>1. /\ Saved(r) /\ UNCHANGED topic
      /\ n \in 1 .. Len(log[r]) /\ log[r][n].op = "options" /\ SelectionOf(r) # OptionOf(r, n, a)
      /\ Write(p, r, Payload("select", HeadOf(r).num, HeadOf(r).slate, HeadOf(r).sources, OptionOf(r, n, a)))
  BY DEF SelectOption
<1>2. OptionOf(r, n, a) \in Selections /\ Cites(topic[r], OptionOf(r, n, a).sources)
  BY <1>1, OptionType DEF DecisionInv
<1> QED
  BY <1>1, <1>2, HeadAppends

\* A withdrawal is a payload that selects nothing where something was selected.
LEMMA WithdrawAppends ==
    ASSUME DecisionInv, NEW p \in Proc, NEW r \in Decision, NEW e, WithdrawSelection(p, r, e)
    PROVE  /\ topic[r] \in Topic /\ SelectionOf(r) # NoSelection
           /\ \E y \in Payloads :
                Appends(p, r, topic[r], y) /\ y.op = "withdraw" /\ y.selection = NoSelection
<1>1. /\ Saved(r) /\ UNCHANGED topic /\ SelectionOf(r) # NoSelection
      /\ Write(p, r, Payload("withdraw", HeadOf(r).num, HeadOf(r).slate, HeadOf(r).sources, NoSelection))
  BY DEF WithdrawSelection
<1> QED
  BY <1>1, HeadAppends

\* The same citation after a step.
CitesNext(t, s) ==
    /\ s \subseteq VersionIds'
    /\ \A x, y \in s : ver'[x].doc = ver'[y].doc => x = y
    /\ TargetOf[t] # Work => \E x \in s : ver'[x].doc = TargetOf[t]

\* Steps on documents leave the decisions, whose sources stay cited rows.
LEMMA AsideStep ==
    ASSUME DecisionInv, [Next]_docVars, UNCHANGED <<topic, log>>
    PROVE  DecisionInv'
<1>1. IInv' /\ StepSafe
  BY StepInvariant, EveryStepSafe DEF DecisionInv
<1>2. Len(ver') >= Len(ver) /\ \A i \in VersionIds : ver'[i].doc = ver[i].doc
  BY <1>1 DEF StepSafe
<1>3. Len(ver) \in Nat /\ Len(ver') \in Nat
  BY <1>1, LenProperties DEF DecisionInv, IInv, TypeOK
<1>4. VersionIds \subseteq VersionIds'
  BY <1>2, <1>3 DEF VersionIds
<1>5. ASSUME NEW t, NEW s, Cites(t, s)
      PROVE  CitesNext(t, s)
  BY <1>2, <1>4, <1>5 DEF Cites, SourcesFit, CitesNext
<1>6. DecisionTypeOK'
  <2>1. topic' = topic /\ log' = log
    OBVIOUS
  <2>2. ASSUME NEW r \in Decision, NEW k \in 1 .. Len(log[r])
        PROVE  (/\ topic[r] \in Topic
                /\ Cites(topic[r], log[r][k].sources)
                /\ log[r][k].selection # NoSelection => Cites(topic[r], log[r][k].selection.sources))'
    <3>1. /\ topic[r] \in Topic
          /\ Cites(topic[r], log[r][k].sources)
          /\ log[r][k].selection # NoSelection => Cites(topic[r], log[r][k].selection.sources)
      BY <2>2 DEF DecisionInv, DecisionTypeOK
    <3>2. /\ CitesNext(topic[r], log[r][k].sources)
          /\ log[r][k].selection # NoSelection => CitesNext(topic[r], log[r][k].selection.sources)
      BY <1>5, <3>1
    <3>3. \A t, s : t = topic[r] /\ CitesNext(t, s) =>
            /\ s \subseteq VersionIds'
            /\ \A x, y \in s : ver'[x].doc = ver'[y].doc => x = y
            /\ TargetOf[topic'[r]] # Work => \E x \in s : ver'[x].doc = TargetOf[topic'[r]]
      BY <2>1 DEF CitesNext
    <3>4. Cites(topic[r], log[r][k].sources)'
      BY <2>1, <3>2, <3>3 DEF Cites, SourcesFit
    <3>5. log[r][k].selection # NoSelection => Cites(topic[r], log[r][k].selection.sources)'
      BY <2>1, <3>2, <3>3 DEF Cites, SourcesFit
    <3> QED
      BY <2>1, <3>1, <3>4, <3>5
  <2> QED
    BY <2>1, <2>2 DEF DecisionInv, DecisionTypeOK
<1>7. TopicsUnique'
  BY DEF DecisionInv, TopicsUnique, Saved
<1> QED
  BY <1>1, <1>6, <1>7 DEF DecisionInv

\* The invariant is inductive.
LEMMA DecisionStepInv == DecisionInv /\ [DecisionNext]_vars => DecisionInv'
<1> SUFFICES ASSUME DecisionInv, [DecisionNext]_vars PROVE DecisionInv'
  OBVIOUS
<1>1. ASSUME NEW p \in Proc, DecisionStep(p) PROVE DecisionInv'
  <2>1. ASSUME NEW r \in Decision, NEW t \in Topic, NEW f \in Slate, NEW s \in SUBSET VersionIds, NEW e,
               SaveOptions(p, r, t, f, s, e)
        PROVE  DecisionInv'
    BY <2>1, SaveAppends, AppendStep
  <2>2. ASSUME NEW r \in Decision, NEW n, NEW a \in OptionId, NEW e, SelectOption(p, r, n, a, e)
        PROVE  DecisionInv'
    BY <2>2, SelectAppends, AppendStep
  <2>3. ASSUME NEW r \in Decision, NEW e, WithdrawSelection(p, r, e)
        PROVE  DecisionInv'
    BY <2>3, WithdrawAppends, AppendStep
  <2> QED
    BY <1>1, <2>1, <2>2, <2>3 DEF DecisionStep
<1>2. ASSUME NEW p \in Proc, DocStep(p), UNCHANGED <<topic, log>> PROVE DecisionInv'
  BY <1>2, AsideStep DEF Next
<1>3. CASE UNCHANGED vars
  BY <1>3, AsideStep DEF vars, docVars
<1> QED
  BY <1>1, <1>2, <1>3 DEF DecisionNext

\* It holds before anything was saved.
LEMMA DecisionInitInv == DecisionInit => DecisionInv
<1> SUFFICES ASSUME DecisionInit PROVE DecisionInv
  OBVIOUS
<1>1. IInv
  BY InitInvariant DEF DecisionInit
<1>2. /\ topic \in [Decision -> Topic \union {NoTopic}] /\ log \in [Decision -> Seq(Payloads)]
      /\ \A r \in Decision : log[r] = << >> /\ Len(log[r]) = 0
  BY EmptySeq DEF DecisionInit
<1>3. 1 .. 0 = {}
  OBVIOUS
<1>4. DecisionTypeOK
  BY <1>2, <1>3 DEF DecisionTypeOK
<1> QED
  BY <1>1, <1>2, <1>4 DEF DecisionInv, TopicsUnique, Saved

-----------------------------------------------------------------------------
(* The theorems *)

\* The inductive invariant: whatever is saved, selected, withdrawn and adopted, every
\* stored payload and every selection cites existing versions, one per document
\* and the topic's target among them, and no topic has two decisions.
THEOREM DecisionInvariance == DecisionSpec => []DecisionInv
  BY DecisionInitInv, DecisionStepInv, PTL DEF DecisionSpec

\* A topic never has two decisions: TopicFree and the write are one transaction.
THEOREM OneDecisionPerTopic == DecisionSpec => []TopicsUnique
<1>1. DecisionInv => TopicsUnique
  BY DEF DecisionInv
<1> QED
  BY <1>1, DecisionInvariance, PTL

-----------------------------------------------------------------------------
(* The author's choice *)

\* The options of payload y, saved as version n.
NewOffers(n, y) ==
    {[num |-> n, id |-> a, content |-> y.slate[a], sources |-> y.sources] : a \in OptionId}

\* A payload with options adds its options to those offered, another payload adds
\* none; its selection is what is in force; other decisions are left alone.
LEMMA AppendOffers ==
    ASSUME DecisionInv, NEW p \in Proc, NEW r \in Decision, NEW t \in Topic, NEW y \in Payloads,
           Appends(p, r, t, y)
    PROVE  /\ \A q \in Decision \ {r} : OffersIn(log'[q]) = OffersIn(log[q]) /\ SelectionOf(q)' = SelectionOf(q)
           /\ SelectionOf(r)' = y.selection
           /\ y.op = "options" =>
                OffersIn(log'[r]) = OffersIn(log[r]) \union NewOffers(Len(log[r]) + 1, y)
           /\ y.op # "options" => OffersIn(log'[r]) = OffersIn(log[r])
<1>1. /\ Len(log[r]) \in Nat /\ Len(log'[r]) = Len(log[r]) + 1
      /\ log'[r][Len(log[r]) + 1] = y /\ HeadOf(r)' = y /\ Saved(r)'
      /\ \A k \in 1 .. Len(log[r]) : log'[r][k] = log[r][k]
      /\ \A q \in Decision : q # r => log'[q] = log[q]
  BY LogGrows DEF DecisionInv, Appends
<1>2. \A q \in Decision \ {r} : OffersIn(log'[q]) = OffersIn(log[q]) /\ SelectionOf(q)' = SelectionOf(q)
  BY <1>1 DEF SelectionOf, Saved, HeadOf
<1>3. SelectionOf(r)' = y.selection
  BY <1>1 DEF SelectionOf
<1> DEFINE old == {k \in 1 .. Len(log[r]) : log[r][k].op = "options"}
           new == {k \in 1 .. Len(log'[r]) : log'[r][k].op = "options"}
<1>4. /\ y.op = "options" => new = old \union {Len(log[r]) + 1}
      /\ y.op # "options" => new = old
  BY SMTT(30), <1>1
<1>5. \A k \in old : log'[r][k] = log[r][k]
  BY <1>1
<1>6. /\ OffersIn(log'[r]) =
           {[num |-> n, id |-> a, content |-> log'[r][n].slate[a], sources |-> log'[r][n].sources] :
               n \in new, a \in OptionId}
      /\ OffersIn(log[r]) =
           {[num |-> n, id |-> a, content |-> log[r][n].slate[a], sources |-> log[r][n].sources] :
               n \in old, a \in OptionId}
  BY DEF OffersIn
<1> HIDE DEF old, new
<1>7. y.op = "options" =>
        OffersIn(log'[r]) = OffersIn(log[r]) \union NewOffers(Len(log[r]) + 1, y)
  BY <1>1, <1>4, <1>5, <1>6 DEF NewOffers
<1>8. y.op # "options" => OffersIn(log'[r]) = OffersIn(log[r])
  BY <1>4, <1>5, <1>6
<1> QED
  BY <1>2, <1>3, <1>7, <1>8

\* Options numbered past the end of the log were not offered before.
LEMMA OffersAreNew ==
    ASSUME DecisionInv, NEW r \in Decision, NEW y, NEW a \in OptionId
    PROVE  /\ NewOffers(Len(log[r]) + 1, y) \intersect OffersIn(log[r]) = {}
           /\ NewOffers(Len(log[r]) + 1, y) # {}
<1>1. Len(log[r]) \in Nat
  BY SavedLog DEF DecisionInv
<1>2. \A o \in NewOffers(Len(log[r]) + 1, y) : o.num = Len(log[r]) + 1
  BY DEF NewOffers
<1>3. \A o \in OffersIn(log[r]) : o.num \in 1 .. Len(log[r])
  BY DEF OffersIn
<1>4. NewOffers(Len(log[r]) + 1, y) # {}
  BY DEF NewOffers
<1> QED
  BY <1>1, <1>2, <1>3, <1>4

\* Saving options offers, selecting chooses, withdrawing withdraws, and nothing
\* else, regenerated options included, touches what the author selected: creative
\* decisions implement AuthorChoice.
THEOREM AuthorSelects == DecisionSpec => KeepsSelection
<1> DEFINE offers == [r \in Decision |-> OffersIn(log[r])]
           force == [r \in Decision |-> SelectionOf(r)]
<1>1. DecisionInit => Choice!Init
  <2> SUFFICES ASSUME DecisionInit PROVE Choice!Init
    OBVIOUS
  <2>1. \A r \in Decision : log[r] = << >> /\ Len(log[r]) = 0
    BY EmptySeq DEF DecisionInit
  <2>2. 1 .. 0 = {}
    OBVIOUS
  <2>3. ASSUME NEW r \in Decision PROVE OffersIn(log[r]) = {}
    <3>1. 1 .. Len(log[r]) = {}
      BY <2>1, <2>2
    <3>2. {k \in 1 .. Len(log[r]) : log[r][k].op = "options"} = {}
      BY <3>1
    <3>3. OffersIn(log[r]) =
            {[num |-> n, id |-> a, content |-> log[r][n].slate[a], sources |-> log[r][n].sources] :
                n \in {}, a \in OptionId}
      BY <3>2 DEF OffersIn
    <3> QED
      BY <3>3
  <2>4. \A r \in Decision : SelectionOf(r) = NoSelection
    BY <2>1 DEF SelectionOf, Saved
  <2> QED
    BY <2>3, <2>4 DEF Choice!Init
<1>2. ASSUME DecisionInv, NEW p \in Proc, NEW r \in Decision, NEW t \in Topic, NEW f \in Slate,
             NEW s \in SUBSET VersionIds, NEW e, SaveOptions(p, r, t, f, s, e)
      PROVE  Choice!Offer(r) \/ UNCHANGED Choice!vars
  <2>1. PICK y \in Payloads : Appends(p, r, t, y) /\ y.op = "options" /\ y.selection = SelectionOf(r)
    BY <1>2, SaveAppends
  <2> DEFINE added == NewOffers(Len(log[r]) + 1, y)
  <2>2. /\ \A q \in Decision \ {r} : OffersIn(log'[q]) = OffersIn(log[q]) /\ SelectionOf(q)' = SelectionOf(q)
        /\ SelectionOf(r)' = SelectionOf(r)
        /\ OffersIn(log'[r]) = OffersIn(log[r]) \union added
    BY <1>2, <2>1, AppendOffers
  <2>3. OptionId # {} => added # {} /\ added \intersect OffersIn(log[r]) = {}
    BY <1>2, OffersAreNew
  <2>4. OptionId = {} => added = {}
    BY DEF NewOffers
  <2> HIDE DEF added
  <2>5. force' = force
    BY <2>2
  <2>6. offers[r] \subseteq offers'[r] /\ offers' = [offers EXCEPT ![r] = offers'[r]]
    BY <2>2
  <2>7. CASE OptionId # {}
    <3>1. offers'[r] # offers[r]
      BY <2>2, <2>3, <2>7
    <3> QED
      BY <2>5, <2>6, <3>1 DEF Choice!Offer
  <2>8. CASE OptionId = {}
    BY <2>2, <2>4, <2>5, <2>8 DEF Choice!vars
  <2> QED
    BY <2>7, <2>8
<1>3. ASSUME DecisionInv, NEW p \in Proc, NEW r \in Decision, NEW n, NEW a \in OptionId, NEW e,
             SelectOption(p, r, n, a, e)
      PROVE  Choice!Choose(r)
  <2> DEFINE c == OptionOf(r, n, a)
  <2>1. /\ topic[r] \in Topic
        /\ n \in 1 .. Len(log[r]) /\ log[r][n].op = "options" /\ SelectionOf(r) # c
    BY <1>3, SelectAppends
  <2>2. PICK y \in Payloads : Appends(p, r, topic[r], y) /\ y.op = "select" /\ y.selection = c
    BY <1>3, SelectAppends
  <2>3. c \in OffersIn(log[r])
    BY <2>1 DEF OptionOf, OffersIn
  <2>4. /\ \A q \in Decision \ {r} : OffersIn(log'[q]) = OffersIn(log[q]) /\ SelectionOf(q)' = SelectionOf(q)
        /\ SelectionOf(r)' = c
        /\ OffersIn(log'[r]) = OffersIn(log[r])
    BY <1>3, <2>1, <2>2, AppendOffers
  <2> HIDE DEF c
  <2>5. offers' = offers
    BY <2>4
  <2>6. force' = [force EXCEPT ![r] = c]
    BY <2>4
  <2>7. c \in offers[r] \ {force[r]}
    BY <2>1, <2>3
  <2> QED
    BY <2>5, <2>6, <2>7 DEF Choice!Choose
<1>4. ASSUME DecisionInv, NEW p \in Proc, NEW r \in Decision, NEW e, WithdrawSelection(p, r, e)
      PROVE  Choice!Withdraw(r)
  <2>1. topic[r] \in Topic /\ SelectionOf(r) # NoSelection
    BY <1>4, WithdrawAppends
  <2>2. PICK y \in Payloads : Appends(p, r, topic[r], y) /\ y.op = "withdraw" /\ y.selection = NoSelection
    BY <1>4, WithdrawAppends
  <2>3. /\ \A q \in Decision \ {r} : OffersIn(log'[q]) = OffersIn(log[q]) /\ SelectionOf(q)' = SelectionOf(q)
        /\ SelectionOf(r)' = NoSelection
        /\ OffersIn(log'[r]) = OffersIn(log[r])
    BY <1>4, <2>1, <2>2, AppendOffers
  <2>4. offers' = offers
    BY <2>3
  <2>5. force' = [force EXCEPT ![r] = NoSelection]
    BY <2>3
  <2> QED
    BY <2>1, <2>4, <2>5 DEF Choice!Withdraw
<1>5. DecisionInv /\ [DecisionNext]_vars => [Choice!Next]_(Choice!vars)
  <2> SUFFICES ASSUME DecisionInv, [DecisionNext]_vars PROVE [Choice!Next]_(Choice!vars)
    OBVIOUS
  <2>1. CASE log' = log
    BY <2>1 DEF Choice!vars, SelectionOf, Saved, HeadOf
  <2>2. ASSUME NEW p \in Proc, DecisionStep(p) PROVE [Choice!Next]_(Choice!vars)
    BY <1>2, <1>3, <1>4, <2>2 DEF DecisionStep, Choice!Next
  <2> QED
    BY <2>1, <2>2 DEF DecisionNext, vars
<1> QED
  BY <1>1, <1>5, DecisionInvariance, PTL DEF DecisionSpec, KeepsSelection, Choice!Spec

-----------------------------------------------------------------------------
(* Evidence *)

\* What is recorded of a cited version once version i of d is adopted is what was
\* projected before.
LEMMA DetailProjected ==
    ASSUME IInv, NEW d \in Doc, NEW i \in VersionIds, NEW s, Accepted(d, i, s), NEW x \in VersionIds
    PROVE  SourceDetail(x)' = ProjectedDetail(x, d, i, s)
<1>1. /\ ver \in Seq(Versions) /\ doc \in [Doc -> Documents]
      /\ \A k \in VersionIds : ver[k] \in Versions /\ ver[k].doc \in Doc
  BY VersionRows, ElementOfSeq DEF IInv, TypeOK, VersionIds
<1>2. /\ doc'[d] = [state |-> s, active |-> i]
      /\ \A c \in Doc \ {d} : doc'[c] = doc[c]
  BY <1>1 DEF Accepted, Activated
<1>3. /\ ver'[x].doc = ver[x].doc
      /\ ver'[x].state = IF x = i THEN s ELSE ver[x].state
  BY <1>1 DEF Accepted, VersionIds, Versions
<1>4. ver[i].doc = d
  BY DEF Accepted
<1>5. CASE ver[x].doc = d
  BY <1>2, <1>3, <1>5 DEF SourceDetail, ProjectedDetail, Detail
<1>6. CASE ver[x].doc # d
  BY <1>1, <1>2, <1>3, <1>4, <1>6 DEF SourceDetail, ProjectedDetail, Detail
<1> QED
  BY <1>5, <1>6

\* What the adoption of a version of d leaves of the context chapter c is
\* reviewed with.
EvidenceStep ==
    \A c, d \in Doc :
        KindOf[c] = "chapter" /\ (d = c \/ ParentOf[d] = c) /\ Adopts(d) =>
            ReviewContext(c)' = ProjectedContext(c, d, doc'[d].active, doc'[d].state)

\* The context projected for a candidate is the one read after its acceptance, for
\* every selection and every set of sources: only accept_version makes an
\* existing row the head, and it writes the row and the head as projected.
THEOREM EvidenceIsStable == DecisionSpec => EvidenceSurvivesAdoption
<1>1. ASSUME DecisionInv, [Next]_docVars, UNCHANGED <<topic, log>>, NEW c \in Doc, NEW d \in Doc, Adopts(d)
      PROVE  ReviewContext(c)' = ProjectedContext(c, d, doc'[d].active, doc'[d].state)
  <2>1. Len(ver) \in Nat /\ StepSafe /\ doc \in [Doc -> Documents] /\ IInv
    BY <1>1, EveryStepSafe, VersionRows DEF DecisionInv, IInv, TypeOK
  <2>2. PICK i \in VersionIds, s \in {"accepted", "final"} : Accepted(d, i, s)
    BY <1>1, <2>1 DEF StepSafe, Adopts, VersionIds
  <2>3. doc'[d].active = i /\ doc'[d].state = s
    BY <2>1, <2>2 DEF Accepted, Activated
  <2>4. \A r \in Decision : SelectionOf(r)' = SelectionOf(r) /\ (Relevant(r, c)' <=> Relevant(r, c))
    BY <1>1 DEF SelectionOf, Saved, HeadOf, Relevant
  <2>5. ASSUME NEW r \in Decision, Relevant(r, c), NEW x \in SelectionOf(r).sources
        PROVE  SourceDetail(x)' = ProjectedDetail(x, d, i, s)
    <3>1. x \in VersionIds
      BY <1>1, <2>5, SelectionType DEF Relevant, DecisionInv, Cites
    <3> QED
      BY <2>1, <2>2, <3>1, DetailProjected
  <2>6. \A r \in {q \in Decision : Relevant(q, c)} :
          [x \in SelectionOf(r)'.sources |-> SourceDetail(x)'] =
          [x \in SelectionOf(r).sources |-> ProjectedDetail(x, d, i, s)]
    BY <2>4, <2>5
  <2>7. {q \in Decision : Relevant(q, c)'} = {q \in Decision : Relevant(q, c)}
    BY <2>4
  <2>8. ReviewContext(c)' =
          [r \in {q \in Decision : Relevant(q, c)'} |->
              <<SelectionOf(r)', [x \in SelectionOf(r)'.sources |-> SourceDetail(x)']>>]
    BY DEF ReviewContext
  <2> QED
    BY <2>3, <2>4, <2>6, <2>7, <2>8 DEF ProjectedContext
<1>2. ASSUME UNCHANGED doc PROVE EvidenceStep
  BY <1>2 DEF EvidenceStep, Adopts
<1>3. ASSUME NEW p \in Proc, DecisionStep(p) PROVE UNCHANGED doc
  BY <1>3 DEF DecisionStep, SaveOptions, SelectOption, WithdrawSelection, Write, docVars
<1>4. ASSUME DecisionInv, DecisionNext PROVE EvidenceStep
  <2>1. CASE \E p \in Proc : DocStep(p) /\ UNCHANGED <<topic, log>>
    BY <1>1, <1>4, <2>1 DEF Next, EvidenceStep
  <2> QED
    BY <1>2, <1>3, <1>4, <2>1 DEF DecisionNext
<1>5. DecisionInv /\ [DecisionNext]_vars =>
        [\A c, d \in Doc :
            KindOf[c] = "chapter" /\ (d = c \/ ParentOf[d] = c) /\ Adopts(d) =>
                ReviewContext(c)' = ProjectedContext(c, d, doc'[d].active, doc'[d].state)]_vars
  BY <1>4 DEF EvidenceStep
<1> QED
  BY <1>5, DecisionInvariance, PTL DEF DecisionSpec, EvidenceSurvivesAdoption
=============================================================================
