------------------------ MODULE DocumentStoreProofs ------------------------
(***************************************************************************)
(* Theorems about DocumentStore, for every set of processes and documents  *)
(* and every bound on the versions.                                        *)
(***************************************************************************)
EXTENDS DocumentStore, SequenceTheorems, TLAPS

\* What a row of the version table holds.
LEMMA VersionRows ==
    ASSUME ver \in Seq(Versions)
    PROVE  /\ Len(ver) \in Nat
           /\ \A i \in 1 .. Len(ver) :
                /\ ver[i].doc \in Doc
                /\ ver[i].num \in Nat
                /\ ver[i].state \in DOCUMENT_STATES
<1>1. Len(ver) \in Nat
  BY LenProperties
<1>2. \A i \in 1 .. Len(ver) : ver[i] \in Versions
  BY ElementOfSeq
<1> QED
  BY <1>1, <1>2 DEF Versions

\* A row appended to the version table: the others keep their ids.
LEMMA AppendVersion ==
    ASSUME NEW v \in Versions, ver \in Seq(Versions), ver' = Append(ver, v)
    PROVE  /\ ver' \in Seq(Versions)
           /\ Len(ver') = Len(ver) + 1
           /\ \A i \in 1 .. Len(ver) : ver'[i] = ver[i]
           /\ ver'[Len(ver) + 1] = v
  BY AppendProperties

\* A row whose state is updated in place.
LEMMA UpdateVersion ==
    ASSUME NEW i \in 1 .. Len(ver), NEW s \in DOCUMENT_STATES, ver \in Seq(Versions),
           ver' = [ver EXCEPT ![i].state = s]
    PROVE  /\ ver' \in Seq(Versions)
           /\ Len(ver') = Len(ver)
           /\ \A j \in 1 .. Len(ver) : j # i => ver'[j] = ver[j]
           /\ ver'[i].doc = ver[i].doc
           /\ ver'[i].num = ver[i].num
           /\ ver'[i].state = s
<1> DEFINE w == [ver[i] EXCEPT !.state = s]
<1>1. ver[i] \in Versions
  BY ElementOfSeq
<1>2. w \in Versions
  BY <1>1 DEF Versions
<1>3. ver' = [ver EXCEPT ![i] = w]
  OBVIOUS
<1>4. w.doc = ver[i].doc /\ w.num = ver[i].num /\ w.state = s
  BY <1>1 DEF Versions
<1> QED
  BY <1>2, <1>3, <1>4, ExceptSeq

\* Rows added at the end of the version table in one transaction.
LEMMA ExtendVersions ==
    ASSUME NEW k \in Nat, ver \in Seq(Versions),
           ver' = [i \in 1 .. (Len(ver) + k) |-> ver'[i]],
           \A i \in 1 .. Len(ver) : ver'[i] = ver[i],
           \A i \in 1 .. k : ver'[Len(ver) + i] \in Versions
    PROVE  ver' \in Seq(Versions) /\ Len(ver') = Len(ver) + k
<1>1. Len(ver) \in Nat /\ \A i \in 1 .. Len(ver) : ver[i] \in Versions
  BY LenProperties, ElementOfSeq
<1>2. \A i \in 1 .. (Len(ver) + k) : ver'[i] \in Versions
  <2> TAKE i \in 1 .. (Len(ver) + k)
  <2>1. CASE i \in 1 .. Len(ver)
    BY <1>1, <2>1
  <2>2. CASE i \notin 1 .. Len(ver)
    <3>1. i - Len(ver) \in 1 .. k /\ Len(ver) + (i - Len(ver)) = i
      BY <1>1, <2>2
    <3>2. ver'[Len(ver) + (i - Len(ver))] \in Versions
      BY <3>1
    <3> QED
      BY <3>1, <3>2
  <2> QED
    BY <2>1, <2>2
<1>3. ver' \in [1 .. (Len(ver) + k) -> Versions] /\ Len(ver) + k \in Nat
  BY <1>1, <1>2
<1>4. ver' \in Seq(Versions) /\ DOMAIN ver' = 1 .. (Len(ver) + k)
  BY <1>3, SeqDef
<1> QED
  BY <1>3, <1>4, LenProperties

\* The initial values and every row _insert_version and _activate_version build have their shape.
LEMMA Types ==
    /\ Idle \in Ops
    /\ NoDoc \in Documents
    /\ NoCard \in Cards
    /\ \A d \in Doc, n \in Nat, s \in DOCUMENT_STATES, b \in Nat, e \in Nat :
         Version(d, n, s, b, e) \in Versions
    /\ \A i \in Nat, s \in DOCUMENT_STATES : [state |-> s, active |-> i] \in Documents
  BY DEF Idle, Ops, NoDoc, Documents, NoCard, Cards, Version, Versions

\* An empty database (no documents, versions or cards) satisfies the type invariant.
THEOREM InitType == Init => TypeOK
<1> SUFFICES ASSUME Init PROVE TypeOK
  OBVIOUS
<1>1. ver \in Seq(Versions) /\ Len(ver) = 0
  BY EmptySeq DEF Init
<1> QED
  BY <1>1, Types DEF Init, TypeOK, NoDoc

-----------------------------------------------------------------------------
(***************************************************************************)
(* The inductive invariant.  VersionNumbersIncrease is not inductive: a    *)
(* restore writes a number it read earlier, and that number is larger than *)
(* all others only because the numbers of a document have no gap and the   *)
(* number before it was in use when it was read.                           *)
(***************************************************************************)
\* Every version belongs to a document that exists and is numbered from 1.
Owned == \A i \in VersionIds : ver[i].num >= 1 /\ Exists(ver[i].doc)

\* The numbers of a document have no gap.
NoGap ==
    \A i \in VersionIds : \A n \in 1 .. ver[i].num :
        \E j \in VersionIds : ver[j].doc = ver[i].doc /\ ver[j].num = n

\* What a process has read and not yet written stays meaningful.
PendingOp(p) ==
    /\ op[p].name = "restore" =>
         \E j \in VersionIds : ver[j].doc = ver[op[p].ver].doc /\ ver[j].num = op[p].num - 1
    /\ op[p].name \in {"reject", "restore"} => Generic(ver[op[p].ver].doc)
    /\ op[p].name = "scene" => KindOf[ver[op[p].ver].doc] = "scene"

Pending == \A p \in Proc : PendingOp(p)

\* A card belongs to a scene document that exists.
CardOwned == \A d \in Doc : card[d] # NoCard => Exists(d) /\ KindOf[d] = "scene"

\* A document that exists has one of the states and heads one of its own versions.
Heads == ActiveOwned /\ \A d \in Doc : Exists(d) => doc[d].state \in DOCUMENT_STATES

IInv ==
    /\ TypeOK
    /\ Owned
    /\ Heads
    /\ NoGap
    /\ Pending
    /\ CardOwned
    /\ VersionNumbersIncrease
    /\ ManagedHeadNewest
    /\ CardMatchesManuscript

\* n is the number the next version of d gets.
NextNumber(d, n) ==
    /\ n \in Nat /\ n >= 1
    /\ \A i \in VersionIds : ver[i].doc = d => ver[i].num < n
    /\ n = 1 \/ \E i \in VersionIds : ver[i].doc = d /\ ver[i].num = n - 1

\* How any action may change the version table: existing rows keep their
\* document and number, and each new row is the next one of its document.
Numbered ==
    /\ Len(ver') \in Nat /\ Len(ver) <= Len(ver')
    /\ \A i \in 1 .. Len(ver) : ver'[i].doc = ver[i].doc /\ ver'[i].num = ver[i].num
    /\ \A i \in 1 .. Len(ver') : i > Len(ver) => NextNumber(ver'[i].doc, ver'[i].num)
    /\ \A i, j \in 1 .. Len(ver') : i > Len(ver) /\ j > Len(ver) /\ i # j => ver'[i].doc # ver'[j].doc

\* A step that adds one row with the next number of its document keeps version
\* numbers increasing and without gaps.
LEMMA NumberedKeeps ==
    ASSUME TypeOK, VersionNumbersIncrease, NoGap, Numbered
    PROVE  VersionNumbersIncrease' /\ NoGap'
<1> USE DEF VersionIds
<1>0. Len(ver) \in Nat /\ \A i \in 1 .. Len(ver) : ver[i].num \in Nat
  BY VersionRows DEF TypeOK
<1>1. VersionNumbersIncrease'
  BY <1>0 DEF VersionNumbersIncrease, Numbered, NextNumber
<1>2. NoGap'
  <2> SUFFICES ASSUME NEW i \in 1 .. Len(ver'), NEW n \in 1 .. ver'[i].num
               PROVE  \E j \in 1 .. Len(ver') : ver'[j].doc = ver'[i].doc /\ ver'[j].num = n
    BY DEF NoGap
  <2>1. CASE i <= Len(ver)
    <3>1. i \in 1 .. Len(ver) /\ ver'[i].num = ver[i].num /\ ver'[i].doc = ver[i].doc
      BY <1>0, <2>1 DEF Numbered
    <3>2. PICK j \in 1 .. Len(ver) : ver[j].doc = ver[i].doc /\ ver[j].num = n
      BY <3>1 DEF NoGap
    <3> QED
      BY <1>0, <3>1, <3>2 DEF Numbered
  <2>2. CASE i > Len(ver)
    <3>1. NextNumber(ver'[i].doc, ver'[i].num)
      BY <2>2 DEF Numbered
    <3>2. CASE n = ver'[i].num
      BY <3>2
    <3>3. CASE n < ver'[i].num
      <4>1. PICK k \in 1 .. Len(ver) : ver[k].doc = ver'[i].doc /\ ver[k].num = ver'[i].num - 1
        BY <3>1, <3>3 DEF NextNumber
      <4>2. n \in 1 .. ver[k].num
        BY <1>0, <3>1, <3>3, <4>1 DEF NextNumber
      <4>3. PICK j \in 1 .. Len(ver) : ver[j].doc = ver[k].doc /\ ver[j].num = n
        BY <4>2 DEF NoGap
      <4> QED
        BY <1>0, <4>1, <4>3 DEF Numbered
    <3> QED
      BY <3>1, <3>2, <3>3 DEF NextNumber
  <2> QED
    BY <1>0, <2>1, <2>2 DEF Numbered
<1> QED
  BY <1>1, <1>2

\* SELECT MAX(version_number) + 1 is the next number of the document.
LEMMA NumberAfterNext ==
    ASSUME TypeOK, NEW d \in Doc, NEW n \in NumberAfter(d)
    PROVE  NextNumber(d, n)
<1>1. Len(ver) \in Nat
  BY LenProperties DEF TypeOK
<1> QED
  BY <1>1 DEF NumberAfter, NextNumber, VersionsOf, VersionIds

\* A number that was free when a pending restore writes is still the next one.
LEMMA RestoreNext ==
    ASSUME TypeOK, Owned, NoGap, Pending, NEW p \in Proc, op[p].name = "restore",
           NumberFree(ver[op[p].ver].doc, op[p].num)
    PROVE  NextNumber(ver[op[p].ver].doc, op[p].num)
<1> DEFINE d == ver[op[p].ver].doc
<1> USE DEF VersionIds
<1>0. /\ Len(ver) \in Nat /\ \A i \in 1 .. Len(ver) : ver[i].num \in Nat
      /\ op[p].num \in Nat
  <2>1. op[p] \in Ops
    BY DEF TypeOK
  <2> QED
    BY <2>1, VersionRows DEF TypeOK, Ops
<1>1. PICK j \in 1 .. Len(ver) : ver[j].doc = d /\ ver[j].num = op[p].num - 1
  BY DEF Pending, PendingOp
<1>2. op[p].num >= 2
  BY <1>0, <1>1 DEF Owned
<1>3. ASSUME NEW i \in 1 .. Len(ver), ver[i].doc = d, ver[i].num >= op[p].num
      PROVE  FALSE
  <2>1. PICK k \in 1 .. Len(ver) : ver[k].doc = d /\ ver[k].num = op[p].num
    BY <1>0, <1>2, <1>3 DEF NoGap
  <2> QED
    BY <2>1 DEF NumberFree, VersionsOf
<1> QED
  BY <1>0, <1>1, <1>2, <1>3 DEF NextNumber
-----------------------------------------------------------------------------
(***************************************************************************)
(* What the three ways of writing the version table do.                    *)
(***************************************************************************)
\* _insert_version with the next number of the document.
LEMMA Inserted ==
    ASSUME TypeOK, NEW d \in Doc, NEW n, NEW s \in DOCUMENT_STATES, NEW b \in Nat, NEW e \in Nat,
           NextNumber(d, n), ver' = Append(ver, Version(d, n, s, b, e))
    PROVE  /\ ver' \in Seq(Versions)
           /\ Len(ver) \in Nat /\ Len(ver') = Len(ver) + 1
           /\ \A i \in 1 .. Len(ver) : ver'[i] = ver[i]
           /\ ver'[Len(ver) + 1].doc = d
           /\ ver'[Len(ver) + 1].state = s
           /\ ver'[Len(ver) + 1].prev = e
           /\ Numbered
<1> DEFINE v == Version(d, n, s, b, e)
<1>1. v \in Versions
  BY Types DEF NextNumber
<1>2. /\ Len(ver) \in Nat /\ Len(ver') = Len(ver) + 1 /\ ver' \in Seq(Versions)
      /\ \A i \in 1 .. Len(ver) : ver'[i] = ver[i]
      /\ ver'[Len(ver) + 1] = v
  BY <1>1, AppendVersion, LenProperties DEF TypeOK
<1>3. v.doc = d /\ v.num = n /\ v.state = s /\ v.prev = e
  BY DEF Version
<1>4. Numbered
  BY <1>2, <1>3 DEF Numbered
<1> QED
  BY <1>2, <1>3, <1>4

\* A state update in place, and no write at all, add no number.
LEMMA Kept ==
    ASSUME TypeOK,
           \/ ver' = ver
           \/ \E i \in 1 .. Len(ver), s \in DOCUMENT_STATES : ver' = [ver EXCEPT ![i].state = s]
    PROVE  /\ ver' \in Seq(Versions)
           /\ Len(ver) \in Nat /\ Len(ver') = Len(ver)
           /\ Numbered
<1>1. Len(ver) \in Nat /\ ver \in Seq(Versions)
  BY LenProperties DEF TypeOK
<1>2. CASE ver' = ver
  BY <1>1, <1>2 DEF Numbered
<1>3. ASSUME NEW i \in 1 .. Len(ver), NEW s \in DOCUMENT_STATES, ver' = [ver EXCEPT ![i].state = s]
      PROVE  ver' \in Seq(Versions) /\ Len(ver') = Len(ver) /\ Numbered
  <2>1. /\ ver' \in Seq(Versions) /\ Len(ver') = Len(ver)
        /\ \A j \in 1 .. Len(ver) : j # i => ver'[j] = ver[j]
        /\ ver'[i].doc = ver[i].doc /\ ver'[i].num = ver[i].num
    BY <1>1, <1>3, UpdateVersion
  <2>2. \A j \in 1 .. Len(ver) : ver'[j].doc = ver[j].doc /\ ver'[j].num = ver[j].num
    BY <2>1
  <2> QED
    BY <1>1, <2>1, <2>2 DEF Numbered
<1> QED
  BY <1>1, <1>2, <1>3

\* What follows from Numbered alone, whichever action it was.
LEMMA Frame ==
    ASSUME IInv, Numbered, ver' \in Seq(Versions),
           doc' \in [Doc -> Documents], card' \in [Doc -> Cards], op' \in [Proc -> Ops],
           \A d \in Doc : doc'[d].active \in 0 .. Len(ver') /\ (doc[d].active # 0 => doc'[d].active # 0),
           \A d \in Doc : \/ doc'[d] = doc[d]
                          \/ doc'[d].state \in DOCUMENT_STATES /\ ver'[doc'[d].active].doc = d,
           \A i \in 1 .. Len(ver') : i > Len(ver) => doc'[ver'[i].doc].active # 0,
           \A p \in Proc : \/ op'[p] = op[p]
                           \/ op'[p] = Idle
                           \/ op'[p].ver \in 1 .. Len(ver') /\ PendingOp(p)'
    PROVE  TypeOK' /\ Owned' /\ Heads' /\ NoGap' /\ Pending' /\ VersionNumbersIncrease'
<1> USE DEF IInv, VersionIds
<1>0. /\ Len(ver) \in Nat /\ Len(ver') \in Nat /\ Len(ver) <= Len(ver')
      /\ \A i \in 1 .. Len(ver) : /\ i \in 1 .. Len(ver')
                                  /\ ver[i].doc \in Doc /\ ver[i].num \in Nat
                                  /\ ver'[i].doc = ver[i].doc /\ ver'[i].num = ver[i].num
  <2>1. Len(ver) \in Nat /\ \A i \in 1 .. Len(ver) : ver[i].doc \in Doc /\ ver[i].num \in Nat
    BY VersionRows DEF TypeOK
  <2> QED
    BY <2>1 DEF Numbered
<1>1. TypeOK'
  <2>1. ASSUME NEW p \in Proc, op'[p] # Idle PROVE op'[p].ver \in 1 .. Len(ver')
    <3>1. CASE op'[p] = op[p]
      BY <1>0, <2>1, <3>1 DEF TypeOK
    <3> QED
      BY <2>1, <3>1
  <2> QED
    BY <2>1 DEF TypeOK
<1>2. NoGap' /\ VersionNumbersIncrease'
  BY NumberedKeeps
<1>3. Owned'
  <2> SUFFICES ASSUME NEW i \in 1 .. Len(ver') PROVE ver'[i].num >= 1 /\ doc'[ver'[i].doc].active # 0
    BY DEF Owned, Exists
  <2>1. CASE i <= Len(ver)
    <3>1. i \in 1 .. Len(ver)
      BY <1>0, <2>1
    <3> QED
      BY <1>0, <3>1 DEF Owned, Exists
  <2>2. CASE i > Len(ver)
    BY <2>2 DEF Numbered, NextNumber
  <2> QED
    BY <1>0, <2>1, <2>2
<1>4. Pending'
  <2> SUFFICES ASSUME NEW p \in Proc PROVE PendingOp(p)'
    BY DEF Pending
  <2>1. CASE op'[p] = op[p] /\ op[p] # Idle
    <3>1. op[p].ver \in 1 .. Len(ver) /\ PendingOp(p)
      BY <2>1 DEF TypeOK, Pending
    <3> QED
      BY <1>0, <2>1, <3>1 DEF PendingOp, Generic
  <2>2. CASE op'[p] = Idle
    BY <2>2 DEF PendingOp, Idle
  <2> QED
    BY <2>1, <2>2
<1>5. Heads'
  <2> SUFFICES ASSUME NEW d \in Doc, doc'[d].active # 0, doc'[d] = doc[d]
               PROVE  doc'[d].state \in DOCUMENT_STATES /\ ver'[doc'[d].active].doc = d
    BY DEF Heads, ActiveOwned, Exists
  <2>1. doc[d].active \in 1 .. Len(ver)
    BY <1>0 DEF TypeOK
  <2> QED
    BY <1>0, <2>1 DEF Heads, ActiveOwned, Exists
<1> QED
  BY <1>1, <1>2, <1>3, <1>4, <1>5

\* Managed documents are safe in a step that touches none of their rows.
LEMMA ManagedFrame ==
    ASSUME IInv, Numbered,
           \A i \in 1 .. Len(ver) : KindOf[ver[i].doc] = "managed" => ver'[i].state = ver[i].state,
           \A i \in 1 .. Len(ver') : i > Len(ver) => KindOf[ver'[i].doc] # "managed",
           \A d \in Doc : KindOf[d] = "managed" => doc'[d] = doc[d]
    PROVE  ManagedHeadNewest'
<1>1. Len(ver) \in Nat
  BY LenProperties DEF IInv, TypeOK
<1> SUFFICES ASSUME NEW d \in Doc, KindOf[d] = "managed", NEW i \in 1 .. Len(ver'), ver'[i].doc = d
             PROVE  i <= doc'[d].active /\ ver'[i].state = "draft"
  BY DEF ManagedHeadNewest, VersionsOf, VersionIds
<1>2. i \in 1 .. Len(ver)
  BY <1>1 DEF Numbered
<1>3. ver[i].doc = d
  BY <1>2 DEF Numbered
<1> QED
  BY <1>2, <1>3 DEF IInv, ManagedHeadNewest, VersionsOf, VersionIds

\* Scene cards are safe where card and manuscript stay, or agree anew.
LEMMA CardFrame ==
    ASSUME IInv,
           \A d \in Doc : doc[d].active # 0 => doc'[d].active # 0,
           \A d \in Doc :
             \/ card'[d] = card[d] /\ (doc[d].active # 0 => doc'[d].state = doc[d].state)
             \/ card'[d] = NoCard
             \/ /\ doc'[d].active # 0 /\ KindOf[d] = "scene"
                /\ card'[d].status \in {"accepted", "final"} => doc'[d].state = card'[d].status
    PROVE  CardOwned' /\ CardMatchesManuscript'
<1> USE DEF IInv, CardOwned, CardMatchesManuscript, Exists, NoCard
<1> SUFFICES ASSUME NEW d \in Doc
             PROVE  /\ card'[d] # NoCard => doc'[d].active # 0 /\ KindOf[d] = "scene"
                    /\ card'[d].status \in {"accepted", "final"} => doc'[d].state = card'[d].status
  OBVIOUS
<1>1. CASE card'[d] = card[d] /\ (doc[d].active # 0 => doc'[d].state = doc[d].state)
  BY <1>1
<1>2. CASE card'[d] = NoCard
  BY <1>2
<1> QED
  BY <1>1, <1>2
-----------------------------------------------------------------------------
(***************************************************************************)
(* Every action keeps the invariant.                                       *)
(***************************************************************************)
\* The insertion of a document, by document create and by scene create.
LEMMA InsertDocumentStep ==
    ASSUME IInv, NEW d \in Doc, NEW s \in DOCUMENT_STATES, InsertDocument(d, s), KindOf[d] # "managed",
           card' = card, op' \in [Proc -> Ops],
           \A p \in Proc : \/ op'[p] = op[p]
                           \/ op'[p].ver \in 1 .. Len(ver') /\ PendingOp(p)'
    PROVE  IInv'
<1>1. TypeOK /\ Owned /\ doc[d].active = 0 /\ Len(ver) \in Nat
  BY LenProperties DEF IInv, TypeOK, InsertDocument, Exists
<1>2. NextNumber(d, 1)
  BY <1>1 DEF NextNumber, Owned, Exists
<1>3. /\ ver' \in Seq(Versions) /\ Len(ver') = Len(ver) + 1 /\ Numbered
      /\ \A i \in 1 .. Len(ver) : ver'[i] = ver[i]
      /\ ver'[Len(ver) + 1].doc = d
  BY <1>1, <1>2, Inserted DEF InsertDocument
<1>4. /\ doc' \in [Doc -> Documents]
      /\ doc'[d].active = Len(ver) + 1 /\ doc'[d].state = s
      /\ \A c \in Doc : c # d => doc'[c] = doc[c]
  <2>1. doc' = [doc EXCEPT ![d] = [state |-> s, active |-> Len(ver) + 1]] /\ doc \in [Doc -> Documents]
    BY <1>1 DEF InsertDocument, Activated, TypeOK
  <2>2. [state |-> s, active |-> Len(ver) + 1] \in Documents
    BY <1>1, Types
  <2> QED
    BY <2>1, <2>2
<1>5. \A c \in Doc : doc'[c].active \in 0 .. Len(ver') /\ (doc[c].active # 0 => doc'[c].active # 0)
  BY <1>1, <1>3, <1>4 DEF TypeOK
<1>6. \A i \in 1 .. Len(ver') : i > Len(ver) => ver'[i].doc = d
  BY <1>1, <1>3
<1>7. TypeOK' /\ Owned' /\ Heads' /\ NoGap' /\ Pending' /\ VersionNumbersIncrease'
  BY <1>1, <1>3, <1>4, <1>5, <1>6, Frame DEF TypeOK
<1>8. ManagedHeadNewest'
  BY <1>3, <1>4, <1>6, ManagedFrame
<1>9. CardOwned' /\ CardMatchesManuscript'
  BY <1>1, <1>4, <1>5, CardFrame
<1> QED
  BY <1>7, <1>8, <1>9 DEF IInv

\* create_document preserves the inductive invariant.
LEMMA CreateDocumentStep ==
    ASSUME IInv, NEW p \in Proc, NEW d \in Doc, NEW s \in UserStates, CreateDocument(p, d, s)
    PROVE  IInv'
<1>1. s \in DOCUMENT_STATES /\ op \in [Proc -> Ops]
  BY DocumentAssumption DEF IInv, TypeOK
<1> QED
  BY <1>1, InsertDocumentStep DEF CreateDocument, Generic

\* The first transaction of create_scene (the document) preserves it.
LEMMA CreateSceneDocumentStep ==
    ASSUME IInv, NEW p \in Proc, NEW d \in Doc, CreateSceneDocument(p, d)
    PROVE  IInv'
<1> DEFINE o == [name |-> "scene", ver |-> Len(ver) + 1, num |-> 0]
<1>1. /\ op' = [op EXCEPT ![p] = o] /\ op \in [Proc -> Ops]
      /\ InsertDocument(d, "draft") /\ card' = card /\ KindOf[d] = "scene"
  BY DEF CreateSceneDocument, IInv, TypeOK
<1>2. Len(ver) \in Nat /\ Owned /\ TypeOK
  BY LenProperties DEF IInv, TypeOK
<1>3. o \in Ops
  BY <1>2 DEF Ops
<1>4. op' \in [Proc -> Ops] /\ op'[p] = o /\ \A q \in Proc : q # p => op'[q] = op[q]
  BY <1>1, <1>3
<1>5. NextNumber(d, 1) /\ "draft" \in DOCUMENT_STATES
  BY <1>1, <1>2 DEF NextNumber, Owned, InsertDocument, Exists, VersionIds, DOCUMENT_STATES
<1>6. Len(ver') = Len(ver) + 1 /\ ver'[Len(ver) + 1].doc = d
  BY <1>1, <1>2, <1>5, Inserted DEF InsertDocument
<1>7. op'[p].ver \in 1 .. Len(ver') /\ PendingOp(p)'
  BY <1>1, <1>2, <1>4, <1>6 DEF PendingOp
<1> QED
  BY <1>1, <1>4, <1>5, <1>7, InsertDocumentStep

\* The actions that leave documents and versions alone.
LEMMA CardStep ==
    ASSUME IInv, doc' = doc, ver' = ver, op' \in [Proc -> Ops], card' \in [Doc -> Cards],
           \A p \in Proc : \/ op'[p] = op[p]
                           \/ op'[p] = Idle
                           \/ op'[p].ver \in 1 .. Len(ver') /\ PendingOp(p)',
           \A d \in Doc : \/ card'[d] = card[d]
                          \/ /\ doc[d].active # 0 /\ KindOf[d] = "scene"
                             /\ card'[d].status \in {"planned", "approved", "drafted"}
    PROVE  IInv'
<1>1. TypeOK
  BY DEF IInv
<1>2. Numbered
  BY <1>1, Kept
<1>3. TypeOK' /\ Owned' /\ Heads' /\ NoGap' /\ Pending' /\ VersionNumbersIncrease'
  BY <1>1, <1>2, Frame DEF TypeOK
<1>4. ManagedHeadNewest'
  BY <1>2, ManagedFrame
<1>5. CardOwned' /\ CardMatchesManuscript'
  BY CardFrame
<1> QED
  BY <1>3, <1>4, <1>5 DEF IInv

\* The second transaction of create_scene (the card), which may run long after the
\* first, preserves it.
LEMMA CreateSceneCardStep ==
    ASSUME IInv, NEW p \in Proc, CreateSceneCard(p)
    PROVE  IInv'
<1> DEFINE d == ver[op[p].ver].doc
<1>1. op[p].name = "scene" /\ op' = [op EXCEPT ![p] = Idle] /\ doc' = doc /\ ver' = ver
  BY DEF CreateSceneCard
<1>2. op[p].ver \in 1 .. Len(ver) /\ op \in [Proc -> Ops] /\ card \in [Doc -> Cards]
  BY <1>1 DEF IInv, TypeOK, Idle, VersionIds
<1>3. d \in Doc
  BY <1>2, VersionRows DEF IInv, TypeOK
<1>4. KindOf[d] = "scene" /\ doc[d].active # 0
  BY <1>1, <1>2 DEF IInv, Pending, PendingOp, Owned, Exists, VersionIds
<1>5. [status |-> "planned", plan |-> "empty"] \in Cards
  BY DEF Cards, SCENE_STATES, PLAN_STATES
<1>6. card' = card \/ card' = [card EXCEPT ![d] = [status |-> "planned", plan |-> "empty"]]
  BY DEF CreateSceneCard
<1>7. card' \in [Doc -> Cards] /\ \A c \in Doc : card'[c] = card[c] \/ (c = d /\ card'[c].status = "planned")
  BY <1>2, <1>3, <1>5, <1>6
<1>8. op' \in [Proc -> Ops] /\ \A q \in Proc : op'[q] = op[q] \/ op'[q] = Idle
  BY <1>1, <1>2, Types
<1> QED
  BY <1>1, <1>4, <1>7, <1>8, CardStep

\* set_scene_plan, approve_scene and mark_scene_drafted preserve it: none of them
\* makes a card claim an accepted manuscript.
LEMMA PlanStep ==
    ASSUME IInv, NEW p \in Proc, NEW d \in Doc,
           (\E x \in {"candidate", "approved"} : SetScenePlan(p, d, x)) \/ ApproveScene(p, d) \/ MarkSceneDrafted(p, d)
    PROVE  IInv'
<1>1. /\ card[d] # NoCard /\ card \in [Doc -> Cards] /\ op \in [Proc -> Ops]
      /\ doc' = doc /\ ver' = ver /\ op' = op
  BY DEF IInv, TypeOK, SetScenePlan, ApproveScene, MarkSceneDrafted
<1>2. doc[d].active # 0 /\ KindOf[d] = "scene"
  BY <1>1 DEF IInv, CardOwned, Exists
<1>3. PICK s \in {"planned", "approved", "drafted"}, w \in PLAN_STATES \union {"none"} :
        card' = [card EXCEPT ![d] = [status |-> s, plan |-> w]]
  <2>1. card[d].plan \in PLAN_STATES \union {"none"}
    BY <1>1 DEF Cards
  <2> QED
    BY <2>1 DEF PLAN_STATES, SetScenePlan, ApproveScene, MarkSceneDrafted
<1>4. [status |-> s, plan |-> w] \in Cards
  BY DEF Cards, SCENE_STATES
<1>5. card' \in [Doc -> Cards] /\ \A c \in Doc : card'[c] = card[c] \/ (c = d /\ card'[c].status = s)
  BY <1>1, <1>3, <1>4
<1> QED
  BY <1>1, <1>2, <1>5, CardStep

\* A process that dies between its two steps preserves it.
LEMMA CrashStep ==
    ASSUME IInv, NEW p \in Proc, Crash(p)
    PROVE  IInv'
<1>1. op' = [op EXCEPT ![p] = Idle] /\ doc' = doc /\ ver' = ver /\ card' = card
  BY DEF Crash
<1>2. op \in [Proc -> Ops] /\ card \in [Doc -> Cards]
  BY DEF IInv, TypeOK
<1>3. op' \in [Proc -> Ops] /\ \A q \in Proc : op'[q] = op[q] \/ op'[q] = Idle
  BY <1>1, <1>2, Types
<1> QED
  BY <1>1, <1>2, <1>3, CardStep

\* reject_version and restore_version read.
LEMMA ReadStep ==
    ASSUME IInv, NEW p \in Proc, NEW i \in VersionIds, RejectVersionRead(p, i) \/ RestoreVersionRead(p, i)
    PROVE  IInv'
<1> USE DEF VersionIds
<1>1. doc' = doc /\ ver' = ver /\ card' = card /\ op \in [Proc -> Ops] /\ card \in [Doc -> Cards]
  BY DEF RejectVersionRead, RestoreVersionRead, IInv, TypeOK
<1>2. ver[i].doc \in Doc /\ Len(ver) \in Nat /\ TypeOK
  BY VersionRows DEF IInv, TypeOK
<1>3. PICK o \in Ops : /\ op' = [op EXCEPT ![p] = o]
                       /\ o.ver = i /\ o.name \in {"reject", "restore"} /\ Generic(ver[i].doc)
                       /\ o.name = "restore" => NextNumber(ver[i].doc, o.num)
  <2>1. CASE RejectVersionRead(p, i)
    <3>1. [name |-> "reject", ver |-> i, num |-> 0] \in Ops
      BY <1>2 DEF Ops
    <3> QED
      BY <2>1, <3>1 DEF RejectVersionRead
  <2>2. CASE RestoreVersionRead(p, i)
    <3>1. PICK n \in NumberAfter(ver[i].doc) :
            op' = [op EXCEPT ![p] = [name |-> "restore", ver |-> i, num |-> n]] /\ Generic(ver[i].doc)
      BY <2>2 DEF RestoreVersionRead
    <3>2. NextNumber(ver[i].doc, n)
      BY <1>2, NumberAfterNext
    <3>3. [name |-> "restore", ver |-> i, num |-> n] \in Ops
      BY <1>2, <3>2 DEF Ops, NextNumber
    <3> QED
      BY <3>1, <3>2, <3>3
  <2> QED
    BY <2>1, <2>2
<1>4. op' \in [Proc -> Ops] /\ op'[p] = o /\ \A q \in Proc : q # p => op'[q] = op[q]
  BY <1>1, <1>3
<1>5. o.name = "restore" => \E j \in 1 .. Len(ver) : ver[j].doc = ver[i].doc /\ ver[j].num = o.num - 1
  <2> SUFFICES ASSUME o.name = "restore" PROVE \E j \in 1 .. Len(ver) : ver[j].doc = ver[i].doc /\ ver[j].num = o.num - 1
    OBVIOUS
  <2>1. ver[i].num < o.num /\ ver[i].num \in Nat /\ ver[i].num >= 1 /\ o.num \in Nat
    BY <1>2, <1>3, VersionRows DEF NextNumber, IInv, Owned, TypeOK
  <2> QED
    BY <1>3, <2>1 DEF NextNumber
<1>6. op'[p].ver \in 1 .. Len(ver') /\ PendingOp(p)'
  BY <1>1, <1>3, <1>4, <1>5 DEF PendingOp, Generic
<1> QED
  BY <1>1, <1>4, <1>6, CardStep

\* The appends that leave the documents alone.
LEMMA CandidateStep ==
    ASSUME IInv, NEW d \in Doc, NEW n, NEW s \in DOCUMENT_STATES, NEW b \in Nat, NEW e \in Nat,
           NextNumber(d, n), ver' = Append(ver, Version(d, n, s, b, e)),
           doc[d].active # 0, KindOf[d] # "managed",
           doc' = doc, card' = card, op' \in [Proc -> Ops],
           \A p \in Proc : op'[p] = op[p] \/ op'[p] = Idle
    PROVE  IInv'
<1>1. TypeOK /\ Len(ver) \in Nat
  BY LenProperties DEF IInv, TypeOK
<1>2. /\ ver' \in Seq(Versions) /\ Len(ver') = Len(ver) + 1 /\ Numbered
      /\ \A i \in 1 .. Len(ver) : ver'[i] = ver[i]
      /\ ver'[Len(ver) + 1].doc = d
  BY <1>1, Inserted
<1>3. \A i \in 1 .. Len(ver') : i > Len(ver) => ver'[i].doc = d
  BY <1>1, <1>2
<1>4. \A c \in Doc : doc'[c].active \in 0 .. Len(ver')
  BY <1>1, <1>2 DEF TypeOK
<1>5. TypeOK' /\ Owned' /\ Heads' /\ NoGap' /\ Pending' /\ VersionNumbersIncrease'
  BY <1>1, <1>2, <1>3, <1>4, Frame DEF TypeOK
<1>6. ManagedHeadNewest'
  BY <1>2, <1>3, ManagedFrame
<1>7. CardOwned' /\ CardMatchesManuscript'
  BY CardFrame
<1> QED
  BY <1>5, <1>6, <1>7 DEF IInv

\* create_version preserves it.
LEMMA CreateVersionStep ==
    ASSUME IInv, NEW p \in Proc, NEW d \in Doc, NEW s \in UserStates, NEW e \in 0 .. Len(ver),
           CreateVersion(p, d, s, e)
    PROVE  IInv'
<1>1. s \in DOCUMENT_STATES /\ op \in [Proc -> Ops] /\ TypeOK /\ e \in Nat
  BY DocumentAssumption DEF IInv, TypeOK
<1>2. PICK n \in NumberAfter(d) : ver' = Append(ver, Version(d, n, s, e, 0))
  BY DEF CreateVersion
<1>3. NextNumber(d, n)
  BY <1>1, NumberAfterNext
<1> QED
  BY <1>1, <1>2, <1>3, CandidateStep DEF CreateVersion, Exists, Generic

\* The write of restore_version preserves it, although the number it inserts was
\* read before the transaction: UNIQUE refuses a number taken meanwhile.
LEMMA RestoreVersionWriteStep ==
    ASSUME IInv, NEW p \in Proc, RestoreVersionWrite(p)
    PROVE  IInv'
<1> DEFINE d == ver[op[p].ver].doc
<1>1. op[p].name = "restore" /\ op' = [op EXCEPT ![p] = Idle] /\ doc' = doc /\ card' = card
  BY DEF RestoreVersionWrite
<1>2. op[p].ver \in 1 .. Len(ver) /\ op \in [Proc -> Ops] /\ card \in [Doc -> Cards]
  BY <1>1 DEF IInv, TypeOK, Idle, VersionIds
<1>3. d \in Doc
  BY <1>2, VersionRows DEF IInv, TypeOK
<1>4. KindOf[d] # "managed" /\ doc[d].active # 0
  BY <1>1, <1>2 DEF IInv, Pending, PendingOp, Owned, Exists, VersionIds, Generic
<1>5. op' \in [Proc -> Ops] /\ \A q \in Proc : op'[q] = op[q] \/ op'[q] = Idle
  BY <1>1, <1>2, Types
<1>6. CASE ver' = ver
  BY <1>1, <1>2, <1>5, <1>6, CardStep
<1>7. CASE NumberFree(d, op[p].num) /\ ver' = Append(ver, Version(d, op[p].num, "candidate", 0, 0))
  <2>1. NextNumber(d, op[p].num)
    BY <1>1, <1>7, RestoreNext DEF IInv
  <2>2. "candidate" \in DOCUMENT_STATES /\ 0 \in Nat
    BY DEF DOCUMENT_STATES
  <2> QED
    BY <1>1, <1>3, <1>4, <1>5, <1>7, <2>1, <2>2, CandidateStep
<1> QED
  BY <1>6, <1>7 DEF RestoreVersionWrite

\* The appends that move the head: an edit of the active text, a managed write.
LEMMA HeadStep ==
    ASSUME IInv, NEW d \in Doc, NEW n, NEW s \in DOCUMENT_STATES, NEW e \in Nat,
           NextNumber(d, n), ver' = Append(ver, Version(d, n, s, 0, e)),
           doc' = Activated(d, Len(ver) + 1, s), card' = card, op' = op,
           \/ KindOf[d] # "managed" /\ s = doc[d].state
           \/ KindOf[d] = "managed" /\ s = "draft"
    PROVE  IInv'
<1>1. TypeOK /\ Len(ver) \in Nat
  BY LenProperties DEF IInv, TypeOK
<1>2. /\ ver' \in Seq(Versions) /\ Len(ver') = Len(ver) + 1 /\ Numbered
      /\ \A i \in 1 .. Len(ver) : ver'[i] = ver[i]
      /\ ver'[Len(ver) + 1].doc = d /\ ver'[Len(ver) + 1].state = s
  BY <1>1, Inserted
<1>3. \A i \in 1 .. Len(ver') : i > Len(ver) => ver'[i].doc = d /\ i = Len(ver) + 1
  BY <1>1, <1>2
<1>4. /\ doc' \in [Doc -> Documents]
      /\ doc'[d].active = Len(ver) + 1 /\ doc'[d].state = s
      /\ \A c \in Doc : c # d => doc'[c] = doc[c]
  <2>1. doc' = [doc EXCEPT ![d] = [state |-> s, active |-> Len(ver) + 1]] /\ doc \in [Doc -> Documents]
    BY <1>1 DEF Activated, TypeOK
  <2>2. [state |-> s, active |-> Len(ver) + 1] \in Documents
    BY <1>1, Types
  <2> QED
    BY <2>1, <2>2
<1>5. \A c \in Doc : doc'[c].active \in 0 .. Len(ver') /\ (doc[c].active # 0 => doc'[c].active # 0)
  BY <1>1, <1>2, <1>4 DEF TypeOK
<1>6. TypeOK' /\ Owned' /\ Heads' /\ NoGap' /\ Pending' /\ VersionNumbersIncrease'
  BY <1>1, <1>2, <1>3, <1>4, <1>5, Frame DEF TypeOK
<1>7. ManagedHeadNewest'
  <2>1. CASE KindOf[d] # "managed"
    BY <1>2, <1>3, <1>4, <2>1, ManagedFrame
  <2>2. CASE KindOf[d] = "managed" /\ s = "draft"
    <3> SUFFICES ASSUME NEW c \in Doc, KindOf[c] = "managed", NEW i \in 1 .. Len(ver'), ver'[i].doc = c
                 PROVE  i <= doc'[c].active /\ ver'[i].state = "draft"
      BY DEF ManagedHeadNewest, VersionsOf, VersionIds
    <3>1. CASE i = Len(ver) + 1
      BY <1>1, <1>2, <1>4, <2>2, <3>1
    <3>2. CASE i # Len(ver) + 1
      <4>1. i \in 1 .. Len(ver)
        BY <1>1, <1>2, <3>2
      <4>2. i <= doc[c].active /\ ver[i].state = "draft"
        BY <1>2, <4>1 DEF IInv, ManagedHeadNewest, VersionsOf, VersionIds
      <4> QED
        BY <1>1, <1>2, <1>4, <4>1, <4>2
    <3> QED
      BY <3>1, <3>2
  <2> QED
    BY <2>1, <2>2
<1>8. CardOwned' /\ CardMatchesManuscript'
  <2>1. KindOf[d] = "managed" => card[d] = NoCard
    BY DEF IInv, CardOwned
  <2> QED
    BY <1>4, <1>5, <2>1, CardFrame
<1> QED
  BY <1>6, <1>7, <1>8 DEF IInv

\* _write of a managed document (creative decisions, narrative knowledge) preserves it.
LEMMA ManagedWriteStep ==
    ASSUME IInv, NEW p \in Proc, NEW d \in Doc, NEW e \in 0 .. Len(ver), ManagedWrite(p, d, e)
    PROVE  IInv'
<1>1. TypeOK /\ e \in Nat /\ "draft" \in DOCUMENT_STATES
  BY DEF IInv, DOCUMENT_STATES
<1>2. PICK n \in NumberAfter(d) : ver' = Append(ver, Version(d, n, "draft", 0, e))
  BY DEF ManagedWrite
<1>3. NextNumber(d, n)
  BY <1>1, NumberAfterNext
<1> QED
  BY <1>1, <1>2, <1>3, HeadStep DEF ManagedWrite

\* edit_active_document preserves it.
LEMMA EditActiveDocumentStep ==
    ASSUME IInv, NEW p \in Proc, NEW d \in Doc, NEW e \in VersionIds, EditActiveDocument(p, d, e)
    PROVE  IInv'
<1>1. TypeOK /\ e \in Nat /\ doc[d].state \in DOCUMENT_STATES
  BY LenProperties DEF IInv, TypeOK, VersionIds, Heads, EditActiveDocument
<1>2. PICK n \in NumberAfter(d) : ver' = Append(ver, Version(d, n, doc[d].state, 0, e))
  BY DEF EditActiveDocument
<1>3. NextNumber(d, n)
  BY <1>1, NumberAfterNext
<1> QED
  BY <1>1, <1>2, <1>3, HeadStep DEF EditActiveDocument, Generic

\* accept_version: only the accepted version, its document and its card change.
LEMMA AcceptVersionStep ==
    ASSUME IInv, NEW p \in Proc, NEW i \in VersionIds, NEW e \in 0 .. Len(ver), NEW final \in BOOLEAN,
           AcceptVersion(p, i, e, final)
    PROVE  IInv'
<1> DEFINE d == ver[i].doc
           s == IF final THEN "final" ELSE "accepted"
<1> USE DEF VersionIds
<1>1. /\ TypeOK /\ Len(ver) \in Nat /\ ver \in Seq(Versions) /\ d \in Doc
      /\ card \in [Doc -> Cards] /\ doc \in [Doc -> Documents] /\ op \in [Proc -> Ops]
  BY VersionRows DEF IInv, TypeOK
<1>2. s \in DOCUMENT_STATES /\ s \in SCENE_STATES
  BY DEF DOCUMENT_STATES, SCENE_STATES
<1>3. /\ ver' = [ver EXCEPT ![i].state = s] /\ doc' = Activated(d, i, s)
      /\ card' = SceneStatus(d, s) /\ op' = op /\ KindOf[d] # "managed"
  BY DEF AcceptVersion, Generic
<1>4. /\ ver' \in Seq(Versions) /\ Len(ver') = Len(ver) /\ Numbered
      /\ \A j \in 1 .. Len(ver) : j # i => ver'[j] = ver[j]
      /\ ver'[i].doc = d
  BY <1>1, <1>2, <1>3, Kept, UpdateVersion
<1> HIDE DEF d, s
<1>5. /\ doc' \in [Doc -> Documents]
      /\ doc'[d].active = i /\ doc'[d].state = s
      /\ \A c \in Doc : c # d => doc'[c] = doc[c]
  <2>1. doc' = [doc EXCEPT ![d] = [state |-> s, active |-> i]]
    BY <1>3 DEF Activated
  <2>2. [state |-> s, active |-> i] \in Documents
    BY <1>1, <1>2, Types
  <2> QED
    BY <1>1, <2>1, <2>2
<1>6. /\ card' \in [Doc -> Cards]
      /\ \A c \in Doc : c # d => card'[c] = card[c]
      /\ \/ card'[d] = NoCard
         \/ card[d] # NoCard /\ card'[d].status = s
  <2>1. CASE card[d] = NoCard
    BY <1>1, <1>3, <2>1 DEF SceneStatus
  <2>2. CASE card[d] # NoCard
    <3>1. card' = [card EXCEPT ![d] = [status |-> s, plan |-> card[d].plan]]
      BY <1>3, <2>2 DEF SceneStatus
    <3>2. [status |-> s, plan |-> card[d].plan] \in Cards
      BY <1>1, <1>2 DEF Cards
    <3> QED
      BY <1>1, <2>2, <3>1, <3>2
  <2> QED
    BY <2>1, <2>2
<1>7. \A c \in Doc : doc'[c].active \in 0 .. Len(ver') /\ (doc[c].active # 0 => doc'[c].active # 0)
  BY <1>1, <1>4, <1>5 DEF TypeOK
<1>8. TypeOK' /\ Owned' /\ Heads' /\ NoGap' /\ Pending' /\ VersionNumbersIncrease'
  <2>1. \A c \in Doc : doc'[c] = doc[c] \/ (doc'[c].state \in DOCUMENT_STATES /\ ver'[doc'[c].active].doc = c)
    BY <1>2, <1>4, <1>5
  <2>2. op' \in [Proc -> Ops] /\ \A q \in Proc : op'[q] = op[q]
    BY <1>1, <1>3
  <2>3. \A j \in 1 .. Len(ver') : ~(j > Len(ver))
    BY <1>1, <1>4
  <2>4. Numbered /\ ver' \in Seq(Versions)
    BY <1>4
  <2> QED
    BY <1>5, <1>6, <1>7, <2>1, <2>2, <2>3, <2>4, Frame
<1>9. ManagedHeadNewest'
  <2>1. \A j \in 1 .. Len(ver) : KindOf[ver[j].doc] = "managed" => ver'[j].state = ver[j].state
    BY <1>3, <1>4 DEF d
  <2>2. \A j \in 1 .. Len(ver') : ~(j > Len(ver))
    BY <1>1, <1>4
  <2>3. \A c \in Doc : KindOf[c] = "managed" => doc'[c] = doc[c]
    BY <1>3, <1>5
  <2> QED
    BY <1>4, <2>1, <2>2, <2>3, ManagedFrame
<1>10. CardOwned' /\ CardMatchesManuscript'
  <2>1. \A c \in Doc :
          \/ card'[c] = card[c] /\ doc'[c].state = doc[c].state
          \/ card'[c] = NoCard
          \/ /\ doc'[c].active # 0 /\ KindOf[c] = "scene"
             /\ card'[c].status \in {"accepted", "final"} => doc'[c].state = card'[c].status
    BY <1>1, <1>5, <1>6, <1>7 DEF IInv, CardOwned, Exists
  <2> QED
    BY <1>7, <2>1, CardFrame
<1> QED
  BY <1>8, <1>9, <1>10 DEF IInv

\* reject_version writes the state of one version and nothing else.
LEMMA RejectVersionWriteStep ==
    ASSUME IInv, NEW p \in Proc, RejectVersionWrite(p)
    PROVE  IInv'
<1> DEFINE i == op[p].ver
<1>1. /\ op[p].name = "reject" /\ op' = [op EXCEPT ![p] = Idle] /\ doc' = doc /\ card' = card
      /\ ver' = [ver EXCEPT ![i].state = "rejected"]
  BY DEF RejectVersionWrite
<1>2. /\ TypeOK /\ Len(ver) \in Nat /\ ver \in Seq(Versions) /\ i \in 1 .. Len(ver)
      /\ card \in [Doc -> Cards] /\ doc \in [Doc -> Documents] /\ op \in [Proc -> Ops]
  BY <1>1, LenProperties DEF IInv, TypeOK, Idle, VersionIds
<1>3. KindOf[ver[i].doc] # "managed" /\ "rejected" \in DOCUMENT_STATES
  BY <1>1 DEF IInv, Pending, PendingOp, Generic, DOCUMENT_STATES
<1>4. /\ ver' \in Seq(Versions) /\ Len(ver') = Len(ver) /\ Numbered
      /\ \A j \in 1 .. Len(ver) : j # i => ver'[j] = ver[j]
  BY <1>1, <1>2, <1>3, Kept, UpdateVersion
<1>5. op' \in [Proc -> Ops] /\ \A q \in Proc : op'[q] = op[q] \/ op'[q] = Idle
  BY <1>1, <1>2, Types
<1> HIDE DEF i
<1>6. \A j \in 1 .. Len(ver') : ~(j > Len(ver))
  BY <1>2, <1>4
<1>7. doc' \in [Doc -> Documents] /\ card' \in [Doc -> Cards] /\ \A d \in Doc : doc'[d] = doc[d] /\ card'[d] = card[d]
  BY <1>1, <1>2
<1>8. \A d \in Doc : doc'[d].active \in 0 .. Len(ver')
  BY <1>2, <1>4, <1>7 DEF TypeOK
<1>9. TypeOK' /\ Owned' /\ Heads' /\ NoGap' /\ Pending' /\ VersionNumbersIncrease'
  BY <1>4, <1>5, <1>6, <1>7, <1>8, Frame
<1>10. ManagedHeadNewest'
  <2>1. \A j \in 1 .. Len(ver) : KindOf[ver[j].doc] = "managed" => ver'[j].state = ver[j].state
    BY <1>3, <1>4
  <2> QED
    BY <1>4, <1>6, <1>7, <2>1, ManagedFrame
<1>11. CardOwned' /\ CardMatchesManuscript'
  BY <1>7, CardFrame
<1> QED
  BY <1>9, <1>10, <1>11 DEF IInv

\* What edit_chapter_documents does to the two tables.
LEMMA ChapterWrites ==
    ASSUME IInv, NEW p \in Proc, NEW c \in Doc, NEW k \in Nat,
           NEW e \in [ChapterGroup(c) -> VersionIds], NEW changed \in [1 .. k -> ChapterGroup(c)],
           \A i, j \in 1 .. k : changed[i] = changed[j] => i = j,
           EditChapterDocuments(p, c, e, changed)
    PROVE  /\ Len(ver) \in Nat /\ ver' \in Seq(Versions) /\ Numbered
           /\ \A i \in 1 .. Len(ver) : ver'[i] = ver[i]
           /\ \A i \in 1 .. Len(ver') : i > Len(ver) => KindOf[ver'[i].doc] # "managed"
           /\ doc' \in [Doc -> Documents]
           /\ \A d \in Doc : /\ doc'[d].active \in 0 .. Len(ver')
                             /\ doc[d].active # 0 => doc'[d].active # 0
                             /\ doc'[d].state = doc[d].state
           /\ \A d \in Doc : \/ doc'[d] = doc[d]
                             \/ /\ KindOf[d] # "managed" /\ doc'[d].state \in DOCUMENT_STATES
                                /\ doc'[d].active \in 1 .. Len(ver') /\ doc'[d].active > Len(ver)
                                /\ ver'[doc'[d].active].doc = d
                                /\ ver'[doc'[d].active].prev = doc[d].active
           /\ \A i \in 1 .. Len(ver') : i > Len(ver) => doc'[ver'[i].doc].active # 0
<1>1. Len(changed) = k
  <2>1. changed \in Seq(ChapterGroup(c)) /\ DOMAIN changed = 1 .. k
    BY SeqDef
  <2> QED
    BY <2>1, LenProperties
<1>2. PICK num \in [1 .. k -> 1 .. (Len(ver) + 1)] :
         /\ \A i \in 1 .. k : num[i] \in NumberAfter(changed[i])
         /\ ver' = [i \in 1 .. (Len(ver) + k) |->
                      IF i <= Len(ver) THEN ver[i]
                      ELSE LET d == changed[i - Len(ver)] IN
                           Version(d, num[i - Len(ver)], doc[d].state, 0, e[d])]
  BY <1>1 DEF EditChapterDocuments
<1>3. /\ KindOf[c] = "chapter" /\ ChapterCurrent(c, e)
      /\ doc' = [d \in Doc |->
                   IF \E i \in 1 .. k : changed[i] = d
                   THEN [state |-> doc[d].state,
                         active |-> Len(ver) + CHOOSE i \in 1 .. k : changed[i] = d]
                   ELSE doc[d]]
  BY <1>1 DEF EditChapterDocuments
<1>4. Len(ver) \in Nat /\ ver \in Seq(Versions) /\ TypeOK /\ doc \in [Doc -> Documents]
  BY LenProperties DEF IInv, TypeOK
<1>5. \A i \in 1 .. k : /\ changed[i] \in Doc /\ changed[i] \in ChapterGroup(c)
                        /\ doc[changed[i]].active # 0
                        /\ doc[changed[i]].state \in DOCUMENT_STATES
                        /\ KindOf[changed[i]] # "managed"
                        /\ e[changed[i]] = doc[changed[i]].active
                        /\ e[changed[i]] \in Nat
  <2> SUFFICES ASSUME NEW i \in 1 .. k
               PROVE  /\ changed[i] \in Doc /\ changed[i] \in ChapterGroup(c)
                      /\ doc[changed[i]].active # 0
                      /\ doc[changed[i]].state \in DOCUMENT_STATES
                      /\ KindOf[changed[i]] # "managed"
                      /\ e[changed[i]] = doc[changed[i]].active
                      /\ e[changed[i]] \in Nat
    OBVIOUS
  <2>1. changed[i] \in ChapterGroup(c)
    OBVIOUS
  <2>2. /\ changed[i] \in Doc /\ doc[changed[i]].active # 0
        /\ changed[i] = c \/ KindOf[changed[i]] = "scene"
    BY <2>1 DEF ChapterGroup, Exists
  <2>3. e[changed[i]] = doc[changed[i]].active /\ e[changed[i]] \in 1 .. Len(ver)
    BY <1>3, <2>1 DEF ChapterCurrent, VersionIds
  <2>4. doc[changed[i]].state \in DOCUMENT_STATES
    BY <2>2 DEF IInv, Heads, Exists
  <2> QED
    BY <1>3, <1>4, <2>1, <2>2, <2>3, <2>4
<1> DEFINE f == [i \in 1 .. k |-> Version(changed[i], num[i], doc[changed[i]].state, 0, e[changed[i]])]
<1>6. \A i \in 1 .. k : /\ f[i] \in Versions
                        /\ f[i].doc = changed[i] /\ f[i].num = num[i] /\ f[i].prev = e[changed[i]]
  <2> SUFFICES ASSUME NEW i \in 1 .. k
               PROVE  /\ f[i] \in Versions
                      /\ f[i].doc = changed[i] /\ f[i].num = num[i] /\ f[i].prev = e[changed[i]]
    OBVIOUS
  <2>1. f[i] = Version(changed[i], num[i], doc[changed[i]].state, 0, e[changed[i]])
    OBVIOUS
  <2>2. num[i] \in Nat
    BY <1>4
  <2> HIDE DEF f
  <2>3. f[i] \in Versions
    BY <1>5, <2>1, <2>2, Types
  <2> QED
    BY <2>1, <2>3 DEF Version
<1>7. ver' = [i \in 1 .. (Len(ver) + k) |-> IF i <= Len(ver) THEN ver[i] ELSE f[i - Len(ver)]]
  <2>1. \A i \in 1 .. (Len(ver) + k) : ~(i <= Len(ver)) => i - Len(ver) \in 1 .. k
    BY <1>4
  <2> QED
    BY <1>2, <2>1
<1> HIDE DEF f
<1>8. /\ ver' \in Seq(Versions) /\ Len(ver') = Len(ver) + k
      /\ \A i \in 1 .. Len(ver) : ver'[i] = ver[i]
      /\ \A i \in 1 .. k : ver'[Len(ver) + i] = f[i]
  <2>1. \A i \in 1 .. Len(ver) : ver'[i] = ver[i]
    BY <1>4, <1>7
  <2>2. \A i \in 1 .. k : ver'[Len(ver) + i] = f[i]
    <3> TAKE i \in 1 .. k
    <3> DEFINE r == Len(ver) + i
    <3>1. r \in 1 .. (Len(ver) + k) /\ ~(r <= Len(ver)) /\ r - Len(ver) = i
      BY <1>4
    <3> HIDE DEF r
    <3>2. ver'[r] = f[r - Len(ver)]
      BY <1>7, <3>1
    <3> QED
      BY <3>1, <3>2 DEF r
  <2>3. \A i \in 1 .. k : ver'[Len(ver) + i] \in Versions
    BY <1>6, <2>2
  <2>4. ver' = [i \in 1 .. (Len(ver) + k) |-> ver'[i]]
    BY <1>7
  <2> QED
    BY <1>4, <2>1, <2>2, <2>3, <2>4, ExtendVersions
<1>9. \A i \in 1 .. Len(ver') : i > Len(ver) =>
        \E j \in 1 .. k : i = Len(ver) + j /\ ver'[i].doc = changed[j] /\ ver'[i].num = num[j]
  <2> SUFFICES ASSUME NEW i \in 1 .. Len(ver'), i > Len(ver)
               PROVE  \E j \in 1 .. k : i = Len(ver) + j /\ ver'[i].doc = changed[j] /\ ver'[i].num = num[j]
    OBVIOUS
  <2>1. PICK j \in 1 .. k : i = Len(ver) + j
    <3>1. i - Len(ver) \in 1 .. k /\ i = Len(ver) + (i - Len(ver))
      BY <1>4, <1>8
    <3> QED
      BY <3>1
  <2>2. ver'[i] = f[j]
    BY <1>8, <2>1
  <2> QED
    BY <1>6, <2>1, <2>2
<1>10. \A j \in 1 .. k : NextNumber(changed[j], num[j])
  BY <1>2, <1>4, <1>5, NumberAfterNext
<1>11. Numbered
  <2>1. \A i \in 1 .. Len(ver') : i > Len(ver) => NextNumber(ver'[i].doc, ver'[i].num)
    BY <1>9, <1>10
  <2>2. ASSUME NEW i \in 1 .. Len(ver'), NEW j \in 1 .. Len(ver'), i > Len(ver), j > Len(ver), i # j
        PROVE  ver'[i].doc # ver'[j].doc
    <3>1. PICK a \in 1 .. k : i = Len(ver) + a /\ ver'[i].doc = changed[a]
      BY <1>9, <2>2
    <3>2. PICK b \in 1 .. k : j = Len(ver) + b /\ ver'[j].doc = changed[b]
      BY <1>9, <2>2
    <3>3. a # b
      BY <2>2, <3>1, <3>2
    <3> QED
      BY <3>1, <3>2, <3>3
  <2> QED
    BY <1>4, <1>8, <2>1, <2>2 DEF Numbered
<1>12. ASSUME NEW j \in 1 .. k
       PROVE  /\ doc'[changed[j]] = [state |-> doc[changed[j]].state, active |-> Len(ver) + j]
              /\ doc'[changed[j]].state = doc[changed[j]].state
              /\ doc'[changed[j]].active = Len(ver) + j
  <2> DEFINE m == CHOOSE i \in 1 .. k : changed[i] = changed[j]
  <2>1. m = j
    OBVIOUS
  <2>2. doc'[changed[j]] = [state |-> doc[changed[j]].state, active |-> Len(ver) + m]
    BY <1>3, <1>5
  <2> HIDE DEF m
  <2> QED
    BY <2>1, <2>2
<1>13. \A d \in Doc : doc'[d] = doc[d] \/ \E j \in 1 .. k : changed[j] = d
  BY <1>3
<1>14. doc' \in [Doc -> Documents]
  <2>1. DOMAIN doc' = Doc /\ doc' = [d \in Doc |-> doc'[d]]
    BY <1>3
  <2>2. ASSUME NEW d \in Doc PROVE doc'[d] \in Documents
    <3>1. CASE doc'[d] = doc[d]
      BY <1>4, <3>1
    <3>2. ASSUME NEW j \in 1 .. k, changed[j] = d PROVE doc'[d] \in Documents
      <4>1. doc'[d] = [state |-> doc[d].state, active |-> Len(ver) + j]
        BY <1>12, <3>2
      <4>2. Len(ver) + j \in Nat /\ doc[d].state \in DOCUMENT_STATES
        BY <1>4, <1>5, <3>2
      <4> QED
        BY <4>1, <4>2, Types
    <3> QED
      BY <1>13, <3>1, <3>2
  <2> QED
    BY <2>1, <2>2
<1>15. ASSUME NEW d \in Doc
       PROVE  /\ doc'[d].active \in 0 .. Len(ver')
              /\ doc[d].active # 0 => doc'[d].active # 0
              /\ doc'[d].state = doc[d].state
              /\ \/ doc'[d] = doc[d]
                 \/ /\ KindOf[d] # "managed" /\ doc'[d].state \in DOCUMENT_STATES
                    /\ doc'[d].active \in 1 .. Len(ver') /\ doc'[d].active > Len(ver)
                    /\ ver'[doc'[d].active].doc = d
                    /\ ver'[doc'[d].active].prev = doc[d].active
  <2>1. CASE doc'[d] = doc[d]
    BY <1>4, <1>8, <2>1 DEF TypeOK
  <2>2. CASE \E j \in 1 .. k : changed[j] = d
    <3>1. PICK j \in 1 .. k : changed[j] = d
      BY <2>2
    <3>2. doc'[d].active = Len(ver) + j /\ doc'[d].state = doc[d].state
      BY <1>12, <3>1
    <3>3. ver'[doc'[d].active].doc = d /\ ver'[doc'[d].active].prev = doc[d].active
      <4>1. ver'[doc'[d].active] = f[j]
        BY <1>8, <3>2
      <4>2. f[j].doc = d /\ f[j].prev = e[d] /\ e[d] = doc[d].active
        BY <1>5, <1>6, <3>1
      <4> QED
        BY <4>1, <4>2
    <3>4. doc'[d].active \in 1 .. Len(ver') /\ doc'[d].active > Len(ver)
      BY <1>4, <1>8, <3>2
    <3> QED
      BY <1>4, <1>5, <1>8, <3>1, <3>2, <3>3, <3>4
  <2> QED
    BY <1>13, <2>1, <2>2
<1>16. ASSUME NEW i \in 1 .. Len(ver'), i > Len(ver)
       PROVE  doc'[ver'[i].doc].active # 0 /\ KindOf[ver'[i].doc] # "managed"
  <2>1. PICK j \in 1 .. k : ver'[i].doc = changed[j]
    BY <1>9, <1>16
  <2>2. doc'[changed[j]].active # 0
    <3>1. doc'[changed[j]].active = Len(ver) + j
      BY <1>12, Zenon
    <3> QED
      BY <1>4, <3>1
  <2> QED
    BY <1>5, <2>1, <2>2
<1> QED
  BY <1>4, <1>8, <1>11, <1>14, <1>15, <1>16

\* edit_chapter_documents, which adds one version for every changed part of a
\* chapter in one transaction, preserves it.
LEMMA EditChapterDocumentsStep ==
    ASSUME IInv, NEW p \in Proc, NEW c \in Doc, NEW k \in Nat,
           NEW e \in [ChapterGroup(c) -> VersionIds], NEW changed \in [1 .. k -> ChapterGroup(c)],
           \A i, j \in 1 .. k : changed[i] = changed[j] => i = j,
           EditChapterDocuments(p, c, e, changed)
    PROVE  IInv'
<1>1. card' = card /\ op' = op /\ card \in [Doc -> Cards] /\ op \in [Proc -> Ops]
  BY DEF EditChapterDocuments, IInv, TypeOK
<1>2. /\ Len(ver) \in Nat /\ ver' \in Seq(Versions) /\ Numbered
      /\ \A i \in 1 .. Len(ver) : ver'[i] = ver[i]
      /\ \A i \in 1 .. Len(ver') : i > Len(ver) => KindOf[ver'[i].doc] # "managed"
      /\ doc' \in [Doc -> Documents]
      /\ \A d \in Doc : /\ doc'[d].active \in 0 .. Len(ver')
                        /\ doc[d].active # 0 => doc'[d].active # 0
                        /\ doc'[d].state = doc[d].state
      /\ \A d \in Doc : \/ doc'[d] = doc[d]
                        \/ /\ KindOf[d] # "managed" /\ doc'[d].state \in DOCUMENT_STATES
                           /\ ver'[doc'[d].active].doc = d
      /\ \A i \in 1 .. Len(ver') : i > Len(ver) => doc'[ver'[i].doc].active # 0
  BY ChapterWrites
<1>3. TypeOK' /\ Owned' /\ Heads' /\ NoGap' /\ Pending' /\ VersionNumbersIncrease'
  BY <1>1, <1>2, Frame
<1>4. ManagedHeadNewest'
  BY <1>2, ManagedFrame
<1>5. CardOwned' /\ CardMatchesManuscript'
  BY <1>1, <1>2, CardFrame
<1> QED
  BY <1>3, <1>4, <1>5 DEF IInv
-----------------------------------------------------------------------------
(***************************************************************************)
(* The theorems.                                                           *)
(***************************************************************************)
\* The empty book satisfies the invariant.
LEMMA InitInvariant == Init => IInv
<1> SUFFICES ASSUME Init PROVE IInv
  OBVIOUS
<1>1. TypeOK
  BY InitType
<1>2. Len(ver) = 0 /\ \A d \in Doc : doc[d] = NoDoc /\ card[d] = NoCard
  BY EmptySeq DEF Init
<1>3. \A p \in Proc : op[p] = Idle
  BY DEF Init
<1>4. VersionIds = {}
  BY <1>2 DEF VersionIds
<1> QED
  BY <1>1, <1>2, <1>3, <1>4
  DEF IInv, Owned, Heads, ActiveOwned, Exists, NoGap, Pending, PendingOp, CardOwned, NoDoc, NoCard,
      Idle, VersionNumbersIncrease, ManagedHeadNewest, VersionsOf, CardMatchesManuscript

\* Every step of every process keeps the invariant.
LEMMA StepInvariant == IInv /\ [Next]_docVars => IInv'
<1> SUFFICES ASSUME IInv, [Next]_docVars PROVE IInv'
  OBVIOUS
<1>1. CASE UNCHANGED docVars
  <2>1. /\ doc' = doc /\ ver' = ver /\ card' = card /\ op' = op
        /\ op \in [Proc -> Ops] /\ card \in [Doc -> Cards]
    BY <1>1 DEF docVars, IInv, TypeOK
  <2> QED
    BY <2>1, CardStep
<1>2. ASSUME NEW p \in Proc, DocStep(p) PROVE IInv'
  <2>1. ASSUME NEW d \in Doc, NEW s \in UserStates, CreateDocument(p, d, s) PROVE IInv'
    BY <2>1, CreateDocumentStep
  <2>2. ASSUME NEW d \in Doc, CreateSceneDocument(p, d) PROVE IInv'
    BY <2>2, CreateSceneDocumentStep
  <2>3. CASE CreateSceneCard(p)
    BY <2>3, CreateSceneCardStep
  <2>4. ASSUME NEW d \in Doc, NEW e \in 0 .. Len(ver), ManagedWrite(p, d, e) PROVE IInv'
    BY <2>4, ManagedWriteStep
  <2>5. ASSUME NEW d \in Doc, NEW s \in UserStates, NEW e \in 0 .. Len(ver), CreateVersion(p, d, s, e)
        PROVE  IInv'
    BY <2>5, CreateVersionStep
  <2>6. ASSUME NEW d \in Doc, NEW e \in VersionIds, EditActiveDocument(p, d, e) PROVE IInv'
    BY <2>6, EditActiveDocumentStep
  <2>7. ASSUME NEW c \in Doc, NEW k \in 1 .. (MaxVersions - Len(ver)),
               NEW e \in [ChapterGroup(c) -> VersionIds], NEW changed \in [1 .. k -> ChapterGroup(c)],
               \A i, j \in 1 .. k : changed[i] = changed[j] => i = j,
               EditChapterDocuments(p, c, e, changed)
        PROVE  IInv'
    <3>1. k \in Nat
      BY LenProperties, DocumentAssumption DEF IInv, TypeOK
    <3> QED
      BY <2>7, <3>1, EditChapterDocumentsStep
  <2>8. ASSUME NEW i \in VersionIds, NEW e \in 0 .. Len(ver), NEW final \in BOOLEAN,
               AcceptVersion(p, i, e, final)
        PROVE  IInv'
    BY <2>8, AcceptVersionStep
  <2>9. ASSUME NEW i \in VersionIds, RejectVersionRead(p, i) \/ RestoreVersionRead(p, i) PROVE IInv'
    BY <2>9, ReadStep
  <2>10. CASE RejectVersionWrite(p)
    BY <2>10, RejectVersionWriteStep
  <2>11. CASE RestoreVersionWrite(p)
    BY <2>11, RestoreVersionWriteStep
  <2>12. ASSUME NEW d \in Doc,
                (\E x \in {"candidate", "approved"} : SetScenePlan(p, d, x)) \/ ApproveScene(p, d) \/ MarkSceneDrafted(p, d)
         PROVE  IInv'
    BY <2>12, PlanStep
  <2>13. CASE Crash(p)
    BY <2>13, CrashStep
  <2> QED
    BY <1>2, <2>1, <2>2, <2>3, <2>4, <2>5, <2>6, <2>7, <2>8, <2>9, <2>10, <2>11, <2>12, <2>13
    DEF DocStep
<1> QED
  BY <1>1, <1>2 DEF Next

\* The invariant holds throughout every behaviour of the store.
THEOREM Invariance == Spec => []IInv
  BY InitInvariant, StepInvariant, PTL DEF Spec

\* Rows keep their shape and every row id held anywhere names a row.
THEOREM TypeCorrect == Spec => []TypeOK
<1>1. IInv => TypeOK
  BY DEF IInv
<1> QED
  BY <1>1, Invariance, PTL

\* However restores and writes of any number of processes interleave, the
\* versions of a document are numbered in row order without repetition.
THEOREM NumbersIncrease == Spec => []VersionNumbersIncrease
<1>1. IInv => VersionNumbersIncrease
  BY DEF IInv
<1> QED
  BY <1>1, Invariance, PTL

\* The head of a managed document is its newest row and every row is a draft.
THEOREM ManagedLogs == Spec => []ManagedHeadNewest
<1>1. IInv => ManagedHeadNewest
  BY DEF IInv
<1> QED
  BY <1>1, Invariance, PTL

\* An accepted or final card always belongs to a manuscript in that state.
THEOREM CardsMatch == Spec => []CardMatchesManuscript
<1>1. IInv => CardMatchesManuscript
  BY DEF IInv
<1> QED
  BY <1>1, Invariance, PTL

-----------------------------------------------------------------------------
\* accept_version made version i the head of d, in state s.
Accepted(d, i, s) ==
    /\ ver[i].doc = d
    /\ ver' = [ver EXCEPT ![i].state = s]
    /\ doc' = Activated(d, i, s)

\* What one step does to rejected rows, to the rows there are and to the head of
\* a document, which goes back to an older row only when that one is accepted.
StepSafe ==
    /\ \A i \in VersionIds : ver[i].state = "rejected" => ver'[i].state = "rejected"
    /\ \A d \in Doc : ReplacesWhatWasRead(d)
    /\ Len(ver') >= Len(ver) /\ \A i \in VersionIds : ver'[i].doc = ver[i].doc
    /\ \A d \in Doc : \/ doc'[d] = doc[d]
                      \/ doc'[d].active > Len(ver)
                      \/ \E i \in VersionIds, s \in {"accepted", "final"} : Accepted(d, i, s)

\* Steps that write no existing row, and move no head except to a row they add
\* on top of the one it replaces.
LEMMA AppendSafe ==
    ASSUME TypeOK, Len(ver') >= Len(ver), \A i \in 1 .. Len(ver) : ver'[i] = ver[i],
           \A d \in Doc : \/ doc'[d] = doc[d]
                          \/ /\ doc'[d].active > Len(ver)
                             /\ doc[d].active = 0 \/ ver'[doc'[d].active].prev = doc[d].active
    PROVE  StepSafe
  BY DEF StepSafe, ReplacesWhatWasRead, VersionIds

\* Adding a row, with the head staying or moving from the version the writer read,
\* loses no update and revives no rejected version.
LEMMA HeadSafe ==
    ASSUME TypeOK, NEW d \in Doc, NEW n, NEW s \in DOCUMENT_STATES, NEW b \in Nat, NEW e \in Nat,
           NextNumber(d, n), ver' = Append(ver, Version(d, n, s, b, e)),
           \/ doc' = doc
           \/ doc' = Activated(d, Len(ver) + 1, s) /\ doc[d].active \in {0, e}
    PROVE  StepSafe
<1>1. /\ Len(ver) \in Nat /\ Len(ver') >= Len(ver) /\ \A i \in 1 .. Len(ver) : ver'[i] = ver[i]
      /\ ver'[Len(ver) + 1].prev = e
  BY Inserted
<1>2. CASE doc' = doc
  BY <1>1, <1>2, AppendSafe
<1>3. CASE doc' = Activated(d, Len(ver) + 1, s) /\ doc[d].active \in {0, e}
  <2>1. doc'[d].active = Len(ver) + 1 /\ \A c \in Doc : c # d => doc'[c] = doc[c]
    BY <1>3 DEF Activated, TypeOK
  <2> QED
    BY <1>1, <1>3, <2>1, AppendSafe
<1> QED
  BY <1>2, <1>3

\* accept_version loses no update and revives no rejected version.
LEMMA AcceptSafe ==
    ASSUME IInv, NEW p \in Proc, NEW i \in VersionIds, NEW e \in 0 .. Len(ver), NEW final \in BOOLEAN,
           AcceptVersion(p, i, e, final)
    PROVE  StepSafe
<1> DEFINE d == ver[i].doc
           s == IF final THEN "final" ELSE "accepted"
<1> USE DEF VersionIds
<1>1. TypeOK /\ Len(ver) \in Nat /\ ver \in Seq(Versions) /\ d \in Doc /\ doc \in [Doc -> Documents]
  BY VersionRows DEF IInv, TypeOK
<1>2. ver' = [ver EXCEPT ![i].state = s] /\ doc' = Activated(d, i, s) /\ Acceptable(i)
  BY DEF AcceptVersion
<1>3. s \in DOCUMENT_STATES
  BY DEF DOCUMENT_STATES
<1>4. /\ \A j \in 1 .. Len(ver) : j # i => ver'[j] = ver[j]
      /\ Len(ver') = Len(ver) /\ ver'[i].doc = ver[i].doc
  BY <1>1, <1>2, <1>3, UpdateVersion
<1>5. doc' = [doc EXCEPT ![d] = [state |-> s, active |-> i]]
  BY <1>2 DEF Activated
<1>10. Accepted(d, i, s) /\ s \in {"accepted", "final"}
  BY <1>2 DEF Accepted
<1> HIDE DEF s
<1>6. doc'[d].active = i /\ \A c \in Doc : c # d => doc'[c] = doc[c]
  BY <1>1, <1>5
<1>7. ~(i > Len(ver))
  BY <1>1
<1>8. \A c \in Doc : ReplacesWhatWasRead(c)
  BY <1>2, <1>6, <1>7 DEF ReplacesWhatWasRead, Acceptable
<1>9. \A j \in 1 .. Len(ver) : ver[j].state = "rejected" => ver'[j].state = "rejected"
  BY <1>2, <1>4 DEF Acceptable
<1>11. Len(ver') >= Len(ver) /\ \A j \in 1 .. Len(ver) : ver'[j].doc = ver[j].doc
  BY <1>1, <1>4
<1> QED
  BY <1>6, <1>8, <1>9, <1>10, <1>11 DEF StepSafe

\* The write of reject_version loses no update and revives no rejected version.
LEMMA RejectSafe ==
    ASSUME IInv, NEW p \in Proc, RejectVersionWrite(p)
    PROVE  StepSafe
<1> DEFINE i == op[p].ver
<1>1. /\ op[p].name = "reject" /\ doc' = doc
      /\ ver' = [ver EXCEPT ![i].state = "rejected"]
  BY DEF RejectVersionWrite
<1>2. ver \in Seq(Versions) /\ i \in 1 .. Len(ver) /\ "rejected" \in DOCUMENT_STATES
  BY <1>1 DEF IInv, TypeOK, Idle, VersionIds, DOCUMENT_STATES
<1>3. /\ (\A j \in 1 .. Len(ver) : j # i => ver'[j] = ver[j]) /\ ver'[i].state = "rejected"
      /\ Len(ver') = Len(ver) /\ ver'[i].doc = ver[i].doc /\ Len(ver) \in Nat
  BY <1>1, <1>2, UpdateVersion, LenProperties
<1> HIDE DEF i
<1> QED
  BY <1>1, <1>3 DEF StepSafe, ReplacesWhatWasRead, VersionIds

\* Every step is safe in that sense.
LEMMA EveryStepSafe == IInv /\ [Next]_docVars => StepSafe
<1> SUFFICES ASSUME IInv, [Next]_docVars PROVE StepSafe
  OBVIOUS
<1>0. /\ TypeOK /\ Len(ver) \in Nat
      /\ \A d \in Doc : doc[d].active # 0 => doc[d].state \in DOCUMENT_STATES
  BY LenProperties DEF IInv, TypeOK, Heads, Exists
<1>1. CASE ver' = ver /\ doc' = doc
  BY <1>0, <1>1, AppendSafe
<1>2. ASSUME NEW p \in Proc, DocStep(p) PROVE StepSafe
  <2>1. ASSUME NEW d \in Doc, NEW s \in DOCUMENT_STATES, InsertDocument(d, s) PROVE StepSafe
    <3>1. NextNumber(d, 1) /\ 0 \in Nat
      BY <2>1 DEF NextNumber, InsertDocument, IInv, Owned, VersionIds
    <3> QED
      BY <1>0, <2>1, <3>1, HeadSafe DEF InsertDocument, Exists
  <2>2. ASSUME NEW d \in Doc, NEW e \in 0 .. Len(ver), ManagedWrite(p, d, e) PROVE StepSafe
    <3>1. PICK n \in NumberAfter(d) : ver' = Append(ver, Version(d, n, "draft", 0, e))
      BY <2>2 DEF ManagedWrite
    <3>2. NextNumber(d, n) /\ e \in Nat /\ "draft" \in DOCUMENT_STATES
      BY <1>0, NumberAfterNext DEF DOCUMENT_STATES
    <3> QED
      BY <1>0, <2>2, <3>1, <3>2, HeadSafe DEF ManagedWrite
  <2>3. ASSUME NEW d \in Doc, NEW s \in UserStates, NEW e \in 0 .. Len(ver), CreateVersion(p, d, s, e)
        PROVE  StepSafe
    <3>1. PICK n \in NumberAfter(d) : ver' = Append(ver, Version(d, n, s, e, 0))
      BY <2>3 DEF CreateVersion
    <3>2. NextNumber(d, n) /\ e \in Nat /\ s \in DOCUMENT_STATES /\ 0 \in Nat
      BY <1>0, NumberAfterNext, DocumentAssumption
    <3> QED
      BY <1>0, <2>3, <3>1, <3>2, HeadSafe DEF CreateVersion
  <2>4. ASSUME NEW d \in Doc, NEW e \in VersionIds, EditActiveDocument(p, d, e) PROVE StepSafe
    <3>1. PICK n \in NumberAfter(d) : ver' = Append(ver, Version(d, n, doc[d].state, 0, e))
      BY <2>4 DEF EditActiveDocument
    <3>2. NextNumber(d, n) /\ e \in Nat /\ doc[d].state \in DOCUMENT_STATES
      BY <1>0, <2>4, NumberAfterNext DEF EditActiveDocument, Exists, VersionIds
    <3> QED
      BY <1>0, <2>4, <3>1, <3>2, HeadSafe DEF EditActiveDocument
  <2>5. ASSUME NEW c \in Doc, NEW k \in 1 .. (MaxVersions - Len(ver)),
               NEW e \in [ChapterGroup(c) -> VersionIds], NEW changed \in [1 .. k -> ChapterGroup(c)],
               \A i, j \in 1 .. k : changed[i] = changed[j] => i = j,
               EditChapterDocuments(p, c, e, changed)
        PROVE  StepSafe
    <3>1. k \in Nat
      BY <1>0, DocumentAssumption
    <3>2. /\ Len(ver') >= Len(ver) /\ \A i \in 1 .. Len(ver) : ver'[i] = ver[i]
          /\ \A d \in Doc : \/ doc'[d] = doc[d]
                            \/ /\ doc'[d].active > Len(ver)
                               /\ ver'[doc'[d].active].prev = doc[d].active
      <4>1. Numbered /\ \A i \in 1 .. Len(ver) : ver'[i] = ver[i]
        BY <2>5, <3>1, ChapterWrites
      <4>2. Len(ver') >= Len(ver)
        BY <1>0, <4>1 DEF Numbered
      <4> QED
        BY <2>5, <3>1, <4>1, <4>2, ChapterWrites
    <3> QED
      BY <1>0, <3>2, AppendSafe
  <2>6. CASE RestoreVersionWrite(p)
    <3> DEFINE d == ver[op[p].ver].doc
    <3>1. op[p].name = "restore" /\ doc' = doc
      BY <2>6 DEF RestoreVersionWrite
    <3>2. op[p].ver \in 1 .. Len(ver)
      BY <3>1 DEF IInv, TypeOK, Idle, VersionIds
    <3>3. d \in Doc
      BY <3>2, VersionRows DEF IInv, TypeOK
    <3>4. CASE NumberFree(d, op[p].num) /\ ver' = Append(ver, Version(d, op[p].num, "candidate", 0, 0))
      <4>1. NextNumber(d, op[p].num)
        BY <3>1, <3>4, RestoreNext DEF IInv
      <4>2. "candidate" \in DOCUMENT_STATES /\ 0 \in Nat
        BY DEF DOCUMENT_STATES
      <4> QED
        BY <1>0, <3>1, <3>3, <3>4, <4>1, <4>2, HeadSafe
    <3> QED
      BY <1>1, <2>6, <3>1, <3>4 DEF RestoreVersionWrite
  <2>7. "draft" \in DOCUMENT_STATES /\ UserStates \subseteq DOCUMENT_STATES
    BY DocumentAssumption DEF DOCUMENT_STATES
  <2>8. \A d \in Doc :
          (\E x \in {"candidate", "approved"} : SetScenePlan(p, d, x)) \/ ApproveScene(p, d) \/ MarkSceneDrafted(p, d)
          => ver' = ver /\ doc' = doc
    BY DEF SetScenePlan, ApproveScene, MarkSceneDrafted
  <2>9. \A i \in VersionIds : RejectVersionRead(p, i) \/ RestoreVersionRead(p, i) => ver' = ver /\ doc' = doc
    BY DEF RejectVersionRead, RestoreVersionRead
  <2>10. Crash(p) \/ CreateSceneCard(p) => ver' = ver /\ doc' = doc
    BY DEF Crash, CreateSceneCard
  <2>11. \A d \in Doc, s \in UserStates : CreateDocument(p, d, s) => InsertDocument(d, s)
    BY DEF CreateDocument
  <2>12. \A d \in Doc : CreateSceneDocument(p, d) => InsertDocument(d, "draft")
    BY DEF CreateSceneDocument
  <2> QED
    BY <1>1, <1>2, <2>1, <2>2, <2>3, <2>4, <2>5, <2>6, <2>7, <2>8, <2>9, <2>10, <2>11, <2>12,
       AcceptSafe, RejectSafe
    DEF DocStep
<1> QED
  BY <1>1, <1>2 DEF Next, docVars

\* A rejected version is never accepted or activated again.
THEOREM RejectionIsFinal == Spec => RejectedStaysRejected
<1>1. StepSafe => \A i \in VersionIds : ver[i].state = "rejected" => ver'[i].state = "rejected"
  BY DEF StepSafe
<1> QED
  BY <1>1, Invariance, EveryStepSafe, PTL DEF Spec, RejectedStaysRejected

\* New text replaces exactly the version its writer had read, for any number of
\* processes and documents, through edits, chapter imports and acceptances.
THEOREM NoUpdateIsLost == Spec => NoLostUpdate
<1>1. StepSafe => \A d \in Doc : ReplacesWhatWasRead(d)
  BY DEF StepSafe
<1> QED
  BY <1>1, Invariance, EveryStepSafe, PTL DEF Spec, NoLostUpdate
=============================================================================
