-------------------------- MODULE MergeGate_proofs --------------------------
(***************************************************************************)
(* Safety of merge-govern for any number of clones, targets, rows, merges  *)
(* and kills.  What relates two merges into one target needs that they     *)
(* were given the same clones, in whatever order.                          *)
(***************************************************************************)
EXTENDS MergeGate, FiniteSetTheorems, SequenceTheorems, WellFoundedInduction, TLAPS

\* A non-empty set of naturals has a least element.
LEMMA LeastNat ==
  ASSUME NEW S \in SUBSET Nat, S # {}
  PROVE  \E i \in S : \A j \in S : i <= j
<1>. DEFINE Less == {ss \in Nat \X Nat : ss[1] < ss[2]}
<1>0. IsWellFoundedOn(Less, Nat)
  BY NatLessThanWellFounded, Zenon DEF OpToRel
<1>. HIDE DEF Less
<1>1. PICK i \in S : \A j \in S : ~(<<j, i>> \in Less)
  BY <1>0, WFMin
<1>2. \A j \in S : ~(j < i)
  BY <1>1 DEF Less
<1>. QED
  BY <1>2

----------------------------------------------------------------------------
(* The union.                                                              *)

ClonesKept == \A c \in Clones : clone[c] \in Contents[c]

\* The union takes each of its rows from a clone of the merge, and every id
\* that is active in one of them is in it.
LEMMA UnionIds ==
  ASSUME NEW order \in Seq(Clones)
  PROVE  /\ \A r \in Union(order) : \E i \in 1..Len(order) : r \in ActiveRows(order[i])
         /\ \A i \in 1..Len(order) : \A r \in ActiveRows(order[i]) :
              \E s \in Union(order) : s.id = r.id
<1>1. \A r \in Union(order) : \E i \in 1..Len(order) : r \in ActiveRows(order[i])
  BY DEF Union
<1>2. ASSUME NEW i \in 1..Len(order), NEW r \in ActiveRows(order[i])
      PROVE  \E s \in Union(order) : s.id = r.id
  <2>. DEFINE Having == {j \in 1..Len(order) : r.id \in Ids(ActiveRows(order[j]))}
  <2>1. Having \in SUBSET Nat /\ i \in Having
    BY <1>2 DEF Ids
  <2>2. PICK k \in Having : \A j \in Having : k <= j
    BY <2>1, LeastNat
  <2>3. PICK s \in ActiveRows(order[k]) : s.id = r.id
    BY <2>2 DEF Ids
  <2>4. \A j \in 1..(k - 1) : s.id \notin Ids(ActiveRows(order[j]))
    BY <2>2, <2>3
  <2>5. s \in Union(order)
    BY <2>2, <2>3, <2>4 DEF Union
  <2>. QED
    BY <2>3, <2>5
<1>. QED
  BY <1>1, <1>2

\* Rows of the union are rows, finitely many, and a merge clock is a positive
\* number.
LEMMA UnionRows ==
  ASSUME TypeOK, ClonesKept, NEW p \in Mergers
  PROVE  /\ Union(Order[p]) \subseteq Row
         /\ IsFiniteSet(Union(Order[p]))
         /\ \A r \in Row : MergeClock(p, r) \in Nat /\ MergeClock(p, r) > 0
<1>0. Order[p] \in Seq(Clones) /\ Len(Order[p]) \in Nat
  BY MergeAssumption DEF AOrder
<1>1. \A i \in 1..Len(Order[p]) :
        /\ Order[p][i] \in Clones
        /\ ActiveRows(Order[p][i]) \subseteq Row
        /\ IsFiniteSet(ActiveRows(Order[p][i]))
  <2>1. TAKE i \in 1..Len(Order[p])
  <2>2. Order[p][i] \in Clones
    BY <1>0
  <2>3. IsFiniteSet(clone[Order[p][i]]) /\ clone[Order[p][i]] \subseteq Row
    BY <2>2, RowsAssumption DEF AContents, ClonesKept, TypeOK
  <2>. QED
    BY <2>2, <2>3, FS_Subset DEF ActiveRows
<1>. DEFINE All == {ActiveRows(Order[p][i]) : i \in 1..Len(Order[p])}
<1>2. IsFiniteSet(All)
  <2>. DEFINE At == [i \in 1..Len(Order[p]) |-> ActiveRows(Order[p][i])]
  <2>1. IsFiniteSet(1..Len(Order[p]))
    BY <1>0, FS_Interval
  <2>2. At \in Surjection(1..Len(Order[p]), All)
    BY DEF Surjection
  <2>. QED
    BY <2>1, <2>2, FS_Surjection
<1>3. \A A \in All : IsFiniteSet(A)
  BY <1>1
<1>4. IsFiniteSet(UNION All)
  BY <1>2, <1>3, FS_UNION
<1>5. Union(Order[p]) \subseteq UNION All
  BY DEF Union
<1>6. Union(Order[p]) \subseteq Row
  BY <1>1, <1>5
<1>7. ASSUME NEW r \in Row
      PROVE  MergeClock(p, r) \in Nat /\ MergeClock(p, r) > 0
  <2>. DEFINE Below == {s \in Union(Order[p]) : s.id < r.id}
  <2>1. IsFiniteSet(Below)
    BY <1>4, <1>5, FS_Subset
  <2>2. Cardinality(Below) \in Nat
    BY <2>1, FS_CardinalityType
  <2>. HIDE DEF Below
  <2>3. MergeClock(p, r) = 1 + Cardinality(Below)
    BY DEF MergeClock, Below
  <2>. QED
    BY <2>2, <2>3
<1>8. IsFiniteSet(Union(Order[p]))
  BY <1>4, <1>5, FS_Subset
<1>. QED
  BY <1>6, <1>7, <1>8

----------------------------------------------------------------------------
(* Types.                                                                  *)

\* The clones are what they were, and every variable keeps its type.
Types == TypeOK /\ ClonesKept

LEMMA InitTypes == Init => Types
<1>. SUFFICES ASSUME Init PROVE Types
  OBVIOUS
<1>1. clone \in [Clones -> SUBSET Row] /\ ClonesKept
  BY RowsAssumption DEF Init, AContents, ClonesKept
<1>2. store \in [Targets -> SUBSET Row]
  BY RowsAssumption DEF Init, ABases
<1>. QED
  BY <1>1, <1>2, MergeAssumption DEF Init, TypeOK, Types, AKills

\* Promotion of a row keeps the types.
LEMMA PromoteTypes ==
  ASSUME Types, NEW p \in Mergers, PromoteRow(p)
  PROVE  Types'
<1>. USE DEF Types, TypeOK
<1>0. Into[p] \in Targets
  BY MergeAssumption DEF AInto
<1>1. PICK r \in todo[p] :
        /\ store' = [store EXCEPT ![Into[p]] =
                       @ \cup {[r EXCEPT !.active = TRUE, !.at = MergeClock(p, r)]}]
        /\ chain' = [chain EXCEPT ![Into[p]] = Append(@, r.id)]
        /\ todo' = [todo EXCEPT ![p] = @ \ {r}]
        /\ seen' = Accrete(p, r)
  BY DEF PromoteRow
<1>2. r \in Row
  BY <1>1
<1>3. [r EXCEPT !.active = TRUE, !.at = MergeClock(p, r)] \in Row
  BY <1>2, UnionRows DEF Row
<1>4. store' \in [Targets -> SUBSET Row]
  BY <1>0, <1>1, <1>3
<1>5. chain' \in [Targets -> Seq(Memories)]
  <2>1. r.id \in Memories
    BY <1>2 DEF Row
  <2>2. Append(chain[Into[p]], r.id) \in Seq(Memories)
    BY <1>0, <2>1, AppendProperties
  <2>. QED
    BY <1>1, <2>2
<1>6. todo' \in [Mergers -> SUBSET Row]
  BY <1>1
<1>7. seen' \in [Mergers -> SUBSET (Texts \cup {Redacted})]
  BY <1>1, <1>2 DEF Accrete, Row
<1>. QED
  BY <1>4, <1>5, <1>6, <1>7 DEF PromoteRow, ClonesKept

LEMMA NextTypes == Types /\ [Next]_vars => Types'
<1>. SUFFICES ASSUME Types, [Next]_vars PROVE Types'
  OBVIOUS
<1>. USE DEF Types, TypeOK
<1>0. \A p \in Mergers : Into[p] \in Targets
  BY MergeAssumption DEF AInto
<1>1. ASSUME NEW p \in Mergers, StartMerge(p) PROVE Types'
  <2>1. Union(Order[p]) \subseteq Row
    BY UnionRows
  <2>2. Seed(store[Into[p]]) \subseteq Texts \cup {Redacted}
    BY <1>0 DEF Seed, TextsIn, Row
  <2>. QED
    BY <1>1, <2>1, <2>2 DEF StartMerge, ClonesKept
<1>2. ASSUME NEW p \in Mergers, Quarantine(p) PROVE Types'
  BY <1>2 DEF Quarantine, ClonesKept
<1>3. ASSUME NEW p \in Mergers, PromoteRow(p) PROVE Types'
  BY <1>3, PromoteTypes
<1>4. ASSUME NEW p \in Mergers, Conflict(p) PROVE Types'
  BY <1>4 DEF Conflict, ClonesKept
<1>5. ASSUME NEW p \in Mergers, FinishMerge(p) PROVE Types'
  BY <1>5 DEF FinishMerge, ClonesKept
<1>6. ASSUME NEW p \in Mergers, RefuseUnion(p) PROVE Types'
  BY <1>6 DEF RefuseUnion, ClonesKept
<1>7. ASSUME NEW p \in Mergers, Kill(p) PROVE Types'
  BY <1>7, MergeAssumption DEF Kill, ClonesKept, AKills
<1>8. ASSUME NEW d \in Targets, Retire(d) PROVE Types'
  <2>1. PICK r \in store[d] :
          store' = [store EXCEPT ![d] = (@ \ {r}) \cup {[r EXCEPT !.active = FALSE]}]
    BY <1>8 DEF Retire
  <2>2. r \in Row
    OBVIOUS
  <2>3. [r EXCEPT !.active = FALSE] \in Row
    BY <2>2 DEF Row
  <2>. QED
    BY <1>8, <2>1, <2>3 DEF Retire, ClonesKept, merger
<1>9. ASSUME NEW d \in Targets, Redact(d) PROVE Types'
  <2>1. PICK r \in store[d] :
          /\ r.text \in Texts
          /\ store' = [store EXCEPT ![d] = (@ \ {r}) \cup {[r EXCEPT !.text = Redacted]}]
          /\ receipts' = [receipts EXCEPT ![d] = @ \cup {r.text}]
    BY <1>9 DEF Redact
  <2>2. r \in Row
    OBVIOUS
  <2>3. [r EXCEPT !.text = Redacted] \in Row
    BY <2>2 DEF Row
  <2>. QED
    BY <1>9, <2>1, <2>3 DEF Redact, ClonesKept, merger
<1>10. CASE UNCHANGED vars
  BY <1>10 DEF vars, ClonesKept
<1>. QED
  BY <1>1, <1>2, <1>3, <1>4, <1>5, <1>6, <1>7, <1>8, <1>9, <1>10 DEF Next, Govern

\* Type correctness: every variable keeps its type.
THEOREM Typing == Spec => []TypeOK
<1>1. Types => TypeOK
  BY DEF Types
<1>. QED
  BY InitTypes, NextTypes, <1>1, PTL DEF Spec

----------------------------------------------------------------------------
(* One memory for each text.                                               *)

Given(p) == Union(Order[p])

\* Merges into one target were given the same clones.
SameClones ==
  \A p, q \in Mergers : Into[p] = Into[q] =>
    \A i \in 1..Len(Order[p]) : \E j \in 1..Len(Order[q]) : Order[p][i] = Order[q][j]

\* The order in which the clones are given does not decide which ids are united.
LEMMA SameIds ==
  ASSUME SameClones, NEW p \in Mergers, NEW q \in Mergers, Into[p] = Into[q],
         NEW r \in Given(p)
  PROVE  \E s \in Given(q) : s.id = r.id
<1>0. Order[p] \in Seq(Clones) /\ Order[q] \in Seq(Clones)
  BY MergeAssumption DEF AOrder
<1>1. PICK i \in 1..Len(Order[p]) : r \in ActiveRows(Order[p][i])
  BY <1>0, UnionIds DEF Given
<1>2. PICK j \in 1..Len(Order[q]) : Order[p][i] = Order[q][j]
  BY SMT DEF SameClones
<1>3. r \in ActiveRows(Order[q][j])
  BY <1>1, <1>2
<1>. QED
  BY <1>0, <1>3, UnionIds DEF Given

\* The clones are read-only: the union stays what it is.
LEMMA GivenKept ==
  ASSUME clone' = clone, NEW p \in Mergers
  PROVE  Given(p)' = Given(p)
BY DEF Given, Union, ActiveRows

\* A running merge walks a union whose rows all derive their ids.
Started(p) ==
  pc[p] = "running" => todo[p] \subseteq Given(p) /\ \A r \in Given(p) : Derived(r)

\* What it has governed was refused or is among the texts it has seen.
Walked(p) ==
  pc[p] = "running" =>
    \A r \in Given(p) \ todo[p] : r.text \in Refused \cup seen[p]

\* It has seen every text the target had of its own and still has.
SeenBase(p) ==
  pc[p] = "running" =>
    \A s \in store[Into[p]] : s.at = 0 => s.text \in seen[p] \cup {Redacted}

\* The texts a target has had: those it holds and those that were redacted.
Had(d) == TextsIn(store[d]) \cup receipts[d]

SeenTrue(p) == pc[p] = "running" => seen[p] \subseteq Had(Into[p])

\* A merged row is the lowest of the union with its text, which the gate lets
\* in and which only a redaction removes from it.
Merit(p) ==
  \A s \in store[Into[p]] : s.at > 0 =>
    /\ TextOf[s.id] \notin Refused
    /\ s.text = TextOf[s.id] \/ (s.text = Redacted /\ TextOf[s.id] \in receipts[Into[p]])
    /\ \E r \in Given(p) : r.id = s.id
    /\ \A r \in Given(p) : TextOf[r.id] = TextOf[s.id] => s.id <= r.id

\* A finished merge has covered the union.
Finished(p) ==
  pc[p] = "done" =>
    \A r \in Given(p) : Derived(r) /\ r.text \in Refused \cup Had(Into[p])

MergerInv(p) ==
  Started(p) /\ Walked(p) /\ SeenBase(p) /\ SeenTrue(p) /\ Merit(p) /\ Finished(p)

MergeInv == Types /\ OneMemoryPerText /\ \A p \in Mergers : MergerInv(p)

LEMMA MergeInit == Init => MergeInv
<1>. SUFFICES ASSUME Init PROVE MergeInv
  OBVIOUS
<1>1. Types
  BY InitTypes
<1>2. PICK base \in Bases : store = [d \in Targets |-> base]
  BY DEF Init
<1>3. OneEach(base) /\ \A r \in base : r.at = 0
  BY RowsAssumption DEF ABases
<1>4. OneMemoryPerText
  BY <1>2, <1>3 DEF OneMemoryPerText
<1>5. ASSUME NEW p \in Mergers PROVE MergerInv(p)
  <2>1. pc[p] = "idle" /\ Into[p] \in Targets
    BY MergeAssumption DEF Init, AInto
  <2>. QED
    BY <1>2, <1>3, <2>1
    DEF MergerInv, Started, Walked, SeenBase, SeenTrue, Merit, Finished
<1>. QED
  BY <1>1, <1>4, <1>5 DEF MergeInv

\* A step that leaves the stores alone leaves the other merges' facts alone.
LEMMA OthersKept ==
  ASSUME MergeInv, NEW p \in Mergers, NEW q \in Mergers, p # q,
         UNCHANGED <<clone, store, receipts>>,
         pc'[q] = pc[q], todo'[q] = todo[q], seen'[q] = seen[q]
  PROVE  MergerInv(q)'
<1>1. MergerInv(q) /\ Given(q)' = Given(q)
  BY GivenKept DEF MergeInv
<1>. QED
  BY <1>1 DEF MergerInv, Started, Walked, SeenBase, SeenTrue, Merit, Finished,
              Derived, Had, TextsIn

\* Its own facts, of the stores, are left alone as well.
LEMMA MeritKept ==
  ASSUME MergeInv, NEW p \in Mergers, UNCHANGED <<clone, store, receipts>>
  PROVE  Merit(p)' /\ OneMemoryPerText'
<1>1. MergerInv(p) /\ Given(p)' = Given(p) /\ OneMemoryPerText
  BY GivenKept DEF MergeInv
<1>. QED
  BY <1>1 DEF MergerInv, Merit, OneMemoryPerText

\* Starting: the union is still to be walked, the target's texts are seen.
LEMMA StartKeeps ==
  ASSUME MergeInv, NEW p \in Mergers, StartMerge(p)
  PROVE  \A q \in Mergers : MergerInv(q)'
<1>. USE DEF StartMerge
<1>0. pc \in [Mergers -> {"idle", "running", "done", "failed"}]
      /\ todo \in [Mergers -> SUBSET Row]
      /\ seen \in [Mergers -> SUBSET (Texts \cup {Redacted})]
  BY DEF MergeInv, Types, TypeOK
<1>1. ASSUME NEW q \in Mergers, q # p PROVE MergerInv(q)'
  BY <1>0, <1>1, OthersKept
<1>2. Given(p)' = Given(p) /\ Merit(p)'
  BY GivenKept, MeritKept
<1>3. /\ pc'[p] = "running" /\ todo'[p] = Given(p)
      /\ seen'[p] = TextsIn(store[Into[p]])
      /\ \A r \in Given(p) : Derived(r)
  BY <1>0 DEF Given, Seed
<1>4. MergerInv(p)'
  BY <1>2, <1>3 DEF MergerInv, Started, Walked, SeenBase, SeenTrue, Finished,
                    Derived, Had, TextsIn
<1>. QED
  BY <1>1, <1>4

\* Quarantine: the row is left behind because it was refused or seen.
LEMMA QuarantineKeeps ==
  ASSUME MergeInv, NEW p \in Mergers, Quarantine(p)
  PROVE  \A q \in Mergers : MergerInv(q)'
<1>0. pc \in [Mergers -> {"idle", "running", "done", "failed"}]
      /\ todo \in [Mergers -> SUBSET Row]
      /\ seen \in [Mergers -> SUBSET (Texts \cup {Redacted})]
  BY DEF MergeInv, Types, TypeOK
<1>1. PICK r \in todo[p] : ~Passes(p, r) /\ todo' = [todo EXCEPT ![p] = @ \ {r}]
  BY DEF Quarantine
<1>2. ASSUME NEW q \in Mergers, q # p PROVE MergerInv(q)'
  BY <1>0, <1>1, <1>2, OthersKept DEF Quarantine
<1>3. Given(p)' = Given(p) /\ Merit(p)'
  BY GivenKept, MeritKept DEF Quarantine
<1>4. MergerInv(p) /\ pc[p] = "running" /\ pc' = pc /\ seen' = seen
      /\ store' = store /\ receipts' = receipts
  BY DEF MergeInv, Quarantine
<1>5. r.text \in Refused \cup seen[p]
  BY <1>1 DEF Passes
<1>6. todo'[p] = todo[p] \ {r}
  BY <1>0, <1>1
<1>7. Walked(p)'
  BY <1>3, <1>4, <1>5, <1>6 DEF MergerInv, Walked
<1>8. MergerInv(p)'
  BY <1>3, <1>4, <1>6, <1>7 DEF MergerInv, Started, SeenBase, SeenTrue, Finished,
                                Derived, Had, TextsIn
<1>. QED
  BY <1>2, <1>8

\* A finished merge: every row it was given was refused or seen, and what was
\* seen the target has had.
LEMMA FinishKeeps ==
  ASSUME MergeInv, NEW p \in Mergers, FinishMerge(p)
  PROVE  \A q \in Mergers : MergerInv(q)'
<1>0. pc \in [Mergers -> {"idle", "running", "done", "failed"}]
      /\ todo \in [Mergers -> SUBSET Row]
      /\ seen \in [Mergers -> SUBSET (Texts \cup {Redacted})]
  BY DEF MergeInv, Types, TypeOK
<1>2. ASSUME NEW q \in Mergers, q # p PROVE MergerInv(q)'
  BY <1>0, <1>2, OthersKept DEF FinishMerge
<1>3. Given(p)' = Given(p) /\ Merit(p)'
  BY GivenKept, MeritKept DEF FinishMerge
<1>4. MergerInv(p) /\ pc[p] = "running" /\ todo[p] = {} /\ pc'[p] = "done"
      /\ store' = store /\ receipts' = receipts
  BY <1>0 DEF MergeInv, FinishMerge
<1>5. \A r \in Given(p) : Derived(r) /\ r.text \in Refused \cup Had(Into[p])
  BY <1>4 DEF MergerInv, Started, Walked, SeenTrue
<1>6. MergerInv(p)'
  BY <1>3, <1>4, <1>5 DEF MergerInv, Started, Walked, SeenBase, SeenTrue, Finished,
                          Derived, Had, TextsIn
<1>. QED
  BY <1>2, <1>6

\* A merge that stops short knows nothing.
LEMMA StopKeeps ==
  ASSUME MergeInv, NEW p \in Mergers, Conflict(p) \/ RefuseUnion(p) \/ Kill(p)
  PROVE  \A q \in Mergers : MergerInv(q)'
<1>0. pc \in [Mergers -> {"idle", "running", "done", "failed"}]
      /\ todo \in [Mergers -> SUBSET Row]
      /\ seen \in [Mergers -> SUBSET (Texts \cup {Redacted})]
  BY DEF MergeInv, Types, TypeOK
<1>1. UNCHANGED <<clone, store, receipts>> /\ pc'[p] \in {"idle", "failed"}
  BY <1>0 DEF Conflict, RefuseUnion, Kill
<1>2. ASSUME NEW q \in Mergers, q # p PROVE MergerInv(q)'
  BY <1>0, <1>1, <1>2, OthersKept DEF Conflict, RefuseUnion, Kill
<1>3. Merit(p)'
  BY <1>1, MeritKept
<1>4. MergerInv(p)'
  BY <1>1, <1>3 DEF MergerInv, Started, Walked, SeenBase, SeenTrue, Finished
<1>. QED
  BY <1>2, <1>4

\* What retiring or redacting does: one row keeps its id and its clock, and its
\* text unless a receipt names it.
LEMMA Altered ==
  ASSUME Types, NEW d \in Targets, Retire(d) \/ Redact(d)
  PROVE  \E r \in store[d], n \in Row :
           /\ n.id = r.id /\ n.at = r.at
           /\ \/ n.text = r.text /\ receipts' = receipts
              \/ /\ n.text = Redacted /\ r.text \in Texts
                 /\ receipts' = [receipts EXCEPT ![d] = @ \cup {r.text}]
           /\ store' = [store EXCEPT ![d] = (@ \ {r}) \cup {n}]
<1>0. store \in [Targets -> SUBSET Row]
  BY DEF Types, TypeOK
<1>1. CASE Retire(d)
  <2>1. PICK r \in store[d] :
          store' = [store EXCEPT ![d] = (@ \ {r}) \cup {[r EXCEPT !.active = FALSE]}]
    BY <1>1 DEF Retire
  <2>. DEFINE n == [r EXCEPT !.active = FALSE]
  <2>2. r \in Row
    BY <1>0
  <2>3. n \in Row /\ n.id = r.id /\ n.at = r.at /\ n.text = r.text
    BY <2>2 DEF Row
  <2>. HIDE DEF n
  <2>. QED
    BY <1>1, <2>1, <2>3 DEF Retire, n
<1>2. CASE Redact(d)
  <2>1. PICK r \in store[d] :
          /\ r.text \in Texts
          /\ store' = [store EXCEPT ![d] = (@ \ {r}) \cup {[r EXCEPT !.text = Redacted]}]
          /\ receipts' = [receipts EXCEPT ![d] = @ \cup {r.text}]
    BY <1>2 DEF Redact
  <2>. DEFINE n == [r EXCEPT !.text = Redacted]
  <2>2. r \in Row
    BY <1>0
  <2>3. n \in Row /\ n.id = r.id /\ n.at = r.at /\ n.text = Redacted
    BY <2>2 DEF Row
  <2>. HIDE DEF n
  <2>. QED
    BY <2>1, <2>3 DEF n
<1>. QED
  BY <1>1, <1>2

\* Retiring or redacting a row of a target: the id and the clock stay, and so
\* does the text, or the receipt of it.
LEMMA AlterKeeps ==
  ASSUME MergeInv, NEW d \in Targets, Retire(d) \/ Redact(d)
  PROVE  OneMemoryPerText' /\ \A q \in Mergers : MergerInv(q)'
<1>0. /\ store \in [Targets -> SUBSET Row] /\ receipts \in [Targets -> SUBSET Texts]
      /\ OneMemoryPerText /\ \A q \in Mergers : MergerInv(q) /\ Into[q] \in Targets
  BY MergeAssumption DEF MergeInv, Types, TypeOK, AInto
<1>1. PICK r \in store[d], n \in Row :
        /\ n.id = r.id /\ n.at = r.at
        /\ \/ n.text = r.text /\ receipts' = receipts
           \/ /\ n.text = Redacted /\ r.text \in Texts
              /\ receipts' = [receipts EXCEPT ![d] = @ \cup {r.text}]
        /\ store' = [store EXCEPT ![d] = (@ \ {r}) \cup {n}]
  BY Altered DEF MergeInv
<1>2. /\ store'[d] = (store[d] \ {r}) \cup {n}
      /\ \A e \in Targets \ {d} : store'[e] = store[e] /\ receipts'[e] = receipts[e]
      /\ receipts[d] \subseteq receipts'[d]
      /\ UNCHANGED <<clone, pc, todo, seen>>
  BY <1>0, <1>1 DEF Retire, Redact, merger
<1>3. OneEach(store'[d])
  <2>1. OneEach(store[d])
    BY <1>0 DEF OneMemoryPerText
  <2>2. Redacted \notin Texts
    BY MergeAssumption DEF ARedacted
  <2>. QED
    BY <1>1, <1>2, <2>1, <2>2 DEF OneEach
<1>4. OneMemoryPerText'
  BY <1>0, <1>2, <1>3 DEF OneMemoryPerText
<1>5. \A e \in Targets : Had(e) \subseteq Had(e)'
  BY <1>0, <1>1, <1>2 DEF Had, TextsIn
<1>6. ASSUME NEW q \in Mergers PROVE MergerInv(q)'
  <2>1. MergerInv(q) /\ Given(q)' = Given(q) /\ Into[q] \in Targets
    BY <1>0, <1>2, GivenKept
  <2>2. Started(q)' /\ Walked(q)'
    BY <1>2, <2>1 DEF MergerInv, Started, Walked, Derived
  <2>3. SeenBase(q)'
    BY <1>1, <1>2, <2>1 DEF MergerInv, SeenBase
  <2>4. SeenTrue(q)' /\ Finished(q)'
    BY <1>2, <1>5, <2>1 DEF MergerInv, SeenTrue, Finished, Derived
  <2>5. Merit(q)'
    <3>1. CASE Into[q] # d
      BY <1>2, <2>1, <3>1 DEF MergerInv, Merit
    <3>2. CASE Into[q] = d
      <4>1. ASSUME NEW s \in store'[d], s.at > 0
            PROVE  /\ TextOf[s.id] \notin Refused
                   /\ s.text = TextOf[s.id]
                      \/ (s.text = Redacted /\ TextOf[s.id] \in receipts'[d])
                   /\ \E g \in Given(q) : g.id = s.id
                   /\ \A g \in Given(q) : TextOf[g.id] = TextOf[s.id] => s.id <= g.id
        <5>1. CASE s \in store[d]
          BY <1>2, <2>1, <3>2, <4>1, <5>1 DEF MergerInv, Merit
        <5>2. CASE s = n
          <6>1. Redacted \notin Texts /\ r.at > 0
            BY <1>1, <4>1, <5>2, MergeAssumption DEF ARedacted
          <6>. QED
            BY <1>0, <1>1, <1>2, <2>1, <3>2, <5>2, <6>1 DEF MergerInv, Merit
        <5>. QED
          BY <1>2, <5>1, <5>2
      <4>. QED
        BY <2>1, <3>2, <4>1 DEF Merit
    <3>. QED
      BY <3>1, <3>2
  <2>. QED
    BY <2>2, <2>3, <2>4, <2>5 DEF MergerInv
<1>. QED
  BY <1>4, <1>6

\* What promotion does: the lowest row of the union with a text that is neither
\* refused nor one of the target's own is added, stamped by the merge clock, and
\* told in the target's events; every lower row was refused or seen.
LEMMA Promoted ==
  ASSUME MergeInv, NEW p \in Mergers, PromoteRow(p)
  PROVE  \E r \in todo[p], n \in Row :
           /\ r.id \notin Ids(store[Into[p]])
           /\ n.id = r.id /\ n.text = r.text /\ n.at > 0 /\ n.at = MergeClock(p, r)
           /\ store' = [store EXCEPT ![Into[p]] = @ \cup {n}]
           /\ chain' = [chain EXCEPT ![Into[p]] = Append(@, r.id)]
           /\ todo' = [todo EXCEPT ![p] = @ \ {r}]
           /\ seen' = [seen EXCEPT ![p] = @ \cup {r.text}]
           /\ r \in Given(p) /\ r \in Row /\ r.text = TextOf[r.id]
           /\ r.text \in Texts /\ r.text \notin Refused /\ r.text \notin seen[p]
           /\ \A g \in Given(p) : TextOf[g.id] = r.text => r.id <= g.id
           /\ \A g \in Given(p) : g.id < r.id => g.text \in Refused \cup seen[p]
<1>0. /\ todo \in [Mergers -> SUBSET Row] /\ MergerInv(p) /\ Given(p) \subseteq Row
      /\ pc[p] = "running"
  BY UnionRows DEF MergeInv, Types, TypeOK, PromoteRow, Given
<1>1. PICK r \in todo[p] :
        /\ IsNext(p, r) /\ Passes(p, r) /\ r.id \notin Ids(store[Into[p]])
        /\ store' = [store EXCEPT ![Into[p]] =
                       @ \cup {[r EXCEPT !.active = TRUE, !.at = MergeClock(p, r)]}]
        /\ chain' = [chain EXCEPT ![Into[p]] = Append(@, r.id)]
        /\ todo' = [todo EXCEPT ![p] = @ \ {r}]
        /\ seen' = [seen EXCEPT ![p] = @ \cup {r.text}]
  BY DEF PromoteRow, Accrete
<1>2. r \in Row
  BY <1>0
<1>3. PICK n \in Row :
        /\ n = [r EXCEPT !.active = TRUE, !.at = MergeClock(p, r)]
        /\ n.id = r.id /\ n.text = r.text /\ n.at > 0 /\ n.at = MergeClock(p, r)
  <2>. DEFINE n == [r EXCEPT !.active = TRUE, !.at = MergeClock(p, r)]
  <2>1. MergeClock(p, r) \in Nat /\ MergeClock(p, r) > 0
    BY <1>2, UnionRows DEF MergeInv, Types
  <2>2. n \in Row /\ n.id = r.id /\ n.text = r.text /\ n.at > 0 /\ n.at = MergeClock(p, r)
    BY <1>2, <2>1 DEF Row
  <2>. HIDE DEF n
  <2>. QED
    BY <2>2 DEF n
<1>4. /\ r \in Given(p) /\ r.text = TextOf[r.id] /\ r.text \in Texts
      /\ r.text \notin Refused /\ r.text \notin seen[p]
  BY <1>0, <1>1, <1>2, MergeAssumption DEF MergerInv, Started, Derived, Passes, Row, ATexts
<1>5. ASSUME NEW g \in Given(p), TextOf[g.id] = r.text
      PROVE  r.id <= g.id
  <2>1. g.text = r.text
    BY <1>0, <1>5 DEF MergerInv, Started, Derived
  <2>2. g \in todo[p]
    BY <1>0, <1>4, <2>1 DEF MergerInv, Walked
  <2>. QED
    BY <1>1, <2>2 DEF IsNext
<1>6. ASSUME NEW g \in Given(p), g.id < r.id
      PROVE  g.text \in Refused \cup seen[p]
  <2>1. g.id \in Nat /\ r.id \in Nat
    BY <1>0, <1>2, MergeAssumption DEF Row, AMemories
  <2>2. g \notin todo[p]
    BY <1>1, <1>6, <2>1 DEF IsNext
  <2>. QED
    BY <1>0, <2>2 DEF MergerInv, Walked
<1>. QED
  BY <1>1, <1>2, <1>3, <1>4, <1>5, <1>6

\* Promoting a row: it is the lowest with its text, and no row of the target
\* has that text.
LEMMA PromoteKeeps ==
  ASSUME SameClones, MergeInv, NEW p \in Mergers, PromoteRow(p)
  PROVE  OneMemoryPerText' /\ \A q \in Mergers : MergerInv(q)'
<1>. DEFINE d == Into[p]
<1>0. /\ store \in [Targets -> SUBSET Row] /\ todo \in [Mergers -> SUBSET Row]
      /\ seen \in [Mergers -> SUBSET (Texts \cup {Redacted})]
      /\ OneMemoryPerText /\ d \in Targets
      /\ \A q \in Mergers : MergerInv(q) /\ Into[q] \in Targets
  BY MergeAssumption DEF MergeInv, Types, TypeOK, AInto
<1>1. PICK r \in todo[p], n \in Row :
        /\ r.id \notin Ids(store[d])
        /\ n.id = r.id /\ n.text = r.text /\ n.at > 0
        /\ store' = [store EXCEPT ![d] = @ \cup {n}]
        /\ todo' = [todo EXCEPT ![p] = @ \ {r}]
        /\ seen' = [seen EXCEPT ![p] = @ \cup {r.text}]
        /\ r \in Given(p) /\ r \in Row /\ r.text = TextOf[r.id]
        /\ r.text \in Texts /\ r.text \notin Refused /\ r.text \notin seen[p]
        /\ \A g \in Given(p) : TextOf[g.id] = r.text => r.id <= g.id
  BY Promoted
<1>. HIDE DEF d
<1>2. /\ store'[d] = store[d] \cup {n}
      /\ \A e \in Targets \ {d} : store'[e] = store[e]
      /\ UNCHANGED <<clone, receipts, pc>> /\ pc[p] = "running"
  BY <1>0, <1>1 DEF PromoteRow
<1>3. /\ r \in Given(p) /\ r.text = TextOf[r.id] /\ r.id \in Memories
      /\ r.text \in Texts /\ r.text \notin Refused /\ r.text \notin seen[p]
  BY <1>1 DEF Row
<1>4. \A g \in Given(p) : TextOf[g.id] = r.text => r.id <= g.id
  BY <1>1
<1>5. ASSUME NEW s \in store[d] PROVE s.id # r.id /\ s.text # r.text
  <2>1. s.id # r.id
    BY <1>1 DEF Ids
  <2>2. CASE s.at = 0
    <3>1. s.text \in seen[p] \cup {Redacted}
      BY <1>0, <1>2, <2>2 DEF MergerInv, SeenBase, d
    <3>. QED
      BY <1>3, <2>1, <3>1, MergeAssumption DEF ARedacted
  <2>3. CASE s.at > 0 /\ s.text = r.text
    <3>1. /\ s.text = TextOf[s.id]
          /\ \E g \in Given(p) : g.id = s.id
          /\ \A g \in Given(p) : TextOf[g.id] = TextOf[s.id] => s.id <= g.id
      BY <1>0, <1>3, <2>3, MergeAssumption DEF MergerInv, Merit, d, ARedacted
    <3>2. s.id <= r.id /\ r.id <= s.id
      BY <1>3, <1>4, <2>3, <3>1
    <3>3. s.id \in Memories
      BY <1>0 DEF Row
    <3>4. s.id \in Nat /\ r.id \in Nat
      BY <1>3, <3>3, MergeAssumption DEF AMemories
    <3>. QED
      BY <2>1, <3>2, <3>4
  <2>4. s.at \in Nat
    BY <1>0 DEF Row
  <2>. QED
    BY <2>1, <2>2, <2>3, <2>4
<1>6. OneEach(store'[d])
  <2>1. OneEach(store[d])
    BY <1>0 DEF OneMemoryPerText
  <2>. QED
    BY <1>1, <1>2, <1>5, <2>1 DEF OneEach
<1>7. OneMemoryPerText'
  BY <1>0, <1>2, <1>6 DEF OneMemoryPerText
<1>8. \A e \in Targets : Had(e) \subseteq Had(e)'
  BY <1>2 DEF Had, TextsIn
<1>9. ASSUME NEW q \in Mergers PROVE Merit(q)'
  <2>1. Merit(q) /\ Given(q)' = Given(q) /\ Into[q] \in Targets
    BY <1>0, <1>2, GivenKept DEF MergerInv
  <2>2. CASE Into[q] # d
    BY <1>2, <2>1, <2>2 DEF Merit
  <2>3. CASE Into[q] = d
    <3>1. \E g \in Given(q) : g.id = r.id
      BY <1>3, <2>3, SameIds DEF d
    <3>2. ASSUME NEW g \in Given(q), TextOf[g.id] = r.text PROVE r.id <= g.id
      <4>1. PICK h \in Given(p) : h.id = g.id
        BY <2>3, SameIds DEF d
      <4>. QED
        BY <1>4, <3>2, <4>1
    <3>3. \A s \in store'[Into[q]] : s \in store[Into[q]] \/ s = n
      BY <1>2, <2>3
    <3>. QED
      BY <1>1, <1>2, <1>3, <2>1, <3>1, <3>2, <3>3 DEF Merit
  <2>. QED
    BY <2>2, <2>3
<1>10. ASSUME NEW q \in Mergers PROVE MergerInv(q)'
  <2>1. MergerInv(q) /\ Given(q)' = Given(q) /\ Into[q] \in Targets /\ pc'[q] = pc[q]
    BY <1>0, <1>2, GivenKept
  <2>2. SeenBase(q)'
    <3>1. seen[q] \subseteq seen'[q]
      BY <1>0, <1>1
    <3>2. \A s \in store'[Into[q]] : s.at = 0 => s \in store[Into[q]]
      BY <1>1, <1>2, <2>1
    <3>. QED
      BY <2>1, <3>1, <3>2 DEF MergerInv, SeenBase
  <2>3. SeenTrue(q)'
    <3>1. seen'[q] \subseteq seen[q] \cup (IF q = p THEN {n.text} ELSE {})
      BY <1>0, <1>1
    <3>2. n.text \in Had(d)'
      BY <1>2 DEF Had, TextsIn
    <3>. QED
      BY <1>8, <2>1, <3>1, <3>2 DEF MergerInv, SeenTrue, d
  <2>4. Finished(q)'
    BY <1>8, <2>1 DEF MergerInv, Finished, Derived
  <2>5. Started(q)'
    BY <1>0, <1>1, <2>1 DEF MergerInv, Started, Derived
  <2>6. Walked(q)'
    BY <1>0, <1>1, <2>1 DEF MergerInv, Walked
  <2>. QED
    BY <1>9, <2>2, <2>3, <2>4, <2>5, <2>6 DEF MergerInv
<1>. QED
  BY <1>7, <1>10

LEMMA MergeStep ==
  ASSUME SameClones
  PROVE  MergeInv /\ [Next]_vars => MergeInv'
<1>. SUFFICES ASSUME MergeInv, [Next]_vars PROVE MergeInv'
  OBVIOUS
<1>0. Types'
  BY NextTypes DEF MergeInv
<1>1. ASSUME NEW p \in Mergers, StartMerge(p) PROVE MergeInv'
  BY <1>0, <1>1, StartKeeps, MeritKept DEF MergeInv, StartMerge
<1>2. ASSUME NEW p \in Mergers, Quarantine(p) PROVE MergeInv'
  BY <1>0, <1>2, QuarantineKeeps, MeritKept DEF MergeInv, Quarantine
<1>3. ASSUME NEW p \in Mergers, PromoteRow(p) PROVE MergeInv'
  BY <1>0, <1>3, PromoteKeeps DEF MergeInv
<1>4. ASSUME NEW p \in Mergers, FinishMerge(p) PROVE MergeInv'
  BY <1>0, <1>4, FinishKeeps, MeritKept DEF MergeInv, FinishMerge
<1>5. ASSUME NEW p \in Mergers, Conflict(p) \/ RefuseUnion(p) \/ Kill(p)
      PROVE  MergeInv'
  BY <1>0, <1>5, StopKeeps, MeritKept DEF MergeInv, Conflict, RefuseUnion, Kill
<1>6. ASSUME NEW d \in Targets, Retire(d) \/ Redact(d) PROVE MergeInv'
  BY <1>0, <1>6, AlterKeeps DEF MergeInv
<1>7. CASE UNCHANGED vars
  <2>1. OneMemoryPerText'
    BY <1>7 DEF MergeInv, OneMemoryPerText, vars
  <2>2. ASSUME NEW q \in Mergers PROVE MergerInv(q)'
    <3>1. MergerInv(q) /\ Given(q)' = Given(q)
      BY <1>7, GivenKept DEF MergeInv, vars
    <3>. QED
      BY <1>7, <3>1 DEF vars, MergerInv, Started, Walked, SeenBase, SeenTrue, Merit,
                        Finished, Derived, Had, TextsIn
  <2>. QED
    BY <1>0, <2>1, <2>2 DEF MergeInv
<1>. QED
  BY <1>1, <1>2, <1>3, <1>4, <1>5, <1>6, <1>7 DEF Next, Govern

\* Merges of the same clones never make two memories of one content, however
\* they overlap, are killed and are run again, and whatever else is retired or
\* redacted meanwhile.
THEOREM OneText == ASSUME SameClones PROVE Spec => []OneMemoryPerText
<1>1. MergeInv => OneMemoryPerText
  BY DEF MergeInv
<1>. QED
  BY MergeInit, MergeStep, <1>1, PTL DEF Spec

----------------------------------------------------------------------------
(* A merge is as good as atomic.                                           *)

LEMMA MergeAtomic == MergeInv => MergeIsAtomic
<1>. SUFFICES ASSUME MergeInv, NEW p \in Mergers,
                     \A r \in Given(p) : Derived(r) /\ r.text \notin receipts[Into[p]]
              PROVE  /\ Merged(Into[p]) \subseteq Outcome(p)
                     /\ pc[p] = "done" => Outcome(p) \subseteq Merged(Into[p])
  BY DEF MergeIsAtomic, Given
<1>0. /\ store[Into[p]] \subseteq Row /\ OneEach(store[Into[p]]) /\ MergerInv(p)
      /\ Given(p) \subseteq Row
  BY MergeAssumption, UnionRows
  DEF MergeInv, Types, TypeOK, OneMemoryPerText, AInto, Given
<1>1. ASSUME NEW s \in store[Into[p]], s.at > 0
      PROVE  \E g \in Given(p) :
               /\ g.id = s.id /\ g.text = s.text /\ g.text = TextOf[g.id]
               /\ g.text \notin Refused /\ g.text \in Texts
               /\ \A h \in Given(p) : h.text = g.text => g.id <= h.id
  <2>1. /\ TextOf[s.id] \notin Refused
        /\ s.text = TextOf[s.id] \/ (s.text = Redacted /\ TextOf[s.id] \in receipts[Into[p]])
        /\ \A r \in Given(p) : TextOf[r.id] = TextOf[s.id] => s.id <= r.id
    BY <1>0, <1>1 DEF MergerInv, Merit
  <2>2. PICK g \in Given(p) : g.id = s.id
    BY <1>0, <1>1 DEF MergerInv, Merit
  <2>3. g.text = TextOf[g.id] /\ g.text \notin receipts[Into[p]] /\ g.text \in Texts
    BY <1>0, MergeAssumption DEF Derived, Row, ATexts
  <2>4. s.text = g.text
    BY <2>1, <2>2, <2>3
  <2>5. \A h \in Given(p) : h.text = g.text => g.id <= h.id
    BY <2>1, <2>2, <2>3 DEF Derived
  <2>. QED
    BY <2>1, <2>2, <2>3, <2>4, <2>5
<1>2. Merged(Into[p]) \subseteq Outcome(p)
  <2>1. SUFFICES ASSUME NEW s \in store[Into[p]], s.at > 0
                 PROVE  s.id \in Outcome(p)
    BY DEF Merged, Ids
  <2>2. PICK g \in Given(p) :
               /\ g.id = s.id /\ g.text = s.text
               /\ g.text \notin Refused /\ g.text \in Texts
               /\ \A h \in Given(p) : h.text = g.text => g.id <= h.id
    BY <1>1, <2>1
  <2>3. g.text \notin TextsIn(Base(Into[p]))
    <3>1. SUFFICES ASSUME NEW b \in store[Into[p]], b.at = 0, b.text = s.text
                   PROVE  FALSE
      BY <2>2 DEF TextsIn, Base
    <3>2. b = s
      BY <1>0, <2>2, <3>1 DEF OneEach
    <3>. QED
      BY <2>1, <3>1, <3>2
  <2>. QED
    BY <2>2, <2>3 DEF Outcome, Given
<1>3. ASSUME pc[p] = "done" PROVE Outcome(p) \subseteq Merged(Into[p])
  <2>1. SUFFICES ASSUME NEW r \in Given(p),
                        r.text \notin Refused, r.text \notin TextsIn(Base(Into[p])),
                        \A q \in Given(p) : q.text = r.text => r.id <= q.id
                 PROVE  r.id \in Merged(Into[p])
    BY DEF Outcome, Given
  <2>2. r.text \in Had(Into[p])
    BY <1>0, <1>3, <2>1 DEF MergerInv, Finished
  <2>3. PICK s \in store[Into[p]] : s.text = r.text
    BY <2>2 DEF Had, TextsIn
  <2>4. s.at > 0
    BY <1>0, <2>1, <2>3 DEF TextsIn, Base, Row
  <2>5. PICK g \in Given(p) :
               /\ g.id = s.id /\ g.text = s.text
               /\ \A h \in Given(p) : h.text = g.text => g.id <= h.id
    BY <1>1, <2>4
  <2>6. g.id <= r.id /\ r.id <= g.id
    BY <2>1, <2>3, <2>5
  <2>7. g.id \in Nat /\ r.id \in Nat
    BY <1>0, MergeAssumption DEF Row, AMemories
  <2>8. r.id = s.id
    BY <2>5, <2>6, <2>7
  <2>. QED
    BY <2>4, <2>8 DEF Merged, Ids
<1>. QED
  BY <1>2, <1>3

\* Merges of the same clones add to a target what one atomic merge would.
THEOREM AtomicMerge == ASSUME SameClones PROVE Spec => []MergeIsAtomic
<1>1. MergeInv => MergeIsAtomic
  BY MergeAtomic
<1>. QED
  BY MergeInit, MergeStep, <1>1, PTL DEF Spec

----------------------------------------------------------------------------
(* The order of the clones does not matter.                                *)

\* All merges were given the same clones, in whatever order.
AllSame ==
  \A p, q \in Mergers :
    \A i \in 1..Len(Order[p]) : \E j \in 1..Len(Order[q]) : Order[p][i] = Order[q][j]

LEMMA AllSameIsSame == AllSame => SameClones
BY DEF AllSame, SameClones

\* The ids the merges unite.
United == UNION {Ids(Given(p)) : p \in Mergers}

LEMMA SameUnited ==
  ASSUME AllSame, NEW p \in Mergers
  PROVE  Ids(Given(p)) = United
<1>1. ASSUME NEW q \in Mergers, NEW r \in Given(q)
      PROVE  \E s \in Given(p) : s.id = r.id
  <2>0. Order[p] \in Seq(Clones) /\ Order[q] \in Seq(Clones)
    BY MergeAssumption DEF AOrder
  <2>1. PICK i \in 1..Len(Order[q]) : r \in ActiveRows(Order[q][i])
    BY <2>0, UnionIds DEF Given
  <2>10. \A k \in 1..Len(Order[q]) : \E j \in 1..Len(Order[p]) : Order[q][k] = Order[p][j]
    BY Zenon DEF AllSame
  <2>2. PICK j \in 1..Len(Order[p]) : Order[q][i] = Order[p][j]
    BY Zenon, <2>10
  <2>3. r \in ActiveRows(Order[p][j])
    BY <2>1, <2>2
  <2>. QED
    BY <2>0, <2>3, UnionIds DEF Given
<1>2. United \subseteq Ids(Given(p))
  BY <1>1 DEF United, Ids
<1>. QED
  BY <1>2 DEF United

LEMMA UnitedNat ==
  ASSUME Types
  PROVE  United \subseteq Memories /\ United \subseteq Nat
<1>1. \A p \in Mergers : Given(p) \subseteq Row
  BY UnionRows DEF Types, Given
<1>2. \A p \in Mergers : Ids(Given(p)) \subseteq Memories
  BY <1>1 DEF Ids, Row
<1>3. United \subseteq Memories
  BY <1>2 DEF United
<1>. QED
  BY <1>3, MergeAssumption DEF AMemories

LEMMA UnitedKept ==
  ASSUME clone' = clone
  PROVE  United' = United
BY GivenKept DEF United, Ids

\* The union has one row for each id: the id is a clone's primary key, and of two
\* clones the first one counts.
LEMMA UnionOne ==
  ASSUME Types, NEW p \in Mergers,
         NEW r \in Given(p), NEW s \in Given(p), r.id = s.id
  PROVE  r = s
<1>0. Order[p] \in Seq(Clones) /\ Len(Order[p]) \in Nat
  BY MergeAssumption DEF AOrder
<1>1. PICK i \in 1..Len(Order[p]) :
        /\ r \in ActiveRows(Order[p][i])
        /\ \A j \in 1..(i - 1) : r.id \notin Ids(ActiveRows(Order[p][j]))
  BY DEF Given, Union
<1>2. PICK k \in 1..Len(Order[p]) :
        /\ s \in ActiveRows(Order[p][k])
        /\ \A j \in 1..(k - 1) : s.id \notin Ids(ActiveRows(Order[p][j]))
  BY DEF Given, Union
<1>3. r.id \in Ids(ActiveRows(Order[p][i])) /\ r.id \in Ids(ActiveRows(Order[p][k]))
  BY <1>1, <1>2 DEF Ids
<1>4. i = k
  <2>1. ~(i < k) /\ ~(k < i)
    BY <1>0, <1>1, <1>2, <1>3
  <2>. QED
    BY <2>1
<1>5. Order[p][i] \in Clones
  BY <1>0
<1>6. \A x, y \in clone[Order[p][i]] : x.id = y.id => x = y
  BY <1>5, RowsAssumption DEF AContents, Types, ClonesKept
<1>. QED
  BY <1>1, <1>2, <1>4, <1>6 DEF ActiveRows

\* The clock of a row counts the united ids below its own.
LEMMA ClockOf ==
  ASSUME AllSame, Types, NEW p \in Mergers, NEW r \in Row
  PROVE  MergeClock(p, r) = 1 + Cardinality({j \in United : j < r.id})
<1>. DEFINE Below == {s \in Given(p) : s.id < r.id}
            Lower == {j \in United : j < r.id}
            key == [s \in Below |-> s.id]
<1>1. IsFiniteSet(Below)
  BY UnionRows, FS_Subset DEF Types, Given
<1>2. key \in Bijection(Below, Lower)
  <2>1. \A s \in Below : s.id \in Lower
    BY SameUnited DEF Ids
  <2>2. \A j \in Lower : \E s \in Below : s.id = j
    BY SameUnited DEF Ids
  <2>3. \A s, t \in Below : s.id = t.id => s = t
    BY UnionOne
  <2>. HIDE DEF Below, Lower
  <2>4. key \in Injection(Below, Lower)
    BY <2>1, <2>3 DEF Injection, IsInjective
  <2>5. key \in Surjection(Below, Lower)
    BY <2>1, <2>2 DEF Surjection
  <2>. QED
    BY <2>4, <2>5 DEF Bijection
<1>3. ExistsBijection(Below, Lower)
  BY <1>2 DEF ExistsBijection
<1>. HIDE DEF Below, Lower
<1>4. Cardinality(Lower) = Cardinality(Below)
  BY <1>1, <1>3, FS_Bijection
<1>. QED
  BY <1>4 DEF MergeClock, Given, Below, Lower

\* No target has redacted a text of the clones.
Unredacted == \A d \in Targets : \A i \in United : TextOf[i] \notin receipts[d]

\* What one atomic merge would add to a target.
Wanted(d) ==
  {i \in United :
     /\ TextOf[i] \notin Refused
     /\ TextOf[i] \notin TextsIn(Base(d))
     /\ \A j \in United : TextOf[j] = TextOf[i] => i <= j}

\* The targets are copies: what one had of its own, and has not redacted, the
\* other has too.
BaseSame ==
  \A d, e \in Targets : \A t \in Texts :
    t \in TextsIn(Base(d)) => t \in TextsIn(Base(e)) \cup receipts[e]

\* Each merged row has its event, each event its row.
Told(d) == \A i \in Memories : i \in Merged(d) <=> \E k \in 1..Len(chain[d]) : chain[d][k] = i

Clocked(d) ==
  \A s \in store[d] : s.at > 0 => s.at = 1 + Cardinality({j \in United : j < s.id})

\* A merged row came from some merge.
Authored(d) == \A s \in store[d] : s.at > 0 => \E p \in Mergers : Into[p] = d

\* The events go up the ids, and leave none of the wanted ones out.
Rising(d) == \A j, k \in 1..Len(chain[d]) : j < k => chain[d][j] < chain[d][k]
Closed(d) ==
  \A i \in Merged(d) :
    i \in Wanted(d) /\ \A j \in Wanted(d) : j < i => j \in Merged(d)

OrderInv ==
  /\ BaseSame
  /\ \A d \in Targets : Told(d) /\ Clocked(d) /\ Authored(d)
  /\ Unredacted => \A d \in Targets : Rising(d) /\ Closed(d)

LEMMA OrderInit == Init => OrderInv
<1>. SUFFICES ASSUME Init PROVE OrderInv
  OBVIOUS
<1>1. PICK base \in Bases : store = [d \in Targets |-> base]
  BY DEF Init
<1>2. \A r \in base : r.at = 0
  BY <1>1, RowsAssumption DEF ABases
<1>3. ASSUME NEW d \in Targets
      PROVE  store[d] = base /\ chain[d] = <<>> /\ Merged(d) = {}
  BY <1>1, <1>2 DEF Init, Merged, Ids
<1>4. BaseSame
  BY <1>3 DEF BaseSame, Base, TextsIn
<1>5. ASSUME NEW d \in Targets
      PROVE  Told(d) /\ Clocked(d) /\ Authored(d) /\ Rising(d) /\ Closed(d)
  BY <1>2, <1>3 DEF Told, Clocked, Authored, Rising, Closed
<1>. QED
  BY <1>4, <1>5 DEF OrderInv

\* A step that writes to no target keeps it.
LEMMA OrderKept ==
  ASSUME OrderInv, UNCHANGED <<clone, store, receipts, chain>>
  PROVE  OrderInv'
<1>1. United' = United
  BY UnitedKept
<1>2. \A d \in Targets : Base(d)' = Base(d) /\ Merged(d)' = Merged(d)
  BY DEF Base, Merged, Ids
<1>3. \A d \in Targets : TextsIn(Base(d))' = TextsIn(Base(d))
  BY <1>2 DEF TextsIn
<1>4. Unredacted' = Unredacted
  BY <1>1 DEF Unredacted
<1>5. \A d \in Targets : Wanted(d)' = Wanted(d)
  BY <1>1, <1>3 DEF Wanted
<1>6. BaseSame'
  BY <1>3 DEF OrderInv, BaseSame
<1>7. ASSUME NEW d \in Targets PROVE Told(d)' /\ Clocked(d)' /\ Authored(d)'
  BY <1>1, <1>2 DEF OrderInv, Told, Clocked, Authored
<1>8. ASSUME Unredacted', NEW d \in Targets PROVE Rising(d)' /\ Closed(d)'
  BY <1>2, <1>4, <1>5, <1>8 DEF OrderInv, Rising, Closed
<1>. QED
  BY <1>6, <1>7, <1>8 DEF OrderInv

\* Retiring or redacting keeps it: ids and clocks stay, and a text that goes
\* leaves its receipt.
LEMMA AlterOrder ==
  ASSUME Types, OrderInv, NEW d \in Targets, Retire(d) \/ Redact(d)
  PROVE  OrderInv'
<1>0. store \in [Targets -> SUBSET Row] /\ receipts \in [Targets -> SUBSET Texts]
  BY DEF Types, TypeOK
<1>1. PICK r \in store[d], n \in Row :
        /\ n.id = r.id /\ n.at = r.at
        /\ \/ n.text = r.text /\ receipts' = receipts
           \/ /\ n.text = Redacted /\ r.text \in Texts
              /\ receipts' = [receipts EXCEPT ![d] = @ \cup {r.text}]
        /\ store' = [store EXCEPT ![d] = (@ \ {r}) \cup {n}]
  BY Altered
<1>2. /\ store'[d] = (store[d] \ {r}) \cup {n}
      /\ \A e \in Targets \ {d} : store'[e] = store[e]
      /\ \A e \in Targets : receipts[e] \subseteq receipts'[e]
      /\ n.text = r.text \/ (n.text = Redacted /\ r.text \in receipts'[d])
      /\ UNCHANGED <<clone, chain>>
  BY <1>0, <1>1 DEF Retire, Redact
<1>3. ASSUME NEW e \in Targets
      PROVE  /\ Merged(e)' = Merged(e)
             /\ \A s \in store'[e] : \E t \in store[e] : s.id = t.id /\ s.at = t.at
             /\ \A t \in Texts : t \in TextsIn(Base(e))' => t \in TextsIn(Base(e))
             /\ \A t \in Texts :
                  t \in TextsIn(Base(e)) => t \in TextsIn(Base(e))' \cup receipts'[e]
  <2>1. CASE e # d
    BY <1>2, <2>1 DEF Merged, Ids, Base, TextsIn
  <2>2. CASE e = d
    <3>1. Merged(d)' = Merged(d)
      BY <1>1, <1>2 DEF Merged, Ids
    <3>2. \A s \in store'[d] : \E t \in store[d] : s.id = t.id /\ s.at = t.at
      BY <1>1, <1>2
    <3>3. ASSUME NEW t \in Texts, t \in TextsIn(Base(d))' PROVE t \in TextsIn(Base(d))
      <4>1. PICK b \in store'[d] : b.at = 0 /\ b.text = t
        BY <3>3 DEF TextsIn, Base
      <4>2. t # Redacted
        BY MergeAssumption DEF ARedacted
      <4>3. \E c \in store[d] : c.at = 0 /\ c.text = t
        BY <1>1, <1>2, <4>1, <4>2
      <4>. QED
        BY <4>3 DEF TextsIn, Base
    <3>4. ASSUME NEW t \in Texts, t \in TextsIn(Base(d))
          PROVE  t \in TextsIn(Base(d))' \cup receipts'[d]
      <4>1. PICK b \in store[d] : b.at = 0 /\ b.text = t
        BY <3>4 DEF TextsIn, Base
      <4>2. t \in receipts'[d] \/ \E c \in store'[d] : c.at = 0 /\ c.text = t
        BY <1>1, <1>2, <4>1
      <4>. QED
        BY <4>2 DEF TextsIn, Base
    <3>. QED
      BY <2>2, <3>1, <3>2, <3>3, <3>4
  <2>. QED
    BY <2>1, <2>2
<1>4. BaseSame'
  <2>1. SUFFICES ASSUME NEW e \in Targets, NEW f \in Targets, NEW t \in Texts,
                        t \in TextsIn(Base(e))'
                 PROVE  t \in TextsIn(Base(f))' \cup receipts'[f]
    BY DEF BaseSame
  <2>2. t \in TextsIn(Base(e))
    BY <1>3, <2>1
  <2>3. t \in TextsIn(Base(f)) \cup receipts[f]
    BY <2>2 DEF OrderInv, BaseSame
  <2>. QED
    BY <1>2, <1>3, <2>3
<1>5. United' = United
  BY <1>2, UnitedKept
<1>6. ASSUME NEW e \in Targets PROVE Told(e)' /\ Clocked(e)' /\ Authored(e)'
  <2>1. Told(e) /\ Clocked(e) /\ Authored(e)
    BY DEF OrderInv
  <2>2. Told(e)'
    BY <1>2, <1>3, <2>1 DEF Told
  <2>3. Clocked(e)' /\ Authored(e)'
    BY <1>3, <1>5, <2>1 DEF Clocked, Authored
  <2>. QED
    BY <2>2, <2>3
<1>7. ASSUME Unredacted', NEW e \in Targets PROVE Rising(e)' /\ Closed(e)'
  <2>1. Unredacted
    BY <1>2, <1>5, <1>7 DEF Unredacted
  <2>2. Rising(e) /\ Closed(e)
    BY <2>1 DEF OrderInv
  <2>3. \A i \in United : TextOf[i] \in TextsIn(Base(e))' <=> TextOf[i] \in TextsIn(Base(e))
    <3>1. TAKE i \in United
    <3>2. TextOf[i] \in Texts /\ TextOf[i] \notin receipts'[e]
      BY <1>5, <1>7, UnitedNat, MergeAssumption DEF Unredacted, ATexts
    <3>. QED
      BY <1>3, <3>2
  <2>4. Wanted(e)' = Wanted(e)
    BY <1>5, <2>3 DEF Wanted
  <2>. QED
    BY <1>2, <1>3, <2>2, <2>4 DEF Rising, Closed
<1>. QED
  BY <1>4, <1>6, <1>7 DEF OrderInv

\* The heart of the argument: the row a merge promotes is a wanted one, and every
\* lower one that is wanted has been promoted already, by this merge or another.
LEMMA InTurn ==
  ASSUME AllSame, MergeInv, Unredacted, NEW p \in Mergers, PromoteRow(p),
         NEW r \in Given(p), r \in Row,
         r.text = TextOf[r.id], r.text \in Texts, r.text \notin Refused, r.text \notin seen[p],
         \A g \in Given(p) : TextOf[g.id] = r.text => r.id <= g.id,
         \A g \in Given(p) : g.id < r.id => g.text \in Refused \cup seen[p]
  PROVE  /\ r.id \in Wanted(Into[p])
         /\ \A j \in Wanted(Into[p]) : j < r.id => j \in Merged(Into[p])
<1>. DEFINE d == Into[p]
<1>0. /\ MergerInv(p) /\ pc[p] = "running" /\ d \in Targets
      /\ store[d] \subseteq Row /\ Given(p) \subseteq Row
      /\ Ids(Given(p)) = United
  BY UnionRows, SameUnited, MergeAssumption
  DEF MergeInv, Types, TypeOK, AInto, Given, PromoteRow
<1>. HIDE DEF d
<1>1. r.id \in Wanted(d)
  <2>1. r.id \in United
    BY <1>0 DEF Ids
  <2>2. r.text \notin TextsIn(Base(d))
    <3>1. SUFFICES ASSUME NEW b \in store[d], b.at = 0, b.text = r.text PROVE FALSE
      BY DEF TextsIn, Base
    <3>. QED
      BY <1>0, <3>1, MergeAssumption DEF MergerInv, SeenBase, ARedacted, d
  <2>3. \A j \in United : TextOf[j] = r.text => r.id <= j
    BY <1>0 DEF Ids
  <2>. QED
    BY <2>1, <2>2, <2>3 DEF Wanted
<1>2. ASSUME NEW j \in Wanted(d), j < r.id PROVE j \in Merged(d)
  <2>1. /\ j \in United /\ TextOf[j] \notin Refused /\ TextOf[j] \notin TextsIn(Base(d))
        /\ \A i \in United : TextOf[i] = TextOf[j] => j <= i
    BY DEF Wanted
  <2>2. PICK g \in Given(p) : g.id = j
    BY <1>0, <2>1 DEF Ids
  <2>3. g.text = TextOf[j] /\ TextOf[j] \in Texts
    BY <1>0, <2>2, MergeAssumption DEF MergerInv, Started, Derived, Row, ATexts
  <2>4. TextOf[j] \in seen[p]
    BY <1>2, <2>1, <2>2, <2>3
  <2>5. TextOf[j] \in TextsIn(store[d])
    BY <1>0, <2>1, <2>4 DEF MergerInv, SeenTrue, Had, Unredacted, d
  <2>6. PICK s \in store[d] : s.text = TextOf[j]
    BY <2>5 DEF TextsIn
  <2>7. s.at > 0
    <3>1. s.at # 0
      BY <2>1, <2>6 DEF TextsIn, Base
    <3>2. s.at \in Nat
      BY <1>0 DEF Row
    <3>. QED
      BY <3>1, <3>2
  <2>8. /\ TextOf[s.id] = TextOf[j]
        /\ \E h \in Given(p) : h.id = s.id
        /\ \A h \in Given(p) : TextOf[h.id] = TextOf[s.id] => s.id <= h.id
    BY <1>0, <2>3, <2>6, <2>7, MergeAssumption DEF MergerInv, Merit, ARedacted, d
  <2>9. s.id <= j
    BY <2>2, <2>8
  <2>10. s.id \in United
    BY <1>0, <2>8 DEF Ids
  <2>11. j <= s.id
    BY <2>1, <2>8, <2>10
  <2>12. s.id = j
    BY <2>1, <2>9, <2>10, <2>11, UnitedNat DEF MergeInv
  <2>. QED
    BY <2>7, <2>12 DEF Merged, Ids
<1>. QED
  BY <1>1, <1>2 DEF d

LEMMA PromoteOrder ==
  ASSUME AllSame, MergeInv, OrderInv, NEW p \in Mergers, PromoteRow(p)
  PROVE  OrderInv'
<1>. DEFINE d == Into[p]
<1>0. /\ store \in [Targets -> SUBSET Row] /\ chain \in [Targets -> Seq(Memories)]
      /\ d \in Targets
  BY MergeAssumption DEF MergeInv, Types, TypeOK, AInto
<1>1. PICK r \in todo[p], n \in Row :
        /\ r.id \notin Ids(store[d])
        /\ n.id = r.id /\ n.at > 0 /\ n.at = MergeClock(p, r)
        /\ store' = [store EXCEPT ![d] = @ \cup {n}]
        /\ chain' = [chain EXCEPT ![d] = Append(@, r.id)]
        /\ r \in Given(p) /\ r \in Row /\ r.text = TextOf[r.id]
        /\ r.text \in Texts /\ r.text \notin Refused /\ r.text \notin seen[p]
        /\ \A g \in Given(p) : TextOf[g.id] = r.text => r.id <= g.id
        /\ \A g \in Given(p) : g.id < r.id => g.text \in Refused \cup seen[p]
  BY Promoted
<1>2. Unredacted => /\ r.id \in Wanted(d)
                    /\ \A j \in Wanted(d) : j < r.id => j \in Merged(d)
  BY <1>1, InTurn
<1>. HIDE DEF d
<1>3. /\ store'[d] = store[d] \cup {n} /\ chain'[d] = Append(chain[d], r.id)
      /\ \A e \in Targets \ {d} : store'[e] = store[e] /\ chain'[e] = chain[e]
      /\ UNCHANGED <<clone, receipts>>
  BY <1>0, <1>1 DEF PromoteRow
<1>4. United' = United /\ Unredacted' = Unredacted
  BY <1>3, UnitedKept DEF Unredacted
<1>5. \A e \in Targets : Base(e)' = Base(e)
  BY <1>1, <1>3 DEF Base
<1>6. \A e \in Targets : TextsIn(Base(e))' = TextsIn(Base(e))
  BY <1>5 DEF TextsIn
<1>7. \A e \in Targets : Wanted(e)' = Wanted(e)
  BY <1>4, <1>6 DEF Wanted
<1>8. /\ Merged(d)' = Merged(d) \cup {r.id}
      /\ \A e \in Targets \ {d} : Merged(e)' = Merged(e)
  BY <1>1, <1>3 DEF Merged, Ids
<1>9. /\ Len(chain'[d]) = Len(chain[d]) + 1 /\ Len(chain[d]) \in Nat
      /\ chain'[d][Len(chain[d]) + 1] = r.id
      /\ \A k \in 1..Len(chain[d]) : chain'[d][k] = chain[d][k]
  <2>1. chain[d] \in Seq(Memories) /\ r.id \in Memories
    BY <1>0, <1>1 DEF Row
  <2>. QED
    BY <1>3, <2>1, AppendProperties
<1>10. BaseSame'
  BY <1>3, <1>6 DEF OrderInv, BaseSame
<1>11. ASSUME NEW e \in Targets PROVE Told(e)' /\ Clocked(e)' /\ Authored(e)'
  <2>1. Told(e) /\ Clocked(e) /\ Authored(e)
    BY DEF OrderInv
  <2>2. CASE e # d
    BY <1>3, <1>4, <1>8, <2>1, <2>2 DEF Told, Clocked, Authored
  <2>3. CASE e = d
    <3>1. Told(d)'
      <4>1. ASSUME NEW i \in Memories, i \in Merged(d)'
            PROVE  \E k \in 1..Len(chain'[d]) : chain'[d][k] = i
        <5>1. CASE i = r.id
          BY <1>9, <5>1
        <5>2. CASE i \in Merged(d)
          <6>1. PICK k \in 1..Len(chain[d]) : chain[d][k] = i
            BY <2>1, <2>3, <5>2 DEF Told
          <6>. QED
            BY <1>9, <6>1
        <5>. QED
          BY <1>8, <4>1, <5>1, <5>2
      <4>2. ASSUME NEW i \in Memories, NEW k \in 1..Len(chain'[d]), chain'[d][k] = i
            PROVE  i \in Merged(d)'
        <5>1. CASE k = Len(chain[d]) + 1
          BY <1>8, <1>9, <4>2, <5>1
        <5>2. CASE k \in 1..Len(chain[d])
          BY <1>8, <1>9, <2>1, <2>3, <4>2, <5>2 DEF Told
        <5>. QED
          BY <1>9, <5>1, <5>2
      <4>. QED
        BY <4>1, <4>2 DEF Told
    <3>2. n.at = 1 + Cardinality({j \in United : j < n.id})
      BY <1>1, ClockOf DEF MergeInv
    <3>3. Clocked(d)'
      BY <1>3, <1>4, <2>1, <2>3, <3>2 DEF Clocked
    <3>4. Authored(d)'
      <4>1. \E q \in Mergers : Into[q] = d
        BY DEF d
      <4>. QED
        BY <4>1 DEF Authored
    <3>. QED
      BY <2>3, <3>1, <3>3, <3>4
  <2>. QED
    BY <2>2, <2>3
<1>12. ASSUME Unredacted', NEW e \in Targets PROVE Rising(e)' /\ Closed(e)'
  <2>1. Rising(e) /\ Closed(e)
    BY <1>4, <1>12 DEF OrderInv
  <2>2. CASE e # d
    BY <1>3, <1>7, <1>8, <2>1, <2>2 DEF Rising, Closed
  <2>3. CASE e = d
    <3>1. /\ r.id \in Wanted(d)
          /\ \A j \in Wanted(d) : j < r.id => j \in Merged(d)
      BY <1>2, <1>4, <1>12
    <3>2. Closed(d)'
      BY <1>7, <1>8, <2>1, <2>3, <3>1 DEF Closed
    <3>3. ASSUME NEW i \in Merged(d) PROVE i < r.id
      <4>1. r.id \notin Merged(d)
        BY <1>1 DEF Merged, Ids
      <4>2. ~(r.id < i)
        BY <2>1, <2>3, <3>1, <4>1 DEF Closed
      <4>3. i \in Nat /\ r.id \in Nat
        BY <2>1, <2>3, <3>1, UnitedNat DEF Closed, Wanted, MergeInv
      <4>. QED
        BY <4>1, <4>2, <4>3
    <3>4. ASSUME NEW k \in 1..Len(chain[d]) PROVE chain[d][k] < r.id
      <4>1. chain[d][k] \in Memories
        BY <1>0
      <4>2. chain[d][k] \in Merged(d)
        BY <1>0, <4>1 DEF OrderInv, Told
      <4>. QED
        BY <3>3, <4>2
    <3>5. Rising(d)'
      <4>1. SUFFICES ASSUME NEW j \in 1..Len(chain'[d]), NEW k \in 1..Len(chain'[d]), j < k
                     PROVE  chain'[d][j] < chain'[d][k]
        BY DEF Rising
      <4>2. j \in 1..Len(chain[d])
        BY <1>9, <4>1
      <4>3. CASE k = Len(chain[d]) + 1
        BY <1>9, <3>4, <4>2, <4>3
      <4>4. CASE k \in 1..Len(chain[d])
        BY <1>9, <2>1, <2>3, <4>1, <4>2, <4>4 DEF Rising
      <4>. QED
        BY <1>9, <4>3, <4>4
    <3>. QED
      BY <2>3, <3>2, <3>5
  <2>. QED
    BY <2>2, <2>3
<1>. QED
  BY <1>10, <1>11, <1>12 DEF OrderInv

LEMMA OrderStep ==
  ASSUME AllSame
  PROVE  MergeInv /\ OrderInv /\ [Next]_vars => MergeInv' /\ OrderInv'
<1>. SUFFICES ASSUME MergeInv, OrderInv, [Next]_vars PROVE MergeInv' /\ OrderInv'
  OBVIOUS
<1>0. MergeInv' /\ Types
  BY MergeStep, AllSameIsSame DEF MergeInv
<1>1. ASSUME NEW p \in Mergers, Govern(p) \/ RefuseUnion(p) \/ Kill(p)
      PROVE  OrderInv'
  <2>1. CASE PromoteRow(p)
    BY <2>1, PromoteOrder
  <2>2. CASE ~PromoteRow(p)
    <3>1. UNCHANGED <<clone, store, receipts, chain>>
      BY <1>1, <2>2
      DEF Govern, StartMerge, Quarantine, Conflict, FinishMerge, RefuseUnion, Kill
    <3>. QED
      BY <3>1, OrderKept
  <2>. QED
    BY <2>1, <2>2
<1>2. ASSUME NEW d \in Targets, Retire(d) \/ Redact(d) PROVE OrderInv'
  BY <1>0, <1>2, AlterOrder
<1>3. ASSUME UNCHANGED vars PROVE OrderInv'
  BY <1>3, OrderKept DEF vars
<1>. QED
  BY <1>0, <1>1, <1>2, <1>3 DEF Next

\* Two targets want the same rows, so their events are each other's beginnings.
LEMMA SameBeginning ==
  ASSUME MergeInv, OrderInv, Unredacted, NEW d \in Targets, NEW e \in Targets
  PROVE  IsInitial(chain[d], chain[e]) \/ IsInitial(chain[e], chain[d])
<1>0. chain \in [Targets -> Seq(Memories)]
  BY DEF MergeInv, Types, TypeOK
<1>1. ASSUME NEW f \in Targets, NEW g \in Targets PROVE Wanted(f) \subseteq Wanted(g)
  <2>1. SUFFICES ASSUME NEW i \in United, TextOf[i] \notin TextsIn(Base(f))
                 PROVE  TextOf[i] \notin TextsIn(Base(g))
    BY DEF Wanted
  <2>2. TextOf[i] \in Texts /\ TextOf[i] \notin receipts[f]
    BY UnitedNat, MergeAssumption DEF MergeInv, Unredacted, ATexts
  <2>. QED
    BY <2>1, <2>2 DEF OrderInv, BaseSame
<1>2. \* Where they differ first, neither can be the lower.
      ASSUME NEW f \in Targets, NEW g \in Targets, NEW i \in 1..Len(chain[f]),
             i \in 1..Len(chain[g]), \A k \in 1..(i - 1) : chain[f][k] = chain[g][k],
             chain[f][i] < chain[g][i]
      PROVE  FALSE
  <2>1. /\ Len(chain[f]) \in Nat /\ Len(chain[g]) \in Nat
        /\ chain[f][i] \in Memories /\ chain[g][i] \in Memories
    BY <1>0, <1>2
  <2>2. chain[f][i] \in Merged(f) /\ chain[g][i] \in Merged(g)
    BY <1>2, <2>1 DEF OrderInv, Told
  <2>3. chain[f][i] \in Wanted(g)
    BY <1>1, <2>2 DEF OrderInv, Closed
  <2>4. chain[f][i] \in Merged(g)
    BY <1>2, <2>2, <2>3 DEF OrderInv, Closed
  <2>5. PICK k \in 1..Len(chain[g]) : chain[g][k] = chain[f][i]
    BY <2>1, <2>4 DEF OrderInv, Told
  <2>6. chain[f][i] \in Nat /\ chain[g][i] \in Nat
    BY <2>1, MergeAssumption DEF AMemories
  <2>7. CASE k < i
    <3>1. k \in 1..(i - 1) /\ k \in 1..Len(chain[f])
      BY <1>2, <2>1, <2>7
    <3>2. chain[f][k] = chain[f][i]
      BY <1>2, <2>5, <3>1
    <3>3. chain[f][k] < chain[f][i]
      BY <1>2, <2>7, <3>1 DEF OrderInv, Rising
    <3>. QED
      BY <2>6, <3>2, <3>3
  <2>8. CASE k = i
    BY <1>2, <2>5, <2>6, <2>8
  <2>9. CASE i < k
    <3>1. chain[g][i] < chain[g][k]
      BY <1>2, <2>9 DEF OrderInv, Rising
    <3>. QED
      BY <1>2, <2>5, <2>6, <3>1
  <2>. QED
    BY <1>2, <2>1, <2>7, <2>8, <2>9
<1>3. SUFFICES ASSUME NEW m \in Nat, m <= Len(chain[d]), m <= Len(chain[e])
               PROVE  \A i \in 1..m : chain[d][i] = chain[e][i]
  <2>1. Len(chain[d]) \in Nat /\ Len(chain[e]) \in Nat
    BY <1>0
  <2>2. CASE Len(chain[d]) <= Len(chain[e])
    BY <1>3, <2>1, <2>2 DEF IsInitial
  <2>3. CASE Len(chain[e]) <= Len(chain[d])
    BY <1>3, <2>1, <2>3 DEF IsInitial
  <2>. QED
    BY <2>1, <2>2, <2>3
<1>4. SUFFICES ASSUME {i \in 1..m : chain[d][i] # chain[e][i]} # {} PROVE FALSE
  OBVIOUS
<1>5. PICK i \in 1..m :
        chain[d][i] # chain[e][i] /\ \A k \in 1..m : chain[d][k] # chain[e][k] => i <= k
  <2>. DEFINE Differ == {k \in 1..m : chain[d][k] # chain[e][k]}
  <2>1. Differ \in SUBSET Nat /\ Differ # {}
    BY <1>4
  <2>2. \E i \in Differ : \A k \in Differ : i <= k
    BY <2>1, LeastNat
  <2>. QED
    BY <2>2
<1>6. /\ i \in 1..Len(chain[d]) /\ i \in 1..Len(chain[e])
      /\ \A k \in 1..(i - 1) : chain[d][k] = chain[e][k]
  BY <1>0, <1>3, <1>5
<1>7. chain[d][i] \in Nat /\ chain[e][i] \in Nat
  <2>1. chain[d][i] \in Memories /\ chain[e][i] \in Memories
    BY <1>0, <1>6
  <2>. QED
    BY <2>1, MergeAssumption DEF AMemories
<1>8. chain[d][i] < chain[e][i] \/ chain[e][i] < chain[d][i]
  BY <1>5, <1>7
<1>. QED
  BY <1>2, <1>6, <1>8

\* Merges that were given the same clones in whatever order write the same events
\* in the same order with the same clocks, at every moment, as long as no target
\* redacts a text of theirs.
THEOREM OrderCommutes == ASSUME AllSame PROVE Spec => [](Unredacted => Commutes)
<1>1. MergeInv /\ OrderInv => (Unredacted => Commutes)
  <2>1. SUFFICES ASSUME MergeInv, OrderInv, Unredacted PROVE Commutes
    OBVIOUS
  <2>2. ASSUME NEW d \in Targets, NEW e \in Targets,
               NEW r \in store[d], NEW s \in store[e], r.id = s.id, r.at > 0, s.at > 0
        PROVE  r.at = s.at
    BY <2>1, <2>2 DEF OrderInv, Clocked
  <2>. QED
    BY <2>1, <2>2, SameBeginning DEF Commutes
<1>2. Init => MergeInv /\ OrderInv
  BY MergeInit, OrderInit
<1>3. MergeInv /\ OrderInv /\ [Next]_vars => (MergeInv /\ OrderInv)'
  BY OrderStep
<1>. QED
  BY <1>1, <1>2, <1>3, PTL DEF Spec
=============================================================================
