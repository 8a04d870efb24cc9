----------------------------- MODULE MergeGate -----------------------------
(***************************************************************************)
(* merge-govern: the active memories of several clones of a brain are      *)
(* united by memory id, sorted by id and governed again, one row at a      *)
(* time, into a target store (apps/curator/src/merge/merge-gate.ts, called *)
(* by cmdMergeGovern).                                                     *)
(*                                                                         *)
(* The clones are opened read-only: they differ from one behaviour to the  *)
(* next and never change within one.  Each survivor is promoted in a       *)
(* transaction of its own, so a merge can be killed between two rows, can  *)
(* fail half way on a row the target already has under that id, and is     *)
(* then run again from the start.  Nothing stops two merges into the same  *)
(* target at once.                                                         *)
(*                                                                         *)
(* A memory id is deriveMemoryId(candidate, content hash).  A candidate id *)
(* is itself derived from its content, so an id fixes the text it was      *)
(* derived from: TextOf.  Ids are numbers, in the order of the hashes.     *)
(***************************************************************************)
EXTENDS Integers, Sequences, FiniteSets

CONSTANTS
  Memories,     \* memory ids, numbers in the order of the ids
  Texts,        \* contents, told apart by their hash
  TextOf,       \* the content each id was derived from
  Refused,      \* texts the disclosure check or the target's policy refuses
  Contents,     \* the sets of rows each clone may hold
  Bases,        \* the sets of rows a target may hold before the first merge
  Clones,       \* clone databases
  Targets,      \* target databases, copies of one store at the start
  Mergers,      \* merge-govern processes
  Into,         \* the target of each merger
  Order,        \* the order in which each merger was given the clones
  Retirable,    \* ids of the memories another process may retire
  Redactable,   \* ids of the memories another process may redact
  MaxKills,     \* bound: kills of mergers
  Redacted      \* the text of a redacted row

AMemories == Memories \subseteq Nat
ATexts    == TextOf \in [Memories -> Texts] /\ Refused \subseteq Texts
ARedacted == Redacted \notin Texts
AInto     == Into \in [Mergers -> Targets]
AOrder    == Order \in [Mergers -> Seq(Clones)]
AKills    == MaxKills \in Nat

ASSUME MergeAssumption ==
  AMemories /\ ATexts /\ ARedacted /\ AInto /\ AOrder /\ AKills

Tiers == {"team", "private"}

\* A curated_memories row as far as the gate looks at it: the id, the text
\* (and with it the content_hash column), the audience its metadata carries,
\* whether it is active, and the merge clock it was stamped with (0: it was
\* not written by a merge).
Row == [id: Memories, text: Texts \cup {Redacted}, tier: Tiers,
        active: BOOLEAN, at: Nat]

\* A store its own governed writes produced: one row per id and per text.
OneEach(rows) ==
  \A r, s \in rows :
    r.id = s.id \/ (r.text = s.text /\ r.text \in Texts) => r = s

AContents ==
  /\ Contents \in [Clones -> SUBSET SUBSET Row]
  /\ \A c \in Clones : \A rows \in Contents[c] :
       IsFiniteSet(rows) /\ \A r, s \in rows : r.id = s.id => r = s
ABases ==
  Bases \subseteq {rows \in SUBSET Row : OneEach(rows) /\ \A r \in rows : r.at = 0}

ASSUME RowsAssumption == AContents /\ ABases

VARIABLES
  clone,     \* the rows of each clone
  store,     \* the rows of each target
  receipts,  \* 'redacted' receipts of each target: the texts they name
  chain,     \* the 'promoted' events the merges appended to each target
  pc,        \* "idle", "running", "done" or "failed" for each merger
  todo,      \* the rows of the union each merger has still to govern
  seen,      \* existingHashes of each merger
  kills      \* how often a merger was killed

vars == <<clone, store, receipts, chain, pc, todo, seen, kills>>
merger == <<pc, todo, seen>>

Ids(rows) == {r.id : r \in rows}
TextsIn(rows) == {r.text : r \in rows}

----------------------------------------------------------------------------
(* The union of the clones.                                                *)

\* findByTenantAndLifecycle(tenant, 'active') of one clone.
ActiveRows(c) == {r \in clone[c] : r.active}

\* unionById of a merger that was given the clones in this order: of the
\* rows with one id the first seen is kept.
Union(order) ==
  {r \in UNION {ActiveRows(order[i]) : i \in 1..Len(order)} :
     \E i \in 1..Len(order) :
       /\ r \in ActiveRows(order[i])
       /\ \A j \in 1..(i - 1) : r.id \notin Ids(ActiveRows(order[j]))}

\* Step 2b: id = deriveMemoryId(candidateId, contentHash).
Derived(r) == r.text = TextOf[r.id]

\* mergeClock(index): the place of the row in the sorted union.
MergeClock(p, r) ==
  1 + Cardinality({s \in Union(Order[p]) : s.id < r.id})

----------------------------------------------------------------------------
Init ==
  /\ clone \in {rows \in [Clones -> UNION {Contents[c] : c \in Clones}] :
                 \A c \in Clones : rows[c] \in Contents[c]}
  /\ \E base \in Bases : store = [d \in Targets |-> base]
  /\ receipts = [d \in Targets |-> {}]
  /\ chain = [d \in Targets |-> <<>>]
  /\ pc = [p \in Mergers |-> "idle"]
  /\ todo = [p \in Mergers |-> {}]
  /\ seen = [p \in Mergers |-> {}]
  /\ kills = 0

\* Ids that do not derive from their rows abort a merge before it writes
\* anything (MergeIdInvariantError).
RefuseUnion(p) ==
  /\ pc[p] = "idle"
  /\ \E r \in Union(Order[p]) : ~Derived(r)
  /\ pc' = [pc EXCEPT ![p] = "failed"]
  /\ UNCHANGED <<clone, store, receipts, chain, todo, seen, kills>>

\* Mutant: only the active rows are read.
SeedActive(rows) == TextsIn({r \in rows : r.active})

\* A merge, or its rerun, reads the clones and seeds existingHashes with the
\* content hash of every row of the target, retired ones included.
Seed(rows) == TextsIn(rows)

StartMerge(p) ==
  /\ pc[p] # "running"
  /\ \A r \in Union(Order[p]) : Derived(r)
  /\ pc' = [pc EXCEPT ![p] = "running"]
  /\ todo' = [todo EXCEPT ![p] = Union(Order[p])]
  /\ seen' = [seen EXCEPT ![p] = Seed(store[Into[p]])]
  /\ UNCHANGED <<clone, store, receipts, chain, kills>>

\* Mutant: the first clone's rows are walked before the second's.
IsNextByClone(p, r) ==
  r \in ActiveRows(Order[p][1]) \/ todo[p] \cap ActiveRows(Order[p][1]) = {}

\* The union is walked in the order of the ids.
IsNext(p, r) == \A s \in todo[p] : r.id <= s.id

\* assertDisclosureClean and the policy, with its dedup_check rule.
Passes(p, r) == r.text \notin Refused /\ r.text \notin seen[p]

\* Mutant: the loop is left at the first row that is refused.
QuarantineEnds(p) ==
  /\ pc[p] = "running"
  /\ \E r \in todo[p] : IsNext(p, r) /\ ~Passes(p, r)
  /\ todo' = [todo EXCEPT ![p] = {}]
  /\ UNCHANGED <<clone, store, receipts, chain, pc, seen, kills>>

\* The row is quarantined: nothing is written.
Quarantine(p) ==
  /\ pc[p] = "running"
  /\ \E r \in todo[p] :
       /\ IsNext(p, r)
       /\ ~Passes(p, r)
       /\ todo' = [todo EXCEPT ![p] = @ \ {r}]
  /\ UNCHANGED <<clone, store, receipts, chain, pc, seen, kills>>

\* Mutant: the text just promoted is not remembered.
AccreteNothing(p, r) == seen

\* existingHashes.add(contentHash)
Accrete(p, r) == [seen EXCEPT ![p] = @ \cup {r.text}]

\* promote() in its own transaction: the row, active and stamped by the merge
\* clock, and its 'promoted' event.
PromoteRow(p) ==
  /\ pc[p] = "running"
  /\ \E r \in todo[p] :
       /\ IsNext(p, r)
       /\ Passes(p, r)
       /\ r.id \notin Ids(store[Into[p]])
       /\ store' = [store EXCEPT ![Into[p]] =
                      @ \cup {[r EXCEPT !.active = TRUE,
                                        !.at = MergeClock(p, r)]}]
       /\ chain' = [chain EXCEPT ![Into[p]] = Append(@, r.id)]
       /\ todo' = [todo EXCEPT ![p] = @ \ {r}]
       /\ seen' = Accrete(p, r)
  /\ UNCHANGED <<clone, receipts, pc, kills>>

\* The target already has a row under that id, with another text or written
\* since the hashes were read: the insert breaks the primary key, promote()
\* rolls back and the error ends the merge.
Conflict(p) ==
  /\ pc[p] = "running"
  /\ \E r \in todo[p] :
       IsNext(p, r) /\ Passes(p, r) /\ r.id \in Ids(store[Into[p]])
  /\ pc' = [pc EXCEPT ![p] = "failed"]
  /\ todo' = [todo EXCEPT ![p] = {}]
  /\ seen' = [seen EXCEPT ![p] = {}]
  /\ UNCHANGED <<clone, store, receipts, chain, kills>>

FinishMerge(p) ==
  /\ pc[p] = "running"
  /\ todo[p] = {}
  /\ pc' = [pc EXCEPT ![p] = "done"]
  /\ seen' = [seen EXCEPT ![p] = {}]
  /\ UNCHANGED <<clone, store, receipts, chain, todo, kills>>

\* The process dies between two rows.
Kill(p) ==
  /\ pc[p] = "running"
  /\ kills < MaxKills
  /\ kills' = kills + 1
  /\ pc' = [pc EXCEPT ![p] = "idle"]
  /\ todo' = [todo EXCEPT ![p] = {}]
  /\ seen' = [seen EXCEPT ![p] = {}]
  /\ UNCHANGED <<clone, store, receipts, chain>>

\* Another process retires a memory of a target: its content_hash stays.
Retire(d) ==
  /\ \E r \in store[d] :
       /\ r.id \in Retirable
       /\ r.active
       /\ store' = [store EXCEPT ![d] =
                      (@ \ {r}) \cup {[r EXCEPT !.active = FALSE]}]
  /\ UNCHANGED <<clone, receipts, chain, merger, kills>>

\* Another process redacts a memory of a target: text and content_hash are
\* replaced and a receipt names the old hash.
Redact(d) ==
  /\ \E r \in store[d] :
       /\ r.id \in Redactable
       /\ r.text \in Texts
       /\ store' = [store EXCEPT ![d] =
                      (@ \ {r}) \cup {[r EXCEPT !.text = Redacted]}]
       /\ receipts' = [receipts EXCEPT ![d] = @ \cup {r.text}]
  /\ UNCHANGED <<clone, chain, merger, kills>>

Govern(p) ==
  StartMerge(p) \/ Quarantine(p) \/ PromoteRow(p) \/ Conflict(p) \/ FinishMerge(p)

Next ==
  \/ \E p \in Mergers : Govern(p) \/ RefuseUnion(p) \/ Kill(p)
  \/ \E d \in Targets : Retire(d) \/ Redact(d)

\* A merge that was killed or failed is run again, and a running one goes on.
Spec == Init /\ [][Next]_vars /\ \A p \in Mergers : WF_vars(Govern(p))

----------------------------------------------------------------------------
(* Properties.                                                             *)

TypeOK ==
  /\ clone \in [Clones -> SUBSET Row]
  /\ store \in [Targets -> SUBSET Row]
  /\ receipts \in [Targets -> SUBSET Texts]
  /\ chain \in [Targets -> Seq(Memories)]
  /\ pc \in [Mergers -> {"idle", "running", "done", "failed"}]
  /\ todo \in [Mergers -> SUBSET Row]
  /\ seen \in [Mergers -> SUBSET (Texts \cup {Redacted})]
  /\ kills \in 0..MaxKills

\* The same content is never two memories of a target, retired ones counted,
\* however many merges into it overlap, are killed or are run again
\* (existingHashes, merge-gate.ts 311-313 and 406-408).
OneMemoryPerText == \A d \in Targets : OneEach(store[d])

\* What a merge would add to a target if it were one atomic step: of the rows
\* of the union that pass the gate and whose text the target did not have,
\* the one with the lowest id for each text.
Base(d) == {r \in store[d] : r.at = 0}
Merged(d) == Ids({r \in store[d] : r.at > 0})

Outcome(p) ==
  {r.id : r \in {s \in Union(Order[p]) :
     /\ s.text \notin Refused
     /\ s.text \notin TextsIn(Base(Into[p]))
     /\ \A q \in Union(Order[p]) : q.text = s.text => s.id <= q.id}}

\* When no clone holds a redacted row (which row of an id is kept would then
\* depend on the order of the clones, and whether the merge is refused) and the
\* target redacts no text of theirs: a merge that commits row by row, that
\* other merges overlap, that is killed or fails and is run again, adds to the
\* target what the atomic merge would: never a row more, and once one run has
\* finished never a row less.
MergeIsAtomic ==
  \A p \in Mergers :
    (\A r \in Union(Order[p]) : Derived(r) /\ r.text \notin receipts[Into[p]]) =>
    /\ Merged(Into[p]) \subseteq Outcome(p)
    /\ pc[p] = "done" => Outcome(p) \subseteq Merged(Into[p])

IsInitial(s, t) == Len(s) <= Len(t) /\ \A i \in 1..Len(s) : s[i] = t[i]

\* mergeGovern(A, B) and mergeGovern(B, A) write the same ids in the same
\* order with the same clock (merge-gate.ts 56-70): at every moment the
\* events of one target continue those of the other.  The comment says
\* "BYTE-IDENTICAL"; what the id of a row does not cover, its audience, is that of
\* the clone given first and may differ.
Commutes ==
  \A d, e \in Targets :
    /\ IsInitial(chain[d], chain[e]) \/ IsInitial(chain[e], chain[d])
    /\ \A r \in store[d], s \in store[e] :
         r.id = s.id /\ r.at > 0 /\ s.at > 0 => r.at = s.at

\* A merge whose rows all derive their ids, and that is run again whenever it
\* was killed or failed, comes to cover every row the gate lets in: from then
\* on the target holds its text.
Covered(p) ==
  \A r \in Union(Order[p]) :
    r.text \in Refused \/ r.text \in TextsIn(store[Into[p]])

Converges ==
  \A p \in Mergers :
    <>[]((\A r \in Union(Order[p]) : Derived(r)) => Covered(p))
=============================================================================
