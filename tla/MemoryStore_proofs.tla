-------------------------- MODULE MemoryStore_proofs --------------------------
(***************************************************************************)
(* Safety of the memory table for every number of memories and processes.  *)
(* The theorems say which writers they allow: a program that writes back a *)
(* whole row it read earlier (redactMemory, narrowAudience), and a sweep   *)
(* that writes its receipt in a later statement, are exactly what breaks   *)
(* the others.                                                             *)
(***************************************************************************)
EXTENDS MemoryStore, TLAPS

\* The idle task is a task.
LEMMA IdleType == Idle \in Tasks
BY DEF Idle, Tasks, Ops, States, Rows, Lives, Texts, Tiers, NoRow

\* A process that moves on to a task leaves every process with a task.
LEMMA GotoType ==
  ASSUME task \in [Workers -> Tasks], NEW w \in Workers, NEW t \in Tasks, Goto(w, t)
  PROVE  task' \in [Workers -> Tasks]
BY DEF Goto

\* A call that holds a row it has read is a task.
LEMMA HoldingType ==
  ASSUME row \in [Memories -> Rows], NEW m \in Memories,
         NEW op \in {"redact", "narrow", "settle"}, NEW to \in States \ {"superseded"}
  PROVE  Holding(m, op, to) \in Tasks
BY DEF Holding, Idle, Tasks, Ops

\* A superseded row is a row.
LEMMA RetireType ==
  ASSUME NEW r \in Rows, NEW m \in Memories
  PROVE  Retire(r, m) \in Rows
BY DEF Retire, Rows, Lives, States

\* promote()'s transaction stores rows.
LEMMA CommitRows ==
  ASSUME TypeOK, NEW w \in Workers, CommitPromotion(w)
  PROVE  row' \in [Memories -> Rows] /\ said' \in [Memories -> Lives]
<1>1. task[w].on \in Memories
  BY DEF TypeOK, CommitPromotion, Tasks
<1>2. [NoRow EXCEPT !.life = "active"] \in Rows
  BY DEF NoRow, Rows, Lives, States, Texts, Tiers
<1>3. \A x \in Memories : Retire(row[x], task[w].on) \in Rows
  BY <1>1, RetireType DEF TypeOK
<1>4. row' \in [Memories -> Rows]
  BY <1>2, <1>3 DEF CommitPromotion, TypeOK
<1>5. said' \in [Memories -> Lives]
  BY DEF CommitPromotion, TypeOK, Lives, States
<1>. QED
  BY <1>4, <1>5

\* Type correctness (every variable of the table and its writers).
THEOREM Typing == Spec => []TypeOK
<1>1. Init => TypeOK
  BY IdleType DEF Init, TypeOK, NoRow, Rows, Lives, Texts, Tiers
<1>2. TypeOK /\ [Next]_vars => TypeOK'
  <2>. SUFFICES ASSUME TypeOK, [Next]_vars
                PROVE  TypeOK'
    OBVIOUS
  <2>. USE DEF TypeOK
  <2>w. Curators \cup Batchers \cup Editors \cup Settlers \cup Sweepers \subseteq Workers
    BY DEF Workers
  <2>t. ASSUME NEW w \in Workers
        PROVE  /\ task[w] \in Tasks
               /\ task[w].op \notin {"idle", "batch", "sweep"} => task[w].on \in Memories
               /\ task[w].seen \in Rows /\ task[w].to \in Lives
    BY DEF Tasks, Lives
  <2>l. ASSUME NEW m \in Memories, NEW s \in States,
               row' = [row EXCEPT ![m].life = s]
        PROVE  row' \in [Memories -> Rows]
    <3>1. [row[m] EXCEPT !.life = s] \in Rows
      BY DEF Rows, Lives
    <3>. QED
      BY <2>l, <3>1
  <2>1. ASSUME NEW w \in Workers, Crash(w) PROVE TypeOK'
    BY <2>1, IdleType, GotoType DEF Crash, Throw
  <2>2. ASSUME NEW w \in Curators, CommitPromotion(w) PROVE TypeOK'
    <3>1. task' \in [Workers -> Tasks]
      BY <2>2, <2>w, IdleType, GotoType DEF CommitPromotion
    <3>. QED
      BY <2>2, <2>w, <3>1, CommitRows DEF CommitPromotion
  <2>3. ASSUME NEW w \in Curators, NEW m \in Memories, PlanPromotion(w, m) PROVE TypeOK'
    <3>1. PICK S \in SUBSET Active :
            Goto(w, [Idle EXCEPT !.op = "promote", !.on = m, !.rest = S])
      BY <2>3 DEF PlanPromotion
    <3>2. [Idle EXCEPT !.op = "promote", !.on = m, !.rest = S] \in Tasks
      BY IdleType DEF Tasks, Ops, Active
    <3>3. task' \in [Workers -> Tasks]
      BY <2>w, <3>1, <3>2, GotoType
    <3>. QED
      BY <2>3, <3>3 DEF PlanPromotion
  <2>4. ASSUME NEW m \in Memories, NEW by \in Memories, Supersede(m, by) PROVE TypeOK'
    <3>1. Retire(row[m], by) \in Rows
      BY RetireType
    <3>. QED
      BY <2>4, <3>1 DEF Supersede, Lives, States
  <2>5. ASSUME NEW m \in Memories, NEW to \in States, Transition(m, to) PROVE TypeOK'
    BY <2>5, <2>l DEF Transition, Lives
  <2>6. ASSUME NEW w \in Batchers, NEW to \in States \ {"superseded"}, BatchRead(w, to)
        PROVE  TypeOK'
    <3>1. PICK S \in SUBSET Stored :
            Goto(w, [Idle EXCEPT !.op = "batch", !.rest = S, !.to = to])
      BY <2>6 DEF BatchRead
    <3>2. [Idle EXCEPT !.op = "batch", !.rest = S, !.to = to] \in Tasks
      BY IdleType DEF Tasks, Ops, Stored
    <3>3. task' \in [Workers -> Tasks]
      BY <2>w, <3>1, <3>2, GotoType
    <3>. QED
      BY <2>6, <3>3 DEF BatchRead
  <2>7. ASSUME NEW w \in Batchers, NEW m \in Memories, BatchApply(w, m) PROVE TypeOK'
    <3>1. task[w] \in Tasks /\ task[w].to \in States
      BY <2>w, <2>t DEF Tasks
    <3>2. [task[w] EXCEPT !.rest = @ \ {m}] \in Tasks
      BY <3>1 DEF Tasks
    <3>3. task' \in [Workers -> Tasks]
      BY <2>7, <2>w, <3>2, IdleType, GotoType DEF BatchApply, Throw
    <3>. QED
      BY <2>7, <2>l, <3>1, <3>3 DEF BatchApply, Lives
  <2>8. ASSUME NEW w \in Sweepers, SweepRead(w) PROVE TypeOK'
    <3>1. PICK S \in SUBSET Active : Goto(w, [Idle EXCEPT !.op = "sweep", !.rest = S])
      BY <2>8 DEF SweepRead
    <3>2. [Idle EXCEPT !.op = "sweep", !.rest = S] \in Tasks
      BY IdleType DEF Tasks, Ops, Active
    <3>3. task' \in [Workers -> Tasks]
      BY <2>w, <3>1, <3>2, GotoType
    <3>. QED
      BY <2>8, <3>3 DEF SweepRead
  <2>9. ASSUME NEW w \in Sweepers, NEW m \in Memories, SweepCheck(w, m) PROVE TypeOK'
    <3>1. task[w] \in Tasks
      BY <2>w, <2>t
    <3>2. /\ [task[w] EXCEPT !.op = "deprecate", !.on = m, !.rest = task[w].rest \ {m}] \in Tasks
          /\ [task[w] EXCEPT !.rest = task[w].rest \ {m}] \in Tasks
      BY <3>1 DEF Tasks, Ops
    <3>3. task' \in [Workers -> Tasks]
      BY <2>9, <2>w, <3>2, IdleType, GotoType DEF SweepCheck
    <3>. QED
      BY <2>9, <3>3 DEF SweepCheck
  <2>10. ASSUME NEW w \in Sweepers, SweepWrite(w) PROVE TypeOK'
    <3>1. task[w] \in Tasks /\ task[w].on \in Memories
      BY <2>10, <2>w, <2>t DEF SweepWrite
    <3>2. [task[w] EXCEPT !.op = "receipt"] \in Tasks
      BY <3>1 DEF Tasks, Ops
    <3>3. task' \in [Workers -> Tasks]
      BY <2>10, <2>w, <3>2, GotoType DEF SweepWrite
    <3>. QED
      BY <2>10, <2>l, <3>1, <3>3 DEF SweepWrite, States
  <2>11. ASSUME NEW w \in Sweepers, SweepReceipt(w) PROVE TypeOK'
    <3>1. task[w] \in Tasks /\ task[w].on \in Memories
      BY <2>11, <2>w, <2>t DEF SweepReceipt
    <3>2. [Idle EXCEPT !.op = "sweep", !.rest = task[w].rest] \in Tasks
      BY <3>1, IdleType DEF Tasks, Ops
    <3>3. task' \in [Workers -> Tasks]
      BY <2>11, <2>w, <3>2, IdleType, GotoType DEF SweepReceipt, SweepOn
    <3>. QED
      BY <2>11, <3>1, <3>3 DEF SweepReceipt, Lives, States
  <2>12. ASSUME NEW w \in Editors, NEW m \in Memories, EditRead(w, m) PROVE TypeOK'
    <3>1. task' \in [Workers -> Tasks]
      BY <2>12, <2>w, HoldingType, GotoType DEF EditRead, States
    <3>. QED
      BY <2>12, <3>1 DEF EditRead
  <2>13. ASSUME NEW w \in Editors, Redact(w) PROVE TypeOK'
    <3>1. task[w].on \in Memories /\ [task[w].seen EXCEPT !.text = "redacted"] \in Rows
      BY <2>13, <2>w, <2>t DEF Redact, Rows, Texts
    <3>2. task' \in [Workers -> Tasks]
      BY <2>13, <2>w, IdleType, GotoType DEF Redact
    <3>. QED
      BY <2>13, <3>1, <3>2 DEF Redact
  <2>14. ASSUME NEW w \in Editors, Narrow(w) PROVE TypeOK'
    <3>1. task[w].on \in Memories /\ [task[w].seen EXCEPT !.tier = "admins"] \in Rows
      BY <2>14, <2>w, <2>t DEF Narrow, Rows, Tiers
    <3>2. task' \in [Workers -> Tasks]
      BY <2>14, <2>w, IdleType, GotoType DEF Narrow
    <3>. QED
      BY <2>14, <3>1, <3>2 DEF Narrow
  <2>15. ASSUME NEW w \in Settlers, NEW m \in Memories, ReviewRead(w, m) PROVE TypeOK'
    <3>1. task' \in [Workers -> Tasks]
      BY <2>15, <2>w, HoldingType, GotoType DEF ReviewRead, States
    <3>. QED
      BY <2>15, <3>1 DEF ReviewRead
  <2>16. ASSUME NEW w \in Settlers, Settle(w) PROVE TypeOK'
    <3>1. task[w].on \in Memories /\ task[w].to \in States
      BY <2>16, <2>w DEF Settle, Tasks
    <3>2. task' \in [Workers -> Tasks]
      BY <2>16, <2>w, IdleType, GotoType DEF Settle
    <3>. QED
      BY <2>16, <2>l, <3>1, <3>2 DEF Settle, Lives
  <2>17. CASE UNCHANGED vars
    BY <2>17 DEF vars
  <2>. QED
    BY <2>1, <2>2, <2>3, <2>4, <2>5, <2>6, <2>7, <2>8, <2>9, <2>10, <2>11, <2>12,
       <2>13, <2>14, <2>15, <2>16, <2>17 DEF Next
<1>. QED
  BY <1>1, <1>2, PTL DEF Spec

-----------------------------------------------------------------------------
(* Histories.  An edge of the successor graph is drawn only to a memory that *)
(* is not superseded itself, so a circle would need a step that closes it.   *)

\* A step that supersedes no memory anew and loses no row closes no circle.
LEMMA HistoryKept ==
  ASSUME NoCircularHistory, Stored \subseteq Stored',
         \A m \in Memories : row'[m].life = "superseded"
                               => row[m].life = "superseded" /\ row'[m].succ = row[m].succ
  PROVE  NoCircularHistory'
<1>. SUFFICES ASSUME NEW G \in SUBSET {m \in Memories : row'[m].life = "superseded"}, G # {}
              PROVE  \E m \in G : row'[m].succ \in Stored' \ G
  BY DEF NoCircularHistory
<1>1. G \in SUBSET {m \in Memories : row[m].life = "superseded"}
  OBVIOUS
<1>2. PICK m \in G : row[m].succ \in Stored \ G
  BY <1>1 DEF NoCircularHistory
<1>. QED
  BY <1>1, <1>2

\* A step that draws edges only to one memory that is not superseded after it
\* closes no circle.
LEMMA HistoryGrows ==
  ASSUME NoCircularHistory, Stored \subseteq Stored',
         NEW by \in Memories, by \in Stored', row'[by].life # "superseded",
         \A m \in Memories : row'[m].life = "superseded"
                               => \/ row'[m].succ = by
                                  \/ row[m].life = "superseded" /\ row'[m].succ = row[m].succ
  PROVE  NoCircularHistory'
<1>. SUFFICES ASSUME NEW G \in SUBSET {m \in Memories : row'[m].life = "superseded"}, G # {}
              PROVE  \E m \in G : row'[m].succ \in Stored' \ G
  BY DEF NoCircularHistory
<1>1. CASE \E m \in G : row'[m].succ = by
  BY <1>1
<1>2. CASE \A m \in G : row'[m].succ # by
  <2>1. G \in SUBSET {m \in Memories : row[m].life = "superseded"}
    BY <1>2
  <2>2. PICK m \in G : row[m].succ \in Stored \ G
    BY <2>1 DEF NoCircularHistory
  <2>. QED
    BY <1>2, <2>1, <2>2
<1>. QED
  BY <1>1, <1>2

\* With no redaction or narrowing in flight, no group of superseded memories
\* ever supersede one another (promoter.ts and supersede()), however stale the
\* plans of the promotions and however many sweeps and batches run.
THEOREM Histories ==
  ASSUME Editors = {}
  PROVE  Spec => []NoCircularHistory
<1>1. Init => NoCircularHistory
  BY DEF Init, NoCircularHistory, NoRow
<1>2. TypeOK /\ NoCircularHistory /\ [Next]_vars => NoCircularHistory'
  <2>. SUFFICES ASSUME TypeOK, NoCircularHistory, [Next]_vars
                PROVE  NoCircularHistory'
    OBVIOUS
  <2>k. ASSUME UNCHANGED row PROVE NoCircularHistory'
    BY <2>k, HistoryKept DEF Stored
  <2>m. ASSUME NEW m \in Memories, NEW s \in States \ {"superseded"},
               row' = [row EXCEPT ![m].life = s]
        PROVE  NoCircularHistory'
    <3>1. /\ \A x \in Memories : x # m => row'[x] = row[x]
          /\ row'[m].life = s
      BY <2>m DEF TypeOK, Rows
    <3>2. Stored \subseteq Stored'
      BY <3>1 DEF Stored, States
    <3>. QED
      BY <3>1, <3>2, HistoryKept
  <2>1. ASSUME NEW w \in Curators, CommitPromotion(w) PROVE NoCircularHistory'
    <3>. DEFINE m == task[w].on
    <3>0. m \in Memories
      BY <2>1 DEF TypeOK, Workers, Tasks, CommitPromotion
    <3>1. CASE UNCHANGED row
      BY <3>1, <2>k
    <3>2. CASE m \notin Stored
      <4>1. row'[m].life = "active"
        BY <2>1, <3>0, <3>2 DEF CommitPromotion, NoRow
      <4>2. \A x \in Memories \ {m} :
              \/ row'[x] = row[x]
              \/ row'[x].life = "superseded" /\ row'[x].succ = m
        <5>1. ASSUME NEW x \in Memories \ {m}
              PROVE  row'[x] = row[x] \/ row'[x] = Retire(row[x], m)
          BY <2>1, <3>2 DEF CommitPromotion
        <5>2. ASSUME NEW x \in Memories
              PROVE  Retire(row[x], m).life = "superseded" /\ Retire(row[x], m).succ = m
          BY DEF Retire, TypeOK, Rows
        <5>. QED
          BY <5>1, <5>2
      <4>3. Stored \subseteq Stored' /\ m \in Stored'
        BY <3>0, <4>1, <4>2 DEF Stored
      <4>. HIDE DEF m
      <4>. QED
        BY <3>0, <4>1, <4>2, <4>3, HistoryGrows
    <3>. QED
      BY <2>1, <3>1, <3>2 DEF CommitPromotion
  <2>2. ASSUME NEW m \in Memories, NEW by \in Memories, Supersede(m, by)
        PROVE  NoCircularHistory'
    <3>1. /\ \A x \in Memories : x # m => row'[x] = row[x]
          /\ row'[m].life = "superseded" /\ row'[m].succ = by
      BY <2>2 DEF Supersede, TypeOK, Rows, Retire
    <3>2. by \in Stored' /\ row'[by].life # "superseded" /\ Stored \subseteq Stored'
      BY <2>2, <3>1 DEF Supersede, Active, Stored
    <3>. QED
      BY <3>1, <3>2, HistoryGrows
  <2>3. ASSUME NEW m \in Memories, NEW to \in States, Transition(m, to)
        PROVE  NoCircularHistory'
    BY <2>3, <2>m DEF Transition
  <2>4. ASSUME NEW w \in Batchers, NEW m \in Memories, BatchApply(w, m)
        PROVE  NoCircularHistory'
    <3>1. task[w].to \in States \ {"superseded"}
      BY DEF TypeOK, Workers, Tasks
    <3>. QED
      BY <2>4, <3>1, <2>m, <2>k DEF BatchApply
  <2>5. ASSUME NEW w \in Sweepers, SweepWrite(w) PROVE NoCircularHistory'
    <3>1. task[w].on \in Memories
      BY <2>5 DEF TypeOK, Workers, Tasks, SweepWrite
    <3>2. "deprecated" \in States \ {"superseded"}
      BY DEF States
    <3>3. row' = [row EXCEPT ![task[w].on].life = "deprecated"]
      BY <2>5 DEF SweepWrite
    <3>. QED
      BY <3>1, <3>2, <3>3, <2>m
  <2>6. ASSUME NEW w \in Settlers, Settle(w) PROVE NoCircularHistory'
    <3>1. task[w].on \in Memories /\ task[w].to \in States \ {"superseded"}
      BY <2>6 DEF TypeOK, Workers, Tasks, Settle
    <3>. QED
      BY <2>6, <3>1, <2>m, <2>k DEF Settle
  <2>. QED
    BY <2>k, <2>1, <2>2, <2>3, <2>4, <2>5, <2>6
    DEF Next, vars, Crash, PlanPromotion, BatchRead, SweepRead, SweepCheck, SweepReceipt,
        ReviewRead
<1>. QED
  BY <1>1, <1>2, Typing, PTL DEF Spec

-----------------------------------------------------------------------------
(* Receipts.                                                                 *)

\* Promotions, batches, settlements and direct transitions keep the newest
\* receipt of a memory in step with its lifecycle: row and receipt commit in one
\* transaction (promoter.ts, memory-service.ts, transition.ts, cli.ts).
THEOREM Receipts ==
  ASSUME Editors = {}, Sweepers = {}
  PROVE  Spec => []ReceiptsTell
<1>1. Init => ReceiptsTell
  BY DEF Init, ReceiptsTell, NoRow
<1>2. TypeOK /\ ReceiptsTell /\ [Next]_vars => ReceiptsTell'
  <2>. SUFFICES ASSUME TypeOK, ReceiptsTell, [Next]_vars
                PROVE  ReceiptsTell'
    OBVIOUS
  <2>. USE DEF ReceiptsTell
  <2>m. ASSUME NEW m \in Memories, NEW s \in States,
               row' = [row EXCEPT ![m].life = s], said' = [said EXCEPT ![m] = s]
        PROVE  ReceiptsTell'
    BY <2>m DEF TypeOK, Rows
  <2>1. ASSUME NEW w \in Curators, CommitPromotion(w) PROVE ReceiptsTell'
    <3>1. \A x \in Memories : Retire(row[x], task[w].on).life = "superseded"
      BY DEF Retire, TypeOK, Rows
    <3>2. [NoRow EXCEPT !.life = "active"].life = "active"
      BY DEF NoRow
    <3>. QED
      BY <2>1, <3>1, <3>2 DEF CommitPromotion
  <2>2. ASSUME NEW m \in Memories, NEW by \in Memories, Supersede(m, by)
        PROVE  ReceiptsTell'
    BY <2>2 DEF Supersede, Retire, TypeOK, Rows
  <2>3. ASSUME NEW m \in Memories, NEW to \in States, Transition(m, to)
        PROVE  ReceiptsTell'
    BY <2>3, <2>m DEF Transition
  <2>4. ASSUME NEW w \in Batchers, NEW m \in Memories, BatchApply(w, m)
        PROVE  ReceiptsTell'
    <3>1. task[w].to \in States
      BY DEF TypeOK, Workers, Tasks
    <3>. QED
      BY <2>4, <3>1, <2>m DEF BatchApply
  <2>5. ASSUME NEW w \in Settlers, Settle(w) PROVE ReceiptsTell'
    <3>1. task[w].on \in Memories /\ task[w].to \in States
      BY <2>5 DEF TypeOK, Workers, Tasks, Settle
    <3>. QED
      BY <2>5, <3>1, <2>m DEF Settle
  <2>6. CASE UNCHANGED <<row, said>>
    BY <2>6
  <2>. QED
    BY <2>1, <2>2, <2>3, <2>4, <2>5, <2>6
    DEF Next, vars, Crash, PlanPromotion, BatchRead, ReviewRead
<1>. QED
  BY <1>1, <1>2, Typing, PTL DEF Spec

-----------------------------------------------------------------------------
(* The lifecycle.  What is written is judged against the row as it is then; *)
(* a plan needs only that the memories it retires are still in the table,   *)
(* a settlement only that its move was an edge from the state it reviewed.  *)

\* A promotion will retire stored memories, no more than the cap, a batch has
\* listed stored ones, and a settlement will go along an edge of the graph.
PlansSound ==
  \A w \in Workers :
    /\ task[w].op \in {"promote", "batch"} => task[w].rest \subseteq Stored
    /\ task[w].op = "promote" => Cardinality(task[w].rest) <= MaxSupersedes
    /\ task[w].op = "settle" =>
         task[w].seen.life \in States /\ task[w].to \in Allowed[task[w].seen.life]

\* A process that goes on to something that is no such plan leaves the plans of
\* the others sound, as long as no memory is lost.
LEMMA PlansKept ==
  ASSUME TypeOK, PlansSound, Stored \subseteq Stored',
         NEW w \in Workers, NEW t \in Tasks, Goto(w, t), t.op \notin {"promote", "settle"},
         t.op = "batch" => t.rest \subseteq Stored
  PROVE  PlansSound'
<1>1. task'[w] = t /\ \A v \in Workers : v # w => task'[v] = task[v]
  BY DEF Goto, TypeOK
<1>. QED
  BY <1>1 DEF PlansSound

\* Steps that leave the processes as they are leave their plans sound.
LEMMA PlansStand ==
  ASSUME PlansSound, Stored \subseteq Stored', UNCHANGED task
  PROVE  PlansSound'
BY DEF PlansSound

\* One row gets another state: the lifecycle and the successors after it.
LEMMA LifeSet ==
  ASSUME TypeOK, NEW m \in Memories, NEW s \in States, row' = [row EXCEPT ![m].life = s]
  PROVE  /\ [x \in Memories |-> row'[x].life]
              = [[x \in Memories |-> row[x].life] EXCEPT ![m] = s]
         /\ [x \in Memories |-> row'[x].succ] = [x \in Memories |-> row[x].succ]
         /\ Stored \subseteq Stored'
<1>1. /\ row'[m].life = s /\ row'[m].succ = row[m].succ
      /\ \A x \in Memories : x # m => row'[x] = row[x]
  BY DEF TypeOK, Rows
<1>2. Stored \subseteq Stored'
  BY <1>1 DEF Stored, States
<1>3. \A x \in Memories : row'[x].life = IF x = m THEN s ELSE row[x].life
  BY <1>1
<1>4. \A x \in Memories : row'[x].succ = row[x].succ
  BY <1>1
<1>5. [x \in Memories |-> row'[x].life]
        = [[x \in Memories |-> row[x].life] EXCEPT ![m] = s]
  BY <1>3
<1>6. [x \in Memories |-> row'[x].succ] = [x \in Memories |-> row[x].succ]
  BY <1>4
<1>. QED
  BY <1>2, <1>5, <1>6

\* The graph is the one the lifecycle promises.
LEMMA SameGraph ==
  ASSUME NEW s \in States, NEW t \in Allowed[s]
  PROVE  <<s, t>> \in Table!Edges /\ t \in States
BY DEF Allowed, States, Table!Edges

\* A row that goes along an edge is a move of the lifecycle.
LEMMA MoveStep ==
  ASSUME TypeOK, NEW m \in Memories, row[m].life \in States,
         NEW to \in Allowed[row[m].life] \ {"superseded"},
         row' = [row EXCEPT ![m].life = to]
  PROVE  Table!LifeNext /\ Stored \subseteq Stored'
<1>1. <<row[m].life, to>> \in Table!Edges /\ to \in States
  BY SameGraph
<1>2. Table!Move(m, to)
  BY <1>1, LifeSet DEF Table!Move
<1>3. to \in {"active", "deprecated", "archived"}
  BY <1>1 DEF States
<1>. QED
  BY <1>1, <1>2, <1>3, LifeSet DEF Table!LifeNext

\* promote()'s transaction, when it commits, is a memory entering in the place
\* of those it planned to retire.
LEMMA EnterStep ==
  ASSUME TypeOK, PlansSound, NEW w \in Workers, CommitPromotion(w), task[w].on \notin Stored
  PROVE  Table!LifeNext /\ Stored \subseteq Stored'
<1>0. task[w].on \in Memories /\ task[w].rest \in SUBSET Memories
  BY DEF TypeOK, Tasks, CommitPromotion
<1>. SUFFICES ASSUME NEW m \in Memories, m = task[w].on,
                     NEW S \in SUBSET Memories, S = task[w].rest
              PROVE  Table!LifeNext /\ Stored \subseteq Stored'
  BY <1>0
<1>1. m \in Memories /\ S \subseteq Stored /\ Cardinality(S) <= MaxSupersedes
  BY DEF TypeOK, Tasks, CommitPromotion, PlansSound
<1>2. row[m].life = "absent" /\ \A x \in S : row[x].life # "absent"
  BY <1>1 DEF Stored
<1>3. row'[m].life = "active" /\ row'[m].succ = NoMemory
  BY <1>1 DEF CommitPromotion, NoRow
<1>4. ASSUME NEW x \in S
      PROVE  row'[x].life = "superseded" /\ row'[x].succ = m
  <2>1. x \in Memories /\ x # m
    BY <1>1, <1>2 DEF Stored
  <2>2. row'[x] = Retire(row[x], m)
    BY <2>1 DEF CommitPromotion
  <2>. QED
    BY <2>1, <2>2 DEF Retire, TypeOK, Rows
<1>5. \A x \in Memories : x # m /\ x \notin S => row'[x] = row[x]
  BY DEF CommitPromotion
<1>6. \A x \in Memories : x \in S => x # m
  BY <1>1, <1>2 DEF Stored
<1>7. Table!Enter(m, S)
  <2>1. [x \in Memories |-> row'[x].life]
          = [x \in Memories |-> IF x = m THEN "active"
               ELSE IF x \in S THEN "superseded" ELSE [y \in Memories |-> row[y].life][x]]
    BY <1>3, <1>4, <1>5
  <2>2. [x \in Memories |-> row'[x].succ]
          = [x \in Memories |-> IF x = m THEN NoMemory
               ELSE IF x \in S THEN m ELSE [y \in Memories |-> row[y].succ][x]]
    BY <1>3, <1>4, <1>5
  <2>3. [y \in Memories |-> row[y].life][m] = "absent"
    BY <1>1, <1>2
  <2>4. \A x \in S : [y \in Memories |-> row[y].life][x] # "absent"
    BY <1>1, <1>2 DEF Stored
  <2>. QED
    BY <1>1, <2>1, <2>2, <2>3, <2>4 DEF Table!Enter
<1>8. Stored \subseteq Stored'
  BY <1>3, <1>4, <1>5 DEF Stored
<1>. QED
  BY <1>1, <1>7, <1>8 DEF Table!LifeNext

\* Every step of a store with neither editors nor sweeps is a step of the
\* lifecycle or leaves it as it is, and leaves plans that are sound.
LEMMA LifeStep ==
  ASSUME Editors = {}, Sweepers = {}, TypeOK, PlansSound, [Next]_vars
  PROVE  [Table!LifeNext]_(Table!lifeVars) /\ PlansSound'
<1>. DEFINE Done == [Table!LifeNext]_(Table!lifeVars) /\ PlansSound'
<1>w. /\ Curators \subseteq Workers /\ Batchers \subseteq Workers /\ Settlers \subseteq Workers
      /\ \A w \in Workers : task[w] \in Tasks
  BY DEF Workers, TypeOK
<1>i. Idle.op \notin {"promote", "settle", "batch"}
  BY DEF Idle
<1>u. UNCHANGED row => UNCHANGED Table!lifeVars /\ Stored \subseteq Stored'
  BY DEF Table!lifeVars, Stored
<1>1. ASSUME NEW w \in Workers, Crash(w) PROVE Done
  BY <1>1, <1>i, <1>u, IdleType, PlansKept DEF Crash, Throw
<1>2. ASSUME NEW w \in Curators, CommitPromotion(w) PROVE Done
  <2>1. Goto(w, Idle) /\ w \in Workers
    BY <1>2, <1>w DEF CommitPromotion
  <2>2. CASE task[w].on \notin Stored
    BY <1>2, <1>i, <2>1, <2>2, EnterStep, IdleType, PlansKept
  <2>3. CASE task[w].on \in Stored
    BY <1>2, <1>i, <1>u, <2>1, <2>3, IdleType, PlansKept DEF CommitPromotion
  <2>. QED
    BY <2>2, <2>3
<1>3. ASSUME NEW w \in Curators, NEW m \in Memories, PlanPromotion(w, m) PROVE Done
  <2>1. PICK S \in SUBSET Active :
          /\ Cardinality(S) <= MaxSupersedes
          /\ Goto(w, [Idle EXCEPT !.op = "promote", !.on = m, !.rest = S])
    BY <1>3 DEF PlanPromotion
  <2>2. /\ task'[w].op = "promote" /\ task'[w].rest = S
        /\ \A v \in Workers : v # w => task'[v] = task[v]
    BY <1>w, <2>1 DEF Goto, TypeOK, Idle
  <2>3. S \subseteq Stored
    BY DEF Active, Stored
  <2>4. UNCHANGED row
    BY <1>3 DEF PlanPromotion
  <2>5. PlansSound'
    BY <1>u, <2>1, <2>2, <2>3, <2>4 DEF PlansSound
  <2>. QED
    BY <1>u, <2>4, <2>5
<1>4. ASSUME NEW m \in Memories, NEW by \in Memories, Supersede(m, by) PROVE Done
  <2>1. /\ row'[m].life = "superseded" /\ row'[m].succ = by
        /\ \A x \in Memories : x # m => row'[x] = row[x]
    BY <1>4 DEF Supersede, Retire, TypeOK, Rows
  <2>2. row[m].life = "active" /\ row[by].life = "active" /\ by # m
    BY <1>4 DEF Supersede, Active
  <2>3. Table!Replace(m, by)
    BY <2>1, <2>2 DEF Table!Replace, Table!Edges
  <2>4. Stored \subseteq Stored' /\ UNCHANGED task
    BY <1>4, <2>1 DEF Stored, Supersede
  <2>. QED
    BY <2>3, <2>4, PlansStand DEF Table!LifeNext
<1>5. ASSUME NEW m \in Memories, NEW to \in States, Transition(m, to) PROVE Done
  <2>1. row[m].life \in States /\ UNCHANGED task
    BY <1>5 DEF Transition, Stored, TypeOK, Rows, Lives
  <2>. QED
    BY <1>5, <2>1, MoveStep, PlansStand DEF Transition
<1>6. ASSUME NEW w \in Batchers, NEW to \in States \ {"superseded"}, BatchRead(w, to)
      PROVE  Done
  <2>1. PICK S \in SUBSET Stored :
          Goto(w, [Idle EXCEPT !.op = "batch", !.rest = S, !.to = to])
    BY <1>6 DEF BatchRead
  <2>2. [Idle EXCEPT !.op = "batch", !.rest = S, !.to = to] \in Tasks
    BY IdleType DEF Tasks, Ops, Stored
  <2>3. /\ [Idle EXCEPT !.op = "batch", !.rest = S, !.to = to].op = "batch"
        /\ [Idle EXCEPT !.op = "batch", !.rest = S, !.to = to].rest = S
    BY DEF Idle
  <2>4. UNCHANGED row
    BY <1>6 DEF BatchRead
  <2>. QED
    BY <1>u, <1>w, <2>1, <2>2, <2>3, <2>4, PlansKept
<1>7. ASSUME NEW w \in Batchers, NEW m \in Memories, BatchApply(w, m) PROVE Done
  <2>. DEFINE to == task[w].to
              on == [task[w] EXCEPT !.rest = @ \ {m}]
  <2>1. w \in Workers /\ task[w] \in Tasks /\ task[w].op = "batch"
    BY <1>7, <1>w DEF BatchApply
  <2>2. on \in Tasks /\ on.op = "batch" /\ on.rest = task[w].rest \ {m}
    BY <2>1 DEF Tasks
  <2>s. to \in States \ {"superseded"} /\ task[w].rest \subseteq Stored
    BY <2>1 DEF Tasks, PlansSound
  <2>3. Goto(w, Idle) \/ Goto(w, on)
    BY <1>7 DEF BatchApply, Throw
  <2>. HIDE DEF on
  <2>4. Stored \subseteq Stored' => PlansSound'
    BY <1>i, <2>1, <2>2, <2>s, <2>3, IdleType, PlansKept
  <2>5. CASE row[m].life = to
    <3>1. row' = [row EXCEPT ![m].life = to]
      BY <1>7, <2>5 DEF BatchApply
    <3>2. row' = row
      BY <2>5, <3>1 DEF TypeOK, Rows
    <3>. QED
      BY <1>u, <2>4, <3>2
  <2>6. CASE row[m].life # to /\ to \in Allowed[row[m].life]
    <3>1. row' = [row EXCEPT ![m].life = to]
      BY <1>7, <2>6 DEF BatchApply
    <3>2. row[m].life \in States
      BY <1>7, <2>s DEF BatchApply, Stored, TypeOK, Rows, Lives
    <3>. QED
      BY <2>s, <2>4, <2>6, <3>1, <3>2, MoveStep
  <2>7. CASE ~(row[m].life = to \/ to \in Allowed[row[m].life])
    BY <1>7, <1>u, <2>4, <2>7 DEF BatchApply
  <2>. QED
    BY <2>5, <2>6, <2>7
<1>8. ASSUME NEW w \in Settlers, NEW m \in Memories, ReviewRead(w, m) PROVE Done
  <2>1. PICK move \in {<<"active", "deprecated">>, <<"deprecated", "active">>,
                       <<"active", "archived">>} :
          row[m].life = move[1] /\ Goto(w, Holding(m, "settle", move[2]))
    BY <1>8 DEF ReviewRead
  <2>2. /\ task'[w] = Holding(m, "settle", move[2])
        /\ \A v \in Workers : v # w => task'[v] = task[v]
    BY <1>w, <2>1 DEF Goto, TypeOK
  <2>3. /\ task'[w].op = "settle" /\ task'[w].seen.life = move[1] /\ task'[w].to = move[2]
    BY <2>1, <2>2 DEF Holding, Idle
  <2>4. move[1] \in States /\ move[2] \in Allowed[move[1]]
    BY DEF States, Allowed
  <2>5. UNCHANGED row
    BY <1>8 DEF ReviewRead
  <2>6. PlansSound'
    BY <1>u, <2>2, <2>3, <2>4, <2>5 DEF PlansSound
  <2>. QED
    BY <1>u, <2>5, <2>6
<1>9. ASSUME NEW w \in Settlers, Settle(w) PROVE Done
  <2>1. w \in Workers /\ task[w] \in Tasks /\ task[w].op = "settle" /\ Goto(w, Idle)
    BY <1>9, <1>w DEF Settle
  <2>2. task[w].on \in Memories /\ task[w].to # "superseded"
    BY <2>1 DEF Tasks
  <2>3. task[w].seen.life \in States /\ task[w].to \in Allowed[task[w].seen.life]
    BY <2>1 DEF PlansSound
  <2>4. CASE row[task[w].on] = task[w].seen
    BY <1>9, <1>i, <2>1, <2>2, <2>3, <2>4, MoveStep, IdleType, PlansKept DEF Settle
  <2>5. CASE row[task[w].on] # task[w].seen
    BY <1>9, <1>i, <1>u, <2>1, <2>5, IdleType, PlansKept DEF Settle
  <2>. QED
    BY <2>4, <2>5
<1>10. CASE UNCHANGED vars
  BY <1>10, <1>u, PlansStand DEF vars
<1>. QED
  BY <1>1, <1>2, <1>3, <1>4, <1>5, <1>6, <1>7, <1>8, <1>9, <1>10 DEF Next

\* Promotions on stale plans, batches listed earlier, reviewed settlements and
\* direct transitions, killed anywhere, change lifecycles and successors only as
\* the lifecycle promises (promoter.ts, memory-repository.ts updateLifecycle,
\* cli.ts batch-transition, the settlement modules).  A sweep, which judges a row
\* in one statement and writes it in another, and an editor, which writes back
\* the lifecycle it read, are what it has to exclude.
THEOREM ImplementsLife ==
  ASSUME Editors = {}, Sweepers = {}
  PROVE  Spec => ImplementsLifecycle
<1>1. Init => PlansSound /\ Table!LifeInit
  BY DEF Init, PlansSound, Idle, NoRow, Table!LifeInit
<1>2. TypeOK /\ PlansSound /\ [Next]_vars => [Table!LifeNext]_(Table!lifeVars) /\ PlansSound'
  BY LifeStep
<1>. QED
  BY <1>1, <1>2, Typing, PTL DEF Spec, ImplementsLifecycle, Table!LifeSpec

\* What is superseded or archived is out of force for good.
NoComeback ==
  \A m \in Memories :
    row[m].life \in {"superseded", "archived"} => row'[m].life \in {"superseded", "archived"}

\* No promotion on a stale plan, late batch or settlement brings a superseded or
\* archived memory back (ALLOWED_TRANSITIONS has no way back from either): the
\* lifecycle the store implements has no such step.
THEOREM OutOfForce ==
  ASSUME Editors = {}, Sweepers = {}
  PROVE  Spec => [][NoComeback]_row
<1>1. TypeOK /\ [Table!LifeNext]_(Table!lifeVars) => [NoComeback]_row
  <2>. SUFFICES ASSUME TypeOK, [Table!LifeNext]_(Table!lifeVars),
                       NEW m \in Memories, row[m].life \in {"superseded", "archived"}
                PROVE  row'[m].life \in {"superseded", "archived"}
    BY DEF NoComeback
  <2>. DEFINE life  == [x \in Memories |-> row[x].life]
              lifeN == [x \in Memories |-> row'[x].life]
  <2>1. life[m] = row[m].life /\ lifeN[m] = row'[m].life
    OBVIOUS
  <2>2. ASSUME NEW n \in Memories, NEW S, Table!Enter(n, S)
        PROVE  lifeN[m] \in {"superseded", "archived"}
    <3>1. lifeN[m] = IF m = n THEN "active" ELSE IF m \in S THEN "superseded" ELSE life[m]
      BY <2>2 DEF Table!Enter
    <3>2. life[n] = "absent"
      BY <2>2 DEF Table!Enter
    <3>. QED
      BY <2>1, <3>1, <3>2
  <2>3. ASSUME NEW n \in Memories, NEW by \in Memories, Table!Replace(n, by)
        PROVE  lifeN[m] \in {"superseded", "archived"}
    <3>1. lifeN = [life EXCEPT ![n] = "superseded"]
      BY <2>3 DEF Table!Replace
    <3>. QED
      BY <2>1, <3>1
  <2>4. ASSUME NEW n \in Memories, NEW to \in {"active", "deprecated", "archived"},
               Table!Move(n, to)
        PROVE  lifeN[m] \in {"superseded", "archived"}
    <3>1. lifeN = [life EXCEPT ![n] = to] /\ <<life[n], to>> \in Table!Edges
      BY <2>4 DEF Table!Move
    <3>. QED
      BY <2>1, <3>1 DEF Table!Edges
  <2>5. CASE UNCHANGED Table!lifeVars
    <3>1. lifeN = life
      BY <2>5 DEF Table!lifeVars
    <3>. QED
      BY <2>1, <3>1
  <2>. QED
    BY <2>1, <2>2, <2>3, <2>4, <2>5 DEF Table!LifeNext
<1>. QED
  BY <1>1, ImplementsLife, Typing, PTL DEF ImplementsLifecycle, Table!LifeSpec

-----------------------------------------------------------------------------
(* Redactions and narrowings.                                              *)

\* Edits concern stored memories, and what an editor holds of a row is what the
\* row has.
EditorsCurrent ==
  /\ redacted \cup narrowed \subseteq Stored
  /\ \A w \in Editors :
       task[w].op \in {"redact", "narrow"} =>
         /\ task[w].on \in Stored
         /\ task[w].seen.text = row[task[w].on].text
         /\ task[w].seen.tier = row[task[w].on].tier
         /\ task[w].seen.life # "absent"

EditsInv == EditsStick /\ EditorsCurrent

\* No stored row loses its text or tier, or its existence.
Keeps ==
  \A m \in Stored : /\ row'[m].life # "absent"
                    /\ row'[m].text = row[m].text
                    /\ row'[m].tier = row[m].tier

\* A step that keeps texts and tiers, and gives no editor a row to write back,
\* keeps the invariant.
LEMMA KeepsEdits ==
  ASSUME EditsInv, Keeps, UNCHANGED <<redacted, narrowed>>,
         \A w \in Editors : \/ task'[w] = task[w]
                            \/ task'[w].op \notin {"redact", "narrow"}
  PROVE  EditsInv'
<1>1. redacted \subseteq Stored /\ narrowed \subseteq Stored
  BY DEF EditsInv, EditorsCurrent
<1>2. EditsStick'
  BY <1>1 DEF EditsInv, EditsStick, Keeps
<1>3. Stored \subseteq Stored'
  BY DEF Keeps, Stored
<1>4. (redacted \cup narrowed \subseteq Stored)'
  BY <1>1, <1>3
<1>5. ASSUME NEW w \in Editors, task'[w].op \in {"redact", "narrow"}
      PROVE  /\ task'[w].on \in Stored'
             /\ task'[w].seen.text = row'[task'[w].on].text
             /\ task'[w].seen.tier = row'[task'[w].on].tier
             /\ task'[w].seen.life # "absent"
  <2>1. task'[w] = task[w]
    BY <1>5
  <2>2. /\ task[w].on \in Stored
        /\ task[w].seen.text = row[task[w].on].text
        /\ task[w].seen.tier = row[task[w].on].tier
        /\ task[w].seen.life # "absent"
    BY <1>5, <2>1 DEF EditsInv, EditorsCurrent
  <2>. QED
    BY <1>3, <2>1, <2>2 DEF Keeps
<1>. QED
  BY <1>2, <1>4, <1>5 DEF EditsInv, EditorsCurrent

\* A process that goes to a step that is no edit gives no editor a row.
LEMMA GotoNoEdit ==
  ASSUME TypeOK, NEW w \in Workers, NEW t, Goto(w, t), t.op \notin {"redact", "narrow"}
  PROVE  \A x \in Editors : task'[x] = task[x] \/ task'[x].op \notin {"redact", "narrow"}
BY DEF Goto, TypeOK, Workers

\* With at most one redaction or narrowing in flight, none is ever undone, by
\* whatever promotions, sweeps, batches, settlements and transitions run beside
\* it (redact-memory.ts and narrow-audience.ts write back the row they read).
THEOREM EditsKept ==
  ASSUME \A a, b \in Editors : a = b
  PROVE  Spec => []EditsStick
<1>1. Init => EditsInv
  BY DEF Init, EditsInv, EditsStick, EditorsCurrent, Workers, Idle
<1>2. TypeOK /\ EditsInv /\ [Next]_vars => EditsInv'
  <2>. SUFFICES ASSUME TypeOK, EditsInv, [Next]_vars
                PROVE  EditsInv'
    OBVIOUS
  <2>i. Idle.op = "idle"
    BY DEF Idle
  <2>k. UNCHANGED row => Keeps
    BY DEF Keeps, Stored
  <2>m. ASSUME NEW m \in Memories, NEW s \in States, row' = [row EXCEPT ![m].life = s]
        PROVE  Keeps
    BY <2>m DEF Keeps, Stored, TypeOK, Rows, States
  <2>t. ASSUME NEW w \in Workers
        PROVE  task[w] \in Tasks
    BY DEF TypeOK
  <2>1. ASSUME NEW w \in Workers, Crash(w) PROVE EditsInv'
    BY <2>1, <2>i, <2>k, GotoNoEdit, KeepsEdits DEF Crash, Throw
  <2>2. ASSUME NEW w \in Curators PROVE /\ CommitPromotion(w) => EditsInv'
                                       /\ \A m \in Memories : PlanPromotion(w, m) => EditsInv'
    <3>w. w \in Workers
      BY DEF Workers
    <3>1. ASSUME CommitPromotion(w) PROVE EditsInv'
      <4>1. \A x \in Memories : /\ Retire(row[x], task[w].on).life = "superseded"
                                /\ Retire(row[x], task[w].on).text = row[x].text
                                /\ Retire(row[x], task[w].on).tier = row[x].tier
        BY DEF Retire, TypeOK, Rows
      <4>2. Keeps
        BY <3>1, <4>1, <2>k DEF CommitPromotion, Keeps, Stored
      <4>. QED
        BY <3>1, <3>w, <4>2, <2>i, GotoNoEdit, KeepsEdits DEF CommitPromotion
    <3>2. ASSUME NEW m \in Memories, PlanPromotion(w, m) PROVE EditsInv'
      <4>1. PICK S : Goto(w, [Idle EXCEPT !.op = "promote", !.on = m, !.rest = S])
        BY <3>2 DEF PlanPromotion
      <4>2. [Idle EXCEPT !.op = "promote", !.on = m, !.rest = S].op = "promote"
        BY DEF Idle
      <4>. QED
        BY <3>2, <3>w, <4>1, <4>2, <2>k, GotoNoEdit, KeepsEdits DEF PlanPromotion
    <3>. QED
      BY <3>1, <3>2
  <2>3. ASSUME NEW m \in Memories
        PROVE  /\ \A by \in Memories : Supersede(m, by) => EditsInv'
               /\ \A to \in States : Transition(m, to) => EditsInv'
    <3>1. ASSUME NEW by \in Memories, Supersede(m, by) PROVE EditsInv'
      <4>1. Keeps
        BY <3>1 DEF Supersede, Retire, Keeps, Stored, TypeOK, Rows
      <4>. QED
        BY <3>1, <4>1, KeepsEdits DEF Supersede
    <3>2. ASSUME NEW to \in States, Transition(m, to) PROVE EditsInv'
      BY <3>2, <2>m, KeepsEdits DEF Transition
    <3>. QED
      BY <3>1, <3>2
  <2>4. ASSUME NEW w \in Batchers
        PROVE  /\ \A to \in States \ {"superseded"} : BatchRead(w, to) => EditsInv'
               /\ \A m \in Memories : BatchApply(w, m) => EditsInv'
    <3>w. w \in Workers
      BY DEF Workers
    <3>1. ASSUME NEW to \in States \ {"superseded"}, BatchRead(w, to) PROVE EditsInv'
      <4>1. PICK S : Goto(w, [Idle EXCEPT !.op = "batch", !.rest = S, !.to = to])
        BY <3>1 DEF BatchRead
      <4>2. [Idle EXCEPT !.op = "batch", !.rest = S, !.to = to].op = "batch"
        BY DEF Idle
      <4>. QED
        BY <3>1, <3>w, <4>1, <4>2, <2>k, GotoNoEdit, KeepsEdits DEF BatchRead
    <3>2. ASSUME NEW m \in Memories, BatchApply(w, m) PROVE EditsInv'
      <4>1. task[w].to \in States /\ task[w].op = "batch"
        BY <3>2, <3>w, <2>t DEF Tasks, BatchApply
      <4>2. Keeps
        BY <3>2, <4>1, <2>m, <2>k DEF BatchApply
      <4>3. [task[w] EXCEPT !.rest = @ \ {m}].op = "batch"
        BY <3>w, <4>1, <2>t DEF Tasks
      <4>. QED
        BY <3>2, <3>w, <4>2, <4>3, <2>i, GotoNoEdit, KeepsEdits DEF BatchApply, Throw
    <3>. QED
      BY <3>1, <3>2
  <2>5. ASSUME NEW w \in Sweepers
        PROVE  /\ SweepRead(w) => EditsInv'
               /\ SweepWrite(w) => EditsInv'
               /\ SweepReceipt(w) => EditsInv'
               /\ \A m \in Memories : SweepCheck(w, m) => EditsInv'
    <3>w. w \in Workers
      BY DEF Workers
    <3>i. \A S : [Idle EXCEPT !.op = "sweep", !.rest = S].op = "sweep"
      BY DEF Idle
    <3>1. ASSUME SweepRead(w) PROVE EditsInv'
      <4>1. PICK S : Goto(w, [Idle EXCEPT !.op = "sweep", !.rest = S])
        BY <3>1 DEF SweepRead
      <4>. QED
        BY <3>1, <3>w, <3>i, <4>1, <2>k, GotoNoEdit, KeepsEdits DEF SweepRead
    <3>2. ASSUME SweepWrite(w) PROVE EditsInv'
      <4>1. task[w].on \in Memories /\ [task[w] EXCEPT !.op = "receipt"].op = "receipt"
        BY <3>2, <3>w, <2>t DEF Tasks, SweepWrite
      <4>2. Keeps
        BY <3>2, <4>1, <2>m DEF SweepWrite, States
      <4>. QED
        BY <3>2, <3>w, <4>1, <4>2, GotoNoEdit, KeepsEdits DEF SweepWrite
    <3>3. ASSUME SweepReceipt(w) PROVE EditsInv'
      BY <3>3, <3>w, <3>i, <2>i, <2>k, GotoNoEdit, KeepsEdits DEF SweepReceipt, SweepOn
    <3>4. ASSUME NEW m \in Memories, SweepCheck(w, m) PROVE EditsInv'
      <4>1. task[w].op = "sweep"
        BY <3>4 DEF SweepCheck
      <4>2. \A S : /\ [task[w] EXCEPT !.op = "deprecate", !.on = m, !.rest = S].op = "deprecate"
                   /\ [task[w] EXCEPT !.rest = S].op = "sweep"
        BY <3>w, <4>1, <2>t DEF Tasks
      <4>. QED
        BY <3>4, <3>w, <4>2, <2>i, <2>k, GotoNoEdit, KeepsEdits DEF SweepCheck
    <3>. QED
      BY <3>1, <3>2, <3>3, <3>4
  <2>6. ASSUME NEW w \in Settlers
        PROVE  /\ Settle(w) => EditsInv'
               /\ \A m \in Memories : ReviewRead(w, m) => EditsInv'
    <3>w. w \in Workers
      BY DEF Workers
    <3>1. ASSUME Settle(w) PROVE EditsInv'
      <4>1. task[w].on \in Memories /\ task[w].to \in States
        BY <3>1, <3>w, <2>t DEF Tasks, Settle
      <4>2. Keeps
        BY <3>1, <4>1, <2>m, <2>k DEF Settle
      <4>. QED
        BY <3>1, <3>w, <4>2, <2>i, GotoNoEdit, KeepsEdits DEF Settle
    <3>2. ASSUME NEW m \in Memories, ReviewRead(w, m) PROVE EditsInv'
      <4>1. PICK to : Goto(w, Holding(m, "settle", to))
        BY <3>2 DEF ReviewRead
      <4>2. Holding(m, "settle", to).op = "settle"
        BY DEF Holding, Idle
      <4>. QED
        BY <3>2, <3>w, <4>1, <4>2, <2>k, GotoNoEdit, KeepsEdits DEF ReviewRead
    <3>. QED
      BY <3>1, <3>2
  <2>7. ASSUME NEW w \in Editors, NEW m \in Memories, EditRead(w, m) PROVE EditsInv'
    <3>w. w \in Workers /\ m \in Stored
      BY <2>7 DEF Workers, EditRead
    <3>1. PICK op \in {"redact", "narrow"} : Goto(w, Holding(m, op, "active"))
      BY <2>7 DEF EditRead
    <3>2. /\ task'[w] = Holding(m, op, "active")
          /\ \A x \in Editors : x = w
      BY <3>w, <3>1 DEF Goto, TypeOK
    <3>3. Holding(m, op, "active").on = m /\ Holding(m, op, "active").seen = row[m]
      BY DEF Holding, Idle
    <3>4. row[m].life # "absent"
      BY <3>w DEF Stored
    <3>5. UNCHANGED <<row, said, redacted, narrowed>>
      BY <2>7 DEF EditRead
    <3>6. Stored' = Stored
      BY <3>5 DEF Stored
    <3>7. EditsStick' /\ (redacted \cup narrowed \subseteq Stored)'
      BY <3>5, <3>6 DEF EditsInv, EditsStick, EditorsCurrent
    <3>8. ASSUME NEW x \in Editors
          PROVE  /\ task'[x].on \in Stored'
                 /\ task'[x].seen.text = row'[task'[x].on].text
                 /\ task'[x].seen.tier = row'[task'[x].on].tier
                 /\ task'[x].seen.life # "absent"
      <4>1. task'[x].on = m /\ task'[x].seen = row[m]
        BY <3>2, <3>3
      <4>. QED
        BY <4>1, <3>w, <3>4, <3>5, <3>6
    <3>. QED
      BY <3>7, <3>8 DEF EditsInv, EditorsCurrent
  <2>8. ASSUME NEW w \in Editors, Redact(w) \/ Narrow(w) PROVE EditsInv'
    <3>. DEFINE m == task[w].on
    <3>w. w \in Workers
      BY DEF Workers
    <3>1. task[w].op \in {"redact", "narrow"} /\ Goto(w, Idle)
      BY <2>8 DEF Redact, Narrow
    <3>2. /\ m \in Stored /\ m \in Memories
          /\ task[w].seen \in Rows
          /\ task[w].seen.text = row[m].text
          /\ task[w].seen.tier = row[m].tier
          /\ task[w].seen.life # "absent"
      BY <3>w, <3>1, <2>t DEF EditsInv, EditorsCurrent, Tasks, Stored
    <3>3. \A x \in Editors : task'[x].op = "idle"
      BY <3>w, <3>1, <2>i DEF Goto, TypeOK
    <3>4. \A x \in Memories \ {m} : row'[x] = row[x]
      BY <2>8, <3>2 DEF Redact, Narrow, TypeOK
    <3>5. CASE Redact(w)
      <4>1. /\ row'[m].text = "redacted"
            /\ row'[m].tier = row[m].tier
            /\ row'[m].life # "absent"
            /\ redacted' = redacted \cup {m} /\ narrowed' = narrowed
        BY <3>2, <3>5 DEF Redact, Rows, TypeOK
      <4>2. Stored \subseteq Stored'
        BY <3>4, <4>1 DEF Stored
      <4>3. EditsStick'
        BY <3>2, <3>4, <4>1 DEF EditsInv, EditsStick, EditorsCurrent, Stored
      <4>4. (redacted \cup narrowed \subseteq Stored)'
        BY <3>2, <4>1, <4>2 DEF EditsInv, EditorsCurrent
      <4>. QED
        BY <3>3, <4>3, <4>4 DEF EditsInv, EditorsCurrent
    <3>6. CASE Narrow(w)
      <4>1. /\ row'[m].tier = "admins"
            /\ row'[m].text = row[m].text
            /\ row'[m].life # "absent"
            /\ narrowed' = narrowed \cup {m} /\ redacted' = redacted
        BY <3>2, <3>6 DEF Narrow, Rows, TypeOK
      <4>2. Stored \subseteq Stored'
        BY <3>4, <4>1 DEF Stored
      <4>3. EditsStick'
        BY <3>2, <3>4, <4>1 DEF EditsInv, EditsStick, EditorsCurrent, Stored
      <4>4. (redacted \cup narrowed \subseteq Stored)'
        BY <3>2, <4>1, <4>2 DEF EditsInv, EditorsCurrent
      <4>. QED
        BY <3>3, <4>3, <4>4 DEF EditsInv, EditorsCurrent
    <3>. QED
      BY <2>8, <3>5, <3>6
  <2>9. CASE UNCHANGED vars
    BY <2>9, <2>k, KeepsEdits DEF vars
  <2>. QED
    BY <2>1, <2>2, <2>3, <2>4, <2>5, <2>6, <2>7, <2>8, <2>9 DEF Next
<1>3. EditsInv => EditsStick
  BY DEF EditsInv
<1>. QED
  BY <1>1, <1>2, <1>3, Typing, PTL DEF Spec
=============================================================================
