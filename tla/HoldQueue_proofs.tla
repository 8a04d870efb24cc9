--------------------------- MODULE HoldQueue_proofs ---------------------------
(***************************************************************************)
(* Safety of the hold queue for every number of candidates and processes.  *)
(* The theorems that need the rules to stay as they are say so.            *)
(***************************************************************************)
EXTENDS HoldQueue, FiniteSetTheorems, TLAPS

\* A task that a worker may be left with is a task: used by every step that
\* moves a worker on.
LEMMA GotoType ==
  ASSUME task \in [Workers -> Tasks], NEW w \in Workers, NEW t \in Tasks, Goto(w, t)
  PROVE  task' \in [Workers -> Tasks]
BY DEF Goto

\* The idle task is a task.
LEMMA IdleType == Idle \in Tasks
BY DEF Idle, Tasks, Ops

\* Returning from a candidate leaves a worker with a task (hold.ts and
\* curator.ts: a batch goes on, a single call ends).
LEMMA ReturnType ==
  ASSUME task \in [Workers -> Tasks], NEW w \in Workers, NEW full \in BOOLEAN,
         Return(w, full)
  PROVE  task' \in [Workers -> Tasks]
<1>1. task[w] \in Tasks
  OBVIOUS
<1>2. [op |-> "batch", on |-> NoCandidate, rest |-> task[w].rest, full |-> full] \in Tasks
  BY <1>1 DEF Tasks, Ops
<1>. QED
  BY <1>2, IdleType, GotoType DEF Return

\* The gate's decision leaves a worker with a task.
LEMMA DecideType ==
  ASSUME task \in [Workers -> Tasks], NEW w \in Workers, NEW c \in Candidates,
         NEW t \in Tasks, NEW admit \in {"sweep", "approve"},
         Decide(w, c, t, admit)
  PROVE  task' \in [Workers -> Tasks]
<1>1. /\ [t EXCEPT !.op = "batch", !.on = NoCandidate] \in Tasks
      /\ [t EXCEPT !.op = "place", !.on = c] \in Tasks
      /\ [t EXCEPT !.op = admit, !.on = c] \in Tasks
  BY DEF Tasks, Ops
<1>. QED
  BY <1>1, IdleType, GotoType DEF Decide, Skip

\* Type correctness (every variable of the queue).
THEOREM Typing == Spec => []TypeOK
<1>1. Init => TypeOK
  BY HoldAssumption, IdleType DEF Init, TypeOK, Statuses, Resolutions
<1>2. TypeOK /\ [Next]_vars => TypeOK'
  <2>. SUFFICES ASSUME TypeOK, [Next]_vars
                PROVE  TypeOK'
    OBVIOUS
  <2>. USE DEF TypeOK
  <2>1. ASSUME NEW c \in Candidates, Capture(c) PROVE TypeOK'
    BY <2>1 DEF Capture, Statuses
  <2>2. ASSUME NEW c \in Candidates, Elapse(c) PROVE TypeOK'
    BY <2>2 DEF Elapse
  <2>3. ASSUME NEW c \in Candidates, RejectCandidate(c) PROVE TypeOK'
    BY <2>3 DEF RejectCandidate, Statuses
  <2>4. ASSUME NEW c \in Candidates, GovernSelected(c) PROVE TypeOK'
    BY <2>4 DEF GovernSelected, Statuses
  <2>5. ASSUME NEW c \in Candidates, NEW r \in Reviewers, NEW v \in Verdicts,
               Recommend(c, r, v)
        PROVE  TypeOK'
    BY <2>5 DEF Recommend
  <2>6. CASE ChangeRules
    BY <2>6 DEF ChangeRules
  <2>7. ASSUME NEW w \in Workers, Crash(w) PROVE TypeOK'
    BY <2>7, IdleType, GotoType DEF Crash, Throw, store
  <2>8. ASSUME NEW w \in Workers, BatchRead(w) PROVE TypeOK'
    <3>1. PICK S \in SUBSET Inbox : Goto(w, [Idle EXCEPT !.op = "batch", !.rest = S])
      BY <2>8 DEF BatchRead
    <3>2. [Idle EXCEPT !.op = "batch", !.rest = S] \in Tasks
      BY DEF Idle, Tasks, Ops, Inbox
    <3>3. task' \in [Workers -> Tasks]
      BY <3>1, <3>2, GotoType
    <3>. QED
      BY <2>8, <3>3 DEF BatchRead, store
  <2>9. ASSUME NEW w \in Workers, PlaceHold(w) PROVE TypeOK'
    <3>1. task[w] \in Tasks
      OBVIOUS
    <3>2. (task[w].full \/ (Holdable(task[w].on) /\ QueueFull)) \in BOOLEAN
      BY <3>1 DEF Tasks, Holdable, QueueFull
    <3>3. task' \in [Workers -> Tasks]
      BY <2>9, <3>2, ReturnType DEF PlaceHold
    <3>. QED
      BY <2>9, <3>1, <3>3 DEF PlaceHold, Statuses
  <2>10. ASSUME NEW w \in Workers, Promote(w) PROVE TypeOK'
    <3>1. task[w] \in Tasks
      OBVIOUS
    <3>2. task[w].full \in BOOLEAN /\ [task[w] EXCEPT !.op = "stamp"] \in Tasks
      BY <2>10, <3>1 DEF Promote, Tasks, Ops
    <3>3. task' \in [Workers -> Tasks]
      BY <2>10, <3>2, IdleType, ReturnType, GotoType DEF Promote, Throw
    <3>4. memory' \in SUBSET Candidates
      BY <2>10, <3>1 DEF Promote, Tasks
    <3>. QED
      BY <2>10, <3>3, <3>4 DEF Promote
  <2>11. ASSUME NEW w \in Workers, Stamp(w) PROVE TypeOK'
    <3>1. task' \in [Workers -> Tasks]
      BY <2>11, ReturnType DEF Stamp
    <3>. QED
      BY <2>11, <3>1 DEF Stamp, UpdateStatus, Statuses
  <2>12. ASSUME NEW w \in Workers, ResolveReject(w) PROVE TypeOK'
    <3>1. task' \in [Workers -> Tasks]
      BY <2>12, IdleType, GotoType DEF ResolveReject
    <3>. QED
      BY <2>12, <3>1 DEF ResolveReject, UpdateStatus, Statuses, Resolutions
  <2>13. ASSUME NEW w \in Workers, ResolveRelease(w) PROVE TypeOK'
    <3>0. task[w].on \in Candidates
      BY <2>13 DEF ResolveRelease, Tasks
    <3>1. task' \in [Workers -> Tasks]
      BY <2>13, IdleType, GotoType DEF ResolveRelease
    <3>. QED
      BY <2>13, <3>0, <3>1 DEF ResolveRelease, UpdateStatus, Statuses, Resolutions
  <2>14. ASSUME NEW w \in Workers, ExpiryRead(w) PROVE TypeOK'
    <3>1. [Idle EXCEPT !.op = "expire", !.rest = {c \in ActiveHolds : hold[c] = "elapsed"}]
            \in Tasks
      BY DEF Idle, Tasks, Ops, ActiveHolds
    <3>2. task' \in [Workers -> Tasks]
      BY <2>14, <3>1, GotoType DEF ExpiryRead
    <3>. QED
      BY <2>14, <3>2 DEF ExpiryRead, store
  <2>15. ASSUME NEW w \in Workers, NEW c \in Candidates, Approve(w, c) PROVE TypeOK'
    <3>1. task' \in [Workers -> Tasks]
      BY <2>15, IdleType, DecideType DEF Approve
    <3>. QED
      BY <2>15, <3>1 DEF Approve, store
  <2>16. ASSUME NEW w \in Workers, NEW c \in Candidates, BatchNext(w, c) PROVE TypeOK'
    <3>1. [task[w] EXCEPT !.rest = @ \ {c}] \in Tasks
      BY DEF Tasks
    <3>2. task' \in [Workers -> Tasks]
      BY <2>16, <3>1, DecideType DEF BatchNext
    <3>. QED
      BY <2>16, <3>2 DEF BatchNext, store
  <2>17. ASSUME NEW w \in Workers, NEW c \in Candidates, ExpireHold(w, c) PROVE TypeOK'
    <3>1. [task[w] EXCEPT !.rest = @ \ {c}] \in Tasks
      BY DEF Tasks
    <3>2. task' \in [Workers -> Tasks]
      BY <2>17, <3>1, IdleType, GotoType DEF ExpireHold, Throw
    <3>. QED
      BY <2>17, <3>2 DEF ExpireHold, UpdateStatus, Statuses, Resolutions
  <2>18. ASSUME NEW w \in Workers, NEW c \in Candidates, NEW v \in Verdicts,
                ResolveRead(w, c, v)
         PROVE  TypeOK'
    <3>1. /\ [Idle EXCEPT !.op = "expire", !.rest = {c}] \in Tasks
          /\ [Idle EXCEPT !.op = v, !.on = c] \in Tasks
      BY DEF Idle, Tasks, Ops, Verdicts
    <3>2. task' \in [Workers -> Tasks]
      BY <2>18, <3>1, GotoType DEF ResolveRead
    <3>. QED
      BY <2>18, <3>2 DEF ResolveRead, store
  <2>19. CASE RollbackImport
    BY <2>19 DEF RollbackImport, Statuses
  <2>20. CASE UNCHANGED vars
    BY <2>20 DEF vars
  <2>. QED
    BY <2>1, <2>2, <2>3, <2>4, <2>5, <2>6, <2>7, <2>8, <2>9, <2>10, <2>11, <2>12,
       <2>13, <2>14, <2>15, <2>16, <2>17, <2>18, <2>19, <2>20 DEF Next
<1>. QED
  BY <1>1, <1>2, PTL DEF Spec

-----------------------------------------------------------------------------
(* The cap.  A hold opens only in a step that has counted the open ones, so  *)
(* the set of open holds grows by one candidate at a time and only below the *)
(* bound.  What makes that inductive is that a candidate once held never     *)
(* returns to the inbox, where quarantining it would reopen its hold without *)
(* counting, unless a rollback deletes it and it is imported again; and an   *)
(* import is quarantined by a hold only.                                     *)

\* The open holds are a finite set.
LEMMA OpenFinite == IsFiniteSet(ActiveHolds) /\ Cardinality(ActiveHolds) \in Nat
BY HoldAssumption, FS_Subset, FS_CardinalityType DEF ActiveHolds

\* A step that opens no hold keeps the cap.
LEMMA CapShrinks ==
  ASSUME CapRespected, ActiveHolds' \subseteq ActiveHolds
  PROVE  CapRespected'
<1>1. Cardinality(ActiveHolds') \in Nat /\ Cardinality(ActiveHolds') <= Cardinality(ActiveHolds)
  BY OpenFinite, FS_Subset, FS_CardinalityType
<1>. QED
  BY <1>1, OpenFinite, HoldAssumption DEF CapRespected

\* A step that opens one hold while the queue is not full keeps the cap.
LEMMA CapGrows ==
  ASSUME NEW c, ~QueueFull, ActiveHolds' \subseteq ActiveHolds \cup {c}
  PROVE  CapRespected'
<1>1. /\ IsFiniteSet(ActiveHolds \cup {c})
      /\ Cardinality(ActiveHolds \cup {c}) <= Cardinality(ActiveHolds) + 1
      /\ Cardinality(ActiveHolds \cup {c}) \in Nat
  BY OpenFinite, FS_AddElement, FS_CardinalityType
<1>2. /\ Cardinality(ActiveHolds') \in Nat
      /\ Cardinality(ActiveHolds') <= Cardinality(ActiveHolds \cup {c})
  BY <1>1, FS_Subset, FS_CardinalityType
<1>. QED
  BY <1>1, <1>2, OpenFinite, HoldAssumption DEF CapRespected, QueueFull

CapInv == TypeOK /\ HeldLeftInbox /\ CapRespected

\* However many processes place, resolve and expire holds, no more than
\* MaxActive are open (placeHold counts inside its transaction).
THEOREM Cap == Spec => []CapRespected
<1>1. Init => HeldLeftInbox /\ CapRespected
  <2>. SUFFICES ASSUME Init PROVE HeldLeftInbox /\ CapRespected
    OBVIOUS
  <2>1. ActiveHolds = {}
    BY DEF Init, ActiveHolds, ActiveHold
  <2>. QED
    BY <2>1, FS_EmptySet, HoldAssumption DEF Init, HeldLeftInbox, CapRespected
<1>2. CapInv /\ TypeOK' /\ [Next]_vars => HeldLeftInbox' /\ CapRespected'
  <2>. SUFFICES ASSUME CapInv, TypeOK', [Next]_vars
                PROVE  HeldLeftInbox' /\ CapRespected'
    OBVIOUS
  <2>. USE DEF CapInv
  <2>s. ASSUME UNCHANGED <<status, hold, resolution, undone>>
        PROVE  HeldLeftInbox' /\ CapRespected'
    BY <2>s, CapShrinks DEF HeldLeftInbox, ActiveHolds, ActiveHold
  <2>1. ASSUME NEW c \in Candidates, Capture(c) PROVE HeldLeftInbox' /\ CapRespected'
    <3>1. c \notin undone => hold[c] = "never"
      BY <2>1 DEF Capture, HeldLeftInbox
    <3>2. status'[c] = "quarantined" => c \notin undone
      BY <2>1 DEF Capture, TypeOK
    <3>3. ActiveHolds' \subseteq ActiveHolds
      BY <2>1, <3>1, <3>2 DEF Capture, ActiveHolds, ActiveHold, TypeOK
    <3>. QED
      BY <2>1, <3>1, <3>3, CapShrinks DEF Capture, HeldLeftInbox, TypeOK
  <2>2. ASSUME NEW c \in Candidates, Elapse(c) PROVE HeldLeftInbox' /\ CapRespected'
    <3>1. ActiveHolds' \subseteq ActiveHolds
      BY <2>2 DEF Elapse, ActiveHolds, ActiveHold, TypeOK
    <3>. QED
      BY <2>2, <3>1, CapShrinks DEF Elapse, HeldLeftInbox, TypeOK
  <2>3. ASSUME NEW c \in Candidates, RejectCandidate(c) PROVE HeldLeftInbox' /\ CapRespected'
    <3>1. ActiveHolds' \subseteq ActiveHolds
      BY <2>3 DEF RejectCandidate, ActiveHolds, ActiveHold, TypeOK
    <3>. QED
      BY <2>3, <3>1, CapShrinks DEF RejectCandidate, HeldLeftInbox, TypeOK
  <2>4. ASSUME NEW c \in Candidates, GovernSelected(c) PROVE HeldLeftInbox' /\ CapRespected'
    <3>1. c \in Imported \/ hold[c] = "never"
      BY <2>4 DEF GovernSelected, HeldLeftInbox, TypeOK
    <3>2. CASE UNCHANGED hold
      <4>1. ActiveHolds' \subseteq ActiveHolds
        BY <2>4, <3>1, <3>2 DEF GovernSelected, Holdable, ActiveHolds, ActiveHold, TypeOK
      <4>. QED
        BY <2>4, <3>1, <3>2, <4>1, CapShrinks DEF GovernSelected, HeldLeftInbox, TypeOK
    <3>3. CASE /\ ~QueueFull
               /\ status' = [status EXCEPT ![c] = "quarantined"]
               /\ hold' = [hold EXCEPT ![c] = "running"]
      <4>1. ActiveHolds' \subseteq ActiveHolds \cup {c}
        BY <2>4, <3>3 DEF GovernSelected, ActiveHolds, ActiveHold, TypeOK
      <4>. QED
        BY <2>4, <3>3, <4>1, CapGrows DEF GovernSelected, HeldLeftInbox, TypeOK
    <3>. QED
      BY <2>4, <3>2, <3>3 DEF GovernSelected
  <2>5. ASSUME NEW w \in Workers, PlaceHold(w) PROVE HeldLeftInbox' /\ CapRespected'
    <3>1. CASE UNCHANGED <<status, hold>>
      BY <2>5, <3>1, <2>s DEF PlaceHold
    <3>2. CASE /\ ~QueueFull
               /\ status' = [status EXCEPT ![task[w].on] = "quarantined"]
               /\ hold' = [hold EXCEPT ![task[w].on] = "running"]
      <4>1. ActiveHolds' \subseteq ActiveHolds \cup {task[w].on}
        BY <2>5, <3>2 DEF PlaceHold, ActiveHolds, ActiveHold, TypeOK
      <4>. QED
        BY <2>5, <3>2, <4>1, CapGrows DEF PlaceHold, HeldLeftInbox, TypeOK
    <3>. QED
      BY <2>5, <3>1, <3>2 DEF PlaceHold
  <2>6. ASSUME NEW w \in Workers, Stamp(w) PROVE HeldLeftInbox' /\ CapRespected'
    <3>1. ActiveHolds' \subseteq ActiveHolds
      BY <2>6 DEF Stamp, UpdateStatus, ActiveHolds, ActiveHold, TypeOK
    <3>. QED
      BY <2>6, <3>1, CapShrinks DEF Stamp, UpdateStatus, HeldLeftInbox, TypeOK
  <2>7. ASSUME NEW w \in Workers, ResolveReject(w) PROVE HeldLeftInbox' /\ CapRespected'
    <3>1. ActiveHolds' \subseteq ActiveHolds
      BY <2>7 DEF ResolveReject, UpdateStatus, ActiveHolds, ActiveHold, TypeOK
    <3>. QED
      BY <2>7, <3>1, CapShrinks DEF ResolveReject, UpdateStatus, HeldLeftInbox, TypeOK
  <2>8. ASSUME NEW w \in Workers, ResolveRelease(w) PROVE HeldLeftInbox' /\ CapRespected'
    <3>1. ActiveHolds' \subseteq ActiveHolds
      BY <2>8 DEF ResolveRelease, UpdateStatus, ActiveHolds, ActiveHold, TypeOK
    <3>. QED
      BY <2>8, <3>1, CapShrinks DEF ResolveRelease, UpdateStatus, HeldLeftInbox, TypeOK
  <2>9. ASSUME NEW w \in Workers, NEW c \in Candidates, ExpireHold(w, c)
        PROVE  HeldLeftInbox' /\ CapRespected'
    <3>1. ActiveHolds' \subseteq ActiveHolds
      BY <2>9 DEF ExpireHold, UpdateStatus, ActiveHolds, ActiveHold, TypeOK
    <3>. QED
      BY <2>9, <3>1, CapShrinks DEF ExpireHold, UpdateStatus, HeldLeftInbox, TypeOK
  <2>10. CASE RollbackImport
    <3>1. ActiveHolds' \subseteq ActiveHolds
      BY <2>10 DEF RollbackImport, ActiveHolds, ActiveHold, TypeOK
    <3>2. \A c \in Candidates \ undone' : c \notin undone /\ status'[c] = status[c]
      BY <2>10 DEF RollbackImport
    <3>. QED
      BY <2>10, <3>1, <3>2, CapShrinks DEF RollbackImport, HeldLeftInbox
  <2>. QED
    BY <2>s, <2>1, <2>2, <2>3, <2>4, <2>5, <2>6, <2>7, <2>8, <2>9, <2>10
    DEF Next, vars, store, Recommend, ChangeRules, Crash, BatchRead, Promote,
        ExpiryRead, Approve, BatchNext, ResolveRead
<1>. QED
  BY <1>1, <1>2, Typing, PTL DEF Spec, CapInv

-----------------------------------------------------------------------------
(* Resolutions: the receipt's derived id decides between late transactions.  *)

\* A candidate whose release is under way had a row when the hold was read
\* (resolve-hold.ts, findById); only a rollback can have removed it since.
ReleaseHasRow ==
  \A w \in Workers :
    task[w].op = "release" => status[task[w].on] # "absent" \/ task[w].on \in undone

\* No step starts a release without the row, or removes the row unseen.
LEMMA ReleaseRow ==
  ASSUME TypeOK, TypeOK', ReleaseHasRow, [Next]_vars
  PROVE  ReleaseHasRow'
<1>. USE DEF TypeOK, ReleaseHasRow
<1>1. ASSUME NEW c \in Candidates, status[c] # "absent" \/ c \in undone
      PROVE  status'[c] # "absent" \/ c \in undone'
  <2>1. ASSUME NEW d \in Candidates, NEW s \in Statuses \ {"absent"},
               status' = [status EXCEPT ![d] = s] \/ UpdateStatus(d, s), UNCHANGED undone
        PROVE  status'[c] # "absent" \/ c \in undone'
    BY <1>1, <2>1 DEF UpdateStatus
  <2>2. CASE UNCHANGED <<status, undone>>
    BY <1>1, <2>2
  <2>3. CASE RollbackImport
    BY <1>1, <2>3 DEF RollbackImport
  <2>4. ASSUME NEW d \in Candidates, Capture(d) \/ RejectCandidate(d) \/ GovernSelected(d)
        PROVE  status'[c] # "absent" \/ c \in undone'
    BY <2>1, <2>4 DEF Capture, RejectCandidate, GovernSelected, Statuses
  <2>5. ASSUME NEW w \in Workers, PlaceHold(w)
        PROVE  status'[c] # "absent" \/ c \in undone'
    BY <1>1, <2>5 DEF PlaceHold
  <2>6. ASSUME NEW w \in Workers, Stamp(w) \/ ResolveReject(w) \/ ResolveRelease(w)
        PROVE  status'[c] # "absent" \/ c \in undone'
    <3>1. task[w] \in Tasks
      OBVIOUS
    <3>. QED
      BY <1>1, <2>6, <3>1 DEF Stamp, ResolveReject, ResolveRelease, UpdateStatus
  <2>7. ASSUME NEW w \in Workers, NEW d \in Candidates, ExpireHold(w, d)
        PROVE  status'[c] # "absent" \/ c \in undone'
    BY <1>1, <2>7 DEF ExpireHold, UpdateStatus
  <2>. QED
    BY <2>2, <2>3, <2>4, <2>5, <2>6, <2>7
    DEF Next, vars, store, Elapse, Recommend, ChangeRules, Crash, BatchRead, Promote,
        ExpiryRead, Approve, BatchNext, ResolveRead
<1>2. ASSUME NEW w \in Workers, task'[w].op = "release", task'[w] # task[w]
      PROVE  status[task'[w].on] # "absent"
  <2>1. ASSUME NEW u \in Workers, NEW t, Goto(u, t)
        PROVE  u = w /\ t.op = "release" /\ t.on = task'[w].on
    BY <1>2, <2>1 DEF Goto
  <2>2. ASSUME NEW u \in Workers, NEW c \in Candidates, NEW v \in Verdicts,
               ResolveRead(u, c, v)
        PROVE  status[task'[w].on] # "absent"
    <3>1. /\ [Idle EXCEPT !.op = "expire", !.rest = {c}].op = "expire"
          /\ [Idle EXCEPT !.op = v, !.on = c].on = c
      BY DEF Idle
    <3>2. task'[w].on = c
      BY <2>1, <2>2, <3>1 DEF ResolveRead
    <3>. QED
      BY <2>2, <3>2 DEF ResolveRead, ActiveHold
  <2>3. ASSUME NEW u \in Workers, Throw(u) PROVE FALSE
    BY <2>1, <2>3 DEF Throw, Idle
  <2>4. ASSUME NEW u \in Workers, NEW full, Return(u, full) PROVE FALSE
    BY <2>1, <2>4 DEF Return, Idle
  <2>5. ASSUME NEW u \in Workers, NEW c \in Candidates, NEW t \in Tasks,
               NEW admit \in {"sweep", "approve"}, Decide(u, c, t, admit)
        PROVE  FALSE
    <3>1. /\ [t EXCEPT !.op = "batch", !.on = NoCandidate].op = "batch"
          /\ [t EXCEPT !.op = "place", !.on = c].op = "place"
          /\ [t EXCEPT !.op = admit, !.on = c].op = admit
      BY DEF Tasks
    <3>2. Idle.op = "idle"
      BY DEF Idle
    <3>3. ASSUME Skip(u, t) PROVE FALSE
      BY <2>1, <3>1, <3>2, <3>3 DEF Skip
    <3>4. ASSUME Goto(u, [t EXCEPT !.op = "place", !.on = c]) PROVE FALSE
      BY <2>1, <3>1, <3>4
    <3>5. ASSUME Goto(u, [t EXCEPT !.op = admit, !.on = c]) PROVE FALSE
      BY <2>1, <3>1, <3>5
    <3>. QED
      BY <2>5, <3>3, <3>4, <3>5 DEF Decide
  <2>6. ASSUME NEW u \in Workers, BatchRead(u) PROVE FALSE
    <3>1. PICK S \in SUBSET Inbox : Goto(u, [Idle EXCEPT !.op = "batch", !.rest = S])
      BY <2>6 DEF BatchRead
    <3>2. [Idle EXCEPT !.op = "batch", !.rest = S].op = "batch"
      BY DEF Idle
    <3>. QED
      BY <2>1, <3>1, <3>2
  <2>7. ASSUME NEW u \in Workers, Promote(u) PROVE FALSE
    <3>1. task[u] \in Tasks
      OBVIOUS
    <3>2. [task[u] EXCEPT !.op = "stamp"].op = "stamp"
      BY <3>1 DEF Tasks
    <3>. QED
      BY <2>1, <2>3, <2>4, <2>7, <3>2 DEF Promote
  <2>8. ASSUME NEW u \in Workers, ExpiryRead(u) PROVE FALSE
    <3>. DEFINE due == {c \in ActiveHolds : hold[c] = "elapsed"}
    <3>1. [Idle EXCEPT !.op = "expire", !.rest = due].op = "expire"
      BY DEF Idle
    <3>2. Goto(u, [Idle EXCEPT !.op = "expire", !.rest = due])
      BY <2>8 DEF ExpiryRead
    <3>. HIDE DEF due
    <3>. QED
      BY <2>1, <3>1, <3>2
  <2>9. ASSUME NEW u \in Workers, NEW c \in Candidates, Approve(u, c) PROVE FALSE
    BY <2>5, <2>9, IdleType DEF Approve
  <2>10. ASSUME NEW u \in Workers, NEW c \in Candidates, BatchNext(u, c) PROVE FALSE
    <3>1. [task[u] EXCEPT !.rest = @ \ {c}] \in Tasks
      BY DEF Tasks
    <3>. QED
      BY <2>5, <2>10, <3>1 DEF BatchNext
  <2>11. ASSUME NEW u \in Workers, NEW c \in Candidates, ExpireHold(u, c) PROVE FALSE
    <3>1. task[u] \in Tasks
      OBVIOUS
    <3>2. [task[u] EXCEPT !.rest = @ \ {c}].op = "expire" /\ Idle.op = "idle"
      BY <2>11, <3>1 DEF ExpireHold, Tasks, Idle
    <3>. QED
      BY <2>1, <2>3, <2>11, <3>2 DEF ExpireHold
  <2>12. ASSUME NEW u \in Workers, ResolveReject(u) \/ ResolveRelease(u) PROVE FALSE
    BY <2>1, <2>12 DEF ResolveReject, ResolveRelease, Idle
  <2>. QED
    BY <1>2, <2>2, <2>3, <2>4, <2>6, <2>7, <2>8, <2>9, <2>10, <2>11, <2>12
    DEF Next, vars, Capture, RollbackImport, Elapse, RejectCandidate, GovernSelected,
        Recommend, ChangeRules, Crash, PlaceHold, Stamp
<1>3. ASSUME NEW w \in Workers, task'[w].op = "release"
      PROVE  task'[w].on \in Candidates
  BY <1>3 DEF Tasks
<1>. QED
  <2>. SUFFICES ASSUME NEW w \in Workers, task'[w].op = "release"
                PROVE  status'[task'[w].on] # "absent" \/ task'[w].on \in undone'
    OBVIOUS
  <2>1. status[task'[w].on] # "absent" \/ task'[w].on \in undone
    BY <1>2
  <2>. QED
    BY <1>1, <1>3, <2>1

\* A released hold stays released (writeHoldResolved's primary key rolls back
\* a rejection or an expiry that read the hold before the release committed).
THEOREM Released == Spec => []ReleasedIsAdmitted
<1>1. Init => ReleasedIsAdmitted /\ ReleaseHasRow
  BY DEF Init, ReleasedIsAdmitted, ReleaseHasRow, Idle
<1>2. TypeOK /\ ReleaseHasRow /\ ReleasedIsAdmitted /\ [Next]_vars => ReleasedIsAdmitted'
  <2>. SUFFICES ASSUME TypeOK, ReleaseHasRow, ReleasedIsAdmitted, [Next]_vars
                PROVE  ReleasedIsAdmitted'
    OBVIOUS
  <2>. USE DEF TypeOK, ReleasedIsAdmitted
  <2>1. ASSUME NEW c \in Candidates, Capture(c) PROVE ReleasedIsAdmitted'
    BY <2>1 DEF Capture
  <2>2. ASSUME NEW c \in Candidates, RejectCandidate(c) PROVE ReleasedIsAdmitted'
    BY <2>2 DEF RejectCandidate
  <2>3. ASSUME NEW c \in Candidates, GovernSelected(c) PROVE ReleasedIsAdmitted'
    BY <2>3 DEF GovernSelected
  <2>4. ASSUME NEW w \in Workers, PlaceHold(w) PROVE ReleasedIsAdmitted'
    BY <2>4 DEF PlaceHold, Holdable
  <2>5. ASSUME NEW w \in Workers, Promote(w) PROVE ReleasedIsAdmitted'
    BY <2>5 DEF Promote
  <2>6. ASSUME NEW w \in Workers, Stamp(w) PROVE ReleasedIsAdmitted'
    BY <2>6 DEF Stamp, UpdateStatus
  <2>7. ASSUME NEW w \in Workers, ResolveReject(w) PROVE ReleasedIsAdmitted'
    BY <2>7 DEF ResolveReject, UpdateStatus, Unresolved
  <2>8. ASSUME NEW w \in Workers, ResolveRelease(w) PROVE ReleasedIsAdmitted'
    BY <2>8 DEF ResolveRelease, ReleaseHasRow, UpdateStatus, Unresolved, Tasks
  <2>9. ASSUME NEW w \in Workers, NEW c \in Candidates, ExpireHold(w, c)
        PROVE  ReleasedIsAdmitted'
    BY <2>9 DEF ExpireHold, UpdateStatus, Unresolved
  <2>10. ASSUME UNCHANGED <<status, resolution, memory, undone>> PROVE ReleasedIsAdmitted'
    BY <2>10
  <2>11. CASE RollbackImport
    BY <2>11 DEF RollbackImport
  <2>. QED
    BY <2>1, <2>2, <2>3, <2>4, <2>5, <2>6, <2>7, <2>8, <2>9, <2>10, <2>11
    DEF Next, vars, store, Elapse, Recommend, ChangeRules, Crash, BatchRead,
        ExpiryRead, Approve, BatchNext, ResolveRead
<1>. QED
  BY <1>1, <1>2, ReleaseRow, Typing, PTL DEF Spec

\* A hold ends once: the receipt's derived id lets one of the late transactions
\* through, and a candidate whose hold ended never waits in the queue again.
THEOREM OnceResolved == Spec => ResolvedOnce
<1>. DEFINE Once == \A c \in Candidates :
                      resolution[c] # "none" => resolution'[c] = resolution[c] /\ ~ActiveHold(c)'
<1>1. TypeOK /\ [Next]_vars => [Once]_vars
  <2>. SUFFICES ASSUME TypeOK, [Next]_vars,
                       NEW d \in Candidates, resolution[d] # "none"
                PROVE  resolution'[d] = resolution[d]
    BY DEF ActiveHold
  <2>. USE DEF TypeOK
  <2>1. ASSUME NEW w \in Workers, ResolveReject(w) PROVE resolution'[d] = resolution[d]
    BY <2>1 DEF ResolveReject, UpdateStatus, Unresolved
  <2>2. ASSUME NEW w \in Workers, ResolveRelease(w) PROVE resolution'[d] = resolution[d]
    BY <2>2 DEF ResolveRelease, UpdateStatus, Unresolved
  <2>3. ASSUME NEW w \in Workers, NEW c \in Candidates, ExpireHold(w, c)
        PROVE  resolution'[d] = resolution[d]
    BY <2>3 DEF ExpireHold, UpdateStatus, Unresolved
  <2>4. ASSUME UNCHANGED resolution PROVE resolution'[d] = resolution[d]
    BY <2>4
  <2>. QED
    BY <2>1, <2>2, <2>3, <2>4
    DEF Next, vars, store, Capture, RollbackImport, Elapse, RejectCandidate,
        GovernSelected, Recommend, ChangeRules, Crash, BatchRead, PlaceHold, Promote, Stamp, ExpiryRead, Approve,
        BatchNext, ResolveRead
<1>. QED
  BY <1>1, Typing, PTL DEF Spec, ResolvedOnce

-----------------------------------------------------------------------------
(* While the rules stay as they are, an approval cannot reach a held         *)
(* candidate: a candidate is put on hold only because a trigger fires on it, *)
(* and the gate then sends no approval of it past itself.                    *)

\* What the gate decided still agrees with the triggers.
DecidedOnTriggers ==
  \A w \in Workers :
    /\ task[w].op \in {"sweep", "approve", "stamp"} => task[w].on \notin fires
    /\ task[w].op = "place" => task[w].on \in fires

\* Only a candidate that was put on hold is being resolved.
ResolvingHeld ==
  \A w \in Workers :
    /\ task[w].op \in {"reject", "release"} => hold[task[w].on] # "never"
    /\ task[w].op = "expire" => \A c \in task[w].rest : hold[c] # "never"

\* Held candidates trigger, only held ones are resolved, and a candidate that
\* triggers becomes a memory only by a release.
HeldTrigger ==
  \A c \in Candidates :
    /\ hold[c] # "never" => c \in fires
    /\ resolution[c] # "none" => hold[c] # "never"
    /\ c \in fires /\ c \in memory => resolution[c] = "released"

TaskInv == DecidedOnTriggers /\ ResolvingHeld

StoreInv == HeldTrigger /\ HeldLeftInbox /\ HeldUntilResolved /\ ClosedUnpromoted

\* A step that moves one worker to a task that agrees with the triggers and the
\* holds keeps the invariant of all of them.
LEMMA TaskStep ==
  ASSUME TypeOK, TaskInv, NEW w \in Workers, NEW t,
         Goto(w, t), UNCHANGED fires,
         \A c \in Candidates : hold[c] # "never" => hold'[c] # "never",
         t.op \in {"sweep", "approve", "stamp"} => t.on \notin fires,
         t.op = "place" => t.on \in fires,
         t.op \in {"reject", "release"} => t.on \in Candidates /\ hold'[t.on] # "never",
         t.op = "expire" => \A c \in t.rest : c \in Candidates /\ hold'[c] # "never"
  PROVE  TaskInv'
<1>1. /\ task'[w] = t
      /\ \A u \in Workers : u # w => task'[u] = task[u]
  BY DEF Goto, TypeOK
<1>2. ASSUME NEW u \in Workers, u # w
      PROVE  /\ task[u].op \in {"reject", "release"} => hold'[task[u].on] # "never"
             /\ task[u].op = "expire" => \A c \in task[u].rest : hold'[c] # "never"
  <2>1. task[u] \in Tasks
    BY DEF TypeOK
  <2>2. /\ task[u].op \in {"reject", "release"} => task[u].on \in Candidates
        /\ \A c \in task[u].rest : c \in Candidates
    BY <2>1 DEF Tasks
  <2>. QED
    BY <2>2 DEF TaskInv, ResolvingHeld
<1>. QED
  BY <1>1, <1>2 DEF TaskInv, DecidedOnTriggers, ResolvingHeld

\* Returning to the batch, or to idleness, commits a worker to nothing.
LEMMA TaskReturn ==
  ASSUME TypeOK, TaskInv, NEW w \in Workers, NEW full,
         Return(w, full), UNCHANGED fires,
         \A c \in Candidates : hold[c] # "never" => hold'[c] # "never"
  PROVE  TaskInv'
BY TaskStep DEF Return, Idle

\* The gate's decision agrees with the triggers it was made on.
LEMMA TaskDecide ==
  ASSUME TypeOK, TaskInv, NEW w \in Workers, NEW c \in Candidates, NEW t \in Tasks,
         NEW admit \in {"sweep", "approve"}, t.op \in {"idle", "batch"},
         Decide(w, c, t, admit), UNCHANGED <<hold, fires>>
  PROVE  TaskInv'
<1>1. /\ [t EXCEPT !.op = "batch", !.on = NoCandidate].op = "batch"
      /\ [t EXCEPT !.op = "place", !.on = c].op = "place"
      /\ [t EXCEPT !.op = "place", !.on = c].on = c
      /\ [t EXCEPT !.op = admit, !.on = c].op = admit
      /\ [t EXCEPT !.op = admit, !.on = c].on = c
  BY DEF Tasks
<1>2. CASE Skip(w, t)
  BY <1>1, <1>2, TaskStep DEF Skip, Idle
<1>3. CASE c \in fires /\ Goto(w, [t EXCEPT !.op = "place", !.on = c])
  BY <1>1, <1>3, TaskStep
<1>4. CASE c \notin fires /\ Goto(w, [t EXCEPT !.op = admit, !.on = c])
  BY <1>1, <1>4, TaskStep
<1>. QED
  BY <1>2, <1>3, <1>4 DEF Decide

\* What a process has decided stays in agreement with the store: no step of
\* another process invalidates it, because the triggers stand still and a hold
\* is never forgotten.
LEMMA TaskInvStep ==
  ASSUME MaxRuleChanges = 0, TypeOK, TaskInv, HeldTrigger, [Next]_vars
  PROVE  TaskInv'
<1>0. ASSUME UNCHANGED <<task, fires>>,
             \A c \in Candidates : hold[c] # "never" => hold'[c] # "never"
      PROVE  TaskInv'
  <2>1. ASSUME NEW w \in Workers PROVE task[w] \in Tasks
    BY DEF TypeOK
  <2>. QED
    BY <1>0, <2>1 DEF TaskInv, DecidedOnTriggers, ResolvingHeld, Tasks
<1>1. ASSUME NEW c \in Candidates,
             \/ Capture(c) \/ Elapse(c) \/ RejectCandidate(c) \/ GovernSelected(c)
             \/ \E r \in Reviewers, v \in Verdicts : Recommend(c, r, v)
      PROVE  TaskInv'
  BY <1>1, <1>0 DEF Capture, Elapse, RejectCandidate, GovernSelected, Recommend, TypeOK
<1>2. CASE RollbackImport \/ ChangeRules
  BY <1>2, <1>0 DEF RollbackImport, ChangeRules, TypeOK
<1>3. ASSUME NEW w \in Workers, Crash(w) PROVE TaskInv'
  BY <1>3, TaskStep DEF Crash, Throw, store, Idle
<1>4. ASSUME NEW w \in Workers, BatchRead(w) PROVE TaskInv'
  <2>1. PICK S \in SUBSET Inbox : Goto(w, [Idle EXCEPT !.op = "batch", !.rest = S])
    BY <1>4 DEF BatchRead
  <2>2. [Idle EXCEPT !.op = "batch", !.rest = S].op = "batch"
    BY DEF Idle
  <2>. QED
    BY <1>4, <2>1, <2>2, TaskStep DEF BatchRead, store
<1>5. ASSUME NEW w \in Workers, PlaceHold(w) PROVE TaskInv'
  <2>1. \A c \in Candidates : hold[c] # "never" => hold'[c] # "never"
    BY <1>5 DEF PlaceHold, TypeOK
  <2>. QED
    BY <1>5, <2>1, TaskReturn DEF PlaceHold
<1>6. ASSUME NEW w \in Workers, Promote(w) PROVE TaskInv'
  <2>0. task[w] \in Tasks
    BY DEF TypeOK
  <2>1. CASE Throw(w)
    BY <1>6, <2>1, TaskStep DEF Promote, Throw, Idle
  <2>2. CASE task[w].op = "approve" /\ Goto(w, [task[w] EXCEPT !.op = "stamp"])
    <3>1. /\ [task[w] EXCEPT !.op = "stamp"].op = "stamp"
          /\ [task[w] EXCEPT !.op = "stamp"].on = task[w].on
      BY <2>0 DEF Tasks
    <3>2. task[w].on \notin fires
      BY <2>2 DEF TaskInv, DecidedOnTriggers
    <3>. QED
      BY <1>6, <2>2, <3>1, <3>2, TaskStep DEF Promote
  <2>3. CASE Return(w, task[w].full)
    BY <1>6, <2>3, TaskReturn DEF Promote
  <2>. QED
    BY <1>6, <2>1, <2>2, <2>3 DEF Promote
<1>7. ASSUME NEW w \in Workers, Stamp(w) PROVE TaskInv'
  BY <1>7, TaskReturn DEF Stamp
<1>8. ASSUME NEW w \in Workers, ResolveReject(w) \/ ResolveRelease(w) PROVE TaskInv'
  BY <1>8, TaskStep DEF ResolveReject, ResolveRelease, Idle
<1>9. ASSUME NEW w \in Workers, ExpiryRead(w) PROVE TaskInv'
  <2>. DEFINE due == {c \in ActiveHolds : hold[c] = "elapsed"}
  <2>1. /\ [Idle EXCEPT !.op = "expire", !.rest = due].op = "expire"
        /\ [Idle EXCEPT !.op = "expire", !.rest = due].rest = due
    BY DEF Idle
  <2>2. \A c \in due : c \in Candidates /\ hold[c] # "never"
    BY DEF ActiveHolds
  <2>3. Goto(w, [Idle EXCEPT !.op = "expire", !.rest = due]) /\ UNCHANGED <<hold, fires>>
    BY <1>9 DEF ExpiryRead, store
  <2>. HIDE DEF due
  <2>. QED
    BY <2>1, <2>2, <2>3, TaskStep
<1>10. ASSUME NEW w \in Workers, NEW c \in Candidates, Approve(w, c) PROVE TaskInv'
  BY <1>10, IdleType, TaskDecide DEF Approve, Idle, store
<1>11. ASSUME NEW w \in Workers, NEW c \in Candidates, BatchNext(w, c) PROVE TaskInv'
  <2>1. [task[w] EXCEPT !.rest = @ \ {c}] \in Tasks
    BY DEF Tasks, TypeOK
  <2>2. [task[w] EXCEPT !.rest = @ \ {c}].op = "batch"
    BY <1>11 DEF BatchNext, Tasks, TypeOK
  <2>. QED
    BY <1>11, <2>1, <2>2, TaskDecide DEF BatchNext, store
<1>12. ASSUME NEW w \in Workers, NEW c \in Candidates, ExpireHold(w, c) PROVE TaskInv'
  <2>0. task[w] \in Tasks
    BY DEF TypeOK
  <2>1. /\ [task[w] EXCEPT !.rest = @ \ {c}].op = "expire"
        /\ [task[w] EXCEPT !.rest = @ \ {c}].rest = task[w].rest \ {c}
        /\ \A d \in task[w].rest : d \in Candidates /\ hold[d] # "never"
    BY <1>12, <2>0 DEF ExpireHold, Tasks, TaskInv, ResolvingHeld
  <2>2. Idle.op = "idle"
    BY DEF Idle
  <2>. QED
    BY <1>12, <2>1, <2>2, TaskStep DEF ExpireHold, Throw
<1>13. ASSUME NEW w \in Workers, NEW c \in Candidates, NEW v \in Verdicts,
              ResolveRead(w, c, v)
       PROVE  TaskInv'
  <2>1. /\ [Idle EXCEPT !.op = "expire", !.rest = {c}].op = "expire"
        /\ [Idle EXCEPT !.op = "expire", !.rest = {c}].rest = {c}
        /\ [Idle EXCEPT !.op = v, !.on = c].op \in {"release", "reject"}
        /\ [Idle EXCEPT !.op = v, !.on = c].on = c
    BY DEF Idle, Verdicts
  <2>2. hold[c] # "never" /\ UNCHANGED <<hold, fires>>
    BY <1>13 DEF ResolveRead, ActiveHold, store
  <2>. QED
    BY <1>13, <2>1, <2>2, TaskStep DEF ResolveRead
<1>14. CASE UNCHANGED vars
  BY <1>14, <1>0 DEF vars
<1>. QED
  BY <1>1, <1>2, <1>3, <1>4, <1>5, <1>6, <1>7, <1>8, <1>9, <1>10, <1>11, <1>12, <1>13,
     <1>14 DEF Next

\* The store's half: each transaction keeps the holds, their resolutions, the
\* statuses and the memories consistent, given what its process had decided.
LEMMA StoreInvStep ==
  ASSUME MaxRuleChanges = 0, TypeOK, TaskInv, StoreInv, [Next]_vars
  PROVE  StoreInv'
<1>. USE DEF StoreInv, HeldTrigger, HeldLeftInbox, HeldUntilResolved, ClosedUnpromoted
<1>0. ASSUME UNCHANGED <<status, hold, resolution, memory, fires, undone>> PROVE StoreInv'
  BY <1>0
<1>1. ASSUME NEW c \in Candidates, Capture(c) PROVE StoreInv'
  BY <1>1 DEF Capture, TypeOK
<1>2. ASSUME NEW c \in Candidates, Elapse(c) PROVE StoreInv'
  BY <1>2 DEF Elapse, TypeOK
<1>3. ASSUME NEW c \in Candidates, RejectCandidate(c) PROVE StoreInv'
  BY <1>3 DEF RejectCandidate, ActiveHold, TypeOK
<1>4. ASSUME NEW c \in Candidates, GovernSelected(c) PROVE StoreInv'
  BY <1>4 DEF GovernSelected, TypeOK
<1>5. CASE ChangeRules
  BY <1>5 DEF ChangeRules, TypeOK
<1>6. ASSUME NEW w \in Workers, PlaceHold(w) PROVE StoreInv'
  <2>1. CASE UNCHANGED <<status, hold>>
    BY <1>6, <2>1 DEF PlaceHold
  <2>2. CASE /\ Holdable(task[w].on)
             /\ status' = [status EXCEPT ![task[w].on] = "quarantined"]
             /\ hold' = [hold EXCEPT ![task[w].on] = "running"]
    <3>1. task[w].on \in fires
      BY <1>6 DEF PlaceHold, TaskInv, DecidedOnTriggers
    <3>. QED
      BY <1>6, <2>2, <3>1 DEF PlaceHold, Holdable, TypeOK
  <2>. QED
    BY <1>6, <2>1, <2>2 DEF PlaceHold
<1>7. ASSUME NEW w \in Workers, Promote(w) PROVE StoreInv'
  <2>1. task[w].on \notin fires
    BY <1>7 DEF Promote, TaskInv, DecidedOnTriggers
  <2>. QED
    BY <1>7, <2>1 DEF Promote, TypeOK
<1>8. ASSUME NEW w \in Workers, Stamp(w) PROVE StoreInv'
  <2>1. task[w].on \notin fires
    BY <1>8 DEF Stamp, TaskInv, DecidedOnTriggers
  <2>. QED
    BY <1>8, <2>1 DEF Stamp, UpdateStatus, TypeOK
<1>9. ASSUME NEW w \in Workers, ResolveReject(w) PROVE StoreInv'
  <2>1. hold[task[w].on] # "never"
    BY <1>9 DEF ResolveReject, TaskInv, ResolvingHeld
  <2>. QED
    BY <1>9, <2>1 DEF ResolveReject, UpdateStatus, Unresolved, TypeOK
<1>10. ASSUME NEW w \in Workers, ResolveRelease(w) PROVE StoreInv'
  <2>1. hold[task[w].on] # "never"
    BY <1>10 DEF ResolveRelease, TaskInv, ResolvingHeld
  <2>. QED
    BY <1>10, <2>1 DEF ResolveRelease, UpdateStatus, Unresolved, TypeOK
<1>11. ASSUME NEW w \in Workers, NEW c \in Candidates, ExpireHold(w, c) PROVE StoreInv'
  <2>1. hold[c] # "never"
    BY <1>11 DEF ExpireHold, TaskInv, ResolvingHeld
  <2>. QED
    BY <1>11, <2>1 DEF ExpireHold, UpdateStatus, Unresolved, TypeOK
<1>12. CASE RollbackImport
  BY <1>12 DEF RollbackImport
<1>. QED
  BY <1>0, <1>1, <1>2, <1>3, <1>4, <1>5, <1>6, <1>7, <1>8, <1>9, <1>10, <1>11, <1>12
  DEF Next, vars, store, Recommend, Crash, BatchRead, ExpiryRead, Approve, BatchNext,
      ResolveRead

\* The inductive invariant of the queue while the rules stand still.
LEMMA FixedRules ==
  ASSUME MaxRuleChanges = 0
  PROVE  Spec => [](TypeOK /\ TaskInv /\ StoreInv)
<1>1. Init => TaskInv /\ StoreInv
  BY DEF Init, TaskInv, DecidedOnTriggers, ResolvingHeld, Idle, StoreInv, HeldTrigger,
         HeldLeftInbox, HeldUntilResolved, ClosedUnpromoted
<1>2. TypeOK /\ TaskInv /\ StoreInv /\ [Next]_vars => TaskInv' /\ StoreInv'
  BY TaskInvStep, StoreInvStep DEF StoreInv
<1>. QED
  BY <1>1, <1>2, Typing, PTL DEF Spec

\* While the rules stand still, a held candidate has no memory until the
\* hold is resolved, and its row, unless rolled back, is quarantined (runbook 055, section 2: an approval cannot
\* release a hold).
THEOREM HoldStands ==
  ASSUME MaxRuleChanges = 0
  PROVE  Spec => []HeldUntilResolved
BY FixedRules, PTL DEF StoreInv

\* While the rules stand still, a hold that expired or was rejected is never
\* promoted (hold.ts: "Expiry NEVER promotes"), even by a call that began first.
THEOREM ClosedStays ==
  ASSUME MaxRuleChanges = 0
  PROVE  Spec => []ClosedUnpromoted
BY FixedRules, PTL DEF StoreInv

-----------------------------------------------------------------------------
(* Refinement: the processes implement HoldPromise.                          *)

\* A step that neither opens nor resolves a hold shows nothing to the promise.
LEMMA PhaseKept ==
  ASSUME \A c \in Candidates : (hold[c] = "never" <=> hold'[c] = "never"),
         UNCHANGED resolution
  PROVE  Phase' = Phase
<1>1. ASSUME NEW c \in Candidates
      PROVE  PhaseOf(hold'[c], resolution'[c]) = PhaseOf(hold[c], resolution[c])
  BY DEF PhaseOf
<1>. QED
  BY <1>1 DEF Phase

\* A step that changes one candidate's hold changes the promise's view of it alone.
LEMMA PhaseMoves ==
  ASSUME NEW c \in Candidates, NEW p, PhaseOf(hold'[c], resolution'[c]) = p,
         \A d \in Candidates \ {c} : hold'[d] = hold[d] /\ resolution'[d] = resolution[d]
  PROVE  Phase' = [Phase EXCEPT ![c] = p]
<1>1. \A d \in Candidates \ {c} :
        PhaseOf(hold'[d], resolution'[d]) = PhaseOf(hold[d], resolution[d])
  OBVIOUS
<1>. QED
  BY <1>1 DEF Phase

\* While the rules stand still, every interleaving of approvals, batches,
\* verdicts and sweeps is one the runbook's promise allows (resolve-hold.ts: "a
\* hold ends one of three ways").
THEOREM Implements ==
  ASSUME MaxRuleChanges = 0
  PROVE  Spec => ImplementsPromise
<1>1. Init => Promise!PromiseInit
  BY DEF Init, Promise!PromiseInit, Phase, PhaseOf
<1>2. /\ TypeOK /\ TaskInv /\ StoreInv /\ TypeOK' /\ StoreInv'
      /\ [Next]_vars
      => [Promise!PromiseNext]_(Promise!promiseVars)
  <2>. SUFFICES ASSUME TypeOK, TaskInv, StoreInv, TypeOK', StoreInv', [Next]_vars
                PROVE  [Promise!PromiseNext]_(Promise!promiseVars)
    OBVIOUS
  <2>. USE DEF StoreInv
  <2>a. ASSUME UNCHANGED <<hold, resolution, memory>>
        PROVE  [Promise!PromiseNext]_(Promise!promiseVars)
    BY <2>a DEF Promise!promiseVars, Phase
  <2>h. ASSUME NEW c \in Candidates, hold[c] = "never", c \notin memory,
               hold' = [hold EXCEPT ![c] = "running"], UNCHANGED <<resolution, memory>>
        PROVE  Promise!Hold(c)
    <3>1. Phase[c] = "free"
      BY <2>h DEF Phase, PhaseOf
    <3>2. hold'[c] # "never" /\ resolution'[c] = "none"
      BY <2>h DEF HeldTrigger, TypeOK
    <3>3. PhaseOf(hold'[c], resolution'[c]) = "held"
      BY <3>2 DEF PhaseOf
    <3>4. \A d \in Candidates \ {c} : hold'[d] = hold[d] /\ resolution'[d] = resolution[d]
      BY <2>h DEF TypeOK
    <3>. QED
      BY <2>h, <3>1, <3>3, <3>4, PhaseMoves DEF Promise!Hold
  <2>r. ASSUME NEW c \in Candidates, hold[c] # "never", resolution[c] = "none",
               NEW r \in {"released", "rejected", "expired"},
               resolution' = [resolution EXCEPT ![c] = r], UNCHANGED hold
        PROVE  /\ Phase[c] = "held"
               /\ Phase' = [Phase EXCEPT ![c] = IF r = "released" THEN r ELSE "closed"]
    <3>1. Phase[c] = "held"
      BY <2>r DEF Phase, PhaseOf
    <3>2. hold'[c] # "never" /\ resolution'[c] = r
      BY <2>r DEF TypeOK
    <3>3. PhaseOf(hold'[c], resolution'[c]) = IF r = "released" THEN r ELSE "closed"
      BY <3>2 DEF PhaseOf
    <3>4. \A d \in Candidates \ {c} : hold'[d] = hold[d] /\ resolution'[d] = resolution[d]
      BY <2>r DEF TypeOK
    <3>. QED
      BY <3>1, <3>3, <3>4, PhaseMoves
  <2>1. ASSUME NEW c \in Candidates, Elapse(c)
        PROVE  [Promise!PromiseNext]_(Promise!promiseVars)
    <3>1. \A d \in Candidates : hold[d] = "never" <=> hold'[d] = "never"
      BY <2>1 DEF Elapse, TypeOK
    <3>. QED
      BY <2>1, <3>1, PhaseKept DEF Elapse, Promise!promiseVars
  <2>2. ASSUME NEW c \in Candidates, GovernSelected(c)
        PROVE  [Promise!PromiseNext]_(Promise!promiseVars)
    <3>1. c \notin memory
      BY <2>2 DEF GovernSelected
    <3>2. CASE UNCHANGED <<hold, memory>>
      BY <2>2, <3>2, <2>a DEF GovernSelected
    <3>3. CASE Holdable(c) /\ hold' = [hold EXCEPT ![c] = "running"] /\ UNCHANGED memory
      <4>1. hold[c] = "never"
        BY <3>3 DEF Holdable
      <4>. QED
        BY <4>1, <2>2, <3>1, <3>3, <2>h DEF GovernSelected, Promise!PromiseNext
    <3>4. CASE c \notin fires /\ memory' = memory \cup {c} /\ UNCHANGED hold
      <4>1. Phase[c] = "free"
        BY <3>4 DEF HeldTrigger, Phase, PhaseOf
      <4>2. Phase' = Phase
        BY <2>2, <3>4, PhaseKept DEF GovernSelected
      <4>. QED
        BY <3>4, <4>1, <4>2 DEF Promise!Admit, Promise!PromiseNext
    <3>. QED
      BY <2>2, <3>2, <3>3, <3>4 DEF GovernSelected
  <2>3. ASSUME NEW w \in Workers, PlaceHold(w)
        PROVE  [Promise!PromiseNext]_(Promise!promiseVars)
    <3>1. CASE UNCHANGED <<status, hold>>
      BY <2>3, <3>1, <2>a DEF PlaceHold
    <3>2. CASE Holdable(task[w].on) /\ hold' = [hold EXCEPT ![task[w].on] = "running"]
      <4>1. task[w].on \in Candidates /\ task[w].on \in fires
        BY <2>3 DEF PlaceHold, TaskInv, DecidedOnTriggers, TypeOK, Tasks
      <4>2. hold[task[w].on] = "never" /\ task[w].on \notin memory
        BY <3>2, <4>1 DEF Holdable, HeldTrigger
      <4>. QED
        BY <2>3, <3>2, <4>1, <4>2, <2>h DEF PlaceHold, Promise!PromiseNext
    <3>. QED
      BY <2>3, <3>1, <3>2 DEF PlaceHold
  <2>4. ASSUME NEW w \in Workers, Promote(w)
        PROVE  [Promise!PromiseNext]_(Promise!promiseVars)
    <3>1. CASE UNCHANGED memory
      BY <2>4, <3>1, <2>a DEF Promote
    <3>2. CASE memory' = memory \cup {task[w].on}
      <4>1. task[w].on \in Candidates /\ task[w].on \notin fires
        BY <2>4 DEF Promote, TaskInv, DecidedOnTriggers, TypeOK, Tasks
      <4>2. Phase[task[w].on] = "free"
        BY <4>1 DEF HeldTrigger, Phase, PhaseOf
      <4>3. Phase' = Phase
        BY <2>4, PhaseKept DEF Promote
      <4>. QED
        BY <3>2, <4>1, <4>2, <4>3 DEF Promise!Admit, Promise!PromiseNext
    <3>. QED
      BY <2>4, <3>1, <3>2 DEF Promote
  <2>5. ASSUME NEW w \in Workers, ResolveReject(w)
        PROVE  [Promise!PromiseNext]_(Promise!promiseVars)
    <3>1. task[w].on \in Candidates /\ hold[task[w].on] # "never"
      BY <2>5 DEF ResolveReject, TaskInv, ResolvingHeld, TypeOK, Tasks
    <3>2. CASE UNCHANGED <<status, resolution>>
      BY <2>5, <3>2, <2>a DEF ResolveReject
    <3>3. CASE resolution[task[w].on] = "none"
               /\ resolution' = [resolution EXCEPT ![task[w].on] = "rejected"]
      BY <2>5, <3>1, <3>3, <2>r DEF ResolveReject, Promise!Close, Promise!PromiseNext
    <3>. QED
      BY <2>5, <3>2, <3>3 DEF ResolveReject, UpdateStatus, Unresolved
  <2>6. ASSUME NEW w \in Workers, ResolveRelease(w)
        PROVE  [Promise!PromiseNext]_(Promise!promiseVars)
    <3>1. task[w].on \in Candidates /\ hold[task[w].on] # "never"
      BY <2>6 DEF ResolveRelease, TaskInv, ResolvingHeld, TypeOK, Tasks
    <3>2. CASE UNCHANGED <<status, resolution, memory>>
      BY <2>6, <3>2, <2>a DEF ResolveRelease
    <3>3. CASE /\ resolution[task[w].on] = "none"
               /\ resolution' = [resolution EXCEPT ![task[w].on] = "released"]
               /\ memory' = memory \cup {task[w].on}
      BY <2>6, <3>1, <3>3, <2>r DEF ResolveRelease, Promise!Release, Promise!PromiseNext
    <3>. QED
      BY <2>6, <3>2, <3>3 DEF ResolveRelease, UpdateStatus, Unresolved
  <2>7. ASSUME NEW w \in Workers, NEW c \in Candidates, ExpireHold(w, c)
        PROVE  [Promise!PromiseNext]_(Promise!promiseVars)
    <3>1. hold[c] # "never"
      BY <2>7 DEF ExpireHold, TaskInv, ResolvingHeld
    <3>2. CASE UNCHANGED <<status, resolution>>
      BY <2>7, <3>2, <2>a DEF ExpireHold
    <3>3. CASE resolution[c] = "none" /\ resolution' = [resolution EXCEPT ![c] = "expired"]
      BY <2>7, <3>1, <3>3, <2>r DEF ExpireHold, Promise!Close, Promise!PromiseNext
    <3>. QED
      BY <2>7, <3>2, <3>3 DEF ExpireHold, UpdateStatus, Unresolved
  <2>. QED
    BY <2>a, <2>1, <2>2, <2>3, <2>4, <2>5, <2>6, <2>7
    DEF Next, vars, store, Capture, RollbackImport, RejectCandidate, Stamp, Recommend,
        ChangeRules, Crash,
        BatchRead, ExpiryRead, Approve, BatchNext, ResolveRead
<1>. QED
  BY <1>1, <1>2, FixedRules, PTL DEF Spec, ImplementsPromise, Promise!PromiseSpec

=============================================================================
