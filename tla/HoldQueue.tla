------------------------------ MODULE HoldQueue ------------------------------
(***************************************************************************)
(* The human-escalation hold queue (apps/curator/src/hold) together with   *)
(* everything else that moves a candidate while it may be on hold: the     *)
(* API's approve and reject, the batch curator, the selected-governance    *)
(* transaction, the expiry sweep, and the rollback of an import batch,     *)
(* which deletes the batch's rows whatever their status.                   *)
(*                                                                         *)
(* All of them are processes over ONE SQLite store.  A call first reads,   *)
(* outside any transaction, and later commits one BEGIN IMMEDIATE          *)
(* transaction; between the two, other processes commit, and the process   *)
(* may be killed.  Each read is therefore one step here and each           *)
(* transaction is one atomic step.                                         *)
(*                                                                         *)
(* Time is kept only as far as a hold sees it: a hold is "running" until   *)
(* its bound elapses.                                                      *)
(***************************************************************************)
EXTENDS Naturals, FiniteSets

CONSTANTS
  Candidates,      \* the ids of the tenant's candidate rows
  Imported,        \* those that come from import batches
  Workers,         \* the processes: API server, curator CLI, edge daemon, sweeps
  Reviewers,       \* who may attach a recommendation
  MaxActive,       \* open holds allowed per tenant (TEAMKB_HOLD_MAX_ACTIVE)
  MaxAdvice,       \* MAX_RECOMMENDATIONS_PER_HOLD
  MaxRuleChanges,  \* bound: how often the set of triggering candidates changes
  MaxCrashes,      \* bound: how many processes are killed in the middle of a call
  NoCandidate      \* "no candidate": the idle worker's operand

ASSUME HoldAssumption ==
  /\ IsFiniteSet(Candidates)
  /\ Imported \subseteq Candidates
  /\ MaxActive \in Nat
  /\ MaxAdvice \in Nat
  /\ MaxRuleChanges \in Nat
  /\ MaxCrashes \in Nat
  /\ NoCandidate \notin Candidates

VARIABLES
  status,      \* candidates.status ("absent": no such row, or no longer)
  hold,        \* the `held` receipt: none, inside its bound, or past expiresAt
  resolution,  \* the `hold_resolved` receipt: at most one, its id is derived
  advice,      \* the `hold_recommended` receipts: {<<reviewer, verdict>>}
  memory,      \* candidates with a curated memory (and its `promoted` receipt)
  fires,       \* candidates whose hold triggers fire on today's policy and content
  task,        \* per worker: the call in progress and what it has read
  changes,     \* rule changes so far
  crashes,     \* crashes so far
  undone       \* candidates of a batch whose import_batches.status is rolled_back

store == <<status, hold, resolution, advice, memory>>
vars == <<status, hold, resolution, advice, memory, fires, task, changes, crashes, undone>>

Statuses    == {"absent", "inbox", "quarantined", "promoted", "rejected", "duplicate"}
Resolutions == {"none", "released", "rejected", "expired"}
Verdicts    == {"release", "reject"}
Ops == {"idle", "batch", "place", "sweep", "approve", "stamp",
        "reject", "release", "expire"}

\* A call in progress: its next step, that step's candidate, the candidates
\* the call has read and not reached, and the curator's sticky "queue full" flag.
Tasks ==
  {t \in [op : Ops, on : Candidates \cup {NoCandidate},
          rest : SUBSET Candidates, full : BOOLEAN] :
     t.op \notin {"idle", "batch", "expire"} => t.on \in Candidates}

Idle == [op |-> "idle", on |-> NoCandidate, rest |-> {}, full |-> FALSE]

-----------------------------------------------------------------------------
(* What a process reads.                                                   *)

\* findActiveHold: quarantined, with a `held` receipt and no `hold_resolved`.
ActiveHold(c) ==
  /\ status[c] = "quarantined"
  /\ hold[c] # "never"
  /\ resolution[c] = "none"

\* listActiveHolds.
ActiveHolds == {c \in Candidates : ActiveHold(c)}

\* The stored row may be put on hold: pending, and never held before.
Holdable(c) == status[c] \in {"inbox", "quarantined"} /\ hold[c] = "never"

\* Mutant: the cap compared with > instead of >=.
QueueFullLate == Cardinality(ActiveHolds) > MaxActive

QueueFull == Cardinality(ActiveHolds) >= MaxActive

\* The pending candidates a batch reads before it evaluates the first.
Inbox == {c \in Candidates : status[c] = "inbox"}

-----------------------------------------------------------------------------
(* What a process writes, and what it does next.                           *)

\* candidateRepo.updateStatus by a caller that does not look at the count: the
\* UPDATE of a row that is gone changes nothing.
UpdateStatus(c, s) ==
  status' = IF status[c] = "absent" THEN status ELSE [status EXCEPT ![c] = s]

Goto(w, t) == task' = [task EXCEPT ![w] = t]

\* The call on one candidate is over: a batch goes on, any other call returns.
Return(w, full) ==
  Goto(w, IF task[w].rest = {} THEN Idle
          ELSE [op |-> "batch", on |-> NoCandidate,
                rest |-> task[w].rest, full |-> full])

\* Mutant: the exception is swallowed and the call left standing.
ThrowStays(w) == Goto(w, [task[w] EXCEPT !.on = NoCandidate])

\* An exception (a primary-key conflict rolled the transaction back) leaves the
\* whole call, the rest of a batch included.
Throw(w) == Goto(w, Idle)

Init ==
  /\ status = [c \in Candidates |-> "absent"]
  /\ hold = [c \in Candidates |-> "never"]
  /\ resolution = [c \in Candidates |-> "none"]
  /\ advice = [c \in Candidates |-> {}]
  /\ memory = {}
  /\ fires \in SUBSET Candidates
  /\ task = [w \in Workers |-> Idle]
  /\ changes = 0
  /\ crashes = 0
  /\ undone = {}

-----------------------------------------------------------------------------
(* Intake and the world outside the queue.                                 *)

\* A proposal is stored: a member's goes to the quarantined review queue.  An
\* import goes to the inbox unless its content is a memory's already; its id is
\* derived from its content, so importing it again after a rollback is the same
\* candidate.
Capture(c) ==
  /\ status[c] = "absent"
  /\ c \in Imported => c \notin memory
  /\ \E s \in {"inbox", "quarantined"} :
       /\ c \in Imported => s = "inbox"
       /\ status' = [status EXCEPT ![c] = s]
  /\ UNCHANGED <<hold, resolution, advice, memory, fires, task, changes, crashes, undone>>

\* rollbackImport's deleteByBatch: one statement removes every row of the batch,
\* held, resolved or promoted; receipts and memories stay.
RollbackImport ==
  /\ \E batch \in SUBSET {c \in Imported : status[c] # "absent"} :
       /\ batch # {}
       /\ status' = [c \in Candidates |-> IF c \in batch THEN "absent" ELSE status[c]]
       /\ undone' = undone \cup batch
  /\ UNCHANGED <<hold, resolution, advice, memory, fires, task, changes, crashes>>

\* The policy is edited, or a redaction rewrites candidate text: the triggers
\* that fire from now on may be any.
ChangeRules ==
  /\ changes < MaxRuleChanges
  /\ changes' = changes + 1
  /\ fires' \in SUBSET Candidates
  /\ UNCHANGED <<status, hold, resolution, advice, memory, task, crashes, undone>>

\* The bound of a hold elapses.
Elapse(c) ==
  /\ hold[c] = "running"
  /\ hold' = [hold EXCEPT ![c] = "elapsed"]
  /\ UNCHANGED <<status, resolution, advice, memory, fires, task, changes, crashes, undone>>

\* A process is killed between two steps of a call; nothing uncommitted stays.
Crash(w) ==
  /\ task[w] # Idle
  /\ crashes < MaxCrashes
  /\ crashes' = crashes + 1
  /\ Throw(w)
  /\ UNCHANGED <<store, fires, changes, undone>>

-----------------------------------------------------------------------------
(* Approval, and the batch curator.                                        *)

\* The curator drops the candidate and a batch goes on to the next one.
Skip(w, t) ==
  Goto(w, IF t.rest = {} THEN Idle ELSE [t EXCEPT !.op = "batch", !.on = NoCandidate])

\* Mutant: the gate's hold outcome does not stop the promotion.
DecideAdmits(w, c, t, admit) ==
  \/ Skip(w, t)
  \/ c \notin memory /\ c \in fires /\ ~t.full /\ Goto(w, [t EXCEPT !.op = "place", !.on = c])
  \/ c \notin memory /\ Goto(w, [t EXCEPT !.op = admit, !.on = c])

\* The gate's decision on one candidate, outside any transaction: refused
\* (duplicate, redacted, policy), or sent to placeHold because a trigger fires,
\* or admitted by the step `admit`.  The stored status is not consulted.
Decide(w, c, t, admit) ==
  \/ Skip(w, t)
  \/ /\ c \notin memory
     /\ c \in fires
     /\ ~t.full
     /\ Goto(w, [t EXCEPT !.op = "place", !.on = c])
  \/ /\ c \notin memory
     /\ c \notin fires
     /\ Goto(w, [t EXCEPT !.op = admit, !.on = c])

\* POST /api/candidates/:id/promote reads the row and runs the gate.
Approve(w, c) ==
  /\ task[w] = Idle
  /\ status[c] # "absent"
  /\ Decide(w, c, Idle, "approve")
  /\ UNCHANGED <<store, fires, changes, crashes, undone>>

\* A batch curator (curator-cli ingest, the daemon's cycle) reads its inbox.
BatchRead(w) ==
  /\ task[w] = Idle
  /\ Inbox # {}
  /\ \E S \in SUBSET Inbox : S # {} /\ Goto(w, [Idle EXCEPT !.op = "batch", !.rest = S])
  /\ UNCHANGED <<store, fires, changes, crashes, undone>>

\* The batch evaluates its next candidate, as it was when the batch was read.
BatchNext(w, c) ==
  /\ task[w].op = "batch"
  /\ c \in task[w].rest
  /\ Decide(w, c, [task[w] EXCEPT !.rest = @ \ {c}], "sweep")
  /\ UNCHANGED <<store, fires, changes, crashes, undone>>

\* placeHold's transaction.
PlaceHold(w) ==
  LET c == task[w].on IN
  /\ task[w].op = "place"
  /\ IF Holdable(c) /\ ~QueueFull
       THEN /\ status' = [status EXCEPT ![c] = "quarantined"]
            /\ hold' = [hold EXCEPT ![c] = "running"]
       ELSE UNCHANGED <<status, hold>>
  /\ Return(w, task[w].full \/ (Holdable(c) /\ QueueFull))
  /\ UNCHANGED <<resolution, advice, memory, fires, changes, crashes, undone>>

\* promote()'s transaction.  The memory's id is derived from the candidate, so
\* a second promotion of one candidate fails on the primary key.  The API then
\* stamps the candidate in a transaction of its own; a batch stamps nothing.
Promote(w) ==
  LET c == task[w].on IN
  /\ task[w].op \in {"sweep", "approve"}
  /\ IF c \in memory
       THEN UNCHANGED memory /\ Throw(w)
       ELSE /\ memory' = memory \cup {c}
            /\ IF task[w].op = "approve"
                 THEN Goto(w, [task[w] EXCEPT !.op = "stamp"])
                 ELSE Return(w, task[w].full)
  /\ UNCHANGED <<status, hold, resolution, advice, fires, changes, crashes, undone>>

\* The API's updateStatus(candidateId, 'promoted'), whatever the status is now.
Stamp(w) ==
  /\ task[w].op = "stamp"
  /\ UpdateStatus(task[w].on, "promoted")
  /\ Return(w, FALSE)
  /\ UNCHANGED <<hold, resolution, advice, memory, fires, changes, crashes, undone>>

\* Mutant: a rejection that does not look for an open hold.
RejectHeld(c) ==
  /\ status[c] \in {"inbox", "quarantined"}
  /\ c \notin memory
  /\ status' = [status EXCEPT ![c] = "rejected"]
  /\ UNCHANGED <<hold, resolution, advice, memory, fires, task, changes, crashes, undone>>

\* rejectCandidate: every check inside the transaction.
RejectCandidate(c) ==
  /\ ~ActiveHold(c)
  /\ status[c] \in {"inbox", "quarantined"}
  /\ c \notin memory
  /\ status' = [status EXCEPT ![c] = "rejected"]
  /\ UNCHANGED <<hold, resolution, advice, memory, fires, task, changes, crashes, undone>>

\* governSelectedCandidates on one binding: validation, gate, hold or
\* promotion, and status stamp are one transaction.  A member's proposal goes to
\* the review queue; nobody's role is on an import.
GovernSelected(c) ==
  /\ status[c] = "inbox"
  /\ c \notin memory
  /\ \/ /\ c \notin Imported
        /\ status' = [status EXCEPT ![c] = "quarantined"]
        /\ UNCHANGED <<hold, memory>>
     \/ /\ c \in fires /\ Holdable(c) /\ ~QueueFull
        /\ status' = [status EXCEPT ![c] = "quarantined"]
        /\ hold' = [hold EXCEPT ![c] = "running"]
        /\ UNCHANGED memory
     \/ /\ c \notin fires
        /\ status' = [status EXCEPT ![c] = "promoted"]
        /\ memory' = memory \cup {c}
        /\ UNCHANGED hold
     \/ /\ \E s \in {"rejected", "duplicate"} : status' = [status EXCEPT ![c] = s]
        /\ UNCHANGED <<hold, memory>>
  /\ UNCHANGED <<resolution, advice, fires, task, changes, crashes, undone>>

-----------------------------------------------------------------------------
(* Recommending on and resolving a hold.                                   *)

\* recommendOnHold: one receipt, no state change.
Recommend(c, r, v) ==
  /\ ActiveHold(c)
  /\ hold[c] = "running"
  /\ <<r, v>> \notin advice[c]
  /\ Cardinality(advice[c]) < MaxAdvice
  /\ advice' = [advice EXCEPT ![c] = @ \cup {<<r, v>>}]
  /\ UNCHANGED <<status, hold, resolution, memory, fires, task, changes, crashes, undone>>

\* resolveHold reads the hold before any transaction; past the bound every
\* verdict becomes an expiry.
ResolveRead(w, c, v) ==
  /\ task[w] = Idle
  /\ ActiveHold(c)
  /\ Goto(w, IF hold[c] = "elapsed"
               THEN [Idle EXCEPT !.op = "expire", !.rest = {c}]
               ELSE [Idle EXCEPT !.op = v, !.on = c])
  /\ UNCHANGED <<store, fires, changes, crashes, undone>>

\* Mutant: the receipt's id is random, so a second resolution is stored.
UnresolvedAlways(c) == c \in Candidates

\* writeHoldResolved's insert succeeds only if no `hold_resolved` receipt of
\* the candidate exists: the receipt's id is a function of the candidate.
Unresolved(c) == resolution[c] = "none"

\* Mutant: the candidate is retired outside the receipt's transaction.
ResolveRejectSplit(w) ==
  LET c == task[w].on IN
  /\ task[w].op = "reject"
  /\ UpdateStatus(c, "rejected")
  /\ resolution' = IF Unresolved(c) THEN [resolution EXCEPT ![c] = "rejected"] ELSE resolution
  /\ Goto(w, Idle)
  /\ UNCHANGED <<hold, advice, memory, fires, changes, crashes, undone>>

\* The reject verdict's transaction.
ResolveReject(w) ==
  LET c == task[w].on IN
  /\ task[w].op = "reject"
  /\ IF Unresolved(c)
       THEN /\ UpdateStatus(c, "rejected")
            /\ resolution' = [resolution EXCEPT ![c] = "rejected"]
       ELSE UNCHANGED <<status, resolution>>
  /\ Goto(w, Idle)
  /\ UNCHANGED <<hold, advice, memory, fires, changes, crashes, undone>>

\* The release verdict's transaction: the gate runs again inside it and may
\* refuse; otherwise memory, status and receipt commit together or not at all.
ResolveRelease(w) ==
  LET c == task[w].on IN
  /\ task[w].op = "release"
  /\ \/ UNCHANGED <<status, resolution, memory>>
     \/ /\ c \notin memory
        /\ Unresolved(c)
        /\ memory' = memory \cup {c}
        /\ UpdateStatus(c, "promoted")
        /\ resolution' = [resolution EXCEPT ![c] = "released"]
  /\ Goto(w, Idle)
  /\ UNCHANGED <<hold, advice, fires, changes, crashes, undone>>

\* Mutant: the expiry comparison is the wrong way round.
ExpiryReadEarly(w) ==
  LET due == {c \in ActiveHolds : hold[c] = "running"} IN
  /\ task[w] = Idle
  /\ due # {}
  /\ Goto(w, [Idle EXCEPT !.op = "expire", !.rest = due])
  /\ UNCHANGED <<store, fires, changes, crashes, undone>>

\* expireHolds lists the elapsed holds once.
ExpiryRead(w) ==
  LET due == {c \in ActiveHolds : hold[c] = "elapsed"} IN
  /\ task[w] = Idle
  /\ due # {}
  /\ Goto(w, [Idle EXCEPT !.op = "expire", !.rest = due])
  /\ UNCHANGED <<store, fires, changes, crashes, undone>>

\* expireHold's transaction on the next listed hold; a hold resolved since the
\* listing throws, and the holds listed after it stay open until the next sweep.
ExpireHold(w, c) ==
  /\ task[w].op = "expire"
  /\ c \in task[w].rest
  /\ IF Unresolved(c)
       THEN /\ UpdateStatus(c, "rejected")
            /\ resolution' = [resolution EXCEPT ![c] = "expired"]
            /\ Goto(w, IF task[w].rest = {c} THEN Idle
                       ELSE [task[w] EXCEPT !.rest = @ \ {c}])
       ELSE Throw(w) /\ UNCHANGED <<status, resolution>>
  /\ UNCHANGED <<hold, advice, memory, fires, changes, crashes, undone>>

-----------------------------------------------------------------------------

Next ==
  \/ \E c \in Candidates : \/ Capture(c)
                           \/ Elapse(c)
                           \/ RejectCandidate(c)
                           \/ GovernSelected(c)
                           \/ \E r \in Reviewers, v \in Verdicts : Recommend(c, r, v)
  \/ RollbackImport
  \/ ChangeRules
  \/ \E w \in Workers : \/ Crash(w)
                        \/ BatchRead(w)
                        \/ PlaceHold(w)
                        \/ Promote(w)
                        \/ Stamp(w)
                        \/ ResolveReject(w)
                        \/ ResolveRelease(w)
                        \/ ExpiryRead(w)
                        \/ \E c \in Candidates : \/ Approve(w, c)
                                                 \/ BatchNext(w, c)
                                                 \/ ExpireHold(w, c)
                                                 \/ \E v \in Verdicts : ResolveRead(w, c, v)

Spec == Init /\ [][Next]_vars

\* A started call runs on, time passes, and the expiry sweep is run again and
\* again (the runbook's "expiry needs a caller").
Fairness ==
  /\ \A c \in Candidates : WF_vars(Elapse(c))
  /\ \A w \in Workers : /\ WF_vars(\E c \in Candidates : ExpireHold(w, c) \/ BatchNext(w, c))
                        /\ WF_vars(PlaceHold(w) \/ Promote(w) \/ Stamp(w)
                                     \/ ResolveReject(w) \/ ResolveRelease(w))
  /\ SF_vars(\E w \in Workers : ExpiryRead(w))

FairSpec == Spec /\ Fairness

-----------------------------------------------------------------------------
(* Properties.                                                             *)

\* Every variable has its type.
TypeOK ==
  /\ status \in [Candidates -> Statuses]
  /\ hold \in [Candidates -> {"never", "running", "elapsed"}]
  /\ resolution \in [Candidates -> Resolutions]
  /\ advice \in [Candidates -> SUBSET (Reviewers \X Verdicts)]
  /\ memory \in SUBSET Candidates
  /\ fires \in SUBSET Candidates
  /\ task \in [Workers -> Tasks]
  /\ changes \in Nat
  /\ crashes \in Nat
  /\ undone \in SUBSET Imported

\* A candidate that was ever held has left the inbox for good, unless a rollback
\* removed its row.
HeldLeftInbox ==
  \A c \in Candidates \ undone :
    hold[c] # "never" => status[c] \notin {"absent", "inbox"}

\* The queue is bounded: however many processes place, resolve and expire
\* holds at once, no more than MaxActive are open (hold.ts: the cap is counted
\* inside the transaction that takes the slot).
CapRespected == Cardinality(ActiveHolds) <= MaxActive

\* A hold that was released stays released: the candidate's memory exists and its
\* row, unless a rollback removed it, says promoted, whatever stale rejection or
\* expiry commits afterwards (writeHoldResolved's derived id rolls the late
\* transaction back).
ReleasedIsAdmitted ==
  \A c \in Candidates :
    resolution[c] = "released"
      => /\ c \in memory
         /\ status[c] = "promoted" \/ (c \in undone /\ status[c] = "absent")

\* A hold ends once: a resolution is never rewritten and the candidate is
\* never put on hold again (runbook 055, section 5: "a resolved or expired
\* hold is never reopened").
ResolvedOnce ==
  [][\A c \in Candidates :
       resolution[c] # "none" => resolution'[c] = resolution[c] /\ ~ActiveHold(c)']_vars

\* A held candidate leaves the hold only by a resolution with its receipt: while
\* none is written it is not promoted, not even if its batch is rolled back and
\* imported again, and it stays quarantined unless its row was rolled back
\* (runbook 055, section 2: release needs a person, an approval cannot release it).
HeldUntilResolved ==
  \A c \in Candidates :
    hold[c] # "never" /\ resolution[c] = "none"
      => c \notin memory /\ (status[c] = "quarantined" \/ c \in undone)

\* A hold closed to the safe default is never promoted (hold.ts: "Expiry NEVER
\* promotes"; a rejected hold is retired): no memory, also after a rollback and a
\* second import, and the status says so unless the row was rolled back.
ClosedUnpromoted ==
  \A c \in Candidates :
    resolution[c] \in {"rejected", "expired"}
      => c \notin memory /\ (status[c] = "rejected" \/ c \in undone)

\* No hold is open forever: with the sweep running, each one is resolved, or its
\* row is gone with its import batch.
EveryHoldEnds ==
  \A c \in Candidates : ActiveHold(c) ~> ~ActiveHold(c)

\* What the promise sees of a hold receipt h and a resolution r.
PhaseOf(h, r) ==
  IF h = "never" THEN "free"
  ELSE IF r = "none" THEN "held"
  ELSE IF r = "released" THEN "released"
  ELSE "closed"

Phase == [c \in Candidates |-> PhaseOf(hold[c], resolution[c])]

Promise == INSTANCE HoldPromise WITH phase <- Phase, admitted <- memory

\* While the rules stay as they are, the interleaved processes implement the
\* promise of the runbook.
ImplementsPromise == Promise!PromiseSpec

=============================================================================
