----------------------------- MODULE MemoryStore -----------------------------
(***************************************************************************)
(* The curated_memories table and every program that rewrites a row of it. *)
(*                                                                         *)
(* Some writers read the row inside the BEGIN IMMEDIATE transaction that   *)
(* writes it (the API's and the MCP server's transition, the batch         *)
(* transition's re-check, a reviewed settlement).  Others plan on what     *)
(* they read before it: a promotion on the memories it will supersede, a   *)
(* redaction and an audience narrowing on the whole row they write back,   *)
(* the staleness sweep on a lifecycle it read in an earlier statement.     *)
(*                                                                         *)
(* Which processes run is a parameter: a set of processes per kind of      *)
(* writer.                                                                 *)
(***************************************************************************)
EXTENDS Naturals, FiniteSets

CONSTANTS
  Memories,       \* memory ids; each is derived from one candidate
  Curators,       \* processes that promote candidates
  Batchers,       \* processes that run curator-cli batch-transition
  Editors,        \* processes that redact a memory or narrow its audience
  Settlers,       \* processes that settle a reviewed manifest
  Sweepers,       \* edge daemons running the staleness sweep
  MaxSupersedes,  \* DEFAULT_MAX_SUPERSEDES_PER_PROMOTION
  NoMemory        \* no successor, no operand

ASSUME StoreAssumption ==
  /\ IsFiniteSet(Memories)
  /\ MaxSupersedes \in Nat
  /\ NoMemory \notin Memories

VARIABLES
  row,       \* curated_memories: lifecycle, text, audience tier, successor
  said,      \* the lifecycle the newest lifecycle receipt of a memory states
  redacted,  \* memories with a `redacted` receipt
  narrowed,  \* memories with an `audience_narrowed` receipt
  task       \* per process: the call in progress and what it has read

vars == <<row, said, redacted, narrowed, task>>

Workers == Curators \cup Batchers \cup Editors \cup Settlers \cup Sweepers

States == {"active", "deprecated", "superseded", "archived"}
Lives  == States \cup {"absent"}
Texts  == {"original", "redacted"}
Tiers  == {"tenant", "admins"}
Rows   == [life : Lives, text : Texts, tier : Tiers, succ : Memories \cup {NoMemory}]

NoRow == [life |-> "absent", text |-> "original", tier |-> "tenant", succ |-> NoMemory]

Ops == {"idle", "promote", "batch", "sweep", "deprecate", "receipt",
        "redact", "narrow", "settle"}

\* A call in progress: its next step, its memory, the memories it has listed,
\* the state it is to reach, and the row it has read.
Tasks == {t \in [op : Ops, on : Memories \cup {NoMemory}, rest : SUBSET Memories,
                 to : States \ {"superseded"}, seen : Rows] :
            t.op \notin {"idle", "batch", "sweep"} => t.on \in Memories}

Idle == [op |-> "idle", on |-> NoMemory, rest |-> {}, to |-> "active", seen |-> NoRow]

\* ALLOWED_TRANSITIONS.
Allowed == [s \in States |->
              CASE s = "active"     -> {"deprecated", "superseded", "archived"}
                [] s = "deprecated" -> {"active", "archived"}
                [] s = "superseded" -> {"archived"}
                [] s = "archived"   -> {}]

Stored == {m \in Memories : row[m].life # "absent"}
Active == {m \in Memories : row[m].life = "active"}

\* A row superseded by m.
Retire(r, m) == [r EXCEPT !.life = "superseded", !.succ = m]

Goto(w, t) == task' = [task EXCEPT ![w] = t]

\* An exception: what the transaction wrote is rolled back, the call is over.
Throw(w) == Goto(w, Idle)

Init ==
  /\ row = [m \in Memories |-> NoRow]
  /\ said = [m \in Memories |-> "absent"]
  /\ redacted = {}
  /\ narrowed = {}
  /\ task = [w \in Workers |-> Idle]

\* A process is killed between two statements.
Crash(w) ==
  /\ task[w] # Idle
  /\ Throw(w)
  /\ UNCHANGED <<row, said, redacted, narrowed>>

-----------------------------------------------------------------------------
(* Promotion.                                                              *)

\* The curator's gate: the candidate has no memory yet, and planSupersession
\* picks the active memories it retires, none when more than the cap match.
PlanPromotion(w, m) ==
  /\ task[w] = Idle
  /\ m \notin Stored
  /\ \E S \in SUBSET Active :
       /\ Cardinality(S) <= MaxSupersedes
       /\ Goto(w, [Idle EXCEPT !.op = "promote", !.on = m, !.rest = S])
  /\ UNCHANGED <<row, said, redacted, narrowed>>

\* Mutant: the retired rows are rebuilt from a candidate instead of re-read.
CommitFromCandidate(w) ==
  LET m == task[w].on
      retired == task[w].rest IN
  /\ task[w].op = "promote"
  /\ IF m \in Stored
       THEN UNCHANGED <<row, said>>
       ELSE /\ row' = [x \in Memories |->
                         IF x = m THEN [NoRow EXCEPT !.life = "active"]
                         ELSE IF x \in retired THEN Retire(NoRow, m)
                         ELSE row[x]]
            /\ said' = [x \in Memories |->
                          IF x = m THEN "active"
                          ELSE IF x \in retired THEN "superseded"
                          ELSE said[x]]
  /\ Goto(w, Idle)
  /\ UNCHANGED <<redacted, narrowed>>

\* Mutant: the retired memories get no `superseded` receipt.
CommitSilent(w) ==
  LET m == task[w].on
      retired == task[w].rest IN
  /\ task[w].op = "promote"
  /\ IF m \in Stored
       THEN UNCHANGED <<row, said>>
       ELSE /\ row' = [x \in Memories |->
                         IF x = m THEN [NoRow EXCEPT !.life = "active"]
                         ELSE IF x \in retired THEN Retire(row[x], m)
                         ELSE row[x]]
            /\ said' = [said EXCEPT ![m] = "active"]
  /\ Goto(w, Idle)
  /\ UNCHANGED <<redacted, narrowed>>

\* promote()'s transaction: each planned row is read again and rewritten as
\* superseded whatever its lifecycle is now; the new memory is inserted (or a
\* primary-key conflict rolls everything back); every change has its receipt.
CommitPromotion(w) ==
  LET m == task[w].on
      retired == task[w].rest IN
  /\ task[w].op = "promote"
  /\ IF m \in Stored
       THEN UNCHANGED <<row, said>>
       ELSE /\ row' = [x \in Memories |->
                         IF x = m THEN [NoRow EXCEPT !.life = "active"]
                         ELSE IF x \in retired THEN Retire(row[x], m)
                         ELSE row[x]]
            /\ said' = [x \in Memories |->
                          IF x = m THEN "active"
                          ELSE IF x \in retired THEN "superseded"
                          ELSE said[x]]
  /\ Goto(w, Idle)
  /\ UNCHANGED <<redacted, narrowed>>

-----------------------------------------------------------------------------
(* Lifecycle transitions decided inside their own transaction.             *)

\* Mutant: supersede() takes a replacement in any state.
SupersedeByAny(m, by) ==
  /\ m \in Active
  /\ by \in Stored \ {m}
  /\ row' = [row EXCEPT ![m] = Retire(@, by)]
  /\ said' = [said EXCEPT ![m] = "superseded"]
  /\ UNCHANGED <<redacted, narrowed, task>>

\* A transition to `superseded` (API and MCP): by a distinct active memory.
Supersede(m, by) ==
  /\ m \in Active
  /\ by \in Active \ {m}
  /\ row' = [row EXCEPT ![m] = Retire(@, by)]
  /\ said' = [said EXCEPT ![m] = "superseded"]
  /\ UNCHANGED <<redacted, narrowed, task>>

\* Any other transition (API and MCP).
Transition(m, to) ==
  /\ m \in Stored
  /\ to \in Allowed[row[m].life] \ {"superseded"}
  /\ row' = [row EXCEPT ![m].life = to]
  /\ said' = [said EXCEPT ![m] = to]
  /\ UNCHANGED <<redacted, narrowed, task>>

\* batch-transition lists the rows whose lifecycle may become `to`.
BatchRead(w, to) ==
  LET listed == {m \in Stored : to \in Allowed[row[m].life]} IN
  /\ task[w] = Idle
  /\ \E S \in SUBSET listed :
       S # {} /\ Goto(w, [Idle EXCEPT !.op = "batch", !.rest = S, !.to = to])
  /\ UNCHANGED <<row, said, redacted, narrowed>>

\* Mutant: the listed row is written without a second look at the graph.
BatchApplyListed(w, m) ==
  LET to == task[w].to IN
  /\ task[w].op = "batch"
  /\ m \in task[w].rest
  /\ row' = [row EXCEPT ![m].life = to]
  /\ said' = [said EXCEPT ![m] = to]
  /\ Goto(w, IF task[w].rest = {m} THEN Idle ELSE [task[w] EXCEPT !.rest = @ \ {m}])
  /\ UNCHANGED <<redacted, narrowed>>

\* One listed row's transaction: updateLifecycle checks the graph again, takes a
\* row already there as done, and throws out of the whole batch otherwise.
BatchApply(w, m) ==
  LET to == task[w].to IN
  /\ task[w].op = "batch"
  /\ m \in task[w].rest
  /\ IF row[m].life = to \/ to \in Allowed[row[m].life]
       THEN /\ row' = [row EXCEPT ![m].life = to]
            /\ said' = [said EXCEPT ![m] = to]
            /\ Goto(w, IF task[w].rest = {m} THEN Idle
                       ELSE [task[w] EXCEPT !.rest = @ \ {m}])
       ELSE Throw(w) /\ UNCHANGED <<row, said>>
  /\ UNCHANGED <<redacted, narrowed>>

-----------------------------------------------------------------------------
(* The staleness sweep: no transaction.                                    *)

\* The sweep goes on to the next listed memory.
SweepOn(w) ==
  Goto(w, IF task[w].rest = {} THEN Idle
          ELSE [Idle EXCEPT !.op = "sweep", !.rest = task[w].rest])

\* findStale: active memories past their bound.
SweepRead(w) ==
  /\ task[w] = Idle
  /\ \E S \in SUBSET Active :
       S # {} /\ Goto(w, [Idle EXCEPT !.op = "sweep", !.rest = S])
  /\ UNCHANGED <<row, said, redacted, narrowed>>

\* updateLifecycle's SELECT; a memory that may not be deprecated any more is
\* counted as an error and passed over.
SweepCheck(w, m) ==
  LET rest == task[w].rest \ {m} IN
  /\ task[w].op = "sweep"
  /\ m \in task[w].rest
  /\ Goto(w, IF row[m].life \in {"active", "deprecated"}
               THEN [task[w] EXCEPT !.op = "deprecate", !.on = m, !.rest = rest]
               ELSE IF rest = {} THEN Idle ELSE [task[w] EXCEPT !.rest = rest])
  /\ UNCHANGED <<row, said, redacted, narrowed>>

\* updateLifecycle's UPDATE.
SweepWrite(w) ==
  /\ task[w].op = "deprecate"
  /\ row' = [row EXCEPT ![task[w].on].life = "deprecated"]
  /\ Goto(w, [task[w] EXCEPT !.op = "receipt"])
  /\ UNCHANGED <<said, redacted, narrowed>>

\* The sweep's `demoted` receipt.
SweepReceipt(w) ==
  /\ task[w].op = "receipt"
  /\ said' = [said EXCEPT ![task[w].on] = "deprecated"]
  /\ SweepOn(w)
  /\ UNCHANGED <<row, redacted, narrowed>>

-----------------------------------------------------------------------------
(* Writers of the whole row.                                               *)

\* A call that reads the whole row of m before it writes it.
Holding(m, op, to) == [Idle EXCEPT !.op = op, !.on = m, !.to = to, !.seen = row[m]]

\* redactMemory and narrowAudience read the row and decide.
EditRead(w, m) ==
  /\ task[w] = Idle
  /\ m \in Stored
  /\ \/ row[m].text = "original" /\ Goto(w, Holding(m, "redact", "active"))
     \/ row[m].tier = "tenant" /\ Goto(w, Holding(m, "narrow", "active"))
  /\ UNCHANGED <<row, said, redacted, narrowed>>

\* redactMemory's transaction writes back the row it read, with the new text.
Redact(w) ==
  LET m == task[w].on IN
  /\ task[w].op = "redact"
  /\ row' = [row EXCEPT ![m] = [task[w].seen EXCEPT !.text = "redacted"]]
  /\ redacted' = redacted \cup {m}
  /\ Goto(w, Idle)
  /\ UNCHANGED <<said, narrowed>>

\* narrowAudience's transaction writes back the row it read, with the new tier.
Narrow(w) ==
  LET m == task[w].on IN
  /\ task[w].op = "narrow"
  /\ row' = [row EXCEPT ![m] = [task[w].seen EXCEPT !.tier = "admins"]]
  /\ narrowed' = narrowed \cup {m}
  /\ Goto(w, Idle)
  /\ UNCHANGED <<said, redacted>>

\* A manifest is reviewed against a snapshot of the row (reviewed staleness:
\* deprecate or reactivate; recovery: archive the recovered source).
ReviewRead(w, m) ==
  /\ task[w] = Idle
  /\ \E move \in {<<"active", "deprecated">>, <<"deprecated", "active">>,
                  <<"active", "archived">>} :
       row[m].life = move[1] /\ Goto(w, Holding(m, "settle", move[2]))
  /\ UNCHANGED <<row, said, redacted, narrowed>>

\* The settlement, in one transaction: refused unless
\* the stored row is still the snapshot that was reviewed.
Settle(w) ==
  LET m == task[w].on IN
  /\ task[w].op = "settle"
  /\ IF row[m] = task[w].seen
       THEN /\ row' = [row EXCEPT ![m].life = task[w].to]
            /\ said' = [said EXCEPT ![m] = task[w].to]
       ELSE UNCHANGED <<row, said>>
  /\ Goto(w, Idle)
  /\ UNCHANGED <<redacted, narrowed>>

-----------------------------------------------------------------------------

Next ==
  \/ \E w \in Workers : Crash(w)
  \/ \E w \in Curators : CommitPromotion(w) \/ \E m \in Memories : PlanPromotion(w, m)
  \/ \E m \in Memories : \/ \E by \in Memories : Supersede(m, by)
                         \/ \E to \in States : Transition(m, to)
  \/ \E w \in Batchers : \/ \E to \in States \ {"superseded"} : BatchRead(w, to)
                         \/ \E m \in Memories : BatchApply(w, m)
  \/ \E w \in Sweepers : \/ SweepRead(w)
                         \/ SweepWrite(w)
                         \/ SweepReceipt(w)
                         \/ \E m \in Memories : SweepCheck(w, m)
  \/ \E w \in Editors : \/ Redact(w)
                        \/ Narrow(w)
                        \/ \E m \in Memories : EditRead(w, m)
  \/ \E w \in Settlers : Settle(w) \/ \E m \in Memories : ReviewRead(w, m)

Spec == Init /\ [][Next]_vars

-----------------------------------------------------------------------------
(* Properties.                                                             *)

\* Every variable has its type.
TypeOK ==
  /\ row \in [Memories -> Rows]
  /\ said \in [Memories -> Lives]
  /\ redacted \in SUBSET Memories
  /\ narrowed \in SUBSET Memories
  /\ task \in [Workers -> Tasks]

\* Following successors from a superseded memory always ends at one that is not
\* superseded: no group of superseded memories supersede one another, whatever
\* promotions and transitions commit on stale plans (the provenance walk relies
\* on it; supersede() takes only an active replacement, a promotion a new one).
NoCircularHistory ==
  \A G \in SUBSET {m \in Memories : row[m].life = "superseded"} :
    G # {} => \E m \in G : row[m].succ \in Stored \ G

\* The newest receipt tells the state of the row: every lifecycle change commits
\* with the receipt that states it, in the order of the changes.
ReceiptsTell == \A m \in Memories : said[m] = row[m].life

\* The lifecycle and the successor of each memory, as the table has them.
Table == INSTANCE Lifecycle
           WITH life <- [m \in Memories |-> row[m].life],
                successor <- [m \in Memories |-> row[m].succ],
                Groups <- {S \in SUBSET Memories : Cardinality(S) <= MaxSupersedes}

\* Writers that plan on what they read, list a batch or review a snapshot change
\* the table only as the lifecycle promises: along the graph, from the state the
\* row has when it is written, or by a new memory that takes the place of earlier
\* ones; so nothing superseded or archived comes back into force.
ImplementsLifecycle == Table!LifeSpec

\* What a redaction removed stays removed and what a narrowing hid stays hidden:
\* no writer brings the old text or the wider audience back.
EditsStick ==
  /\ \A m \in redacted : row[m].text = "redacted"
  /\ \A m \in narrowed : row[m].tier = "admins"

=============================================================================
