------------------------------ MODULE AuditChain ------------------------------
(***************************************************************************)
(* The receipts of governance: the hash-chained audit_events table         *)
(* (packages/store/src/repositories/audit-repository.ts), its verifier     *)
(* (audit-verify.ts), and the log of signed merge anchors that merge-govern*)
(* keeps beside it under a lock file (signed-merge-anchor.ts and cli.ts).  *)
(*                                                                         *)
(* The table is written by many processes, each inside one SQLite          *)
(* transaction: an immediate one, which takes the write lock first, or a   *)
(* deferred one, which reads first and takes the lock at its first write.  *)
(* The anchor log is a plain file: reading it, appending to it, creating   *)
(* and removing its lock file are separate system calls.                   *)
(*                                                                         *)
(* SHA-256 is modelled as injective: the hash of a row is the hash it links*)
(* to followed by the row's own content.  NULL is the empty sequence.      *)
(***************************************************************************)
EXTENDS Integers, Sequences

CONSTANTS
  Events,      \* ids of audit events; most are derived from what they state
  Writers,     \* processes that append receipts
  Mergers,     \* merge-govern invocations that anchor their result
  MaxCrashes,  \* bound: merge-govern invocations that are killed
  MaxEdits,    \* bound: alterations of stored rows
  Nobody       \* no process

ASSUME ChainAssumption ==
  /\ MaxCrashes \in Nat
  /\ MaxEdits \in Nat
  /\ Nobody \notin Writers \cup Mergers

VARIABLES
  log,      \* audit_events in seq order
  writer,   \* the process that holds SQLite's write lock
  tx,       \* per writer: the transaction in progress
  anchors,  \* the signed-merge-anchor log
  lock,     \* <anchorPath>.lock: who created it, and whether it is over 60 s old
  run,      \* per merger: the invocation in progress and what it has read
  crashes,  \* invocations killed so far
  edits,    \* alterations so far
  altered,  \* positions of rows altered in place and not rehashed since
  lost      \* entry hashes that a rehash of history replaced

chainVars  == <<log, writer, tx>>
anchorVars == <<anchors, lock, run, crashes>>
vars == <<log, writer, tx, anchors, lock, run, crashes, edits, altered, lost>>

Null   == <<>>
Bodies == {"written", "altered"}
Hashes == Seq(Events \X Bodies)
Rows   == [id : Events, body : Bodies, prev : Hashes, entry : Hashes]
Logs   == Seq(Rows)
Txs    == {t \in [op : {"idle", "reading", "writing"}, view : Logs] :
             t.op = "idle" => t.view = Null}

Links   == Seq([rows : Nat, head : Hashes, clock : Nat, by : Mergers])
Anchors == [rows : Nat, head : Hashes, clock : Nat, by : Mergers, prev : Links, hash : Links]
Section == {"tail", "chain", "link", "append", "verify", "release"}
Steps   == {"idle", "open", "busy", "steal", "done", "down"} \cup Section
Runs    == [op : Steps, clock : Nat, rows : Nat, head : Hashes, prev : Links,
            verdict : {"none", "ok", "failed"}]
Locks   == {l \in [by : Mergers \cup {Nobody}, stale : BOOLEAN] :
              l.by = Nobody => ~l.stale}

NoTx   == [op |-> "idle", view |-> Null]
NoRun  == [op |-> "idle", clock |-> 0, rows |-> 0, head |-> Null, prev |-> Null,
           verdict |-> "none"]
NoLock == [by |-> Nobody, stale |-> FALSE]

-----------------------------------------------------------------------------
(* The chain and its verifier.                                             *)

\* Mutant: prev_entry_hash dropped from the canonical body.
HashUnlinked(id, body, prev) == << <<id, body>> >>

\* computeEntryHash over the canonical body, prev_entry_hash included.
Hash(id, body, prev) == Append(prev, <<id, body>>)

\* stmtLastHash: the entry hash of the row with the greatest seq.
Tip(s) == IF s = Null THEN Null ELSE s[Len(s)].entry

\* A new row, linked to the tip it was given.
Row(e, tip) == [id |-> e, body |-> "written", prev |-> tip, entry |-> Hash(e, "written", tip)]

Ids(s) == {s[i].id : i \in 1..Len(s)}

EntryMatches(r) == r.entry = Hash(r.id, r.body, r.prev)

\* Mutant: the walk re-anchors on the recomputed hash of a broken row.
ExpectedRecomputed(s, i) ==
  IF i = 1 THEN Null ELSE Hash(s[i - 1].id, s[i - 1].body, s[i - 1].prev)

\* verifyAuditChain's expectedPrev at row i: it re-anchors on whatever hash the
\* row before stored, broken or not.
Expected(s, i) == IF i = 1 THEN Null ELSE s[i - 1].entry

\* The rows verifyAuditChain reports, and those it reports as mere forks.
ChainBreaks(s) == {i \in 1..Len(s) : ~(s[i].prev = Expected(s, i) /\ EntryMatches(s[i]))}
ChainForks(s) ==
  {i \in ChainBreaks(s) :
     /\ EntryMatches(s[i])
     /\ \E j \in 1..(i - 1) : EntryMatches(s[j]) /\ s[j].entry = s[i].prev}

-----------------------------------------------------------------------------
(* The anchor log and its verifier.                                        *)

\* computeSignedMergeAnchorHash over the canonical body, the link included.
AnchorHash(rows, head, clock, by, prev) ==
  Append(prev, [rows |-> rows, head |-> head, clock |-> clock, by |-> by])

\* The anchorHash of the last record of an anchor log.
LastHash(a) == IF a = Null THEN Null ELSE a[Len(a)].hash

ExpectedLink(a, k) == IF k = 1 THEN Null ELSE a[k - 1].hash

\* Mutant: the anchored position compared with >= instead of >.
HistoryBrokenEarly(s, a) ==
  \/ Len(s) <= a.rows
  \/ a.rows > 0 /\ a.rows <= Len(s) /\ s[a.rows].entry # a.head

\* HISTORY_TRUNCATED or HISTORY_REWRITTEN for anchor a over the chain s.
HistoryBroken(s, a) ==
  \/ Len(s) < a.rows
  \/ a.rows > 0 /\ a.rows <= Len(s) /\ s[a.rows].entry # a.head

\* verifySignedMergeAnchors: the records it reports, for a merge whose parents
\* the last record must name.
AnchorBreaks(s, a, by) ==
  {k \in 1..Len(a) :
     \/ a[k].hash # AnchorHash(a[k].rows, a[k].head, a[k].clock, a[k].by, a[k].prev)
     \/ a[k].prev # ExpectedLink(a, k)
     \/ HistoryBroken(s, a[k])
     \/ k = Len(a) /\ a[k].by # by}

-----------------------------------------------------------------------------

Init ==
  /\ log = Null
  /\ writer = Nobody
  /\ tx = [w \in Writers |-> NoTx]
  /\ anchors = Null
  /\ lock = NoLock
  /\ run = [m \in Mergers |-> NoRun]
  /\ crashes = 0
  /\ edits = 0
  /\ altered = {}
  /\ lost = {}

-----------------------------------------------------------------------------
(* Appending receipts.                                                     *)

SetTx(w, op, view) == tx' = [tx EXCEPT ![w] = [op |-> op, view |-> view]]

\* BEGIN IMMEDIATE: the lock, then the reads (AuditRepository.insert, promote,
\* the API's and the MCP server's transitions).
BeginImmediate(w) ==
  /\ tx[w].op = "idle"
  /\ writer = Nobody
  /\ writer' = w
  /\ SetTx(w, "writing", log)
  /\ UNCHANGED <<log, anchorVars, edits, altered, lost>>

\* A deferred BEGIN (batch-transition's db.transaction): a read snapshot.
BeginDeferred(w) ==
  /\ tx[w].op = "idle"
  /\ SetTx(w, "reading", log)
  /\ UNCHANGED <<log, writer, anchorVars, edits, altered, lost>>

\* Mutant: a snapshot that is no longer current is written on all the same.
UpgradeStale(w) ==
  /\ tx[w].op = "reading"
  /\ writer = Nobody
  /\ writer' = w
  /\ SetTx(w, "writing", tx[w].view)
  /\ UNCHANGED <<log, anchorVars, edits, altered, lost>>

\* Its first write takes the lock; on a snapshot that is no longer current
\* SQLite answers BUSY_SNAPSHOT and the transaction is rolled back.
Upgrade(w) ==
  /\ tx[w].op = "reading"
  /\ writer = Nobody
  /\ IF tx[w].view = log
       THEN writer' = w /\ SetTx(w, "writing", log)
       ELSE SetTx(w, "idle", Null) /\ UNCHANGED writer
  /\ UNCHANGED <<log, anchorVars, edits, altered, lost>>

\* appendTxn inside the transaction.  An id already stored is a primary-key
\* conflict: a best-effort caller goes on without the row, any other is rolled
\* back.
AppendEvent(w, e) ==
  LET view == tx[w].view IN
  /\ tx[w].op = "writing"
  /\ e \notin Ids(view)
  /\ SetTx(w, "writing", Append(view, Row(e, Tip(view))))
  /\ UNCHANGED <<log, writer, anchorVars, edits, altered, lost>>

\* COMMIT: the rows become visible to everyone, all at once.
Commit(w) ==
  /\ tx[w].op = "writing"
  /\ log' = tx[w].view
  /\ writer' = Nobody
  /\ SetTx(w, "idle", Null)
  /\ UNCHANGED <<anchorVars, edits, altered, lost>>

\* An exception or a kill: nothing of the transaction stays.
Rollback(w) ==
  /\ tx[w].op # "idle"
  /\ writer' = IF writer = w THEN Nobody ELSE writer
  /\ SetTx(w, "idle", Null)
  /\ UNCHANGED <<log, anchorVars, edits, altered, lost>>

-----------------------------------------------------------------------------
(* Alterations of stored rows, behind the program's back.                  *)

\* One row's content is changed, its hashes are not.
EditRow(i) ==
  /\ edits < MaxEdits
  /\ writer = Nobody
  /\ i \in 1..Len(log)
  /\ log[i].body = "written"
  /\ log' = [log EXCEPT ![i].body = "altered"]
  /\ edits' = edits + 1
  /\ altered' = altered \cup {i}
  /\ UNCHANGED <<writer, tx, anchorVars, lost>>

\* What rows i to j say once row i is altered, and the hash row j then gets.
Retold(s, i, j) ==
  [k \in 1..(j + 1 - i) |-> <<s[i + k - 1].id, IF k = 1 THEN "altered" ELSE s[i + k - 1].body>>]
NewHash(s, i, j) == Expected(s, i) \o Retold(s, i, j)

\* Row j of that history, every hash from row i on recomputed.
NewRow(s, i, j) ==
  LET body == IF j = i THEN "altered" ELSE s[j].body IN
  [id |-> s[j].id, body |-> body, prev |-> NewHash(s, i, j - 1),
   entry |-> Hash(s[j].id, body, NewHash(s, i, j - 1))]

Rehashed(s, i) == [j \in 1..Len(s) |-> IF j < i THEN s[j] ELSE NewRow(s, i, j)]

\* History is rewritten from row i and rehashed forward (audit-anchor.ts: the
\* chain then "still verifies clean").
Rehash(i) ==
  /\ edits < MaxEdits
  /\ writer = Nobody
  /\ i \in 1..Len(log)
  /\ log[i].body = "written"
  /\ log' = Rehashed(log, i)
  /\ edits' = edits + 1
  /\ altered' = {j \in altered : j < i}
  /\ lost' = lost \cup {log[j].entry : j \in i..Len(log)}
  /\ UNCHANGED <<writer, tx, anchorVars>>

-----------------------------------------------------------------------------
(* merge-govern's anchor: lock, read, append, verify, unlock.              *)

GoOn(m, op) == run' = [run EXCEPT ![m].op = op]

\* merge-govern reaches its anchor.
Start(m) ==
  /\ run[m].op = "idle"
  /\ GoOn(m, "open")
  /\ UNCHANGED <<chainVars, anchors, lock, crashes, edits, altered, lost>>

\* openSync(lockPath, 'wx').
OpenLock(m) ==
  /\ run[m].op = "open"
  /\ IF lock = NoLock
       THEN lock' = [by |-> m, stale |-> FALSE] /\ GoOn(m, "tail")
       ELSE GoOn(m, "busy") /\ UNCHANGED lock
  /\ UNCHANGED <<chainVars, anchors, crashes, edits, altered, lost>>

\* Mutant: any lock is taken for an abandoned one.
StatAnyStale(m) ==
  /\ run[m].op = "busy"
  /\ GoOn(m, IF lock = NoLock THEN "open" ELSE "steal")
  /\ UNCHANGED <<chainVars, anchors, lock, crashes, edits, altered, lost>>

\* statSync(lockPath): gone, abandoned, or held; then wait, or time out.
StatLock(m) ==
  /\ run[m].op = "busy"
  /\ \/ lock.stale /\ GoOn(m, "steal")
     \/ ~lock.stale /\ GoOn(m, "open")
     \/ ~lock.stale /\ lock # NoLock /\ GoOn(m, "done")
  /\ UNCHANGED <<chainVars, anchors, lock, crashes, edits, altered, lost>>

\* unlinkSync(lockPath) of a lock that was seen stale: whatever lock is there.
StealLock(m) ==
  /\ run[m].op = "steal"
  /\ lock' = NoLock
  /\ GoOn(m, "open")
  /\ UNCHANGED <<chainVars, anchors, crashes, edits, altered, lost>>

\* A lock grows older than 60 s only if its creator no longer works under it
\* (cli.ts, "Stale-steal soundness bound").
AgeLock ==
  /\ lock # NoLock
  /\ run[lock.by].op \notin Section
  /\ lock' = [lock EXCEPT !.stale = TRUE]
  /\ UNCHANGED <<chainVars, anchors, run, crashes, edits, altered, lost>>

\* The Lamport clock: the last record's plus one.
ReadTail(m) ==
  /\ run[m].op = "tail"
  /\ run' = [run EXCEPT ![m].op = "chain",
               ![m].clock = IF anchors = Null THEN 1 ELSE anchors[Len(anchors)].clock + 1]
  /\ UNCHANGED <<chainVars, anchors, lock, crashes, edits, altered, lost>>

\* appendSignedMergeAnchor reads the chain...
ReadChain(m) ==
  /\ run[m].op = "chain"
  /\ run' = [run EXCEPT ![m].op = "link", ![m].rows = Len(log), ![m].head = Tip(log)]
  /\ UNCHANGED <<chainVars, anchors, lock, crashes, edits, altered, lost>>

\* ... then the record it links to...
ReadLink(m) ==
  /\ run[m].op = "link"
  /\ run' = [run EXCEPT ![m].op = "append", ![m].prev = LastHash(anchors)]
  /\ UNCHANGED <<chainVars, anchors, lock, crashes, edits, altered, lost>>

\* ... and appends its own.
AppendAnchor(m) ==
  LET r == run[m] IN
  /\ r.op = "append"
  /\ anchors' = Append(anchors, [rows |-> r.rows, head |-> r.head, clock |-> r.clock, by |-> m,
                                 prev |-> r.prev,
                                 hash |-> AnchorHash(r.rows, r.head, r.clock, m, r.prev)])
  /\ GoOn(m, "verify")
  /\ UNCHANGED <<chainVars, lock, crashes, edits, altered, lost>>

\* verifySignedMergeAnchors, still under the lock.
VerifyAnchors(m) ==
  /\ run[m].op = "verify"
  /\ run' = [run EXCEPT ![m].op = "release",
               ![m].verdict = IF AnchorBreaks(log, anchors, m) = {} THEN "ok" ELSE "failed"]
  /\ UNCHANGED <<chainVars, anchors, lock, crashes, edits, altered, lost>>

\* releaseLock unlinks the path, whoever created the file.
ReleaseLock(m) ==
  /\ run[m].op = "release"
  /\ lock' = NoLock
  /\ GoOn(m, "done")
  /\ UNCHANGED <<chainVars, anchors, crashes, edits, altered, lost>>

\* A read, a signature or the append throws: the lock is released all the same.
Throw(m) ==
  /\ run[m].op \in Section \ {"release"}
  /\ GoOn(m, "release")
  /\ UNCHANGED <<chainVars, anchors, lock, crashes, edits, altered, lost>>

\* The invocation is killed; its lock file stays.
Crash(m) ==
  /\ crashes < MaxCrashes
  /\ run[m].op \notin {"idle", "done", "down"}
  /\ crashes' = crashes + 1
  /\ GoOn(m, "down")
  /\ UNCHANGED <<chainVars, anchors, lock, edits, altered, lost>>

-----------------------------------------------------------------------------

Next ==
  \/ \E w \in Writers : \/ BeginImmediate(w)
                        \/ BeginDeferred(w)
                        \/ Upgrade(w)
                        \/ Commit(w)
                        \/ Rollback(w)
                        \/ \E e \in Events : AppendEvent(w, e)
  \/ \E i \in 1..Len(log) : EditRow(i) \/ Rehash(i)
  \/ AgeLock
  \/ \E m \in Mergers : \/ Start(m)
                        \/ OpenLock(m)
                        \/ StatLock(m)
                        \/ StealLock(m)
                        \/ ReadTail(m)
                        \/ ReadChain(m)
                        \/ ReadLink(m)
                        \/ AppendAnchor(m)
                        \/ VerifyAnchors(m)
                        \/ ReleaseLock(m)
                        \/ Throw(m)
                        \/ Crash(m)

Spec == Init /\ [][Next]_vars

-----------------------------------------------------------------------------
(* Properties.                                                             *)

\* Every variable has its type.
TypeOK ==
  /\ log \in Logs
  /\ writer \in Writers \cup {Nobody}
  /\ tx \in [Writers -> Txs]
  /\ anchors \in Seq(Anchors)
  /\ lock \in Locks
  /\ run \in [Mergers -> Runs]
  /\ crashes \in Nat
  /\ edits \in Nat
  /\ altered \in SUBSET Nat
  /\ lost \in SUBSET Hashes

\* The verifier reports exactly the rows that were altered in place, none of
\* them as a fork: concurrent appends never fork the chain, however the
\* transactions interleave and roll back, and one altered row does not make the
\* rows after it look broken (audit-repository.ts, "the chain stays linear";
\* audit-verify.ts, "Re-anchor the chain on whatever this row stored").
BreaksExact == ChainBreaks(log) = altered /\ ChainForks(log) = {}

\* An anchor raises an alarm if and only if the history it witnessed has been
\* rewritten since: rehashing forward does not hide it, and appends and merges
\* in flight never raise a false one (audit-anchor.ts, HISTORY_REWRITTEN).
AlarmExact ==
  \A k \in 1..Len(anchors) : HistoryBroken(log, anchors[k]) <=> anchors[k].head \in lost

\* The anchor log is one chain: each record links to the one before, its clock
\* is the next one, and the snapshots go forward (cli.ts, acquireAnchorLock:
\* "concurrent invocations cannot mint duplicate clocks or fork the log").
AnchorsLinked ==
  \A k \in 1..Len(anchors) :
    /\ anchors[k].prev = ExpectedLink(anchors, k)
    /\ anchors[k].clock = k
    /\ k > 1 => anchors[k - 1].rows <= anchors[k].rows

\* A merge is told that its anchor does not verify only when history has been
\* rewritten, never because another merge or a writer ran beside it.
VerdictsTrue == \A m \in Mergers : run[m].verdict = "failed" => lost # {}

\* The interleaved transactions and the merges beside them implement the ledger:
\* rows enter a transaction at a time, after all that were committed before, no
\* update is lost to a stale snapshot, no id is stored twice, rewriting history
\* and rehashing it changes what one row says, and an anchor names a length the
\* chain has reached (audit-chain.ts, "structurally append-only").
Receipts == INSTANCE Ledger
  WITH said   <- [i \in 1..Len(log) |-> <<log[i].id, log[i].body>>],
       sealed <- [k \in 1..Len(anchors) |-> anchors[k].rows]

ImplementsLedger == Receipts!LedgerSpec

=============================================================================
