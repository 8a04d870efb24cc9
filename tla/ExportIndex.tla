---------------------------- MODULE ExportIndex ----------------------------
(***************************************************************************)
(* From the store to the search index: the incremental exporter            *)
(* (apps/git-exporter), the refresh an API promotion asks for              *)
(* (index-refresher.ts), the export and index steps of the daemon's cycle  *)
(* (edge-daemon/cycle.ts) and the exporter an operator runs in reconcile   *)
(* mode, all processes of their own over one database and one tree.        *)
(*                                                                         *)
(* A run stamps its start, reads the memories changed since the cursor,    *)
(* writes, archives and removes files one at a time, moves the cursor to   *)
(* its start, has the tree indexed and marks the index as of its start.    *)
(* A memory counts as unindexed (the staleness gauge) when its promoted_at *)
(* is newer than that mark, and as fresh when it is equal.  The operator's *)
(* exporter keeps a cursor of its own ('demo-export') and neither indexes  *)
(* nor marks.                                                              *)
(*                                                                         *)
(* The content of a file is the revision of the memory it was written      *)
(* from.  Time is a counter; several things happen at one instant.         *)
(***************************************************************************)
EXTENDS Integers, FiniteSets

CONSTANTS
  Ids,         \* memories
  Dirs,        \* directories a memory can be filed in while active
  Archive,     \* the directory of the others
  Refreshers,  \* API processes that refresh after a promotion
  Daemons,     \* edge daemons
  Operators,   \* git-exporter processes in reconcile mode
  Faults,      \* faults that occur: "kill", "write", "swallow"
  MaxFaults,   \* bound: faults
  MaxBeside,   \* bound: runs beside the daemons' at one time
  MaxRev,      \* bound: revisions of one memory
  MaxClock     \* bound: the clock

AArchive == Archive \notin Dirs /\ Dirs # {}
ABounds  == MaxBeside \in Nat /\ MaxFaults \in Nat /\ MaxRev \in Nat /\ MaxClock \in Nat \ {0}
AKinds   == Refreshers \cap Operators = {} /\ Daemons \cap Operators = {}
            /\ Refreshers \cap Daemons = {}

ASSUME ExportAssumption == AArchive /\ ABounds /\ AKinds

Exporters == Refreshers \cup Daemons \cup Operators
Places == Dirs \cup {Archive}
NoFile == 0
Never == -1

Memory == [rev: 0..MaxRev, active: BOOLEAN, dir: Dirs, open: BOOLEAN,
           promoted: 0..MaxClock, updated: 0..MaxClock]
Item == [id: Ids, rev: 0..MaxRev, active: BOOLEAN, dir: Dirs, open: BOOLEAN]
Run == [step: {"idle", "read", "scan", "write", "index", "mark"},
        started: 0..MaxClock, items: SUBSET Item, remove: SUBSET (Ids \X Places),
        behind: SUBSET Ids, quiet: BOOLEAN]

VARIABLES
  clock,
  mem,     \* curated_memories; revision 0: not there yet
  tree,    \* the export tree: the revision in each place of each memory
  index,   \* the tree as the search index last read it
  cursor,  \* export_state.last_exported_at of 'kb-export-default'
  mark,    \* index_state.last_indexed_at
  run,     \* what each exporter process is doing
  stray,   \* memories whose file a run left behind that no cursor will recall
  faults   \* faults so far

vars == <<clock, mem, tree, index, cursor, mark, run, stray, faults>>

Stored(m) == mem[m].rev > 0
Place(r) == IF r.active THEN r.dir ELSE Archive
AsItem(m) == [id |-> m, rev |-> mem[m].rev, active |-> mem[m].active,
              dir |-> mem[m].dir, open |-> mem[m].open]
Running(e) == run[e].step # "idle"

Idle == [step |-> "idle", started |-> 0, items |-> {}, remove |-> {},
         behind |-> {}, quiet |-> FALSE]
Stop(e) == [run EXCEPT ![e] = Idle]

Empty == [rev |-> 0, active |-> TRUE, dir |-> CHOOSE d \in Dirs : TRUE,
          open |-> TRUE, promoted |-> 0, updated |-> 0]

Init ==
  /\ clock = 1
  /\ mem = [m \in Ids |-> Empty]
  /\ tree = [m \in Ids |-> [p \in Places |-> NoFile]]
  /\ index = tree
  /\ cursor = Never
  /\ mark = Never
  /\ run = [e \in Exporters |-> Idle]
  /\ stray = {}
  /\ faults = 0

Tick ==
  /\ clock < MaxClock
  /\ clock' = clock + 1
  /\ UNCHANGED <<mem, tree, index, cursor, mark, run, stray, faults>>

----------------------------------------------------------------------------
(* The store.                                                              *)

\* No run in flight has seen the change: none of them is quiet any more.
Disturb == [e \in Exporters |-> [run[e] EXCEPT !.quiet = FALSE]]

\* promote() stamps promoted_at and updated_at with the time of the call.
Promote(m) ==
  /\ ~Stored(m)
  /\ MaxRev > 0
  /\ \E d \in Dirs, o \in BOOLEAN :
       mem' = [mem EXCEPT ![m] =
                 [rev |-> 1, active |-> TRUE, dir |-> d, open |-> o,
                  promoted |-> clock, updated |-> clock]]
  /\ run' = Disturb
  /\ UNCHANGED <<clock, tree, index, cursor, mark, stray, faults>>

\* A transition, a recategorisation or edit, or a narrowing or raised
\* sensitivity: each writes the row with updated_at of the moment.
Edits(row) ==
  {[row EXCEPT !.active = ~@], [row EXCEPT !.open = FALSE]}
  \cup {[row EXCEPT !.dir = d] : d \in Dirs}

Change(m) ==
  /\ Stored(m)
  /\ mem[m].rev < MaxRev
  /\ \E row \in Edits(mem[m]) :
       mem' = [mem EXCEPT ![m] = [row EXCEPT !.rev = @ + 1, !.updated = clock]]
  /\ run' = Disturb
  /\ UNCHANGED <<clock, tree, index, cursor, mark, stray, faults>>

----------------------------------------------------------------------------
(* A run of the exporter.                                                  *)

\* The watermark of the index and startedAt, before anything is read.  The
\* operator's start only becomes the cursor of its own target.
Begin(e) ==
  /\ ~Running(e)
  /\ e \in Daemons
     \/ Cardinality({f \in Exporters \ Daemons : Running(f)}) < MaxBeside
  /\ run' = [run EXCEPT ![e].step = "read",
                        ![e].started = IF e \in Operators THEN 0 ELSE clock]
  /\ UNCHANGED <<clock, mem, tree, index, cursor, mark, stray, faults>>

\* Mutant: a change at the very instant of the cursor is not read again.
ChangedAfter(m) == cursor = Never \/ mem[m].updated > cursor

\* detectChanges: the memories updated at the cursor or later; all of them on
\* the first run and in reconcile mode.
Changed(m) == cursor = Never \/ mem[m].updated >= cursor
ToExport(e) ==
  {AsItem(m) : m \in {n \in Ids : Stored(n) /\ (e \in Operators \/ Changed(n))}}

ReadChanges(e) ==
  /\ run[e].step = "read"
  /\ run' = [f \in Exporters |->
               IF f = e
               THEN [run[e] EXCEPT
                       !.step = IF e \in Operators THEN "scan" ELSE "write",
                       !.items = ToExport(e),
                       !.quiet = e \in Operators /\ \A g \in Exporters \ {e} : ~Running(g)]
               ELSE [run[f] EXCEPT !.quiet = FALSE]]
  /\ UNCHANGED <<clock, mem, tree, index, cursor, mark, stray, faults>>

\* Mutant: the file of a memory that became restricted is kept.
StaleFilesKept(items) ==
  {<<r.id, p>> : r \in items, p \in Places} \ {<<r.id, Place(r)>> : r \in items}

\* findStaleFiles: the files found where their memory, as it was read, does
\* not belong.  Restricted memories belong nowhere.
StaleFiles(items) ==
  {<<r.id, p>> : r \in items, p \in Places} \
  {<<r.id, Place(r)>> : r \in {s \in items : s.open}}

Scan(e) ==
  /\ run[e].step = "scan"
  /\ run' = [run EXCEPT
       ![e].step = "write",
       ![e].remove = {f \in StaleFiles(run[e].items) : tree[f[1]][f[2]] # NoFile}]
  /\ UNCHANGED <<clock, mem, tree, index, cursor, mark, stray, faults>>

\* writeFile and archiveFile; a restricted memory is skipped, its file left.
Written(r) ==
  IF ~r.open THEN tree
  ELSE IF r.active THEN [tree EXCEPT ![r.id][r.dir] = r.rev]
  ELSE [tree EXCEPT ![r.id][r.dir] = NoFile, ![r.id][Archive] = r.rev]

\* The memory has changed since the run read it.
Outdated(r) == r # AsItem(r.id)

WriteItem(e) ==
  /\ run[e].step = "write"
  /\ \E r \in run[e].items :
       /\ tree' = Written(r)
       /\ run' = [run EXCEPT ![e].items = @ \ {r},
                             ![e].behind = IF Outdated(r) THEN @ \cup {r.id} ELSE @]
  /\ UNCHANGED <<clock, mem, index, cursor, mark, stray, faults>>

RemoveFile(e) ==
  /\ run[e].step = "write"
  /\ run[e].items = {}
  /\ \E f \in run[e].remove :
       /\ tree' = [tree EXCEPT ![f[1]][f[2]] = NoFile]
       /\ run' = [run EXCEPT ![e].remove = @ \ {f},
                             ![e].behind = IF run[e].quiet THEN @ ELSE @ \cup {f[1]}]
  /\ UNCHANGED <<clock, mem, index, cursor, mark, stray, faults>>

Exported(e) ==
  run[e].step = "write" /\ run[e].items = {} /\ run[e].remove = {}

\* Mutant: the cursor is the time of the end of the run.
SetCursorEnd(e) ==
  /\ e \notin Operators
  /\ Exported(e)
  /\ cursor' = clock
  /\ run' = [run EXCEPT ![e].step = "index", ![e].behind = {}]
  /\ stray' = IF \E g \in (Exporters \ Operators) \ {e} : Running(g)
              THEN stray \cup run[e].behind ELSE stray
  /\ UNCHANGED <<clock, mem, tree, index, mark, faults>>

\* Mutant: the cursor is the instant after the start of the run.
SetCursorNext(e) ==
  /\ e \notin Operators
  /\ Exported(e)
  /\ cursor' = run[e].started + 1
  /\ run' = [run EXCEPT ![e].step = "index", ![e].behind = {}]
  /\ stray' = IF \E g \in (Exporters \ Operators) \ {e} : Running(g)
              THEN stray \cup run[e].behind ELSE stray
  /\ UNCHANGED <<clock, mem, tree, index, mark, faults>>

\* exportStateRepo.set(targetId, startedAt).  What this run wrote from rows
\* that have changed since is read again from there; unless a run that has
\* overtaken it moves the cursor on.
SetCursor(e) ==
  /\ e \notin Operators
  /\ Exported(e)
  /\ cursor' = run[e].started
  /\ run' = [run EXCEPT ![e].step = "index", ![e].behind = {}]
  /\ stray' = IF \E g \in (Exporters \ Operators) \ {e} : Running(g)
              THEN stray \cup run[e].behind ELSE stray
  /\ UNCHANGED <<clock, mem, tree, index, mark, faults>>

\* The operator's cursor is another target's, which no incremental run reads.
EndReconcile(e) ==
  /\ e \in Operators
  /\ Exported(e)
  /\ run' = Stop(e)
  /\ stray' = stray \cup run[e].behind
  /\ UNCHANGED <<clock, mem, tree, index, cursor, mark, faults>>

\* A copy of the tree has the memory as the store has it, where it belongs.
Shows(copy, m) == copy[m][Place(mem[m])] = mem[m].rev

\* reindex, or ensureCollections and update: the index reads the tree.
UpdateIndex(e) ==
  /\ run[e].step = "index"
  /\ index' = tree
  /\ run' = [run EXCEPT ![e].step = "mark"]
  /\ stray' = {m \in stray : ~Shows(tree, m)}
  /\ UNCHANGED <<clock, mem, tree, cursor, mark, faults>>

\* Mutant: the mark is the time of the end of the run.
MarkIndexedEnd(e) ==
  /\ run[e].step = "mark"
  /\ mark' = clock
  /\ run' = Stop(e)
  /\ UNCHANGED <<clock, mem, tree, index, cursor, stray, faults>>

\* markIndexed(tenantId, indexedAt)
MarkIndexed(e) ==
  /\ run[e].step = "mark"
  /\ mark' = run[e].started
  /\ run' = Stop(e)
  /\ UNCHANGED <<clock, mem, tree, index, cursor, stray, faults>>

----------------------------------------------------------------------------
(* Faults.                                                                 *)

Fault(kind) ==
  /\ kind \in Faults
  /\ faults < MaxFaults
  /\ faults' = faults + 1

\* The process dies; or outside the daemon's export step the store, a removal
\* or the index update throws and the run ends.
Kill(e) ==
  /\ Fault("kill")
  /\ Running(e)
  /\ run' = Stop(e)
  /\ stray' = stray \cup run[e].behind
  /\ UNCHANGED <<clock, mem, tree, index, cursor, mark>>

\* A file cannot be written: its memory is set aside and the run goes on.
WriteFails(e) ==
  /\ Fault("write")
  /\ run[e].step = "write"
  /\ \E r \in run[e].items :
       /\ run' = [run EXCEPT ![e].items = @ \ {r}, ![e].quiet = FALSE]
       /\ stray' = stray \cup {r.id}
  /\ UNCHANGED <<clock, mem, tree, index, cursor, mark>>

\* The daemon logs a failed export and goes on to the index update.  What the
\* run left undone is in doubt until a later run has it indexed.
ExportSwallowed(e) ==
  /\ Fault("swallow")
  /\ e \in Daemons
  /\ run[e].step \in {"read", "write"}
  /\ run' = [run EXCEPT ![e].step = "index", ![e].items = {}, ![e].behind = {}]
  /\ stray' = stray \cup run[e].behind
                   \cup {m \in Ids : Stored(m) /\ ~Shows(tree, m)}
  /\ UNCHANGED <<clock, mem, tree, index, cursor, mark>>

Advance(e) ==
  \/ ReadChanges(e) \/ Scan(e) \/ WriteItem(e) \/ RemoveFile(e)
  \/ SetCursor(e) \/ EndReconcile(e) \/ UpdateIndex(e) \/ MarkIndexed(e)

Next ==
  \/ Tick
  \/ \E m \in Ids : Promote(m) \/ Change(m)
  \/ \E e \in Exporters :
       \/ Begin(e) \/ Advance(e)
       \/ Kill(e) \/ WriteFails(e) \/ ExportSwallowed(e)

\* The daemon begins a cycle at every interval and its cycles go on.  Nothing
\* is assumed of the other processes.
Fairness == \A d \in Daemons : WF_vars(Begin(d) \/ Advance(d))

Spec == Init /\ [][Next]_vars /\ Fairness

----------------------------------------------------------------------------
(* Properties.                                                             *)

TypeOK ==
  /\ clock \in 0..MaxClock
  /\ mem \in [Ids -> Memory]
  /\ tree \in [Ids -> [Places -> 0..MaxRev]]
  /\ index \in [Ids -> [Places -> 0..MaxRev]]
  /\ cursor \in {Never} \cup 0..MaxClock
  /\ mark \in {Never} \cup 0..MaxClock
  /\ run \in [Exporters -> Run]
  /\ stray \subseteq Ids
  /\ faults \in 0..MaxFaults

\* Runs that wrote the file of this memory from a row that has changed since,
\* or removed it: a run in flight, or one that ended so that no cursor recalls
\* the memory.
Doubtful(m) == m \in stray \/ \E e \in Exporters : m \in run[e].behind

\* The cursor passes no change that is not on disk (exporter.ts 44-46): an
\* exportable memory older than the cursor is in its file, unless a run in
\* flight may have overwritten it or a failed one left it behind.
CursorSound ==
  \A m \in Ids :
    /\ Stored(m) /\ mem[m].open /\ mem[m].updated < cursor
    /\ ~Doubtful(m)
    => Shows(tree, m)

\* What the gauge counts as fresh: promoted at or before the mark.
Indexed(m) == \E p \in Places : index[m][p] # NoFile
Fresh(m) == Stored(m) /\ mem[m].open /\ mem[m].promoted <= mark

\* Promoted at the very instant of the mark: before or after its run has read.
Tied(m) == mem[m].promoted = mark

\* How far the mark over-claims freshness, which index-refresher.ts 83-85 and
\* cycle.ts 318-320 rule out: but for memories that a fault or a stale run left
\* in doubt, a fresh memory that is not in the index was promoted at the instant
\* of the mark, and the next run reads it again or has it on disk already.
FreshIsIndexed ==
  \A m \in Ids : Fresh(m) /\ ~Doubtful(m) /\ ~Indexed(m) =>
    Tied(m) /\ (Changed(m) \/ Shows(tree, m))

\* Only the full success of a chain moves the mark (cycle.ts 350-353): a memory
\* that was promoted before a mark is in the index, without any other exception.
GaugeHonest == \A m \in Ids : Fresh(m) /\ ~Tied(m) => Indexed(m)

\* A reconcile run that nothing disturbs leaves the tree exactly as the store
\* wants it, whatever state earlier runs left it in (exporter.ts 19-25).
TreeExact ==
  \A m \in Ids : \A p \in Places :
    tree[m][p] = IF Stored(m) /\ mem[m].open /\ p = Place(mem[m])
                 THEN mem[m].rev ELSE NoFile

ReconcileRepairs ==
  \A e \in Operators : Exported(e) /\ run[e].quiet => TreeExact

\* Once nothing changes any more, the index comes to show every exportable
\* memory as it is, whatever runs overlapped, except those in doubt: where a run
\* is still at work on an outdated row, and where one could not write the file,
\* died or was overtaken, so that the cursor has passed the memory for good.
EventuallyIndexed ==
  <>[](\A m \in Ids :
         Stored(m) /\ mem[m].open /\ ~Doubtful(m) => Shows(index, m))
=============================================================================
