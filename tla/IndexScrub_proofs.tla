-------------------------- MODULE IndexScrub_proofs --------------------------
(***************************************************************************)
(* For any paths, processes, exports and faults: what the files of a store *)
(* or of an index hold after a scrub was reported complete, and that rows  *)
(* of a named memory stay away.                                            *)
(***************************************************************************)
EXTENDS IndexScrub, TLAPS

----------------------------------------------------------------------------
(* Types.                                                                  *)

LEMMA InitTypes == Init => TypeOK
<1>. SUFFICES ASSUME Init PROVE TypeOK
  OBVIOUS
<1>1. Wanted \in [Paths -> Texts \cup {None}]
  BY DEF Init, Wanted, Texts
<1>2. NoTask \in Task
  BY DEF NoTask, Task, Blank, Nothing
<1>3. NoRun \in Run
  BY DEF NoRun, Run, Nothing, Statements
<1>4. mtime \in [Paths -> 0 .. clock] /\ clock \in Nat \ {0}
  BY DEF Init
<1>5. residue \subseteq Residues /\ rows \in [Paths -> SUBSET Texts]
  BY DEF Init, Residues
<1>6. known \in [Paths -> Nat] /\ faults \in 0 .. MaxFaults
  BY ScrubAssumption DEF Init, Blank
<1>7. exported \in [Paths -> Texts \cup {None}] /\ text \in Texts /\ place \in Paths
  BY <1>1 DEF Init, Texts
<1>8. task \in [Processes -> Task] /\ run \in Run
  BY <1>2, <1>3 DEF Init
<1>. QED
  BY <1>4, <1>5, <1>6, <1>7, <1>8 DEF Init, TypeOK

\* What the residue becomes.
LEMMA ResidueTypes ==
  ASSUME TypeOK, NEW removed, NEW added
  PROVE  /\ Written(removed, added) \subseteq Residues
         /\ Rebuilt(removed) \subseteq Residues
         /\ Vacuumed \subseteq Residues
         /\ Truncated \subseteq Residues
  BY DEF TypeOK, Written, Rebuilt, Vacuumed, Truncated, Residues

\* The store, the tree and the tasks.
LEMMA StoreTypes ==
  ASSUME TypeOK, ArchiveMemory \/ Export
  PROVE  TypeOK'
<1>1. CASE ArchiveMemory
  BY <1>1, ScrubAssumption DEF TypeOK, ArchiveMemory, tree, index
<1>2. CASE Export
  <2>1. Wanted \in [Paths -> Texts \cup {None}]
    BY DEF TypeOK, Wanted
  <2>2. mtime' \in [Paths -> 0 .. clock'] /\ clock' \in Nat \ {0}
    BY <1>2 DEF TypeOK, Export
  <2>. QED
    BY <1>2, <2>1, <2>2 DEF TypeOK, Export, memory, index
<1>. QED
  BY <1>1, <1>2

LEMMA WriteTypes ==
  ASSUME TypeOK, NEW w \in Processes, task' \in [Processes -> Task],
         NEW paths, NEW kept \in [Paths -> SUBSET Texts], Write(w, paths, kept)
  PROVE  TypeOK'
<1>1. \A p \in Paths : task[w].got[p] \in Texts \cup {None}
  BY DEF TypeOK, Task
<1>2. \A p \in Paths : {task[w].got[p]} \ {None} \subseteq Texts
  BY <1>1
<1>3. rows' \in [Paths -> SUBSET Texts]
  BY <1>2 DEF TypeOK, Write
<1>4. residue' \subseteq Residues
  BY ResidueTypes DEF Write
<1>. QED
  BY <1>3, <1>4 DEF TypeOK, Write, memory, tree

LEMMA TaskTypes ==
  ASSUME TypeOK, NEW w \in Processes,
         RefreshStat(w) \/ DenseRead(w) \/ TaskStep(w) \/ TaskEnds(w)
  PROVE  TypeOK'
<1>1. NoTask \in Task /\ task[w] \in Task
  BY DEF TypeOK, NoTask, Task, Blank, Nothing
<1>2. mtime \in [Paths -> Nat]
  BY DEF TypeOK
<1>3. CASE RefreshStat(w)
  <2>1. [NoTask EXCEPT !.pc = "select", !.disk = mtime] \in Task
    BY <1>1, <1>2 DEF Task
  <2>. QED
    BY <1>3, <2>1 DEF TypeOK, RefreshStat, memory, tree, index
<1>4. CASE RefreshSelect(w)
  <2>1. [task[w] EXCEPT !.pc = "read", !.known = known] \in Task
    BY <1>1 DEF Task, TypeOK
  <2>. QED
    BY <1>4, <2>1 DEF TypeOK, RefreshSelect, memory, tree, index
<1>5. CASE RefreshRead(w)
  <2>. DEFINE got == [p \in Paths |-> IF Changed(w, p) THEN exported[p] ELSE None]
              read == [task[w] EXCEPT !.pc = "insert", !.got = got]
  <2>1. got \in [Paths -> Texts \cup {None}]
    BY DEF TypeOK
  <2>2. read \in Task
    BY <1>1, <2>1 DEF Task
  <2>3. task' = [task EXCEPT ![w] = read] \/ task' = [task EXCEPT ![w] = NoTask]
    BY <1>5 DEF RefreshRead
  <2>. HIDE DEF read
  <2>4. task' \in [Processes -> Task]
    BY <1>1, <2>2, <2>3 DEF TypeOK
  <2>. QED
    BY <1>5, <2>4 DEF TypeOK, RefreshRead, memory, tree, index
<1>6. CASE RefreshInsert(w) \/ RefreshReplace(w) \/ RefreshRemove(w)
  <2>1. /\ [task[w] EXCEPT !.pc = "replace"] \in Task
        /\ [task[w] EXCEPT !.pc = "remove"] \in Task
        /\ [task[w] EXCEPT !.pc = "files"] \in Task
    BY <1>1 DEF Task
  <2>2. task' \in [Processes -> Task]
    BY <1>6, <2>1 DEF TypeOK, RefreshInsert, RefreshReplace, RefreshRemove
  <2>3. rows \in [Paths -> SUBSET Texts] /\ [p \in Paths |-> {}] \in [Paths -> SUBSET Texts]
    BY DEF TypeOK
  <2>4. PICK paths \in SUBSET Paths, kept \in [Paths -> SUBSET Texts] :
            Write(w, paths, kept)
    BY <1>6, <2>3 DEF RefreshInsert, RefreshReplace, RefreshRemove
  <2>. QED
    BY <2>2, <2>4, WriteTypes
<1>7. CASE RefreshFiles(w)
  <2>1. known' \in [Paths -> Nat]
    BY <1>1, <1>7 DEF TypeOK, RefreshFiles, Task
  <2>. QED
    BY <1>1, <1>7, <2>1 DEF TypeOK, RefreshFiles, memory, tree
<1>8. CASE DenseRead(w)
  <2>. DEFINE got == [p \in Paths |-> IF rows[p] # {exported[p]} THEN exported[p]
                                      ELSE None]
  <2>1. got \in [Paths -> Texts \cup {None}]
    BY DEF TypeOK
  <2>2. [NoTask EXCEPT !.pc = "embed", !.got = got] \in Task
    BY <1>1, <2>1 DEF Task
  <2>3. rows' \in [Paths -> SUBSET Texts] /\ residue' \subseteq Residues
    BY <1>8, ResidueTypes DEF TypeOK, DenseRead
  <2>. QED
    BY <1>8, <2>2, <2>3 DEF TypeOK, DenseRead, memory, tree
<1>9. CASE DenseUpsert(w)
  <2>1. task' \in [Processes -> Task]
    BY <1>1, <1>9 DEF TypeOK, DenseUpsert
  <2>2. [p \in Paths |-> {}] \in [Paths -> SUBSET Texts]
    OBVIOUS
  <2>. QED
    BY <1>9, <2>1, <2>2, WriteTypes DEF DenseUpsert
<1>10. CASE TaskEnds(w)
  BY <1>1, <1>10 DEF TypeOK, TaskEnds, memory, tree, index
<1>. QED
  BY <1>3, <1>4, <1>5, <1>6, <1>7, <1>8, <1>9, <1>10 DEF TaskStep

LEMMA QmdTypes == ASSUME TypeOK, QmdUpdate PROVE TypeOK'
<1>1. rows' \in [Paths -> SUBSET Texts]
  BY DEF TypeOK, QmdUpdate
<1>2. residue' \subseteq Residues
  BY ResidueTypes DEF QmdUpdate, Residues
<1>. QED
  BY <1>1, <1>2 DEF TypeOK, QmdUpdate, memory, tree

\* Where a run goes on after a statement.
LEMMA StepTypes ==
  ASSUME NEW step \in Statements
  PROVE  /\ After(step) \in Statements \cup {"idle", "load", "scan"}
         /\ AfterBlocked(step) \in Statements \cup {"idle", "load", "scan"}
  BY DEF After, AfterBlocked, Statements

LEMMA RunTypes ==
  ASSUME TypeOK,
         Redact \/ (\E present \in BOOLEAN : Confirm(present)) \/ RunStep \/ Blocked \/ Kill
  PROVE  TypeOK'
<1>1. NoRun \in Run /\ run \in Run
  BY DEF TypeOK, NoRun, Run, Nothing, Statements
<1>2. CASE Redact
  <2>1. run' \in Run
    BY <1>1, <1>2 DEF Redact, Run, Statements
  <2>2. residue' \subseteq Residues
    BY <1>2 DEF Redact, TypeOK, Residues
  <2>. QED
    BY <1>2, <2>1, <2>2 DEF TypeOK, Redact, tree, Texts
<1>3. CASE \E present \in BOOLEAN : Confirm(present)
  <2>1. run' \in Run
    BY <1>1, <1>3 DEF Confirm, Run
  <2>. QED
    BY <1>3, <2>1 DEF TypeOK, Confirm, memory, tree, index
<1>4. CASE LoadTruth
  <2>1. Cut \in BOOLEAN
    BY DEF Cut
  <2>2. (IF run.present THEN exported ELSE Nothing) \in [Paths -> Texts \cup {None}]
    BY DEF TypeOK, Nothing
  <2>3. run' \in Run
    BY <1>1, <1>4, <2>1, <2>2 DEF LoadTruth, Run, Statements
  <2>. QED
    BY <1>4, <2>3 DEF TypeOK, LoadTruth, memory, tree, index
<1>5. CASE ScrubStore \/ ScrubIndex
  <2>1. Kept \in [Paths -> SUBSET Texts] /\ FilesKept \in [Paths -> Nat]
    BY DEF TypeOK, Kept, FilesKept
  <2>2. run' \in Run
    BY <1>1, <1>5 DEF ScrubStore, ScrubIndex, Run, Statements
  <2>3. residue' \subseteq Residues
    BY <1>5, ResidueTypes DEF ScrubStore, ScrubIndex
  <2>4. withheld' \in BOOLEAN
    BY <1>5 DEF ScrubStore, ScrubIndex, TypeOK
  <2>. QED
    BY <1>5, <2>1, <2>2, <2>3, <2>4 DEF TypeOK, ScrubStore, ScrubIndex, memory, tree
<1>6. CASE Truncate \/ Vacuum
  <2>1. run' \in Run
    BY <1>1, <1>6, StepTypes DEF Truncate, Vacuum, Run, Statements
  <2>2. residue' \subseteq Residues
    BY <1>6, ResidueTypes DEF Truncate, Vacuum
  <2>. QED
    BY <1>6, <2>1, <2>2 DEF TypeOK, Truncate, Vacuum, memory, tree
<1>7. CASE \E explained \in BOOLEAN : Report(explained)
  <2>1. reported' \in BOOLEAN
    BY <1>7 DEF Report, TypeOK
  <2>. QED
    BY <1>1, <1>7, <2>1 DEF TypeOK, Report, memory, tree, index
<1>8. CASE Blocked
  <2>1. run' \in Run
    BY <1>1, <1>8, StepTypes DEF Blocked, Run, Statements
  <2>. QED
    BY <1>8, <2>1, ScrubAssumption DEF TypeOK, Blocked, memory, tree, index
<1>9. CASE Kill
  BY <1>1, <1>9, ScrubAssumption DEF TypeOK, Kill, memory, tree, index
<1>. QED
  BY <1>2, <1>3, <1>4, <1>5, <1>6, <1>7, <1>8, <1>9 DEF RunStep

\* Every variable keeps its type, for any paths, processes and faults.
THEOREM Typing == Spec => []TypeOK
<1>1. TypeOK /\ [Next]_vars => TypeOK'
  <2>. SUFFICES ASSUME TypeOK, [Next]_vars PROVE TypeOK'
    OBVIOUS
  <2>1. CASE UNCHANGED vars
    BY <2>1 DEF vars, memory, tree, index, TypeOK
  <2>. QED
    BY <2>1, StoreTypes, QmdTypes, TaskTypes, RunTypes DEF Next
<1>. QED
  BY <1>1, InitTypes, PTL DEF Spec

----------------------------------------------------------------------------
(* What a scrub leaves.                                                    *)

\* No process is writing the store's text anywhere, and the dense sidecar has
\* no FTS5 segments.
Idle ==
  /\ file = "store" => ~HasOld /\ \A w \in Processes : task[w].pc = "idle"
  /\ file = "dense" => "fts" \notin residue
  /\ run.step # "idle" \/ reported => text = "new"
  /\ file = "store" => ~run.cut /\ run.step # "load"
  /\ run.step \in {"idle", "load"} => ~run.cut

\* Where the old text was cut off, it stays so.
CutOff ==
  /\ file # "store" /\ (run.cut \/ reported) => Cut
  /\ run.cut => \A p \in Paths : run.seen[p] # "old"

\* A run that will count once reported complete, if nothing fails any more.
Counts ==
  run.ok /\ (file = "store" \/ (run.cut /\ (run.present \/ run.drop)))

Left(remains) == ~HasOld /\ residue \subseteq remains

\* Each statement of such a run leaves less of the old text behind.
Leaves ==
  /\ Counts /\ run.step = "log" => Left({"free", "log"})
  /\ Counts /\ run.step = "vacuum" => Left({"free"})
  /\ Counts /\ run.step = "relog" => Left({"log"})
  /\ (Counts /\ run.step = "scan") \/ reported => Left({})

ScrubInv == TypeOK /\ Idle /\ CutOff /\ Leaves

LEMMA InitScrub == Init => ScrubInv
  BY InitTypes
  DEF ScrubInv, Init, Idle, CutOff, Leaves, HasOld, NoTask, NoRun

\* A write that moves no old text changes nothing in the residue.
LEMMA CleanWrite ==
  ASSUME NEW removed, NEW added, "old" \notin removed, "old" \notin added
  PROVE  Written(removed, added) = residue
  BY DEF Written

LEMMA ExportScrub ==
  ASSUME ScrubInv, ArchiveMemory \/ Export
  PROVE  ScrubInv'
<1>1. TypeOK'
  BY StoreTypes DEF ScrubInv
<1>2. /\ run' = run /\ reported' = reported /\ residue' = residue /\ file' = file
      /\ text' = text /\ HasOld' = HasOld /\ task' = task
  BY DEF ArchiveMemory, Export, index, memory, HasOld
<1>3. ASSUME Cut PROVE Cut'
  <2>1. \A p \in Paths : exported'[p] # "old"
    BY <1>3, ScrubAssumption DEF ArchiveMemory, Export, tree, Wanted, Cut, Texts
  <2>. QED
    BY <1>2, <1>3, <2>1 DEF Cut
<1>. QED
  BY <1>1, <1>2, <1>3 DEF ScrubInv, Idle, CutOff, Leaves, Left, Counts

\* What a write takes from.
LEMMA WriteReads ==
  ASSUME TypeOK, NEW w \in Processes, NEW paths \in SUBSET Paths, NEW kept,
         \A p \in Paths : kept[p] \subseteq rows[p], Write(w, paths, kept)
  PROVE  /\ UNCHANGED <<memory, tree, run, reported, withheld>>
         /\ \A p \in Paths : rows'[p] \subseteq rows[p] \cup {task[w].got[p]}
         /\ \E removed \in SUBSET UNION {rows[p] : p \in Paths},
               added \in SUBSET {task[w].got[p] : p \in Paths} :
              residue' = Written(removed, added)
<1>. DEFINE removed == UNION {rows[p] \ kept[p] : p \in paths}
            added == {task[w].got[p] : p \in paths}
<1>1. removed \subseteq UNION {rows[p] : p \in Paths}
  OBVIOUS
<1>2. added \subseteq {task[w].got[p] : p \in Paths}
  OBVIOUS
<1>3. residue' = Written(removed, added)
  BY DEF Write
<1>4. \A p \in Paths : rows'[p] \subseteq rows[p] \cup {task[w].got[p]}
  BY DEF Write
<1>. HIDE DEF removed, added
<1>. QED
  BY <1>1, <1>2, <1>3, <1>4 DEF Write

\* What a task has in hand and puts in the rows comes from the export.
LEMMA TaskReads ==
  ASSUME TypeOK, NEW w \in Processes,
         RefreshStat(w) \/ DenseRead(w) \/ TaskStep(w) \/ TaskEnds(w)
  PROVE  /\ UNCHANGED <<memory, exported, mtime, run, reported, withheld>>
         /\ \A v \in Processes \ {w} : task'[v] = task[v]
         /\ \A p \in Paths : rows'[p] \subseteq rows[p] \cup {task[w].got[p]}
         /\ \A p \in Paths : task'[w].got[p] \in {task[w].got[p], exported[p], None}
         /\ task'[w].pc = "idle" => task'[w] = NoTask
         /\ \E removed \in SUBSET UNION {rows[p] : p \in Paths},
               added \in SUBSET {task[w].got[p] : p \in Paths} :
              residue' = Written(removed, added)
<1>1. task \in [Processes -> Task] /\ task[w] \in Task
  BY DEF TypeOK
<1>2. residue = Written({}, {})
  BY DEF Written
<1>3. NoTask.got = Nothing
  BY DEF NoTask
<1>4. CASE RefreshStat(w)
  <2>1. task' = [task EXCEPT ![w] = [NoTask EXCEPT !.pc = "select", !.disk = mtime]]
        /\ UNCHANGED <<memory, tree, rows, residue, run, reported, withheld>>
    BY <1>4 DEF RefreshStat, index
  <2>2. task'[w].got = Nothing /\ task'[w].pc = "select"
    BY <1>1, <2>1 DEF NoTask
  <2>. QED
    BY <1>1, <1>2, <2>1, <2>2 DEF memory, tree, Nothing
<1>5. CASE RefreshSelect(w)
  <2>1. task' = [task EXCEPT ![w] = [task[w] EXCEPT !.pc = "read", !.known = known]]
        /\ UNCHANGED <<memory, tree, rows, residue, run, reported, withheld>>
    BY <1>1, <1>5 DEF RefreshSelect, index
  <2>2. task'[w].got = task[w].got /\ task'[w].pc = "read"
    BY <1>1, <2>1 DEF Task
  <2>. QED
    BY <1>1, <1>2, <2>1, <2>2 DEF memory, tree
<1>6. CASE RefreshRead(w)
  <2>. DEFINE got == [p \in Paths |-> IF Changed(w, p) THEN exported[p] ELSE None]
              read == [task[w] EXCEPT !.pc = "insert", !.got = got]
  <2>1. read.got = got /\ read.pc = "insert"
    BY <1>1 DEF Task
  <2>2. /\ task' = [task EXCEPT ![w] = read] \/ task' = [task EXCEPT ![w] = NoTask]
        /\ UNCHANGED <<memory, tree, rows, residue, run, reported, withheld>>
    BY <1>6 DEF RefreshRead, index
  <2>. HIDE DEF read
  <2>3. (task'[w].got = got /\ task'[w].pc = "insert") \/ task'[w] = NoTask
    BY <1>1, <2>1, <2>2
  <2>4. \A p \in Paths : task'[w].got[p] \in {exported[p], None}
    BY <1>3, <2>3 DEF Nothing
  <2>. QED
    BY <1>1, <1>2, <2>2, <2>3, <2>4 DEF memory, tree
<1>7. CASE RefreshInsert(w) \/ RefreshReplace(w) \/ RefreshRemove(w)
  <2>1. PICK pc \in {"replace", "remove", "files"} :
          task' = [task EXCEPT ![w] = [task[w] EXCEPT !.pc = pc]]
    BY <1>1, <1>7 DEF RefreshInsert, RefreshReplace, RefreshRemove
  <2>2. task'[w].got = task[w].got /\ task'[w].pc = pc
    BY <1>1, <2>1 DEF Task
  <2>3. PICK paths \in SUBSET Paths, kept \in {rows, [p \in Paths |-> {}]} :
          Write(w, paths, kept)
    BY <1>7 DEF RefreshInsert, RefreshReplace, RefreshRemove
  <2>4. \A p \in Paths : kept[p] \subseteq rows[p]
    BY <2>3
  <2>. QED
    BY <1>1, <2>1, <2>2, <2>3, <2>4, WriteReads DEF tree
<1>8. CASE RefreshFiles(w) \/ TaskEnds(w)
  <2>1. /\ task' = [task EXCEPT ![w] = NoTask]
        /\ UNCHANGED <<memory, tree, rows, residue, run, reported, withheld>>
    BY <1>8 DEF RefreshFiles, TaskEnds, index
  <2>2. task'[w] = NoTask
    BY <1>1, <2>1
  <2>. QED
    BY <1>1, <1>2, <1>3, <2>1, <2>2 DEF memory, tree, Nothing
<1>9. CASE DenseRead(w)
  <2>. DEFINE absent == {p \in Paths : exported[p] = None}
              removed == UNION {rows[p] : p \in absent}
              got == [p \in Paths |-> IF rows[p] # {exported[p]} THEN exported[p] ELSE None]
              read == [NoTask EXCEPT !.pc = "embed", !.got = got]
  <2>1. read.got = got /\ read.pc = "embed"
    BY DEF NoTask
  <2>2. /\ task' = [task EXCEPT ![w] = read] /\ residue' = Written(removed, {})
        /\ UNCHANGED <<memory, tree, run, reported, withheld>>
    BY <1>9 DEF DenseRead
  <2>3. \A p \in Paths : rows'[p] \subseteq rows[p]
    BY <1>9 DEF DenseRead
  <2>4. removed \subseteq UNION {rows[p] : p \in Paths}
    OBVIOUS
  <2>. HIDE DEF read, removed
  <2>5. task'[w].got = got /\ task'[w].pc = "embed"
    BY <1>1, <2>1, <2>2
  <2>. QED
    BY <1>1, <2>2, <2>3, <2>4, <2>5 DEF memory, tree
<1>10. CASE DenseUpsert(w)
  <2>1. PICK paths \in SUBSET Paths, kept \in {[p \in Paths |-> {}]} :
          Write(w, paths, kept) /\ task' = [task EXCEPT ![w] = NoTask]
    BY <1>10 DEF DenseUpsert
  <2>2. task'[w] = NoTask
    BY <1>1, <2>1
  <2>. QED
    BY <1>1, <1>3, <2>1, <2>2, WriteReads DEF tree, Nothing
<1>. QED
  BY <1>4, <1>5, <1>6, <1>7, <1>8, <1>9, <1>10 DEF TaskStep

\* Where no process has the old text and none can read it, none writes it.
LEMMA TaskScrub ==
  ASSUME ScrubInv, NEW w \in Processes,
         RefreshStat(w) \/ DenseRead(w) \/ TaskStep(w) \/ TaskEnds(w)
  PROVE  ScrubInv'
<1>1. TypeOK /\ TypeOK' /\ None # "old"
  BY TaskTypes, ScrubAssumption DEF ScrubInv, Texts
<1>2. /\ UNCHANGED <<memory, exported, mtime, run, reported, withheld>>
      /\ \A v \in Processes \ {w} : task'[v] = task[v]
      /\ \A p \in Paths : rows'[p] \subseteq rows[p] \cup {task[w].got[p]}
      /\ \A p \in Paths : task'[w].got[p] \in {task[w].got[p], exported[p], None}
  BY <1>1, TaskReads
<1>3. PICK removed \in SUBSET UNION {rows[p] : p \in Paths},
           added \in SUBSET {task[w].got[p] : p \in Paths} :
        residue' = Written(removed, added)
  BY <1>1, TaskReads
<1>4. file # "store"
  <2>1. file = "store" => task[w].pc = "idle"
    BY DEF ScrubInv, Idle
  <2>. QED
    BY <2>1 DEF RefreshStat, TaskStep, RefreshSelect, RefreshRead, RefreshInsert,
                RefreshReplace, RefreshRemove, RefreshFiles, DenseRead, DenseUpsert,
                TaskEnds
<1>5. ASSUME Cut PROVE Cut'
  BY <1>1, <1>2, <1>5 DEF Cut, memory
<1>6. ASSUME file = "dense", "fts" \notin residue PROVE "fts" \notin residue'
  BY <1>3, <1>6 DEF Written, HasFts
<1>7. ASSUME Cut, ~HasOld PROVE ~HasOld' /\ residue' = residue
  <2>1. \A p \in Paths : task[w].got[p] # "old" /\ "old" \notin rows[p]
    BY <1>7 DEF Cut, HasOld
  <2>2. "old" \notin removed /\ "old" \notin added
    BY <2>1
  <2>. QED
    BY <1>2, <1>3, <2>1, <2>2, CleanWrite DEF HasOld
<1>8. Idle'
  BY <1>2, <1>4, <1>6 DEF ScrubInv, Idle, memory
<1>9. CutOff'
  BY <1>2, <1>4, <1>5 DEF ScrubInv, CutOff, memory
<1>10. Leaves'
  <2>1. Counts \/ reported => Cut
    BY <1>4 DEF ScrubInv, CutOff, Counts
  <2>. QED
    BY <1>2, <1>7, <2>1 DEF ScrubInv, Leaves, Left, Counts, memory
<1>. QED
  BY <1>1, <1>8, <1>9, <1>10 DEF ScrubInv

LEMMA QmdScrub == ASSUME ScrubInv, QmdUpdate PROVE ScrubInv'
<1>1. TypeOK'
  BY QmdTypes DEF ScrubInv
<1>2. UNCHANGED <<file, text, place, exported, task, run, reported>> /\ file = "qmd"
  BY DEF QmdUpdate, memory, tree
<1>3. Cut' = Cut
  BY <1>2 DEF Cut
<1>4. ASSUME Cut, ~HasOld PROVE ~HasOld' /\ residue' = residue
  <2>. DEFINE after == [p \in Paths |-> IF exported[p] = None THEN {} ELSE {exported[p]}]
  <2>1. \A p \in Paths : "old" \notin rows[p] /\ "old" \notin after[p]
    BY <1>4 DEF Cut, HasOld
  <2>2. ~HasOld'
    BY <2>1 DEF QmdUpdate, HasOld
  <2>3. "old" \notin UNION {rows[p] \ after[p] : p \in Paths}
    BY <2>1
  <2>4. "old" \notin UNION {after[p] \ rows[p] : p \in Paths}
    BY <2>1
  <2>5. residue' = residue
    BY <2>3, <2>4, CleanWrite DEF QmdUpdate
  <2>. QED
    BY <2>2, <2>5
<1>5. Counts \/ reported => Cut
  BY <1>2 DEF ScrubInv, CutOff, Counts
<1>6. Idle' /\ CutOff'
  BY <1>2, <1>3 DEF ScrubInv, Idle, CutOff
<1>7. Leaves'
  BY <1>2, <1>4, <1>5 DEF ScrubInv, Leaves, Left, Counts
<1>. QED
  BY <1>1, <1>6, <1>7 DEF ScrubInv

\* The statements of a run.
LEMMA RunScrub ==
  ASSUME ScrubInv,
         Redact \/ (\E present \in BOOLEAN : Confirm(present)) \/ RunStep \/ Blocked \/ Kill
  PROVE  ScrubInv'
<1>1. TypeOK'
  BY RunTypes DEF ScrubInv
<1>2. TypeOK /\ run \in Run /\ NoRun \in Run /\ residue \subseteq Residues
  BY DEF ScrubInv, TypeOK, NoRun, Run, Nothing, Statements
<1>3. UNCHANGED <<file, exported, task>>
  BY DEF Redact, Confirm, RunStep, LoadTruth, ScrubStore, ScrubIndex, Truncate,
         Vacuum, Report, Blocked, Kill, memory, tree
<1>4. CASE Redact
  <2>1. Cut => Cut'
    BY <1>3, <1>4 DEF Redact, Cut
  <2>2. HasOld' = HasOld
    BY <1>4 DEF Redact, HasOld
  <2>3. reported => text = "new"
    BY DEF ScrubInv, Idle
  <2>. QED
    BY <1>1, <1>2, <1>3, <1>4, <2>1, <2>2, <2>3
    DEF ScrubInv, Idle, CutOff, Leaves, Left, Redact, NoRun, Run
<1>5. CASE \E present \in BOOLEAN : Confirm(present)
  <2>1. Cut' = Cut /\ HasOld' = HasOld
    BY <1>3, <1>5 DEF Confirm, Cut, HasOld, memory, index
  <2>2. /\ run'.step = "load" /\ ~run'.cut
        /\ UNCHANGED <<text, residue, reported>> /\ text = "new" /\ file # "store"
    BY <1>5 DEF Confirm, NoRun, memory, index
  <2>3. ~Counts'
    BY <1>3, <2>2 DEF Counts
  <2>. QED
    BY <1>1, <1>3, <2>1, <2>2, <2>3 DEF ScrubInv, Idle, CutOff, Leaves, Left
<1>6. CASE LoadTruth
  <2>1. Cut' = Cut /\ HasOld' = HasOld
    BY <1>3, <1>6 DEF LoadTruth, Cut, HasOld, memory, index
  <2>2. run'.cut = Cut /\ run'.step = "rows"
    BY <1>2, <1>6 DEF LoadTruth, Run
  <2>3. Cut => \A p \in Paths : run'.seen[p] # "old"
    BY <1>2, <1>6, ScrubAssumption DEF LoadTruth, Run, Cut, Nothing, Texts
  <2>4. file # "store" /\ text = "new"
    BY <1>6 DEF ScrubInv, Idle, LoadTruth
  <2>. QED
    BY <1>1, <1>3, <1>6, <2>1, <2>2, <2>3, <2>4
    DEF ScrubInv, Idle, CutOff, Leaves, Left, LoadTruth, memory, index
<1>7. CASE ScrubStore
  <2>1. run' = [run EXCEPT !.step = "log"] /\ UNCHANGED <<text, rows, reported>>
    BY <1>7 DEF ScrubStore, memory
  <2>2. residue' \subseteq {"free", "log"}
    BY <1>2, <1>7 DEF ScrubStore, Rebuilt, HasFts, Residues
  <2>3. reported => residue' = {}
    BY <1>7 DEF ScrubStore, Rebuilt, ScrubInv, Leaves, Left
  <2>4. HasOld' = HasOld /\ file = "store" /\ ~HasOld
    BY <1>7, <2>1 DEF HasOld, ScrubStore, ScrubInv, Idle
  <2>. QED
    BY <1>1, <1>2, <1>3, <1>7, <2>1, <2>2, <2>3, <2>4
    DEF ScrubInv, Idle, CutOff, Leaves, Left, Run, ScrubStore
<1>8. CASE ScrubIndex
  <2>1. run' = [run EXCEPT !.step = "log"] /\ UNCHANGED <<text, reported>> /\ file # "store"
    BY <1>8 DEF ScrubIndex, memory
  <2>2. Cut' = Cut
    BY <1>3, <2>1 DEF Cut
  <2>3. ~HasOld => ~HasOld'
    BY <1>8 DEF ScrubIndex, Kept, HasOld
  <2>4. ASSUME Counts PROVE ~HasOld' /\ residue' \subseteq {"free", "log"}
    <3>1. \A p \in Paths : run.drop \/ (run.present /\ run.seen[p] # "old")
      BY <2>1, <2>4 DEF Counts, ScrubInv, CutOff
    <3>2. ~HasOld'
      BY <1>8, <3>1 DEF ScrubIndex, Kept, HasOld
    <3>3. file = "dense" => "fts" \notin residue
      BY DEF ScrubInv, Idle
    <3>4. residue' \subseteq {"free", "log"}
      BY <1>2, <1>8, <3>3 DEF ScrubIndex, Rebuilt, HasFts, Residues
    <3>. QED
      BY <3>2, <3>4
  <2>5. ASSUME reported PROVE residue' = {}
    <3>1. residue = {} /\ ~HasOld
      BY <2>5 DEF ScrubInv, Leaves, Left
    <3>2. "old" \notin UNION {rows[p] \ Kept[p] : p \in Paths}
      BY <3>1 DEF HasOld
    <3>. QED
      BY <1>8, <3>1, <3>2 DEF ScrubIndex, Rebuilt
  <2>6. file = "dense" => "fts" \notin residue'
    BY <1>8 DEF ScrubIndex, Rebuilt, ScrubInv, Idle
  <2>7. Counts' = Counts
    BY <1>2, <1>3, <2>1 DEF Counts, Run
  <2>8. run.step = "rows" /\ run'.step = "log" /\ run'.cut = run.cut /\ run'.seen = run.seen
    BY <1>2, <1>8, <2>1 DEF Run, ScrubIndex
  <2>9. Idle' /\ CutOff'
    BY <1>3, <2>1, <2>2, <2>6, <2>8 DEF ScrubInv, Idle, CutOff
  <2>10. Leaves'
    BY <2>1, <2>3, <2>4, <2>5, <2>7, <2>8 DEF ScrubInv, Leaves, Left
  <2>. QED
    BY <1>1, <2>9, <2>10 DEF ScrubInv
<1>9. CASE Truncate \/ Vacuum
  <2>1. /\ run' = [run EXCEPT !.step = After(run.step)]
        /\ UNCHANGED <<text, rows, reported>>
        /\ run.step \in {"log", "vacuum", "relog"}
        /\ residue' = IF run.step = "vacuum" THEN Vacuumed ELSE Truncated
    BY <1>9 DEF Truncate, Vacuum, memory
  <2>2. /\ run.step = "log" => After(run.step) = "vacuum"
        /\ run.step = "vacuum" => After(run.step) = "relog"
        /\ run.step = "relog" => After(run.step) = "scan"
    BY DEF After
  <2>3. Cut' = Cut /\ HasOld' = HasOld
    BY <1>3, <2>1 DEF Cut, HasOld
  <2>4. /\ residue \subseteq {"free", "log"} => Truncated \subseteq {"free"}
        /\ residue \subseteq {"free"} => Vacuumed \subseteq {"log"}
        /\ residue \subseteq {"log"} => Truncated \subseteq {}
        /\ residue \subseteq {} => residue' \subseteq {}
        /\ "fts" \notin residue => "fts" \notin residue'
    BY <2>1 DEF Truncated, Vacuumed
  <2>5. Counts' = Counts
    BY <1>2, <1>3, <2>1 DEF Counts, Run
  <2>6. run'.step = After(run.step) /\ run'.cut = run.cut /\ run'.seen = run.seen
    BY <1>2, <2>1 DEF Run
  <2>7. Idle' /\ CutOff'
    BY <1>3, <2>1, <2>2, <2>3, <2>4, <2>6 DEF ScrubInv, Idle, CutOff
  <2>8. Leaves'
    BY <2>1, <2>2, <2>3, <2>4, <2>5, <2>6 DEF ScrubInv, Leaves, Left
  <2>. QED
    BY <1>1, <2>7, <2>8 DEF ScrubInv
<1>10. CASE \E explained \in BOOLEAN : Report(explained)
  <2>1. run' = NoRun /\ UNCHANGED <<text, rows, residue>> /\ run.step = "scan"
    BY <1>10 DEF Report, memory, index
  <2>2. Cut' = Cut /\ HasOld' = HasOld
    BY <1>3, <2>1 DEF Cut, HasOld
  <2>3. reported' => reported \/ Counts
    BY <1>10 DEF Report, Counts
  <2>4. reported' => Left({}) /\ (file # "store" => Cut)
    BY <2>1, <2>3 DEF ScrubInv, Leaves, CutOff, Counts
  <2>. QED
    BY <1>1, <1>3, <2>1, <2>2, <2>4
    DEF ScrubInv, Idle, CutOff, Leaves, Left, NoRun
<1>11. CASE Blocked
  <2>1. /\ run' = [run EXCEPT !.step = AfterBlocked(run.step), !.ok = FALSE]
        /\ UNCHANGED <<text, rows, residue, reported>> /\ run.step \in Statements
    BY <1>11 DEF Blocked, memory, index
  <2>2. Cut' = Cut /\ HasOld' = HasOld
    BY <1>3, <2>1 DEF Cut, HasOld
  <2>3. AfterBlocked(run.step) \notin {"idle", "load"}
    BY <2>1 DEF AfterBlocked, After, Statements
  <2>4. ~Counts' /\ run'.cut = run.cut /\ run'.seen = run.seen /\ run'.step = AfterBlocked(run.step)
    BY <1>2, <2>1 DEF Counts, Run
  <2>5. text = "new"
    BY <2>1 DEF ScrubInv, Idle, Statements
  <2>. QED
    BY <1>1, <1>3, <2>1, <2>2, <2>3, <2>4, <2>5 DEF ScrubInv, Idle, CutOff, Leaves, Left
<1>12. CASE Kill
  <2>1. run' = NoRun /\ UNCHANGED <<text, rows, residue, reported>>
    BY <1>12 DEF Kill, memory, index
  <2>2. Cut' = Cut /\ HasOld' = HasOld
    BY <1>3, <2>1 DEF Cut, HasOld
  <2>. QED
    BY <1>1, <1>3, <2>1, <2>2
    DEF ScrubInv, Idle, CutOff, Leaves, Left, NoRun
<1>. QED
  BY <1>4, <1>5, <1>6, <1>7, <1>8, <1>9, <1>10, <1>11, <1>12 DEF RunStep

LEMMA Scrubbing == Spec => []ScrubInv
<1>1. ScrubInv /\ [Next]_vars => ScrubInv'
  <2>. SUFFICES ASSUME ScrubInv, [Next]_vars PROVE ScrubInv'
    OBVIOUS
  <2>1. CASE UNCHANGED vars
    BY <2>1 DEF vars, memory, tree, index, ScrubInv, TypeOK, Idle, CutOff, Leaves,
                Left, Counts, Cut, HasOld
  <2>. QED
    BY <2>1, ExportScrub, QmdScrub, TaskScrub, RunScrub DEF Next
<1>. QED
  BY <1>1, InitScrub, PTL DEF Spec

\* Nothing of the old text is left in the store once a redaction, or a rerun
\* of it, reports its physical scrub complete (redact-cli.ts 294-322).
THEOREM StoreScrubbed == Spec => []StoreClean
<1>1. ScrubInv => StoreClean
  BY DEF ScrubInv, Leaves, Left, StoreClean
<1>. QED
  BY <1>1, Scrubbing, PTL

\* Nor in an index once a scrub that came after the exporter's rewrite reports
\* complete, and it never comes back (index-scrub.ts 381-414).
THEOREM Confirms == Spec => []Confirmed
<1>1. ScrubInv => Confirmed
  BY DEF ScrubInv, Leaves, Left, Confirmed
<1>. QED
  BY <1>1, Scrubbing, PTL

----------------------------------------------------------------------------
(* Rows that stay away.                                                    *)

\* While the old text is anywhere in the export, the new one is nowhere.
NoNew ==
  text = "old" \/ (\E p \in Paths : exported[p] = "old") =>
    \A p \in Paths :
      /\ exported[p] # "new" /\ "new" \notin rows[p]
      /\ \A w \in Processes : task[w].got[p] # "new"

\* A file has a modification time, and an idle process holds nothing.
Stamped ==
  /\ \A p \in Paths : exported[p] # None => mtime[p] # 0
  /\ \A w \in Processes : task[w].pc = "idle" => task[w] = NoTask

\* A refresh that saw the old file finds it unchanged.
Passes(w) ==
  /\ \A p \in Paths : task[w].got[p] # "old"
  /\ \A p \in Paths : exported[p] = "old" /\ task[w].pc # "idle" =>
       /\ task[w].disk[p] = mtime[p]
       /\ task[w].pc # "select" => task[w].known[p] = mtime[p]

Away ==
  withheld =>
    /\ file = "native" /\ text = "new" /\ ~HasOld
    /\ \A p \in Paths : exported[p] = "old" => known[p] = mtime[p]
    /\ \A w \in Processes : Passes(w) /\ task[w].pc # "embed"

AwayInv == ScrubInv /\ NoNew /\ Stamped /\ Away

LEMMA InitAway == Init => AwayInv
<1>. SUFFICES ASSUME Init PROVE AwayInv
  OBVIOUS
<1>1. None \notin Texts
  BY ScrubAssumption
<1>2. NoNew
  BY <1>1 DEF Init, NoNew, Wanted, NoTask, Nothing, Texts
<1>3. Stamped
  BY DEF Init, Stamped, Wanted
<1>. QED
  BY <1>2, <1>3, InitScrub DEF AwayInv, Away, Init

LEMMA ExportAway ==
  ASSUME AwayInv, ArchiveMemory \/ Export
  PROVE  NoNew' /\ Stamped' /\ Away'
<1>1. /\ UNCHANGED <<file, text, rows, known, task, withheld>>
      /\ UNCHANGED tree \/ Export
  BY DEF ArchiveMemory, Export, memory, index
<1>2. CASE UNCHANGED tree
  BY <1>1, <1>2 DEF AwayInv, NoNew, Stamped, Away, Passes, HasOld, tree
<1>3. CASE Export
  <2>1. None \notin Texts /\ text \in Texts /\ clock + 1 # 0
    BY ScrubAssumption DEF AwayInv, ScrubInv, TypeOK
  <2>2. \A p \in Paths : exported'[p] \in {text, None}
    BY <1>3 DEF Export, Wanted
  <2>3. NoNew'
    <3>1. CASE text = "old"
      BY <1>1, <2>1, <2>2, <3>1 DEF AwayInv, NoNew, Texts
    <3>2. CASE text = "new"
      BY <1>1, <2>1, <2>2, <3>2 DEF NoNew, Texts
    <3>. QED
      BY <2>1, <3>1, <3>2 DEF Texts
  <2>4. Stamped'
    BY <1>1, <1>3, <2>1 DEF AwayInv, Stamped, Export, Wanted
  <2>5. Away'
    <3>1. text = "new" => \A p \in Paths : exported'[p] # "old"
      BY <2>1, <2>2 DEF Texts
    <3>. QED
      BY <1>1, <3>1 DEF AwayInv, Away, Passes, HasOld
  <2>. QED
    BY <2>3, <2>4, <2>5
<1>. QED
  BY <1>1, <1>2, <1>3

LEMMA QmdAway ==
  ASSUME AwayInv, QmdUpdate
  PROVE  NoNew' /\ Stamped' /\ Away'
<1>1. /\ UNCHANGED <<file, text, exported, mtime, known, task, withheld>>
      /\ file = "qmd"
      /\ \A p \in Paths : rows'[p] \subseteq {exported[p]}
  BY DEF QmdUpdate, memory, tree
<1>2. NoNew'
  BY <1>1 DEF AwayInv, NoNew
<1>. QED
  BY <1>1, <1>2 DEF AwayInv, Stamped, Away

\* The operator's run puts no row and changes no file.
LEMMA RunAway ==
  ASSUME AwayInv,
         Redact \/ (\E present \in BOOLEAN : Confirm(present)) \/ RunStep \/ Blocked \/ Kill
  PROVE  NoNew' /\ Stamped' /\ Away'
<1>1. /\ UNCHANGED <<file, exported, mtime, task>>
      /\ text' \in {text, "new"}
      /\ \A p \in Paths : rows'[p] \subseteq rows[p]
  BY DEF Redact, Confirm, RunStep, LoadTruth, ScrubStore, ScrubIndex, Truncate,
         Vacuum, Report, Blocked, Kill, memory, tree, index, Kept
<1>2. text \in Texts
  BY DEF AwayInv, ScrubInv, TypeOK
<1>3. NoNew'
  BY <1>1, <1>2 DEF AwayInv, NoNew, Texts
<1>4. Stamped'
  BY <1>1 DEF AwayInv, Stamped
<1>5. CASE ScrubIndex
  <2>1. ASSUME withheld PROVE Away'
    <3>1. /\ file = "native" /\ text = "new" /\ ~HasOld
          /\ \A p \in Paths : exported[p] = "old" => known[p] = mtime[p]
          /\ \A w \in Processes : Passes(w) /\ task[w].pc # "embed"
      BY <2>1 DEF AwayInv, Away
    <3>2. ASSUME NEW p \in Paths, exported[p] = "old" PROVE known'[p] = known[p]
      <4>1. "new" \notin rows[p] /\ "old" \notin rows[p] /\ rows[p] \subseteq Texts
        BY <3>1, <3>2 DEF AwayInv, NoNew, HasOld, ScrubInv, TypeOK
      <4>2. rows[p] = {}
        BY <4>1 DEF Texts
      <4>. QED
        BY <1>5, <3>1, <4>2 DEF ScrubIndex, FilesKept
    <3>3. text' = text /\ ~HasOld'
      BY <1>1, <1>5, <3>1 DEF ScrubIndex, memory, HasOld
    <3>. QED
      BY <1>1, <3>1, <3>2, <3>3 DEF Away, Passes
  <2>2. ASSUME ~withheld, withheld' PROVE Away'
    <3>1. file = "native" /\ run.drop /\ UpToDate /\ run.step = "rows"
      BY <1>5, <2>2 DEF ScrubIndex
    <3>2. text = "new" /\ text' = text
      BY <1>5, <3>1 DEF AwayInv, ScrubInv, Idle, ScrubIndex, memory
    <3>3. ~HasOld'
      BY <1>5, <3>1 DEF ScrubIndex, Kept, HasOld
    <3>4. \A p \in Paths : known'[p] = known[p]
      BY <1>5, <3>1 DEF ScrubIndex, FilesKept
    <3>5. \A w \in Processes : task[w].pc = "idle" /\ task[w] = NoTask
      BY <3>1 DEF UpToDate, AwayInv, Stamped
    <3>6. \A w \in Processes : Passes(w)' /\ task'[w].pc # "embed"
      BY <1>1, <3>5, ScrubAssumption DEF Passes, NoTask, Nothing, Texts
    <3>. QED
      BY <1>1, <3>1, <3>2, <3>3, <3>4, <3>6 DEF Away, UpToDate
  <2>3. ~withheld' => Away'
    BY DEF Away
  <2>. QED
    BY <1>3, <1>4, <2>1, <2>2, <2>3
<1>6. CASE ~ScrubIndex
  <2>1. UNCHANGED <<rows, known, withheld>>
    BY <1>6
    DEF Redact, Confirm, RunStep, LoadTruth, ScrubStore, Truncate, Vacuum, Report,
        Blocked, Kill, index
  <2>. QED
    BY <1>1, <2>1, <1>3, <1>4 DEF AwayInv, Away, Passes, HasOld
<1>. QED
  BY <1>3, <1>4, <1>5, <1>6

LEMMA TaskAway ==
  ASSUME AwayInv, NEW w \in Processes,
         RefreshStat(w) \/ DenseRead(w) \/ TaskStep(w) \/ TaskEnds(w)
  PROVE  NoNew' /\ Stamped' /\ Away'
<1>1. TypeOK /\ task \in [Processes -> Task] /\ task[w] \in Task /\ None \notin Texts
  BY ScrubAssumption DEF AwayInv, ScrubInv, TypeOK
<1>2. /\ UNCHANGED <<file, text, exported, mtime, withheld>>
      /\ \A v \in Processes \ {w} : task'[v] = task[v]
      /\ \A p \in Paths : rows'[p] \subseteq rows[p] \cup {task[w].got[p]}
      /\ \A p \in Paths : task'[w].got[p] \in {task[w].got[p], exported[p], None}
      /\ task'[w].pc = "idle" => task'[w] = NoTask
  BY <1>1, TaskReads DEF memory
<1>3. NoNew'
  BY <1>1, <1>2 DEF AwayInv, NoNew, Texts
<1>4. Stamped'
  BY <1>2 DEF AwayInv, Stamped
<1>5. ASSUME withheld PROVE Away'
  <2>1. /\ file = "native" /\ text = "new" /\ ~HasOld
        /\ \A p \in Paths : exported[p] = "old" => known[p] = mtime[p] /\ mtime[p] # 0
        /\ \A v \in Processes : Passes(v) /\ task[v].pc # "embed"
    BY <1>1, <1>5 DEF AwayInv, Away, Stamped, Texts
  <2>2. ~HasOld'
    BY <1>2, <2>1 DEF HasOld, Passes
  <2>3. CASE RefreshStat(w) \/ TaskEnds(w)
    <3>1. /\ task'[w].got = Nothing /\ task'[w].pc # "embed" /\ known' = known
          /\ task'[w].pc = "idle" \/ (task'[w].pc = "select" /\ task'[w].disk = mtime)
      <4>1. CASE RefreshStat(w)
        BY <1>1, <4>1 DEF RefreshStat, NoTask, index
      <4>2. CASE TaskEnds(w)
        BY <1>1, <4>2 DEF TaskEnds, NoTask, index
      <4>. QED
        BY <2>3, <4>1, <4>2
    <3>2. Passes(w)'
      BY <1>1, <1>2, <3>1 DEF Passes, Nothing, Texts
    <3>. QED
      BY <1>2, <2>1, <2>2, <3>1, <3>2 DEF Away, Passes
  <2>4. CASE RefreshSelect(w)
    <3>1. /\ task'[w].got = task[w].got /\ task'[w].pc = "read" /\ known' = known
          /\ task'[w].disk = task[w].disk /\ task'[w].known = known
      BY <1>1, <2>4 DEF RefreshSelect, Task, index
    <3>2. Passes(w)'
      <4>1. \A p \in Paths : task[w].got[p] # "old"
        BY <2>1 DEF Passes
      <4>2. task[w].pc = "select"
        BY <2>4 DEF RefreshSelect
      <4>3. \A p \in Paths : exported[p] = "old" =>
              task[w].disk[p] = mtime[p] /\ known[p] = mtime[p]
        BY <2>1, <4>2 DEF Passes
      <4>. QED
        BY <1>2, <3>1, <4>1, <4>3 DEF Passes
    <3>. QED
      BY <1>2, <2>1, <2>2, <3>1, <3>2 DEF Away, Passes
  <2>5. CASE RefreshRead(w)
    <3>. DEFINE got == [p \in Paths |-> IF Changed(w, p) THEN exported[p] ELSE None]
                read == [task[w] EXCEPT !.pc = "insert", !.got = got]
    <3>1. read.got = got /\ read.pc = "insert" /\ read.disk = task[w].disk
          /\ read.known = task[w].known
      BY <1>1 DEF Task
    <3>2. /\ task' = [task EXCEPT ![w] = read] \/ task' = [task EXCEPT ![w] = NoTask]
          /\ known' = known /\ task[w].pc = "read"
      BY <2>5 DEF RefreshRead, index
    <3>3. \A p \in Paths : got[p] # "old"
      BY <1>1, <2>1, <3>2 DEF Passes, Changed, Texts
    <3>. HIDE DEF read, got
    <3>4. CASE task' = [task EXCEPT ![w] = read]
      <4>1. task'[w] = read
        BY <1>1, <3>4
      <4>2. Passes(w)' /\ task'[w].pc # "embed"
        BY <1>2, <2>1, <3>1, <3>2, <3>3, <4>1 DEF Passes
      <4>. QED
        BY <1>2, <2>1, <2>2, <3>2, <4>2 DEF Away, Passes
    <3>5. CASE task' = [task EXCEPT ![w] = NoTask]
      <4>1. task'[w] = NoTask
        BY <1>1, <3>5
      <4>2. Passes(w)' /\ task'[w].pc # "embed"
        BY <1>1, <4>1 DEF Passes, NoTask, Nothing, Texts
      <4>. QED
        BY <1>2, <2>1, <2>2, <3>2, <4>2 DEF Away, Passes
    <3>. QED
      BY <3>2, <3>4, <3>5
  <2>6. CASE RefreshInsert(w) \/ RefreshReplace(w) \/ RefreshRemove(w)
    <3>1. PICK pc \in {"replace", "remove", "files"} :
            task' = [task EXCEPT ![w] = [task[w] EXCEPT !.pc = pc]]
      BY <1>1, <2>6 DEF RefreshInsert, RefreshReplace, RefreshRemove
    <3>2. known' = known /\ task[w].pc \in {"insert", "replace", "remove"}
      BY <2>6 DEF RefreshInsert, RefreshReplace, RefreshRemove, Write
    <3>3. /\ task'[w].got = task[w].got /\ task'[w].pc = pc
          /\ task'[w].disk = task[w].disk /\ task'[w].known = task[w].known
      BY <1>1, <3>1 DEF Task
    <3>4. Passes(w)'
      BY <1>2, <2>1, <3>2, <3>3 DEF Passes
    <3>. QED
      BY <1>2, <2>1, <2>2, <3>2, <3>3, <3>4 DEF Away, Passes
  <2>7. CASE RefreshFiles(w)
    <3>1. ASSUME NEW p \in Paths, exported[p] = "old" PROVE known'[p] = known[p]
      <4>1. task[w].got[p] = None
        <5>1. task[w].got[p] \in Texts \cup {None}
          BY <1>1 DEF Task
        <5>2. task[w].got[p] # "old" /\ task[w].got[p] # "new"
          BY <2>1, <3>1 DEF Passes, AwayInv, NoNew
        <5>. QED
          BY <5>1, <5>2 DEF Texts
      <4>2. ~Vanished(w, p)
        BY <2>1, <2>7, <3>1 DEF Passes, Vanished, RefreshFiles
      <4>. QED
        BY <2>7, <4>1, <4>2 DEF RefreshFiles
    <3>2. task'[w] = NoTask
      BY <1>1, <2>7 DEF RefreshFiles
    <3>3. Passes(w)' /\ task'[w].pc # "embed"
      BY <1>1, <3>2 DEF Passes, NoTask, Nothing, Texts
    <3>. QED
      BY <1>2, <2>1, <2>2, <3>1, <3>3 DEF Away, Passes
  <2>8. ~DenseRead(w) /\ ~DenseUpsert(w)
    BY <2>1 DEF DenseRead, DenseUpsert
  <2>. QED
    BY <2>3, <2>4, <2>5, <2>6, <2>7, <2>8 DEF TaskStep
<1>6. ~withheld' => Away'
  BY DEF Away
<1>. QED
  BY <1>2, <1>3, <1>4, <1>5, <1>6

\* The rows of a memory that a redact run took out of a native index that was up
\* to date stay out (index-files.ts 214-218, native-index-manager.ts 59-107).
THEOREM Withholds == Spec => []Withheld
<1>1. AwayInv /\ [Next]_vars => AwayInv'
  <2>. SUFFICES ASSUME AwayInv, [Next]_vars PROVE AwayInv'
    OBVIOUS
  <2>1. CASE UNCHANGED vars
    BY <2>1 DEF vars, memory, tree, index, AwayInv, ScrubInv, TypeOK, Idle, CutOff,
                Leaves, Left, Counts, Cut, HasOld, NoNew, Stamped, Away, Passes
  <2>2. CASE Next
    <3>1. ScrubInv
      BY DEF AwayInv
    <3>2. ScrubInv'
      BY <2>2, <3>1, ExportScrub, QmdScrub, TaskScrub, RunScrub DEF Next
    <3>3. NoNew' /\ Stamped' /\ Away'
      BY <2>2, ExportAway, QmdAway, TaskAway, RunAway DEF Next
    <3>. QED
      BY <3>2, <3>3 DEF AwayInv
  <2>. QED
    BY <2>1, <2>2
<1>2. AwayInv => Withheld
  BY DEF AwayInv, Away, Withheld
<1>. QED
  BY <1>1, <1>2, InitAway, PTL DEF Spec
===============================================================================
