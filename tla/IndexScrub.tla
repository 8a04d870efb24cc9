----------------------------- MODULE IndexScrub -----------------------------
(***************************************************************************)
(* Getting a redacted text out of a database file.                         *)
(*                                                                         *)
(* `curator-cli redact` replaces the text of one memory in the store and   *)
(* then scrubs: the store's freed pages (store/src/redaction-scrub.ts) and, *)
(* per tenant, the derived search indexes, each an SQLite file of its own:  *)
(* qmd's cache, the native FTS5 index and the dense sidecar                *)
(* (qmd-adapter/src/scrub).  Meanwhile the exporter rewrites the export     *)
(* file, searches refresh the native index (ensureFresh) and reindexes read *)
(* the export tree.  `qmd-index scrub-index`, run alone, confirms.  The     *)
(* procedure is that of 000-docs/054, 4.6 and 4.7, but nothing is stopped:  *)
(* every process may take a step at any time.                              *)
(*                                                                         *)
(* The model follows one memory and one file, the store or one index of one *)
(* tenant: the files share nothing but the export tree and the operator's   *)
(* run, and what the run does on other files only makes it report less.     *)
(* The memory's text is "old" until it is redacted.  What remains of that   *)
(* text in the file when no row holds it is its residue:                    *)
(*   "dead"  qmd's inactive documents rows and orphaned content rows        *)
(*   "fts"   tokens in FTS5 segments                                        *)
(*   "free"  freed cells and pages                                          *)
(*   "log"   frames of the -wal, and pages not yet overwritten from it.      *)
(***************************************************************************)
EXTENDS Naturals

CONSTANTS
  Paths,       \* where the export file of the memory may be
  Archive,     \* the path of an archived memory
  Processes,   \* API, MCP sessions, daemon, reindex commands
  MaxTouches,  \* bound: exports of an unchanged text
  MaxFaults,   \* bound: blocked scrub steps and killed operator runs
  None

Texts == {"old", "new"}

\* The store, and INDEX_FILE_KINDS.
Files == {"store", "qmd", "native", "dense"}

Residues == {"dead", "fts", "free", "log"}

ASSUME ScrubAssumption ==
  /\ Archive \in Paths
  /\ MaxTouches \in Nat /\ MaxFaults \in Nat
  /\ None \notin Texts

VARIABLES
  file,      \* the file that is followed
  text,      \* content of the curated_memories row
  place,     \* the path its lifecycle calls for
  exported,  \* text of the export file at each path, None where there is none
  mtime,     \* its modification time, 0 where there is none
  clock,     \* the last modification time given
  rows,      \* texts of the live rows of an index, by path
  known,     \* native `files` rows: mtime_ms by path, 0 where there is none
  residue,   \* what remains of the old text, rows apart
  task,      \* what each process is doing: a refresh or a reindex
  run,       \* the operator's redact or scrub-index
  faults,    \* blocked steps and kills so far
  reported,  \* history: the scrub of the file was reported complete, see Report
  withheld   \* history: native rows went while their `files` rows stayed

memory == <<file, text, place>>
tree == <<exported, mtime, clock>>
index == <<rows, known, residue>>
vars == <<memory, tree, index, task, run, faults, reported, withheld>>

Blank == [p \in Paths |-> 0]
Nothing == [p \in Paths |-> None]

\* A refresh (ensureFresh) keeps the mtimes it saw, then the files rows it
\* selected, then the contents it read; a reindex what it is about to embed.
Task == [pc: {"idle", "select", "read", "insert", "replace", "remove", "files", "embed"},
         disk: [Paths -> Nat], known: [Paths -> Nat],
         got: [Paths -> Texts \cup {None}]]
NoTask == [pc |-> "idle", disk |-> Blank, known |-> Blank, got |-> Nothing]

\* The operator's run: whether it names the memory (--drop-memory-id) or else
\* reconciles its rows with an export (present), whether it has the removed
\* fragments, the export as it read it; ok: nothing has failed so far.
\* cut is history: the old text had no source when the export was read.
Statements == {"rows", "log", "vacuum", "relog"}
Run == [step: Statements \cup {"idle", "load", "scan"},
        drop: BOOLEAN, present: BOOLEAN, fragments: BOOLEAN,
        seen: [Paths -> Texts \cup {None}], ok: BOOLEAN, cut: BOOLEAN]
NoRun == [step |-> "idle", drop |-> FALSE, present |-> FALSE, fragments |-> FALSE,
          seen |-> Nothing, ok |-> TRUE, cut |-> FALSE]

----------------------------------------------------------------------------
\* What an exporter writes.
Wanted == [p \in Paths |-> IF p = place THEN text ELSE None]

\* The old text can no longer come from anywhere but the index itself.
Cut ==
  /\ text = "new"
  /\ \A p \in Paths : exported[p] # "old"
  /\ \A w \in Processes : \A p \in Paths : task[w].got[p] # "old"

HasOld == \E p \in Paths : "old" \in rows[p]

HasFts == file # "dense"

\* The residue after a write by a connection without secure_delete that removed
\* some rows and added others.
Written(removed, added) ==
  residue
    \cup (IF "old" \in removed
            THEN {"free", "log"} \cup (IF HasFts THEN {"fts"} ELSE {})
            ELSE {})
    \cup (IF "old" \in added THEN {"log"} ELSE {})

\* The residue after deleteAndRebuild: with secure_delete freed cells are
\* overwritten, which the log still has to carry into the file.
Rebuilt(removed) ==
  LET gone == {"dead"} \cup (IF HasFts THEN {"fts"} ELSE {}) IN
    (residue \ gone)
      \cup (IF "old" \in removed \/ residue \cap gone # {} THEN {"log"} ELSE {})

\* VACUUM rewrites the file through the log.
Vacuumed == (residue \ {"free"}) \cup (IF "free" \in residue THEN {"log"} ELSE {})

\* A truncating checkpoint leaves no log.
Truncated == residue \ {"log"}

\* What a byte scan finds: rows and whole copies, not tokens.
Visible == HasOld \/ residue \cap {"dead", "free", "log"} # {}

Init ==
  /\ file \in Files
  /\ text = "old"
  /\ place \in Paths \ {Archive}
  /\ exported = Wanted
  /\ mtime = [p \in Paths |-> IF p = place THEN 1 ELSE 0]
  /\ clock = 1
  /\ rows = [p \in Paths |-> {}]
  /\ known = Blank
  /\ residue = IF file = "store" THEN {"fts", "free", "log"} ELSE {}
  /\ task = [w \in Processes |-> NoTask]
  /\ run = NoRun
  /\ faults = 0
  /\ reported = FALSE
  /\ withheld = FALSE

----------------------------------------------------------------------------
(* The store and the export tree.                                          *)

\* The memory is archived: its file belongs elsewhere.
ArchiveMemory ==
  /\ place # Archive
  /\ place' = Archive
  /\ UNCHANGED <<file, text, tree, index, task, run, faults, reported, withheld>>

\* An export writes the file and removes the one elsewhere, in one step: exports
\* that overlap, or are killed, are ExportIndex's.  A change of another field
\* writes the same text again.
Export ==
  /\ exported # Wanted \/ clock <= MaxTouches
  /\ exported' = Wanted
  /\ mtime' = [p \in Paths |-> IF p = place THEN clock + 1 ELSE 0]
  /\ clock' = clock + 1
  /\ UNCHANGED <<memory, index, task, run, faults, reported, withheld>>

----------------------------------------------------------------------------
(* ensureFresh: a search brings the native index up to date.               *)

\* Files whose row is missing or has another mtime are read, and inserted or
\* put in the place of what the index has; the others are dropped.
Changed(w, p) == task[w].disk[p] # 0 /\ task[w].disk[p] # task[w].known[p]
Vanished(w, p) == task[w].disk[p] = 0 /\ task[w].known[p] # 0
Inserted(w, p) == task[w].got[p] # None /\ task[w].known[p] = 0
Replaced(w, p) == task[w].got[p] # None /\ task[w].known[p] # 0

RefreshStat(w) ==
  /\ file = "native"
  /\ task[w].pc = "idle"
  /\ task' = [task EXCEPT ![w] = [NoTask EXCEPT !.pc = "select", !.disk = mtime]]
  /\ UNCHANGED <<memory, tree, index, run, faults, reported, withheld>>

RefreshSelect(w) ==
  /\ task[w].pc = "select"
  /\ task' = [task EXCEPT ![w].pc = "read", ![w].known = known]
  /\ UNCHANGED <<memory, tree, index, run, faults, reported, withheld>>

RefreshRead(w) ==
  LET read == [task[w] EXCEPT !.pc = "insert",
        !.got = [p \in Paths |-> IF Changed(w, p) THEN exported[p] ELSE None]]
      delta == \E p \in Paths : read.got[p] # None \/ Vanished(w, p) IN
  /\ task[w].pc = "read"
  /\ task' = [task EXCEPT ![w] = IF delta THEN read ELSE NoTask]
  /\ UNCHANGED <<memory, tree, index, run, faults, reported, withheld>>

\* A transaction on the docs of some paths: what is kept of their rows, and
\* what was read for them.
Write(w, paths, kept) ==
  /\ rows' = [p \in Paths |->
       IF p \in paths THEN kept[p] \cup ({task[w].got[p]} \ {None}) ELSE rows[p]]
  /\ residue' = Written(UNION {rows[p] \ kept[p] : p \in paths},
                         {task[w].got[p] : p \in paths})
  /\ UNCHANGED <<memory, tree, known, run, faults, reported, withheld>>

\* insert(): new paths, said to be absent from the index.
RefreshInsert(w) ==
  /\ task[w].pc = "insert"
  /\ Write(w, {p \in Paths : Inserted(w, p)}, rows)
  /\ task' = [task EXCEPT ![w].pc = "replace"]

\* index(): each changed path, deleted and inserted.
RefreshReplace(w) ==
  /\ task[w].pc = "replace"
  /\ Write(w, {p \in Paths : Replaced(w, p)}, [p \in Paths |-> {}])
  /\ task' = [task EXCEPT ![w].pc = "remove"]

\* remove(): paths that are gone.
RefreshRemove(w) ==
  /\ task[w].pc = "remove"
  /\ Write(w, {p \in Paths : Vanished(w, p)}, [p \in Paths |-> {}])
  /\ task' = [task EXCEPT ![w].pc = "files"]

\* A transaction of its own: the files rows.
RefreshFiles(w) ==
  /\ task[w].pc = "files"
  /\ known' = [p \in Paths |-> CASE task[w].got[p] # None -> task[w].disk[p]
                                 [] Vanished(w, p) -> 0
                                 [] OTHER -> known[p]]
  /\ task' = [task EXCEPT ![w] = NoTask]
  /\ UNCHANGED <<memory, tree, rows, residue, run, faults, reported, withheld>>

----------------------------------------------------------------------------
(* A reindex: `qmd update`, and the dense sidecar.                         *)

\* qmd puts the text in place and keeps what it replaces as inactive rows and
\* orphaned content.
QmdUpdate ==
  LET after == [p \in Paths |-> IF exported[p] = None THEN {} ELSE {exported[p]}]
      removed == UNION {rows[p] \ after[p] : p \in Paths}
      added == UNION {after[p] \ rows[p] : p \in Paths} IN
  /\ file = "qmd"
  /\ rows' = after
  /\ residue' = Written(removed, added) \cup (IF "old" \in removed THEN {"dead"} ELSE {})
  /\ UNCHANGED <<memory, tree, known, task, run, faults, reported, withheld>>

\* sync() reads every file, drops the rows of files that are gone ...
DenseRead(w) ==
  LET absent == {p \in Paths : exported[p] = None} IN
  /\ file = "dense"
  /\ task[w].pc = "idle"
  /\ rows' = [p \in Paths |-> IF p \in absent THEN {} ELSE rows[p]]
  /\ residue' = Written(UNION {rows[p] : p \in absent}, {})
  /\ task' = [task EXCEPT ![w] = [NoTask EXCEPT !.pc = "embed",
       !.got = [p \in Paths |-> IF rows[p] # {exported[p]} THEN exported[p] ELSE None]]]
  /\ UNCHANGED <<memory, tree, known, run, faults, reported, withheld>>

\* ... and, when the embedder has answered, upserts what it read.
DenseUpsert(w) ==
  /\ task[w].pc = "embed"
  /\ Write(w, {p \in Paths : task[w].got[p] # None}, [p \in Paths |-> {}])
  /\ task' = [task EXCEPT ![w] = NoTask]

\* The process is killed, a transaction throws SQLITE_BUSY, or the embedder is
\* down.
TaskEnds(w) ==
  /\ task[w].pc # "idle"
  /\ task' = [task EXCEPT ![w] = NoTask]
  /\ UNCHANGED <<memory, tree, index, run, faults, reported, withheld>>

----------------------------------------------------------------------------
(* The operator's run.                                                     *)

\* Mutant: run again it answers `unchanged` and stops there.
RedactOnce ==
  /\ run.step = "idle"
  /\ text' = "new"
  /\ residue' = IF file = "store" /\ text = "old"
                  THEN residue \cup {"fts", "log"} ELSE residue
  /\ run' = IF text = "new" THEN run
            ELSE [NoRun EXCEPT !.step = IF file = "store" THEN "rows" ELSE "load",
                               !.drop = TRUE, !.fragments = TRUE]
  /\ UNCHANGED <<file, place, tree, rows, known, task, faults, reported, withheld>>

\* The redaction commits; what it removed is known to this process only.  Run
\* again it answers `unchanged`, has no fragments, and scrubs all the same.
Redact ==
  /\ run.step = "idle"
  /\ text' = "new"
  /\ residue' = IF file = "store" /\ text = "old"
                  THEN residue \cup {"fts", "log"} ELSE residue
  /\ run' = [NoRun EXCEPT !.step = IF file = "store" THEN "rows" ELSE "load",
                          !.drop = TRUE, !.fragments = (text = "old")]
  /\ UNCHANGED <<file, place, tree, rows, known, task, faults, reported, withheld>>

\* qmd-index scrub-index; there may be no export at its --export-dir, and then
\* nothing is reconciled.  A file of the removed text (--scan-fragments-file) would
\* only make it report less.
Confirm(present) ==
  /\ run.step = "idle"
  /\ text = "new" /\ file # "store"
  /\ run' = [NoRun EXCEPT !.step = "load", !.present = present]
  /\ UNCHANGED <<memory, tree, index, task, faults, reported, withheld>>

\* loadExportTruth and discoverTenants.
LoadTruth ==
  /\ run.step = "load"
  /\ run' = [run EXCEPT !.step = "rows", !.cut = Cut,
                        !.seen = IF run.present THEN exported ELSE Nothing]
  /\ UNCHANGED <<memory, tree, index, task, faults, reported, withheld>>

\* Mutant: nothing carries what VACUUM wrote out of the log.
AfterVacuumScan(step) ==
  CASE step = "rows" -> "log"
    [] step = "log" -> "vacuum"
    [] step \in {"vacuum", "relog"} -> "scan"

\* The order of the statements on a file: scrubFreedPages, scrubFile.
After(step) ==
  CASE step = "rows" -> "log"
    [] step = "log" -> "vacuum"
    [] step = "vacuum" -> "relog"
    [] step = "relog" -> "scan"

\* A blocked checkpoint is only recorded.  On an index any other failure ends
\* the work on that file; on the store each statement is tried.
AfterBlocked(step) ==
  IF file # "store" /\ step \in {"rows", "vacuum"} THEN "scan" ELSE After(step)

\* Mutant: a row is stale only if its file is gone.
KeptByPath ==
  [p \in Paths |->
     IF run.drop \/ (run.present /\ run.seen[p] = None) THEN {} ELSE rows[p]]

\* The rows deleteAndRebuild keeps: the plan of each kind.
Kept ==
  [p \in Paths |->
     IF run.drop THEN {}
     ELSE IF run.present THEN rows[p] \cap {run.seen[p]}
     ELSE rows[p]]

\* Mutant: the files row goes with the rows of a named memory too.
FilesKeptStale ==
  [p \in Paths |-> IF Kept[p] # {} \/ rows[p] = {} THEN known[p] ELSE 0]

\* The files rows planNative keeps: all for the memory that is named, else
\* those where no row went or one stayed.
FilesKept ==
  [p \in Paths |->
     IF run.drop \/ Kept[p] # {} \/ rows[p] = {} THEN known[p] ELSE 0]

\* No refresh is under way, and none has the old text to read.
UpToDate ==
  /\ \A w \in Processes : task[w].pc = "idle"
  /\ \A p \in Paths : exported[p] = "old" => known[p] = mtime[p]

ScrubStore ==
  /\ run.step = "rows" /\ file = "store"
  /\ residue' = Rebuilt({})
  /\ run' = [run EXCEPT !.step = "log"]
  /\ UNCHANGED <<memory, tree, rows, known, task, faults, reported, withheld>>

ScrubIndex ==
  LET removed == UNION {rows[p] \ Kept[p] : p \in Paths} IN
  /\ run.step = "rows" /\ file # "store"
  /\ rows' = Kept
  /\ known' = IF file = "native" THEN FilesKept ELSE known
  /\ residue' = Rebuilt(removed)
  /\ run' = [run EXCEPT !.step = "log"]
  /\ withheld' = (withheld \/ (file = "native" /\ run.drop /\ UpToDate))
  /\ UNCHANGED <<memory, tree, task, faults, reported>>

Truncate ==
  /\ run.step \in {"log", "relog"}
  /\ residue' = Truncated
  /\ run' = [run EXCEPT !.step = After(run.step)]
  /\ UNCHANGED <<memory, tree, rows, known, task, faults, reported, withheld>>

Vacuum ==
  /\ run.step = "vacuum"
  /\ residue' = Vacuumed
  /\ run' = [run EXCEPT !.step = After(run.step)]
  /\ UNCHANGED <<memory, tree, rows, known, task, faults, reported, withheld>>

\* Another connection is in the way, or the file is refused: its layout is
\* not the recorded one, or too many rows would go.
Blocked ==
  /\ run.step \in Statements
  /\ faults < MaxFaults
  /\ faults' = faults + 1
  /\ run' = [run EXCEPT !.step = AfterBlocked(run.step), !.ok = FALSE]
  /\ UNCHANGED <<memory, tree, index, task, reported, withheld>>

\* The byte scan and the verdict: scrubAndVerify for the store, scrubIndexes
\* for an index.  What the scan finds is forgiven where another row or document
\* holds the same text.  A report on an index counts where the run reconciled or
\* named the memory, and the old text was cut off.
Report(explained) ==
  LET complete == run.ok /\ (run.fragments => ~Visible \/ explained) IN
  /\ run.step = "scan"
  /\ reported' = (\/ reported
                  \/ /\ complete
                     /\ file = "store" \/ (run.cut /\ (run.present \/ run.drop)))
  /\ run' = NoRun
  /\ UNCHANGED <<memory, tree, index, task, faults, withheld>>

\* The operator's process, or the scrub it started, is killed; or the tool is
\* not found.
Kill ==
  /\ run.step # "idle"
  /\ faults < MaxFaults
  /\ faults' = faults + 1
  /\ run' = NoRun
  /\ UNCHANGED <<memory, tree, index, task, reported, withheld>>

----------------------------------------------------------------------------
TaskStep(w) ==
  \/ RefreshSelect(w) \/ RefreshRead(w) \/ RefreshInsert(w) \/ RefreshReplace(w)
  \/ RefreshRemove(w) \/ RefreshFiles(w) \/ DenseUpsert(w)
RunStep ==
  \/ LoadTruth \/ ScrubStore \/ ScrubIndex \/ Truncate \/ Vacuum
  \/ \E explained \in BOOLEAN : Report(explained)

Next ==
  \/ ArchiveMemory \/ Export \/ QmdUpdate
  \/ \E w \in Processes :
       RefreshStat(w) \/ DenseRead(w) \/ TaskStep(w) \/ TaskEnds(w)
  \/ Redact \/ \E present \in BOOLEAN : Confirm(present)
  \/ RunStep \/ Blocked \/ Kill

Retry == (Redact /\ file = "store" /\ text = "new") \/ Confirm(TRUE)

\* A call that has begun goes on; the exporter runs; the operator, once the
\* memory is redacted, retries: redact for the store, and for an index
\* scrub-index with the right --export-dir.
Fairness ==
  /\ \A w \in Processes : WF_vars(TaskStep(w))
  /\ WF_vars(Export /\ exported # Wanted)
  /\ WF_vars(RunStep)
  /\ SF_vars(Retry)

Spec == Init /\ [][Next]_vars /\ Fairness

----------------------------------------------------------------------------
TypeOK ==
  /\ file \in Files
  /\ text \in Texts
  /\ place \in Paths
  /\ exported \in [Paths -> Texts \cup {None}]
  /\ mtime \in [Paths -> 0 .. clock]
  /\ clock \in Nat \ {0}
  /\ rows \in [Paths -> SUBSET Texts]
  /\ known \in [Paths -> Nat]
  /\ residue \subseteq Residues
  /\ task \in [Processes -> Task]
  /\ run \in Run
  /\ faults \in 0 .. MaxFaults
  /\ reported \in BOOLEAN /\ withheld \in BOOLEAN

\* Once a redaction, the first run or a rerun that answers `unchanged`, has
\* reported its physical scrub complete, no byte or token of the old text is in
\* the store's files: the order rebuild, checkpoint, VACUUM, checkpoint leaves
\* no copy behind, whichever steps had failed before.  The text is that of the
\* memory's own row: a copy another candidate brings in under load, which the
\* redaction of the store misses (Redaction's CopiesGone), is outside it.
StoreClean == reported /\ file = "store" => residue = {}

\* Once a scrub of the indexes is reported complete that read the export after
\* the exporter had rewritten it, with no process holding the old text, no row,
\* freed page, token or log of an index holds it, and none ever will again,
\* with refreshes and reindexes running all the time.
Confirmed == reported /\ file # "store" => residue = {} /\ ~HasOld

\* Rows of the redacted memory that a redact run took out of a native index
\* that was up to date do not come back, though the export still holds the old
\* text: the files row that is kept stops a refresh from reading it.
Withheld == withheld => ~HasOld

\* A redacted text is eventually out of every file, however the operator's runs
\* were blocked or killed and whatever refreshes and reindexes put back.
EventuallyScrubbed == text = "new" ~> reported
=============================================================================
