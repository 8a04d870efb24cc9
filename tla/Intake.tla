------------------------------- MODULE Intake -------------------------------
(***************************************************************************)
(* From a captured line to a decision: sessions append candidates to spool *)
(* files, producers drop whole batch files with a receipt, daemons and the *)
(* ingest command store what they find and hand it to the curator          *)
(* (spool-intake.ts, edge-daemon/cycle.ts, cmdIngest), vault imports store *)
(* candidates of their own (import-pipeline.ts), batches are rolled back,  *)
(* and the nightly sweep drains the inbox.  All are processes of their own *)
(* over one spool and one database; every statement commits by itself.     *)
(*                                                                         *)
(* The daemon and the ingest command leave spool files in place and read   *)
(* them again every time; the candidate ids tell what is known.  Candidate *)
(* ids are content-derived: one candidate is one content here.             *)
(*                                                                         *)
(* The nightly sweep is not in the repository: candidate-repository.ts     *)
(* (findByStatus, updateStatus) and the runbooks say what it does.         *)
(***************************************************************************)
EXTENDS Integers, Sequences, FiniteSets

CONSTANTS
  Candidates,  \* candidates
  Captures,    \* spool files of sessions
  Receipts,    \* spool files with a batch receipt
  Sorted,      \* the spool files in the order of their names
  Vaults,      \* vault imports, each one process and one batch
  LinesOf,     \* the candidates of each file or vault, in order
  Refused,     \* candidates the disclosure check refuses
  Admitted,    \* candidates the gates and the policy let become memories
  Daemons,     \* edge daemons
  Commands,    \* runs of `curator-cli ingest`
  SweepInstalled,  \* the nightly sweep runs
  Cap,         \* maxCandidatesPerCycle
  MaxBeside,   \* bound: commands and imports at one time
  MaxFaults    \* bound: kills, unreadable files, failing batches and rollbacks

Files == Captures \cup Receipts
Batches == Receipts \cup Vaults
Ingesters == Daemons \cup Commands
Processes == Ingesters \cup Vaults

NoRow == "no row"
NoBatch == "no batch"
NoFile == "no file"

AFiles  == /\ Captures \cap Receipts = {}
           /\ Sorted \in Seq(Files) /\ \A f \in Files : \E i \in DOMAIN Sorted : Sorted[i] = f
ALines  == LinesOf \in [Files \cup Vaults -> Seq(Candidates)]
AFinite == IsFiniteSet(Candidates)
AKinds  == /\ Daemons \cap Commands = {} /\ Ingesters \cap Vaults = {}
           /\ Vaults \cap Files = {} /\ SweepInstalled \in BOOLEAN
ANames  == {NoRow, NoBatch, NoFile} \cap (Files \cup Vaults) = {}
ABounds == Cap \in Nat /\ MaxBeside \in Nat /\ MaxFaults \in Nat

ASSUME IntakeAssumption == AFiles /\ ALines /\ AFinite /\ AKinds /\ ANames /\ ABounds

VARIABLES
  spool,    \* the number of lines of each spool file
  row,      \* the import_batch_id of each candidate's row
  inbox,    \* candidates whose row says 'inbox'
  ledger,   \* import_batches
  task,     \* what each process is doing
  undoing,  \* batches whose rollback has deleted rows and not marked them yet
  decided,  \* candidates the curator has decided on
  deleted,  \* candidates whose row a rollback deleted
  faults    \* kills, unreadable files, failing batches and rollbacks so far

vars == <<spool, row, inbox, ledger, task, undoing,
          decided, deleted, faults>>
store == <<row, inbox>>
batches == <<ledger, undoing, deleted>>

Stored(c) == row[c] # NoRow

\* The candidates with a memory.  The policy stays as it is, so its verdict is
\* one of the content.
memory == decided \cap Admitted

Line(s, n) == LinesOf[s][n]
NoCount == [created |-> 0, rejected |-> 0, skipped |-> 0]
Idle == [step |-> "idle", files |-> {}, at |-> NoFile, upto |-> 0, next |-> 1,
         existing |-> FALSE, count |-> NoCount, fresh |-> <<>>]

Init ==
  /\ spool = [f \in Files |-> 0]
  /\ row = [c \in Candidates |-> NoRow]
  /\ inbox = {}
  /\ ledger = [b \in Batches |-> [status |-> "none", count |-> NoCount]]
  /\ task = [p \in Processes |-> Idle]
  /\ undoing = {}
  /\ decided = {}
  /\ deleted = {}
  /\ faults = 0

----------------------------------------------------------------------------
(* The spool.                                                              *)

\* writeToSpool appends one line.
Capture(f) ==
  /\ f \in Captures
  /\ spool[f] < Len(LinesOf[f])
  /\ spool' = [spool EXCEPT ![f] = @ + 1]
  /\ UNCHANGED <<store, decided, batches, task, faults>>

\* A producer puts a batch file and its manifest in place.
Drop(f) ==
  /\ f \in Receipts
  /\ spool[f] = 0
  /\ LinesOf[f] # <<>>
  /\ spool' = [spool EXCEPT ![f] = Len(LinesOf[f])]
  /\ UNCHANGED <<store, decided, batches, task, faults>>

----------------------------------------------------------------------------
(* Storing candidates.                                                     *)

Step(p, s) == task[p].step = s

\* Commands and imports are started one at a time, up to a bound.
MayBegin(p) ==
  /\ Step(p, "idle")
  /\ \/ p \in Daemons
     \/ Cardinality({q \in Commands \cup Vaults : ~Step(q, "idle")}) < MaxBeside

\* listSpoolFiles
BeginCycle(p) ==
  /\ p \in Ingesters
  /\ MayBegin(p)
  /\ task' = [task EXCEPT ![p].step = "file",
                          ![p].files = {f \in Files : spool[f] > 0}]
  /\ UNCHANGED <<spool, store, decided, batches, faults>>

IsFirst(f, files) ==
  f \in files /\ \E i \in DOMAIN Sorted :
    Sorted[i] = f /\ \A j \in 1..(i - 1) : Sorted[j] \notin files

\* The lines of the next file are read, and its batch is entered in the
\* ledger unless it is there already.
OpenFile(p) ==
  /\ Step(p, "file")
  /\ \E f \in task[p].files :
       /\ IsFirst(f, task[p].files)
       /\ task' = [task EXCEPT
            ![p].step = "look", ![p].files = @ \ {f}, ![p].at = f,
            ![p].upto = spool[f], ![p].next = 1, ![p].count = NoCount,
            ![p].existing = f \in Receipts /\ ledger[f].status # "none"]
       /\ ledger' = IF f \in Receipts /\ ledger[f].status = "none"
                    THEN [ledger EXCEPT ![f].status = "active"] ELSE ledger
  /\ UNCHANGED <<spool, store, decided, undoing, deleted, faults>>

\* executeImport: a new batch, then the files of the vault.
BeginImport(v) ==
  /\ v \in Vaults
  /\ MayBegin(v)
  /\ ledger[v].status = "none"
  /\ ledger' = [ledger EXCEPT ![v].status = "active"]
  /\ task' = [task EXCEPT ![v].step = "look", ![v].at = v,
                          ![v].upto = Len(LinesOf[v])]
  /\ UNCHANGED <<spool, store, decided, undoing, deleted, faults>>

This(p) == Line(task[p].at, task[p].next)

\* findById; the vault import looks for the content in the memories as well.
Known(p) == Stored(This(p)) \/ (p \in Vaults /\ This(p) \in memory)

Look(p) ==
  /\ Step(p, "look")
  /\ task[p].next <= task[p].upto
  /\ task' = IF Known(p)
             THEN [task EXCEPT ![p].next = @ + 1, ![p].count.skipped = @ + 1]
             ELSE [task EXCEPT ![p].step = "insert"]
  /\ UNCHANGED <<spool, store, decided, batches, faults>>

BatchOf(p) == IF task[p].at \in Batches THEN task[p].at ELSE NoBatch

\* Mutant: INSERT OR REPLACE.
InsertReplace(p) ==
  /\ Step(p, "insert")
  /\ This(p) \notin Refused
  /\ row' = [row EXCEPT ![This(p)] = BatchOf(p)]
  /\ inbox' = inbox \cup {This(p)}
  /\ task' = [task EXCEPT ![p].step = "look", ![p].next = @ + 1,
                          ![p].count.created = @ + 1,
                          ![p].fresh = Append(@, This(p))]
  /\ UNCHANGED <<spool, decided, batches, faults>>

\* insert(): the row is written and the candidate is one of those to hand on.
Insert(p) ==
  /\ Step(p, "insert")
  /\ This(p) \notin Refused
  /\ ~Stored(This(p))
  /\ row' = [row EXCEPT ![This(p)] = BatchOf(p)]
  /\ inbox' = inbox \cup {This(p)}
  /\ task' = [task EXCEPT ![p].step = "look", ![p].next = @ + 1,
                          ![p].count.created = @ + 1,
                          ![p].fresh = Append(@, This(p))]
  /\ UNCHANGED <<spool, decided, batches, faults>>

Reject(p) ==
  task' = [task EXCEPT ![p].step = "look", ![p].next = @ + 1,
                       ![p].count.rejected = @ + 1]

\* insert() throws DisclosureRejectedError.
Refuse(p) ==
  /\ Step(p, "insert")
  /\ This(p) \in Refused
  /\ Reject(p)
  /\ UNCHANGED <<spool, store, decided, batches, faults>>

\* Mutant: every error of an insert is passed over.
CollideContinues(p) ==
  /\ Step(p, "insert")
  /\ This(p) \notin Refused
  /\ Stored(This(p))
  /\ task' = [task EXCEPT ![p].step = "look", ![p].next = @ + 1]
  /\ UNCHANGED <<spool, store, decided, batches, faults>>

\* Another process stored the candidate since it was looked for: the insert
\* breaks the primary key.  The import counts an error; an ingest ends, and
\* what it had stored is handed to nobody.
Collide(p) ==
  /\ Step(p, "insert")
  /\ This(p) \notin Refused
  /\ Stored(This(p))
  /\ IF p \in Vaults THEN Reject(p) ELSE task' = [task EXCEPT ![p] = Idle]
  /\ UNCHANGED <<spool, store, decided, batches, faults>>

Read(p) == Step(p, "look") /\ task[p].next > task[p].upto

\* updateCounts and complete, by the run that entered the batch.
CloseFile(p) ==
  /\ Read(p)
  /\ ledger' = IF BatchOf(p) # NoBatch /\ ~task[p].existing
               THEN [ledger EXCEPT ![BatchOf(p)] =
                       [status |-> "completed", count |-> task[p].count]]
               ELSE ledger
  /\ task' = IF p \in Vaults THEN [task EXCEPT ![p] = Idle]
             ELSE [task EXCEPT ![p] = [Idle EXCEPT !.step = "file",
                      !.files = task[p].files, !.fresh = task[p].fresh]]
  /\ UNCHANGED <<spool, store, decided, undoing, deleted, faults>>

----------------------------------------------------------------------------
(* Deciding on candidates.                                                 *)

\* What the ingest returned goes to the curator: from the daemon at most Cap
\* candidates, the rest of them is left where it is.
HandedOn(p) ==
  IF p \in Daemons /\ Len(task[p].fresh) > Cap
  THEN SubSeq(task[p].fresh, 1, Cap) ELSE task[p].fresh

Hand(p, fresh) ==
  task' = [task EXCEPT ![p] =
    IF fresh = <<>> THEN Idle ELSE [Idle EXCEPT !.step = "curate", !.fresh = fresh]]

BeginCurate(p) ==
  /\ Step(p, "file")
  /\ task[p].files = {}
  /\ Hand(p, HandedOn(p))
  /\ UNCHANGED <<spool, store, decided, batches, faults>>

\* Mutant: the candidate's row is written back with the verdict.
DecideStamps(p) ==
  /\ Step(p, "curate")
  /\ decided' = decided \cup {Head(task[p].fresh)}
  /\ inbox' = inbox \cup {Head(task[p].fresh)}
  /\ Hand(p, Tail(task[p].fresh))
  /\ UNCHANGED <<spool, row, batches, faults>>

\* processSingle: the candidate is a duplicate, is turned down, or becomes a
\* memory.  Its row goes on saying 'inbox'.
Decide(p) ==
  /\ Step(p, "curate")
  /\ decided' = decided \cup {Head(task[p].fresh)}
  /\ Hand(p, Tail(task[p].fresh))
  /\ UNCHANGED <<spool, store, batches, faults>>

\* Mutant: candidates of a batch are left to the ingest that stored them.
SweepPlain ==
  /\ \E c \in inbox :
       /\ row[c] = NoBatch
       /\ decided' = decided \cup {c}
       /\ inbox' = inbox \ {c}
  /\ UNCHANGED <<spool, row, task, batches, faults>>

\* The sweep decides on a candidate of the inbox and stamps its row.
Sweep ==
  /\ \E c \in inbox :
       /\ decided' = decided \cup {c}
       /\ inbox' = inbox \ {c}
  /\ UNCHANGED <<spool, row, task, batches, faults>>

----------------------------------------------------------------------------
(* Rolling a batch back.                                                   *)

RowsOf(b) == {c \in Candidates : row[c] = b}

\* rollbackImport deletes the candidates of the batch, whatever became of them...
RollbackRows(b) ==
  /\ faults < MaxFaults
  /\ ledger[b].status \in {"active", "completed"}
  /\ row' = [c \in Candidates |-> IF row[c] = b THEN NoRow ELSE row[c]]
  /\ inbox' = inbox \ RowsOf(b)
  /\ undoing' = undoing \cup {b}
  /\ deleted' = deleted \cup RowsOf(b)
  /\ faults' = faults + 1
  /\ UNCHANGED <<spool, decided, ledger, task>>

\* ... and then marks the batch.
RollbackMark(b) ==
  /\ b \in undoing
  /\ undoing' = undoing \ {b}
  /\ ledger' = [ledger EXCEPT ![b].status = "rolled_back"]
  /\ UNCHANGED <<spool, store, decided, task, deleted, faults>>

----------------------------------------------------------------------------
(* Faults.                                                                 *)

\* The process is killed, or its batch throws (a busy database, a promotion
\* another process made first).
Kill(p) ==
  /\ faults < MaxFaults
  /\ ~Step(p, "idle")
  /\ faults' = faults + 1
  /\ task' = [task EXCEPT ![p] = Idle]
  /\ UNCHANGED <<spool, store, decided, batches>>

\* A file that cannot be read or verified this time is passed over.
SkipFile(p) ==
  /\ faults < MaxFaults
  /\ Step(p, "file")
  /\ faults' = faults + 1
  /\ \E f \in task[p].files :
       /\ IsFirst(f, task[p].files)
       /\ task' = [task EXCEPT ![p].files = @ \ {f}]
  /\ UNCHANGED <<spool, store, decided, batches>>

Advance(p) ==
  \/ OpenFile(p) \/ Look(p) \/ Insert(p) \/ Refuse(p) \/ Collide(p)
  \/ CloseFile(p) \/ BeginCurate(p) \/ Decide(p)

Next ==
  \/ \E f \in Files : Capture(f) \/ Drop(f)
  \/ SweepInstalled /\ Sweep
  \/ \E p \in Processes :
       \/ BeginCycle(p) \/ BeginImport(p)
       \/ Advance(p) \/ Kill(p) \/ SkipFile(p)
  \/ \E b \in Batches : RollbackRows(b) \/ RollbackMark(b)

\* The daemon polls and its cycles go on; the sweep comes again every night.
\* Nothing is assumed of the other processes.
Fairness ==
  /\ \A d \in Daemons : WF_vars(BeginCycle(d) \/ Advance(d))
  /\ WF_vars(SweepInstalled /\ Sweep)

Spec == Init /\ [][Next]_vars /\ Fairness

----------------------------------------------------------------------------
(* Properties.                                                             *)

Lines == UNION {1..Len(LinesOf[s]) : s \in Files \cup Vaults}
Count == [created: {0} \cup Lines, rejected: {0} \cup Lines, skipped: {0} \cup Lines]
Task ==
  [step: {"idle", "file", "look", "insert", "curate"},
   files: SUBSET Files, at: Files \cup Vaults \cup {NoFile},
   upto: {0} \cup Lines, next: Nat, existing: BOOLEAN, count: Count,
   fresh: Seq(Candidates)]
Statuses == {"none", "active", "completed", "rolled_back"}

TypeOK ==
  /\ spool \in [Files -> Nat] /\ \A f \in Files : spool[f] <= Len(LinesOf[f])
  /\ row \in [Candidates -> {NoRow, NoBatch} \cup Batches]
  /\ inbox \subseteq {c \in Candidates : Stored(c)}
  /\ decided \subseteq Candidates
  /\ ledger \in [Batches -> [status: Statuses, count: Count]]
  /\ task \in [Processes -> Task]
  /\ undoing \subseteq Batches
  /\ deleted \subseteq Candidates
  /\ faults \in 0..MaxFaults

RangeOf(s) == {s[i] : i \in 1..Len(s)}

\* A candidate is in the hands of one ingest only: two that read the same
\* spool at once never both take it for new, unless a rollback deleted its row
\* in between (spool-intake.ts 315-335: the row decides).
HandedOnce ==
  \A p, q \in Ingesters :
    p # q => RangeOf(task[p].fresh) \cap RangeOf(task[q].fresh) \subseteq deleted

\* The ledger is true of a completed batch: its counts add up to the lines of
\* its file, what it claims to have created is there under its id, and no line
\* is missing from the store but what was refused or rolled back, whatever
\* other ingests, crashes and reruns there were (import_batches).
LedgerTrue ==
  \A b \in Batches :
    ledger[b].status = "completed" =>
      LET count == ledger[b].count IN
      /\ count.created + count.rejected + count.skipped = Len(LinesOf[b])
      /\ count.created <= Cardinality(RowsOf(b) \cup deleted)
      /\ \A i \in 1..Len(LinesOf[b]) :
           Stored(Line(b, i)) \/ Line(b, i) \in Refused \cup deleted

\* No capture is lost: every line that is spooled comes to be decided on or
\* is refused, whatever ingests collide, are capped, killed or abandoned.  The
\* nightly sweep is what makes it so; the spool threat model says it of the
\* daemon alone ("excess waits for next cycle", row D2).
Captured(c) == \E f \in Files : \E i \in 1..spool[f] : Line(f, i) = c

EveryCaptureDecided ==
  <>[](\A c \in Candidates \ Refused : Captured(c) => c \in decided)
=============================================================================
