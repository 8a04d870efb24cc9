----------------------------- MODULE Redaction -----------------------------
(***************************************************************************)
(* Where the text of a candidate goes, and how it is taken out again.      *)
(*                                                                         *)
(* Intakes store candidates; the curator and the API promote them, each    *)
(* from a copy of the text it read before its checks (curator.ts,          *)
(* promotion-service.ts, promoter.ts); a recovery run may bind a candidate *)
(* to a minimum sensitivity (recovery/sensitivity-constraint.ts); and an   *)
(* operator replaces the text of a memory and of every candidate row that  *)
(* holds a copy (redaction/redact-memory.ts).  A memory keeps its id, which*)
(* is derived from its candidate and the text it was promoted with: the    *)
(* 'redacted' receipts say how it came from that text to the present one.  *)
(*                                                                         *)
(* A narrowing of a memory's audience rewrites the same memory row, so the *)
(* operators are those who redact and those who narrow: one operator means *)
(* that neither happens beside a redaction.  Rows of candidates are not    *)
(* deleted here: the rollback of an import batch is part of HoldQueue and  *)
(* Intake.                                                                 *)
(*                                                                         *)
(* A content hash stands for the text.  The runbook (000-docs/054, 4.6)    *)
(* has the operator stop every process that holds the store: Quiet.        *)
(***************************************************************************)
EXTENDS Integers, Sequences, FiniteSets

CONSTANTS
  Candidates,    \* candidate ids
  Texts,         \* contents, of candidates and replacements
  TextOf,        \* the text each candidate was captured with
  Replacements,  \* the texts an operator may put in the place of another
  Promoters,     \* curators and API calls that promote one candidate at a time
  Intakes,       \* spool ingests and vault imports
  Operators,     \* curator-cli redact, and narrowings of a memory's audience
  Recovering,    \* recovery runs settle selected candidates
  Quiet,         \* a redaction runs while nothing else holds the store
  MaxRedactions, \* bound: redactions committed
  None

ASSUME RedactionAssumption ==
  /\ TextOf \in [Candidates -> Texts]
  /\ Replacements \subseteq Texts
  /\ Recovering \in BOOLEAN /\ Quiet \in BOOLEAN
  /\ MaxRedactions \in Nat
  /\ None \notin Texts /\ None \notin Candidates /\ None \notin BOOLEAN

\* deriveMemoryId(candidate, content hash).
Memories == Candidates \X Texts

Receipt == [old: Texts, new: Texts]

VARIABLES
  row,       \* content of each candidates row, None where there is none
  memory,    \* content of each memory, None where there is none
  floor,     \* content named by the sensitivity constraint of a candidate
  floored,   \* memories stored under a constraint
  rowTrail,  \* 'redacted' receipts of each candidate, in chain order
  memTrail,  \* 'redacted' receipts of each memory, in chain order
  promoter,  \* what each promoter is doing
  intake,    \* the candidate each intake is about to insert, or None
  operator,  \* what each operator is doing
  redactions \* redactions committed so far

vars == <<row, memory, floor, floored, rowTrail, memTrail, promoter, intake,
          operator, redactions>>
trails == <<rowTrail, memTrail>>

\* A promoter keeps the candidate as it read it; at says which checks it has
\* behind it, bound what resolveCandidateMinimumSensitivity told it (None: it
\* has not asked yet).
Work == [at: {"read", "unique", "cleared"}, id: Candidates, text: Texts,
         bound: BOOLEAN \cup {None}]

\* An operator keeps the memory as it read it, what it will write and, once
\* it has listed them, the candidate rows to rewrite with it.
Edit == [at: {"planned", "listed"}, id: Memories, old: Texts, new: Texts,
         copies: SUBSET Candidates]

----------------------------------------------------------------------------
Removed ==
  {r \in Texts :
     \/ \E m \in Memories : \E i \in DOMAIN memTrail[m] : memTrail[m][i].old = r
     \/ \E c \in Candidates : \E i \in DOMAIN rowTrail[c] : rowTrail[c][i].old = r}

\* findByContentHashAndTenant.
Held(text) == \E m \in Memories : memory[m] = text

\* existsForCandidate.
Admitted(c) == \E t \in Texts : memory[<<c, t>>] # None

\* What a row holds and has held.
ReadAs(c) == {row[c]} \cup {rowTrail[c][i].old : i \in DOMAIN rowTrail[c]}

\* resolveCandidateMinimumSensitivity refuses a constraint that names another
\* content.
Resolvable(c, text) == floor[c] \in {None, text}
Bound(c) == floor[c] # None

Busy == \E o \in Operators : operator[o] # None

\* The store may be used: no operator has asked for quiet.
Open == ~(Quiet /\ Busy)

Silent ==
  /\ \A p \in Promoters : promoter[p] = None
  /\ \A i \in Intakes : intake[i] = None

Init ==
  /\ row = [c \in Candidates |-> None]
  /\ memory = [m \in Memories |-> None]
  /\ floor = [c \in Candidates |-> None]
  /\ floored = {}
  /\ rowTrail = [c \in Candidates |-> <<>>]
  /\ memTrail = [m \in Memories |-> <<>>]
  /\ promoter = [p \in Promoters |-> None]
  /\ intake = [i \in Intakes |-> None]
  /\ operator = [o \in Operators |-> None]
  /\ redactions = 0

----------------------------------------------------------------------------
(* Intake.                                                                 *)

\* The API's intake: id, content hash and redaction receipts are looked up
\* and the row inserted in one immediate transaction.
Propose(c) ==
  /\ Open
  /\ row[c] = None
  /\ \A d \in Candidates : row[d] # TextOf[c]
  /\ TextOf[c] \notin Removed
  /\ row' = [row EXCEPT ![c] = TextOf[c]]
  /\ UNCHANGED <<memory, floor, floored, trails, promoter, intake, operator,
                 redactions>>

\* A spool ingest or an import: the id is looked up, insert() asks for
\* redaction receipts ...
CheckText(i, c) ==
  /\ Open
  /\ intake[i] = None
  /\ row[c] = None
  /\ TextOf[c] \notin Removed
  /\ intake' = [intake EXCEPT ![i] = c]
  /\ UNCHANGED <<row, memory, floor, floored, trails, promoter, operator,
                 redactions>>

\* ... and inserts in a transaction of its own, which fails where the row has
\* come into being since.
Insert(i) ==
  /\ intake[i] # None
  /\ intake' = [intake EXCEPT ![i] = None]
  /\ row' = IF row[intake[i]] = None
            THEN [row EXCEPT ![intake[i]] = TextOf[intake[i]]]
            ELSE row
  /\ UNCHANGED <<memory, floor, floored, trails, promoter, operator, redactions>>

----------------------------------------------------------------------------
(* Promotion.                                                              *)

\* A candidate is taken up with the text it was read with.  A batch reads all
\* it will govern before the first, so the row may have been redacted since.
TakeUp(p, c, text) ==
  /\ Open
  /\ promoter[p] = None
  /\ row[c] # None
  /\ text \in IF Quiet THEN {row[c]} ELSE ReadAs(c)
  /\ promoter' = [promoter EXCEPT ![p] =
       [at |-> "read", id |-> c, text |-> text, bound |-> None]]
  /\ UNCHANGED <<row, memory, floor, floored, trails, intake, operator,
                 redactions>>

\* Mutant: the duplicate check looks at nothing.
CheckDuplicateUnasked(p) ==
  /\ promoter[p] # None /\ promoter[p].at = "read"
  /\ promoter' = [promoter EXCEPT ![p].at = "unique"]
  /\ UNCHANGED <<row, memory, floor, floored, trails, intake, operator,
                 redactions>>

\* checkDuplicate: no memory holds the text now.
CheckDuplicate(p) ==
  /\ promoter[p] # None /\ promoter[p].at = "read"
  /\ ~Held(promoter[p].text)
  /\ promoter' = [promoter EXCEPT ![p].at = "unique"]
  /\ UNCHANGED <<row, memory, floor, floored, trails, intake, operator,
                 redactions>>

\* Mutant: the receipts are not asked.
CheckRedactedUnasked(p) ==
  /\ promoter[p] # None /\ promoter[p].at = "unique"
  /\ promoter' = [promoter EXCEPT ![p].at = "cleared"]
  /\ UNCHANGED <<row, memory, floor, floored, trails, intake, operator,
                 redactions>>

\* findRedactionByOldContentHash: no receipt names the text.
CheckRedacted(p) ==
  /\ promoter[p] # None /\ promoter[p].at = "unique"
  /\ promoter[p].text \notin Removed
  /\ promoter' = [promoter EXCEPT ![p].at = "cleared"]
  /\ UNCHANGED <<row, memory, floor, floored, trails, intake, operator,
                 redactions>>

\* The constraint is resolved, by the curator before the checks and by the API
\* after them; one that names another content throws.
Resolve(p) ==
  /\ promoter[p] # None /\ promoter[p].bound = None
  /\ Resolvable(promoter[p].id, promoter[p].text)
  /\ promoter' = [promoter EXCEPT ![p].bound = Bound(promoter[p].id)]
  /\ UNCHANGED <<row, memory, floor, floored, trails, intake, operator,
                 redactions>>

\* Mutant: the constraint is taken as the gate saw it.
PromoteUnresolved(p) ==
  /\ promoter[p] # None /\ promoter[p].at = "cleared" /\ promoter[p].bound # None
  /\ LET w == promoter[p]  m == <<w.id, w.text>> IN
     /\ memory[m] = None
     /\ memory' = [memory EXCEPT ![m] = w.text]
     /\ floored' = IF w.bound THEN floored \cup {m} ELSE floored
  /\ promoter' = [promoter EXCEPT ![p] = None]
  /\ UNCHANGED <<row, floor, trails, intake, operator, redactions>>

\* Mutant: the text is read again under the lock, the id is not derived again.
PromoteReread(p) ==
  /\ promoter[p] # None /\ promoter[p].at = "cleared"
  /\ LET w == promoter[p]  m == <<w.id, w.text>> IN
     /\ Resolvable(w.id, w.text)
     /\ Bound(w.id) = w.bound
     /\ memory[m] = None
     /\ memory' = [memory EXCEPT ![m] = row[w.id]]
     /\ floored' = IF w.bound THEN floored \cup {m} ELSE floored
  /\ promoter' = [promoter EXCEPT ![p] = None]
  /\ UNCHANGED <<row, floor, trails, intake, operator, redactions>>

\* promote(): the constraint is resolved again under the lock, the memory
\* inserted; another constraint or an id that exists rolls it back.
Promote(p) ==
  /\ promoter[p] # None /\ promoter[p].at = "cleared"
  /\ LET w == promoter[p]  m == <<w.id, w.text>> IN
     /\ Resolvable(w.id, w.text)
     /\ Bound(w.id) = w.bound
     /\ memory[m] = None
     /\ memory' = [memory EXCEPT ![m] = w.text]
     /\ floored' = IF w.bound THEN floored \cup {m} ELSE floored
  /\ promoter' = [promoter EXCEPT ![p] = None]
  /\ UNCHANGED <<row, floor, trails, intake, operator, redactions>>

\* A check or the policy refuses, promote() throws, or the process is killed.
GiveUp(p) ==
  /\ promoter[p] # None
  /\ promoter' = [promoter EXCEPT ![p] = None]
  /\ UNCHANGED <<row, memory, floor, floored, trails, intake, operator,
                 redactions>>

\* governSelectedCandidates: one immediate transaction validates the
\* selection, records the constraint it carries, runs the whole gate and
\* promotes what passes it.
Settle(c, constrain, passes) ==
  /\ Recovering /\ Open
  /\ row[c] # None
  /\ ~Admitted(c)
  /\ Resolvable(c, row[c])
  /\ floor' = IF constrain THEN [floor EXCEPT ![c] = row[c]] ELSE floor
  /\ IF passes /\ ~Held(row[c]) /\ row[c] \notin Removed
     THEN /\ memory' = [memory EXCEPT ![<<c, row[c]>>] = row[c]]
          /\ floored' = IF floor'[c] # None
                        THEN floored \cup {<<c, row[c]>>} ELSE floored
     ELSE UNCHANGED <<memory, floored>>
  /\ UNCHANGED <<row, trails, promoter, intake, operator, redactions>>

----------------------------------------------------------------------------
(* Redaction.                                                              *)

\* redactMemory, or narrowAudience, reads the memory and plans its row.  A change
\* of the title or of the audience alone leaves the content as it is.
Plan(o, m, new) ==
  /\ operator[o] = None
  /\ Quiet => Silent
  /\ memory[m] # None
  /\ new \in Replacements \cup {memory[m]}
  /\ operator' = [operator EXCEPT ![o] =
       [at |-> "planned", id |-> m, old |-> memory[m], new |-> new,
        copies |-> {}]]
  /\ UNCHANGED <<row, memory, floor, floored, trails, promoter, intake,
                 redactions>>

\* Mutant: only the row the memory came from.
ListSource(o) ==
  /\ operator[o] # None /\ operator[o].at = "planned"
  /\ operator' = [operator EXCEPT ![o].at = "listed",
       ![o].copies = {operator[o].id[1]}]
  /\ UNCHANGED <<row, memory, floor, floored, trails, promoter, intake,
                 redactions>>

\* candidateCopies: the row the memory came from, and every row with the hash
\* of the old content.
ListCopies(o) ==
  /\ operator[o] # None /\ operator[o].at = "planned"
  /\ operator' = [operator EXCEPT ![o].at = "listed",
       ![o].copies = {c \in Candidates :
          row[c] # None /\ (c = operator[o].id[1] \/ row[c] = operator[o].old)}]
  /\ UNCHANGED <<row, memory, floor, floored, trails, promoter, intake,
                 redactions>>

\* Mutant: a receipt for the row the memory came from, none for the others.
RedactUntold(o) ==
  /\ operator[o] # None /\ operator[o].at = "listed"
  /\ redactions < MaxRedactions
  /\ redactions' = redactions + 1
  /\ LET e == operator[o]  c == e.id[1] IN
     /\ memory' = [memory EXCEPT ![e.id] = e.new]
     /\ memTrail' = [memTrail EXCEPT ![e.id] =
                       Append(@, [old |-> e.old, new |-> e.new])]
     /\ row' = [d \in Candidates |-> IF d \in e.copies THEN e.new ELSE row[d]]
     /\ rowTrail' = [rowTrail EXCEPT ![c] =
                       Append(@, [old |-> row[c], new |-> e.new])]
  /\ operator' = [operator EXCEPT ![o] = None]
  /\ UNCHANGED <<floor, floored, promoter, intake>>

\* One immediate transaction: the memory row as planned, its receipt, and
\* each listed candidate row, read again, with a receipt of its own.
Redact(o) ==
  /\ operator[o] # None /\ operator[o].at = "listed"
  /\ redactions < MaxRedactions
  /\ redactions' = redactions + 1
  /\ LET e == operator[o] IN
     /\ memory' = [memory EXCEPT ![e.id] = e.new]
     /\ memTrail' = [memTrail EXCEPT ![e.id] =
                       Append(@, [old |-> e.old, new |-> e.new])]
     /\ row' = [c \in Candidates |-> IF c \in e.copies THEN e.new ELSE row[c]]
     /\ rowTrail' = [c \in Candidates |->
          IF c \in e.copies
          THEN Append(rowTrail[c], [old |-> row[c], new |-> e.new])
          ELSE rowTrail[c]]
  /\ operator' = [operator EXCEPT ![o] = None]
  /\ UNCHANGED <<floor, floored, promoter, intake>>

\* narrowAudience: the whole row is written back as it was read, the audience
\* apart; the 'audience_narrowed' receipt says nothing of the content.
Narrow(o) ==
  /\ operator[o] # None /\ operator[o].at = "planned"
  /\ memory' = [memory EXCEPT ![operator[o].id] = operator[o].old]
  /\ operator' = [operator EXCEPT ![o] = None]
  /\ UNCHANGED <<row, floor, floored, trails, promoter, intake, redactions>>

\* A refusal, a dry run, or a kill before the transaction.
Withdraw(o) ==
  /\ operator[o] # None
  /\ operator' = [operator EXCEPT ![o] = None]
  /\ UNCHANGED <<row, memory, floor, floored, trails, promoter, intake,
                 redactions>>

----------------------------------------------------------------------------
Next ==
  \/ \E c \in Candidates : Propose(c)
  \/ \E i \in Intakes, c \in Candidates : CheckText(i, c)
  \/ \E i \in Intakes : Insert(i)
  \/ \E p \in Promoters, c \in Candidates, text \in Texts : TakeUp(p, c, text)
  \/ \E p \in Promoters : Resolve(p)
  \/ \E p \in Promoters : CheckDuplicate(p)
  \/ \E p \in Promoters : CheckRedacted(p)
  \/ \E p \in Promoters : Promote(p)
  \/ \E p \in Promoters : GiveUp(p)
  \/ \E c \in Candidates, constrain, passes \in BOOLEAN :
       Settle(c, constrain, passes)
  \/ \E o \in Operators, m \in Memories, new \in Texts : Plan(o, m, new)
  \/ \E o \in Operators : ListCopies(o)
  \/ \E o \in Operators : Redact(o)
  \/ \E o \in Operators : Narrow(o)
  \/ \E o \in Operators : Withdraw(o)

Spec == Init /\ [][Next]_vars

----------------------------------------------------------------------------
(* Properties.                                                             *)

\* Every variable keeps its type; a memory keeps the id it was promoted with.
TypeOK ==
  /\ row \in [Candidates -> Texts \cup {None}]
  /\ memory \in [Memories -> Texts \cup {None}]
  /\ floor \in [Candidates -> Texts \cup {None}]
  /\ floored \subseteq Memories
  /\ rowTrail \in [Candidates -> Seq(Receipt)]
  /\ memTrail \in [Memories -> Seq(Receipt)]
  /\ promoter \in [Promoters -> Work \cup {None}]
  /\ intake \in [Intakes -> Candidates \cup {None}]
  /\ operator \in [Operators -> Edit \cup {None}]
  /\ redactions \in 0..MaxRedactions

\* With one promoter and any number of operators, a content is promoted only
\* once, although a redaction may change the hash it is looked up by between
\* any two of the promoter's checks: the memories are asked first, the
\* receipts after them.
OneMemory ==
  \A m, n \in Memories :
    memory[m] # None /\ memory[n] # None /\ m[2] = n[2] => m = n

\* A memory is stored under the constraint its candidate has: one recorded
\* while a promotion was in flight makes that promotion start again, and none
\* is recorded for a candidate that is already in.
ConstraintKept ==
  \A m \in Memories : memory[m] # None => (m \in floored <=> Bound(m[1]))

\* Texts no operator writes: a memory or a row can have them only from a
\* capture.
Captured == Texts \ Replacements

\* A redaction took this text out of a memory.
TakenOut(text) ==
  \E m \in Memories : \E i \in DOMAIN memTrail[m] :
    memTrail[m][i].old = text /\ memTrail[m][i].new # text

\* With one promoter and one operator (no second redaction, and no narrowing,
\* while one is planned), a text that was taken out is in no memory any more: not
\* by a re-ingest, not by a promotion that had read the candidate before, not by
\* a redaction planned on the old row.
StaysGone ==
  \A text \in Captured : TakenOut(text) => ~Held(text)

\* On a quiet store with one operator, a text that was taken out and is in no
\* memory is in no candidates row either.
CopiesGone ==
  \A text \in Texts :
    TakenOut(text) /\ ~Held(text) => \A c \in Candidates : row[c] # text

\* What provenance-walk checks: the receipts lead from the content the id was
\* derived from, each from where the one before it ended, to the content of
\* today.
Leads(trail, from, to) ==
  IF trail = <<>> THEN from = to
  ELSE /\ trail[1].old = from
       /\ \A i \in 2..Len(trail) : trail[i].old = trail[i - 1].new
       /\ trail[Len(trail)].new = to

\* With one operator the history of every memory and of every candidate row
\* is accounted for by its receipts.
TrailTrue ==
  /\ \A m \in Memories : memory[m] # None => Leads(memTrail[m], m[2], memory[m])
  /\ \A c \in Candidates : row[c] # None => Leads(rowTrail[c], TextOf[c], row[c])

\* With one promoter and one operator the checks, lists and writes of all
\* processes are as good as single moments: a text enters a memory unused, out of
\* a row that says or said it, and changes together with that row, and the
\* receipts name what the change replaced.
Words == INSTANCE Wording WITH Own <- Captured

ImplementsWording == Words!WordSpec

============================================================================
