--------------------------- MODULE Intake_proofs ---------------------------
(***************************************************************************)
(* Safety of the intake for any spool, any number of daemons, commands and *)
(* imports, and any number of kills and rollbacks.                         *)
(***************************************************************************)
EXTENDS Intake, FiniteSetTheorems, SequenceTheorems, TLAPS

----------------------------------------------------------------------------
(* What one step makes of a task.                                          *)

Sum(t) == t.count.created + t.count.rejected + t.count.skipped

\* A line that is passed over or turned down is counted.
LEMMA SkippedTask ==
  ASSUME NEW t \in Task, t.count.skipped + 1 \in Lines
  PROVE  LET u == [t EXCEPT !.next = @ + 1, !.count.skipped = @ + 1] IN
         /\ u \in Task /\ u.step = t.step /\ u.files = t.files /\ u.at = t.at
         /\ u.upto = t.upto /\ u.next = t.next + 1 /\ u.fresh = t.fresh
         /\ u.existing = t.existing /\ u.count.created = t.count.created
         /\ Sum(u) = Sum(t) + 1
<1>. DEFINE c == [t.count EXCEPT !.skipped = @ + 1]
            u == [t EXCEPT !.next = @ + 1, !.count = c]
<1>1. /\ t.count.created \in Int /\ t.count.rejected \in Int /\ t.count.skipped \in Int
      /\ t.count \in Count /\ t.next + 1 \in Nat
  BY DEF Task, Count, Lines
<1>2. c \in Count /\ c.created = t.count.created /\ c.rejected = t.count.rejected
      /\ c.skipped = t.count.skipped + 1
  BY <1>1 DEF Count
<1>. HIDE DEF c
<1>3. u \in Task /\ u.count = c /\ u.next = t.next + 1 /\ u.step = t.step
      /\ u.files = t.files /\ u.at = t.at /\ u.upto = t.upto /\ u.fresh = t.fresh
      /\ u.existing = t.existing
  BY <1>1, <1>2 DEF Task
<1>4. Sum(u) = Sum(t) + 1
  <2>. HIDE DEF u
  <2>. QED
    BY <1>1, <1>2, <1>3 DEF Sum
<1>5. u = [t EXCEPT !.next = @ + 1, !.count.skipped = @ + 1]
  BY Zenon DEF c
<1>. QED
  BY <1>2, <1>3, <1>4, <1>5

LEMMA RejectedTask ==
  ASSUME NEW t \in Task, t.count.rejected + 1 \in Lines
  PROVE  LET u == [t EXCEPT !.step = "look", !.next = @ + 1, !.count.rejected = @ + 1] IN
         /\ u \in Task /\ u.step = "look" /\ u.files = t.files /\ u.at = t.at
         /\ u.upto = t.upto /\ u.next = t.next + 1 /\ u.fresh = t.fresh
         /\ u.existing = t.existing /\ u.count.created = t.count.created
         /\ Sum(u) = Sum(t) + 1
<1>. DEFINE c == [t.count EXCEPT !.rejected = @ + 1]
            u == [t EXCEPT !.step = "look", !.next = @ + 1, !.count = c]
<1>1. /\ t.count.created \in Int /\ t.count.rejected \in Int /\ t.count.skipped \in Int
      /\ t.count \in Count /\ t.next + 1 \in Nat
  BY DEF Task, Count, Lines
<1>2. c \in Count /\ c.created = t.count.created /\ c.rejected = t.count.rejected + 1
      /\ c.skipped = t.count.skipped
  BY <1>1 DEF Count
<1>. HIDE DEF c
<1>3. u \in Task /\ u.count = c /\ u.next = t.next + 1 /\ u.step = "look"
      /\ u.files = t.files /\ u.at = t.at /\ u.upto = t.upto /\ u.fresh = t.fresh
      /\ u.existing = t.existing
  BY <1>1, <1>2 DEF Task
<1>4. Sum(u) = Sum(t) + 1
  <2>. HIDE DEF u
  <2>. QED
    BY <1>1, <1>2, <1>3 DEF Sum
<1>5. u = [t EXCEPT !.step = "look", !.next = @ + 1, !.count.rejected = @ + 1]
  BY Zenon DEF c
<1>. QED
  BY <1>2, <1>3, <1>4, <1>5

\* A line that is stored is counted, and its candidate is one to hand on.
LEMMA CreatedTask ==
  ASSUME NEW t \in Task, t.count.created + 1 \in Lines, NEW x \in Candidates
  PROVE  LET u == [t EXCEPT !.step = "look", !.next = @ + 1, !.count.created = @ + 1,
                            !.fresh = Append(@, x)] IN
         /\ u \in Task /\ u.step = "look" /\ u.files = t.files /\ u.at = t.at
         /\ u.upto = t.upto /\ u.next = t.next + 1 /\ u.fresh = Append(t.fresh, x)
         /\ u.existing = t.existing /\ u.count.created = t.count.created + 1
         /\ Sum(u) = Sum(t) + 1
<1>. DEFINE c == [t.count EXCEPT !.created = @ + 1]
            s == Append(t.fresh, x)
            u == [t EXCEPT !.step = "look", !.next = @ + 1, !.count = c, !.fresh = s]
<1>1. /\ t.count.created \in Int /\ t.count.rejected \in Int /\ t.count.skipped \in Int
      /\ t.count \in Count /\ t.next + 1 \in Nat
  BY DEF Task, Count, Lines
<1>2. c \in Count /\ c.created = t.count.created + 1 /\ c.rejected = t.count.rejected
      /\ c.skipped = t.count.skipped
  BY <1>1 DEF Count
<1>3. s \in Seq(Candidates)
  BY AppendProperties DEF Task
<1>. HIDE DEF c, s
<1>4. u \in Task /\ u.count = c /\ u.next = t.next + 1 /\ u.step = "look"
      /\ u.files = t.files /\ u.at = t.at /\ u.upto = t.upto /\ u.fresh = s
      /\ u.existing = t.existing
  BY <1>1, <1>2, <1>3 DEF Task
<1>5. Sum(u) = Sum(t) + 1
  <2>. HIDE DEF u
  <2>. QED
    BY <1>1, <1>2, <1>4 DEF Sum
<1>6. u = [t EXCEPT !.step = "look", !.next = @ + 1, !.count.created = @ + 1,
                    !.fresh = Append(@, x)]
  BY Zenon DEF c, s
<1>. QED
  BY <1>2, <1>4, <1>5, <1>6 DEF s

----------------------------------------------------------------------------
(* Types, and what a process has in hand.                                  *)

\* The lines read so far are counted, and none lies past the end of the file.
Reading(t) ==
  t.step \in {"look", "insert"} =>
    /\ t.at \in Files \cup Vaults
    /\ t.upto <= Len(LinesOf[t.at])
    /\ t.next \in 1..(t.upto + 1)
    /\ t.step = "insert" => t.next <= t.upto
    /\ Sum(t) = t.next - 1

Resting(p, t) ==
  /\ t.step = "idle" => t = Idle
  /\ t.step = "curate" => t.fresh # <<>>
  /\ p \in Vaults => t.step \notin {"file", "curate"}

\* The candidates that have a row, or had one that a rollback deleted.
Homes == {c \in Candidates : Stored(c)} \cup deleted

\* What ingests hold is stored, and no two hold the same.
Hands ==
  /\ HandedOnce
  /\ \A p \in Processes : RangeOf(task[p].fresh) \subseteq Homes

IntakeInv ==
  /\ TypeOK
  /\ \A p \in Processes : Reading(task[p]) /\ Resting(p, task[p])
  /\ Hands
  /\ decided \subseteq Homes

LEMMA Ranges ==
  ASSUME NEW s \in Seq(Candidates)
  PROVE  /\ \A x \in Candidates : RangeOf(Append(s, x)) = RangeOf(s) \cup {x}
         /\ RangeOf(s) \subseteq Candidates
         /\ \A n \in Nat : n < Len(s) => /\ SubSeq(s, 1, n) \in Seq(Candidates)
                                       /\ RangeOf(SubSeq(s, 1, n)) \subseteq RangeOf(s)
         /\ s # <<>> => /\ Head(s) \in RangeOf(s) /\ Tail(s) \in Seq(Candidates)
                        /\ RangeOf(Tail(s)) \subseteq RangeOf(s)
<1>0. Len(s) \in Nat /\ \A i \in 1..Len(s) : s[i] \in Candidates
  OBVIOUS
<1>1. \A x \in Candidates : RangeOf(Append(s, x)) = RangeOf(s) \cup {x}
  <2>1. TAKE x \in Candidates
  <2>2. /\ Len(Append(s, x)) = Len(s) + 1
        /\ \A i \in 1..Len(s) : Append(s, x)[i] = s[i]
        /\ Append(s, x)[Len(s) + 1] = x
    BY AppendProperties
  <2>3. 1..(Len(s) + 1) = 1..Len(s) \cup {Len(s) + 1}
    BY <1>0
  <2>. QED
    BY <2>2, <2>3 DEF RangeOf
<1>2. RangeOf(s) \subseteq Candidates
  BY <1>0 DEF RangeOf
<1>3. ASSUME NEW n \in Nat, n < Len(s)
      PROVE  SubSeq(s, 1, n) \in Seq(Candidates) /\ RangeOf(SubSeq(s, 1, n)) \subseteq RangeOf(s)
  <2>1. /\ SubSeq(s, 1, n) \in Seq(Candidates)
        /\ Len(SubSeq(s, 1, n)) = n
        /\ \A i \in 1..n : SubSeq(s, 1, n)[i] = s[i]
    BY <1>0, <1>3
  <2>. QED
    BY <1>0, <1>3, <2>1 DEF RangeOf
<1>4. ASSUME s # <<>>
      PROVE  /\ Head(s) \in RangeOf(s) /\ Tail(s) \in Seq(Candidates)
             /\ RangeOf(Tail(s)) \subseteq RangeOf(s)
  <2>1. /\ Len(s) > 0 /\ Head(s) = s[1] /\ Tail(s) \in Seq(Candidates)
        /\ Len(Tail(s)) = Len(s) - 1
        /\ \A i \in 1..Len(Tail(s)) : Tail(s)[i] = s[i + 1]
    BY <1>4, HeadTailProperties, EmptySeq
  <2>. QED
    BY <1>0, <2>1 DEF RangeOf
<1>. QED
  BY <1>1, <1>2, <1>3, <1>4

\* A step that moves one process on and takes nothing new in hand.
LEMMA Moved ==
  ASSUME IntakeInv, NEW p \in Processes, NEW u \in Task,
         task' = [task EXCEPT ![p] = u], Reading(u), Resting(p, u),
         RangeOf(u.fresh) \subseteq RangeOf(task[p].fresh),
         Homes \subseteq Homes', deleted \subseteq deleted'
  PROVE  /\ task' \in [Processes -> Task]
         /\ \A q \in Processes : Reading(task'[q]) /\ Resting(q, task'[q])
         /\ Hands'
<1>0. task \in [Processes -> Task]
  BY DEF IntakeInv, TypeOK
<1>1. task'[p] = u /\ \A q \in Processes \ {p} : task'[q] = task[q]
  BY <1>0
<1>2. \A q \in Processes : RangeOf(task'[q].fresh) \subseteq RangeOf(task[q].fresh)
  BY <1>1
<1>3. HandedOnce'
  BY <1>2 DEF IntakeInv, Hands, HandedOnce, Processes
<1>4. Hands'
  BY <1>2, <1>3 DEF IntakeInv, Hands
<1>5. \A q \in Processes : Reading(task'[q]) /\ Resting(q, task'[q])
  BY <1>1 DEF IntakeInv
<1>. QED
  BY <1>0, <1>4, <1>5

LEMMA IdleTask ==
  Idle \in Task /\ Reading(Idle) /\ Idle.fresh = <<>> /\ RangeOf(Idle.fresh) = {}
  /\ \A p \in Processes : Resting(p, Idle)
<1>1. NoCount \in Count
  BY DEF NoCount, Count
<1>2. <<>> \in Seq(Candidates)
  BY EmptySeq
<1>3. Idle \in Task
  BY <1>1, <1>2 DEF Idle, Task
<1>. QED
  BY <1>3 DEF Idle, Reading, Resting, RangeOf

\* A batch is not the mark of a missing row.
LEMMA BatchNames == NoRow \notin {NoBatch} \cup Batches
<1>1. NoRow # NoBatch
  BY DEF NoRow, NoBatch
<1>. QED
  BY <1>1, IntakeAssumption DEF ANames, Batches, Files

LEMMA InitInv == Init => IntakeInv
<1>. SUFFICES ASSUME Init PROVE IntakeInv
  OBVIOUS
<1>1. \A p \in Processes : task[p] = Idle
  BY DEF Init
<1>2. TypeOK
  <2>1. spool \in [Files -> Nat]
        /\ \A f \in Files : spool[f] = 0 /\ Len(LinesOf[f]) \in Nat
    BY IntakeAssumption DEF Init, ALines
  <2>2. row \in [Candidates -> {NoRow, NoBatch} \cup Batches]
    BY DEF Init
  <2>3. ledger \in [Batches -> [status: Statuses, count: Count]]
    BY DEF Init, Statuses, Count, NoCount
  <2>4. task \in [Processes -> Task]
    BY <1>1, IdleTask DEF Init
  <2>5. faults \in 0..MaxFaults
    BY IntakeAssumption DEF Init, ABounds
  <2>. QED
    BY <2>1, <2>2, <2>3, <2>4, <2>5 DEF Init, TypeOK
<1>3. Hands
  BY <1>1, IdleTask DEF Hands, HandedOnce, Processes
<1>. QED
  BY <1>1, <1>2, <1>3, IdleTask DEF IntakeInv, Init

\* The line a process is at is a candidate, and counting it is still a count.
LEMMA LineFacts ==
  ASSUME IntakeInv, NEW p \in Processes,
         task[p].step \in {"look", "insert"}, task[p].next <= task[p].upto
  PROVE  /\ This(p) \in Candidates
         /\ task[p].next \in 1..Len(LinesOf[task[p].at])
         /\ task[p].count.created + 1 \in Lines
         /\ task[p].count.rejected + 1 \in Lines
         /\ task[p].count.skipped + 1 \in Lines
<1>. DEFINE t == task[p]
<1>1. t \in Task /\ Reading(t)
  BY DEF IntakeInv, TypeOK
<1>2. /\ t.at \in Files \cup Vaults /\ t.upto <= Len(LinesOf[t.at])
      /\ t.next \in 1..(t.upto + 1) /\ Sum(t) = t.next - 1
  BY <1>1 DEF Reading
<1>3. LinesOf[t.at] \in Seq(Candidates) /\ Len(LinesOf[t.at]) \in Nat
  BY <1>2, IntakeAssumption DEF ALines
<1>4. /\ t.count.created \in Nat /\ t.count.rejected \in Nat /\ t.count.skipped \in Nat
      /\ t.upto \in Nat /\ t.next \in Nat
  BY <1>1 DEF Task, Count, Lines
<1>. HIDE DEF t
<1>5. t.next \in 1..Len(LinesOf[t.at])
  BY <1>2, <1>3, <1>4 DEF t
<1>6. /\ t.count.created + 1 \in 1..Len(LinesOf[t.at])
      /\ t.count.rejected + 1 \in 1..Len(LinesOf[t.at])
      /\ t.count.skipped + 1 \in 1..Len(LinesOf[t.at])
  <2>1. /\ t.count.created + 1 <= t.next /\ t.count.rejected + 1 <= t.next
        /\ t.count.skipped + 1 <= t.next
    <3>1. \A a, b, c, n \in Nat :
            a + b + c = n - 1 => a + 1 <= n /\ b + 1 <= n /\ c + 1 <= n
      OBVIOUS
    <3>2. t.count.created + t.count.rejected + t.count.skipped = t.next - 1
      BY <1>2 DEF Sum
    <3>. QED
      BY <1>4, <3>1, <3>2
  <2>. DEFINE n == Len(LinesOf[t.at])
  <2>2. n \in Nat /\ t.next <= n
    BY <1>3, <1>5
  <2>. HIDE DEF n
  <2>3. \A k \in Nat : k + 1 <= t.next => k + 1 \in 1..n
    BY <1>4, <2>2
  <2>. QED
    BY <1>4, <2>1, <2>3 DEF n
<1>7. This(p) \in Candidates
  BY <1>3, <1>5 DEF This, Line, t
<1>. QED
  BY <1>2, <1>5, <1>6, <1>7 DEF Lines, t

\* One more line is read.
LEMMA NextLine ==
  ASSUME IntakeInv, NEW p \in Processes,
         task[p].step \in {"look", "insert"}, task[p].next <= task[p].upto,
         NEW u \in Task, u.step = "look", u.at = task[p].at, u.upto = task[p].upto,
         u.next = task[p].next + 1, Sum(u) = Sum(task[p]) + 1
  PROVE  Reading(u) /\ Resting(p, u)
<1>. DEFINE t == task[p]
<1>1. t \in Task /\ Reading(t)
  BY DEF IntakeInv, TypeOK
<1>2. t.upto \in Nat /\ t.next \in Nat
  BY <1>1 DEF Task, Lines
<1>3. Sum(t) = t.next - 1 /\ t.at \in Files \cup Vaults /\ t.upto <= Len(LinesOf[t.at])
  BY <1>1 DEF Reading
<1>. HIDE DEF t
<1>. QED
  BY <1>2, <1>3 DEF Reading, Resting, t

LEMMA LookKeeps ==
  ASSUME IntakeInv, NEW p \in Processes, Look(p)
  PROVE  IntakeInv'
<1>0. task \in [Processes -> Task] /\ task[p] \in Task /\ task[p].step = "look"
      /\ task[p].next <= task[p].upto /\ Reading(task[p])
  BY DEF IntakeInv, TypeOK, Look, Step
<1>1. Homes' = Homes /\ deleted' = deleted /\ decided' = decided
  BY DEF Look, store, batches, Homes, Stored
<1>2. PICK u \in Task :
        /\ task' = [task EXCEPT ![p] = u] /\ Reading(u) /\ Resting(p, u)
        /\ u.fresh = task[p].fresh
  <2>1. CASE Known(p)
    <3>. DEFINE u == [task[p] EXCEPT !.next = @ + 1, !.count.skipped = @ + 1]
    <3>1. task' = [task EXCEPT ![p] = u]
      BY <2>1 DEF Look
    <3>2. /\ u \in Task /\ u.step = task[p].step /\ u.at = task[p].at
          /\ u.upto = task[p].upto /\ u.next = task[p].next + 1
          /\ u.fresh = task[p].fresh /\ Sum(u) = Sum(task[p]) + 1
      BY <1>0, LineFacts, SkippedTask, Zenon
    <3>. HIDE DEF u
    <3>3. Reading(u) /\ Resting(p, u)
      BY <1>0, <3>2, NextLine
    <3>. QED
      BY <3>1, <3>2, <3>3
  <2>2. CASE ~Known(p)
    <3>. DEFINE u == [task[p] EXCEPT !.step = "insert"]
    <3>1. task' = [task EXCEPT ![p] = u]
      BY <2>2 DEF Look
    <3>2. /\ u \in Task /\ u.step = "insert" /\ u.at = task[p].at /\ u.count = task[p].count
          /\ u.upto = task[p].upto /\ u.next = task[p].next /\ u.fresh = task[p].fresh
      BY <1>0 DEF Task
    <3>. HIDE DEF u
    <3>3. Reading(u) /\ Resting(p, u)
      BY <1>0, <3>2 DEF Reading, Resting, Sum
    <3>. QED
      BY <3>1, <3>2, <3>3
  <2>. QED
    BY <2>1, <2>2
<1>3. /\ task' \in [Processes -> Task]
      /\ \A q \in Processes : Reading(task'[q]) /\ Resting(q, task'[q])
      /\ Hands'
  BY <1>1, <1>2, Moved
<1>4. TypeOK'
  BY <1>3 DEF Look, IntakeInv, TypeOK, store, batches, Stored
<1>. QED
  BY <1>1, <1>3, <1>4 DEF IntakeInv

LEMMA InsertKeeps ==
  ASSUME IntakeInv, NEW p \in Processes, Insert(p)
  PROVE  IntakeInv'
<1>. DEFINE x == This(p)
<1>0. task \in [Processes -> Task] /\ task[p] \in Task /\ task[p].step = "insert"
      /\ task[p].next <= task[p].upto /\ Reading(task[p])
      /\ row \in [Candidates -> {NoRow, NoBatch} \cup Batches]
  BY DEF IntakeInv, TypeOK, Insert, Step, Reading
<1>1. x \in Candidates /\ ~Stored(x)
  BY <1>0, LineFacts DEF Insert
<1>2. /\ row' = [row EXCEPT ![x] = BatchOf(p)] /\ deleted' = deleted /\ decided' = decided
      /\ inbox' = inbox \cup {x}
  BY DEF Insert, batches
<1>3. BatchOf(p) \in {NoBatch} \cup Batches
  BY DEF BatchOf
<1>4. Homes \subseteq Homes' /\ x \in Homes'
  <2>1. row'[x] # NoRow
    BY <1>0, <1>1, <1>2, <1>3, BatchNames
  <2>2. \A c \in Candidates : Stored(c) => Stored(c)'
    BY <1>0, <1>2, <2>1 DEF Stored
  <2>. QED
    BY <1>1, <1>2, <2>1, <2>2 DEF Homes, Stored
<1>. DEFINE u == [task[p] EXCEPT !.step = "look", !.next = @ + 1, !.count.created = @ + 1,
                                 !.fresh = Append(@, x)]
<1>5. task' = [task EXCEPT ![p] = u]
  BY DEF Insert
<1>6. /\ u \in Task /\ u.step = "look" /\ u.at = task[p].at
      /\ u.upto = task[p].upto /\ u.next = task[p].next + 1
      /\ u.fresh = Append(task[p].fresh, x) /\ Sum(u) = Sum(task[p]) + 1
  BY <1>0, <1>1, LineFacts, CreatedTask, Zenon
<1>. HIDE DEF u, x
<1>7. Reading(u) /\ Resting(p, u)
  BY <1>0, <1>6, NextLine
<1>8. RangeOf(u.fresh) = RangeOf(task[p].fresh) \cup {x}
  BY <1>0, <1>1, <1>6, Ranges DEF Task
<1>9. task' \in [Processes -> Task]
      /\ \A q \in Processes : Reading(task'[q]) /\ Resting(q, task'[q])
  BY <1>0, <1>5, <1>6, <1>7 DEF IntakeInv
<1>10. task'[p] = u /\ \A q \in Processes \ {p} : task'[q] = task[q]
  BY <1>0, <1>5
<1>11. \A q \in Processes : RangeOf(task'[q].fresh) \subseteq Homes'
  BY <1>4, <1>8, <1>10 DEF IntakeInv, Hands
<1>12. HandedOnce'
  <2>1. SUFFICES ASSUME NEW q \in Ingesters, NEW o \in Ingesters, q # o,
                        NEW c \in RangeOf(task'[q].fresh), c \in RangeOf(task'[o].fresh)
                 PROVE  c \in deleted
    BY <1>2 DEF HandedOnce
  <2>2. q \in Processes /\ o \in Processes
    BY DEF Processes
  <2>3. CASE c \in RangeOf(task[q].fresh) /\ c \in RangeOf(task[o].fresh)
    BY <2>1, <2>3 DEF IntakeInv, Hands, HandedOnce
  <2>4. CASE c = x
    <3>1. x \in RangeOf(task[q].fresh) \/ x \in RangeOf(task[o].fresh)
      BY <1>10, <2>1, <2>2, <2>4
    <3>2. x \in Homes
      BY <2>2, <3>1 DEF IntakeInv, Hands
    <3>. QED
      BY <1>1, <2>4, <3>2 DEF Homes, x
  <2>. QED
    BY <1>8, <1>10, <2>1, <2>2, <2>3, <2>4
<1>13. row' \in [Candidates -> {NoRow, NoBatch} \cup Batches]
       /\ inbox' \subseteq {c \in Candidates : Stored(c)'}
  <2>1. row' \in [Candidates -> {NoRow, NoBatch} \cup Batches]
    BY <1>0, <1>1, <1>2, <1>3 DEF x
  <2>2. row'[x] # NoRow /\ x \in Candidates
    BY <1>0, <1>1, <1>2, <1>3, BatchNames DEF x
  <2>3. \A c \in Candidates : Stored(c) => Stored(c)'
    BY <1>0, <1>2, <2>2 DEF Stored
  <2>4. inbox \subseteq {c \in Candidates : Stored(c)}
    BY DEF IntakeInv, TypeOK
  <2>. QED
    BY <1>2, <2>1, <2>2, <2>3, <2>4 DEF Stored, x
<1>14. TypeOK'
  BY <1>9, <1>13 DEF Insert, IntakeInv, TypeOK, batches
<1>. QED
  BY <1>2, <1>4, <1>9, <1>11, <1>12, <1>14 DEF IntakeInv, Hands

\* A line that is turned down, or an ingest that ends.
LEMMA RefuseKeeps ==
  ASSUME IntakeInv, NEW p \in Processes, Refuse(p) \/ Collide(p)
  PROVE  IntakeInv'
<1>0. task \in [Processes -> Task] /\ task[p] \in Task /\ task[p].step = "insert"
      /\ task[p].next <= task[p].upto /\ Reading(task[p])
  BY DEF IntakeInv, TypeOK, Refuse, Collide, Step, Reading
<1>1. Homes' = Homes /\ deleted' = deleted /\ decided' = decided
  BY DEF Refuse, Collide, store, batches, Homes, Stored
<1>2. PICK u \in Task :
        /\ task' = [task EXCEPT ![p] = u] /\ Reading(u) /\ Resting(p, u)
        /\ RangeOf(u.fresh) \subseteq RangeOf(task[p].fresh)
  <2>1. CASE Reject(p)
    <3>. DEFINE u == [task[p] EXCEPT !.step = "look", !.next = @ + 1, !.count.rejected = @ + 1]
    <3>1. task' = [task EXCEPT ![p] = u]
      BY <2>1 DEF Reject
    <3>2. /\ u \in Task /\ u.step = "look" /\ u.at = task[p].at
          /\ u.upto = task[p].upto /\ u.next = task[p].next + 1
          /\ u.fresh = task[p].fresh /\ Sum(u) = Sum(task[p]) + 1
      BY <1>0, LineFacts, RejectedTask, Zenon
    <3>. HIDE DEF u
    <3>3. Reading(u) /\ Resting(p, u)
      BY <1>0, <3>2, NextLine
    <3>. QED
      BY <3>1, <3>2, <3>3
  <2>2. CASE task' = [task EXCEPT ![p] = Idle]
    BY <2>2, IdleTask
  <2>. QED
    BY <2>1, <2>2 DEF Refuse, Collide
<1>3. /\ task' \in [Processes -> Task]
      /\ \A q \in Processes : Reading(task'[q]) /\ Resting(q, task'[q])
      /\ Hands'
  BY <1>1, <1>2, Moved
<1>4. TypeOK'
  BY <1>3 DEF Refuse, Collide, IntakeInv, TypeOK, store, batches, Stored
<1>. QED
  BY <1>1, <1>3, <1>4 DEF IntakeInv

\* Beginning a cycle or an import, opening and closing a file.
LEMMA FilesKeep ==
  ASSUME IntakeInv, NEW p \in Processes,
         BeginCycle(p) \/ OpenFile(p) \/ BeginImport(p) \/ CloseFile(p) \/ SkipFile(p)
         \/ Kill(p)
  PROVE  IntakeInv'
<1>0. /\ task \in [Processes -> Task] /\ task[p] \in Task /\ Reading(task[p])
      /\ Resting(p, task[p]) /\ NoCount \in Count /\ Sum([Idle EXCEPT !.step = "look"]) = 0
  BY DEF IntakeInv, TypeOK, NoCount, Count, Sum, Idle
<1>1. Homes' = Homes /\ deleted' = deleted /\ decided' = decided /\ row' = row
      /\ inbox' = inbox /\ spool' = spool /\ undoing' = undoing
  BY DEF BeginCycle, OpenFile, BeginImport, CloseFile, SkipFile, Kill, store, batches,
         Homes, Stored
<1>2. ASSUME NEW u \in Task, task' = [task EXCEPT ![p] = u], Reading(u), Resting(p, u),
             RangeOf(u.fresh) \subseteq RangeOf(task[p].fresh),
             ledger' \in [Batches -> [status: Statuses, count: Count]],
             faults' \in 0..MaxFaults
      PROVE  IntakeInv'
  <2>1. /\ task' \in [Processes -> Task]
        /\ \A q \in Processes : Reading(task'[q]) /\ Resting(q, task'[q])
        /\ Hands'
    BY <1>1, <1>2, Moved
  <2>2. TypeOK'
    BY <1>1, <1>2, <2>1 DEF IntakeInv, TypeOK, Stored
  <2>. QED
    BY <1>1, <2>1, <2>2 DEF IntakeInv
<1>3. ledger \in [Batches -> [status: Statuses, count: Count]] /\ faults \in 0..MaxFaults
      /\ MaxFaults \in Nat
  BY IntakeAssumption DEF IntakeInv, TypeOK, ABounds
<1>4. CASE BeginCycle(p)
  <2>. DEFINE u == [task[p] EXCEPT !.step = "file", !.files = {f \in Files : spool[f] > 0}]
  <2>1. task' = [task EXCEPT ![p] = u] /\ p \notin Vaults
    BY <1>4, IntakeAssumption DEF BeginCycle, AKinds
  <2>2. u \in Task /\ u.step = "file" /\ u.fresh = task[p].fresh
    BY <1>0 DEF Task
  <2>. HIDE DEF u
  <2>3. ledger' = ledger /\ faults' = faults
    BY <1>4 DEF BeginCycle, batches
  <2>. QED
    BY <1>2, <1>3, <2>1, <2>2, <2>3 DEF Reading, Resting
<1>5. CASE OpenFile(p)
  <2>1. PICK f \in task[p].files :
         /\ task' = [task EXCEPT
              ![p].step = "look", ![p].files = @ \ {f}, ![p].at = f,
              ![p].upto = spool[f], ![p].next = 1, ![p].count = NoCount,
              ![p].existing = f \in Receipts /\ ledger[f].status # "none"]
         /\ ledger' = IF f \in Receipts /\ ledger[f].status = "none"
                      THEN [ledger EXCEPT ![f].status = "active"] ELSE ledger
    BY <1>5 DEF OpenFile
  <2>. DEFINE old == f \in Receipts /\ ledger[f].status # "none"
              u == [task[p] EXCEPT !.step = "look", !.files = @ \ {f}, !.at = f,
                      !.upto = spool[f], !.next = 1, !.count = NoCount, !.existing = old]
  <2>2. task' = [task EXCEPT ![p] = u]
    BY <2>1
  <2>3. f \in Files /\ spool[f] \in Nat /\ spool[f] <= Len(LinesOf[f]) /\ Len(LinesOf[f]) \in Nat
    BY <1>0, <2>1, IntakeAssumption DEF Task, IntakeInv, TypeOK, ALines
  <2>4. spool[f] \in {0} \cup Lines /\ spool[f] \in Nat
    BY <2>3 DEF Lines
  <2>5. old \in BOOLEAN
    OBVIOUS
  <2>. HIDE DEF old
  <2>6. /\ u \in Task /\ u.step = "look" /\ u.at = f /\ u.upto = spool[f] /\ u.next = 1
        /\ u.count = NoCount /\ u.fresh = task[p].fresh
    BY <1>0, <2>3, <2>4, <2>5 DEF Task
  <2>. HIDE DEF u
  <2>7. Sum(u) = 0
    BY <2>6 DEF Sum, NoCount
  <2>8. Reading(u)
    BY <2>3, <2>4, <2>6, <2>7 DEF Reading
  <2>9. ledger' \in [Batches -> [status: Statuses, count: Count]]
    BY <1>3, <2>1 DEF Statuses
  <2>. QED
    BY <1>2, <1>3, <1>5, <2>2, <2>6, <2>8, <2>9 DEF Resting, OpenFile
<1>6. CASE BeginImport(p)
  <2>. DEFINE u == [task[p] EXCEPT !.step = "look", !.at = p, !.upto = Len(LinesOf[p])]
  <2>1. task' = [task EXCEPT ![p] = u] /\ p \in Vaults /\ task[p] = Idle
    BY <1>0, <1>6 DEF BeginImport, MayBegin, Step, Resting
  <2>2. Len(LinesOf[p]) \in Nat
    BY <2>1, IntakeAssumption DEF ALines
  <2>3. Len(LinesOf[p]) \in {0} \cup Lines
    BY <2>1, <2>2 DEF Lines
  <2>4. /\ u \in Task /\ u.step = "look" /\ u.at = p /\ u.upto = Len(LinesOf[p])
        /\ u.next = task[p].next /\ u.count = task[p].count /\ u.fresh = task[p].fresh
    BY <1>0, <2>1, <2>3 DEF Task
  <2>5. task[p].next = 1 /\ task[p].count = NoCount
    BY <2>1 DEF Idle
  <2>. HIDE DEF u
  <2>6. Sum(u) = 0
    BY <2>4, <2>5 DEF Sum, NoCount
  <2>7. Reading(u)
    BY <2>1, <2>2, <2>4, <2>5, <2>6 DEF Reading
  <2>8. ledger' \in [Batches -> [status: Statuses, count: Count]] /\ faults' = faults
    BY <1>3, <1>6 DEF Statuses, BeginImport
  <2>. QED
    BY <1>2, <1>3, <2>1, <2>4, <2>7, <2>8 DEF Resting
<1>7. CASE CloseFile(p)
  <2>1. ledger' \in [Batches -> [status: Statuses, count: Count]] /\ faults' = faults
    <3>1. task[p].count \in Count /\ ("completed" \in Statuses)
      BY <1>0 DEF Task, Statuses
    <3>. QED
      BY <1>3, <1>7, <3>1 DEF CloseFile, Statuses
  <2>2. CASE p \in Vaults
    <3>1. task' = [task EXCEPT ![p] = Idle]
      BY <1>7, <2>2 DEF CloseFile
    <3>. QED
      BY <1>2, <1>3, <2>1, <3>1, IdleTask
  <2>3. CASE p \notin Vaults
    <3>. DEFINE u == [Idle EXCEPT !.step = "file", !.files = task[p].files,
                                  !.fresh = task[p].fresh]
    <3>1. task' = [task EXCEPT ![p] = u]
      BY <1>7, <2>3 DEF CloseFile
    <3>2. u \in Task /\ u.step = "file" /\ u.fresh = task[p].fresh
      BY <1>0, IdleTask DEF Task
    <3>. HIDE DEF u
    <3>. QED
      BY <1>2, <1>3, <2>1, <2>3, <3>1, <3>2 DEF Reading, Resting
  <2>. QED
    BY <2>2, <2>3
<1>8. CASE SkipFile(p)
  <2>1. PICK f \in task[p].files : task' = [task EXCEPT ![p].files = @ \ {f}]
    BY <1>8 DEF SkipFile
  <2>. DEFINE u == [task[p] EXCEPT !.files = @ \ {f}]
  <2>2. task' = [task EXCEPT ![p] = u] /\ task[p].step = "file"
    BY <1>8, <2>1 DEF SkipFile, Step
  <2>3. u \in Task /\ u.step = "file" /\ u.fresh = task[p].fresh
    BY <1>0, <2>2 DEF Task
  <2>. HIDE DEF u
  <2>4. ledger' = ledger /\ faults' \in 0..MaxFaults
    BY <1>3, <1>8 DEF SkipFile, batches
  <2>. QED
    BY <1>0, <1>2, <1>3, <2>2, <2>3, <2>4 DEF Reading, Resting
<1>9. CASE Kill(p)
  <2>1. task' = [task EXCEPT ![p] = Idle] /\ ledger' = ledger /\ faults' \in 0..MaxFaults
    BY <1>3, <1>9 DEF Kill, batches
  <2>. QED
    BY <1>2, <1>3, <2>1, IdleTask
<1>. QED
  BY <1>4, <1>5, <1>6, <1>7, <1>8, <1>9

\* What is handed to the curator, and what it decides on.
LEMMA CurateKeeps ==
  ASSUME IntakeInv, NEW p \in Processes, BeginCurate(p) \/ Decide(p)
  PROVE  IntakeInv'
<1>0. /\ task \in [Processes -> Task] /\ task[p] \in Task /\ Resting(p, task[p])
      /\ task[p].fresh \in Seq(Candidates) /\ Cap \in Nat
  BY IntakeAssumption DEF IntakeInv, TypeOK, Task, ABounds
<1>1. Homes' = Homes /\ deleted' = deleted /\ row' = row /\ inbox' = inbox
  BY DEF BeginCurate, Decide, store, batches, Homes, Stored
<1>2. /\ task[p].step \in {"file", "curate"}
      /\ task[p].step = "curate" => task[p].fresh # <<>>
      /\ p \notin Vaults
  BY <1>0 DEF BeginCurate, Decide, Step, Resting
<1>3. PICK s \in Seq(Candidates) : Hand(p, s) /\ RangeOf(s) \subseteq RangeOf(task[p].fresh)
  <2>1. CASE BeginCurate(p)
    <3>. DEFINE s == HandedOn(p)
    <3>1. \/ s = task[p].fresh
          \/ Len(task[p].fresh) > Cap /\ s = SubSeq(task[p].fresh, 1, Cap)
      BY DEF HandedOn
    <3>2. s \in Seq(Candidates) /\ RangeOf(s) \subseteq RangeOf(task[p].fresh)
      BY <1>0, <3>1, Ranges
    <3>. QED
      BY <2>1, <3>2 DEF BeginCurate
  <2>2. CASE Decide(p)
    <3>1. task[p].fresh # <<>>
      BY <1>2, <2>2 DEF Decide, Step
    <3>. QED
      BY <1>0, <2>2, <3>1, Ranges DEF Decide
  <2>. QED
    BY <2>1, <2>2
<1>4. PICK u \in Task :
        /\ task' = [task EXCEPT ![p] = u] /\ Reading(u) /\ Resting(p, u)
        /\ RangeOf(u.fresh) \subseteq RangeOf(task[p].fresh)
  <2>1. CASE s = <<>>
    <3>1. task' = [task EXCEPT ![p] = Idle]
      BY <1>3, <2>1 DEF Hand
    <3>. QED
      BY <3>1, IdleTask
  <2>2. CASE s # <<>>
    <3>. DEFINE u == [Idle EXCEPT !.step = "curate", !.fresh = s]
    <3>1. task' = [task EXCEPT ![p] = u]
      BY <1>3, <2>2 DEF Hand
    <3>2. u \in Task /\ u.step = "curate" /\ u.fresh = s
      BY <1>3, IdleTask DEF Task
    <3>. HIDE DEF u
    <3>. QED
      BY <1>2, <1>3, <2>2, <3>1, <3>2 DEF Reading, Resting
  <2>. QED
    BY <2>1, <2>2
<1>5. /\ task' \in [Processes -> Task]
      /\ \A q \in Processes : Reading(task'[q]) /\ Resting(q, task'[q])
      /\ Hands'
  BY <1>1, <1>4, Moved
<1>6. decided' \subseteq Homes /\ decided' \subseteq Candidates
  <2>1. CASE BeginCurate(p)
    BY <2>1 DEF BeginCurate, IntakeInv, TypeOK
  <2>2. CASE Decide(p)
    <3>1. Head(task[p].fresh) \in RangeOf(task[p].fresh)
      BY <1>0, <1>2, <2>2, Ranges DEF Decide, Step
    <3>2. RangeOf(task[p].fresh) \subseteq Homes /\ RangeOf(task[p].fresh) \subseteq Candidates
      BY <1>0, Ranges DEF IntakeInv, Hands
    <3>. QED
      BY <2>2, <3>1, <3>2 DEF Decide, IntakeInv, TypeOK
  <2>. QED
    BY <2>1, <2>2
<1>7. TypeOK'
  BY <1>1, <1>5, <1>6 DEF BeginCurate, Decide, IntakeInv, TypeOK, store, batches, Stored
<1>. QED
  BY <1>1, <1>5, <1>6, <1>7 DEF IntakeInv

\* Steps that leave every process as it is.
LEMMA SpoolKeeps ==
  ASSUME IntakeInv, NEW f \in Files, Capture(f) \/ Drop(f)
  PROVE  IntakeInv'
<1>1. /\ LinesOf[f] \in Seq(Candidates) /\ spool \in [Files -> Nat]
      /\ \A g \in Files : spool[g] <= Len(LinesOf[g])
  BY IntakeAssumption DEF ALines, IntakeInv, TypeOK
<1>2. spool' \in [Files -> Nat] /\ \A g \in Files : spool'[g] <= Len(LinesOf[g])
  <2>1. Len(LinesOf[f]) \in Nat
    BY <1>1
  <2>2. CASE Capture(f)
    BY <1>1, <2>1, <2>2 DEF Capture
  <2>3. CASE Drop(f)
    BY <1>1, <2>1, <2>3 DEF Drop
  <2>. QED
    BY <2>2, <2>3
<1>3. UNCHANGED <<store, decided, batches, task, faults>>
  BY DEF Capture, Drop
<1>4. TypeOK'
  BY <1>2, <1>3 DEF IntakeInv, TypeOK, store, batches, Stored
<1>. QED
  BY <1>3, <1>4 DEF IntakeInv, Hands, HandedOnce, Homes, Stored, store, batches

LEMMA SweepKeeps ==
  ASSUME IntakeInv, Sweep
  PROVE  IntakeInv'
<1>1. PICK c \in inbox : decided' = decided \cup {c} /\ inbox' = inbox \ {c}
  BY DEF Sweep
<1>2. c \in Candidates /\ Stored(c) /\ inbox' \subseteq inbox
  BY <1>1 DEF IntakeInv, TypeOK
<1>3. UNCHANGED <<spool, row, task, batches, faults>>
  BY DEF Sweep
<1>4. TypeOK'
  BY <1>1, <1>2, <1>3 DEF IntakeInv, TypeOK, batches, Stored
<1>5. Homes' = Homes /\ decided' \subseteq Homes
  BY <1>1, <1>2, <1>3 DEF IntakeInv, Homes, Stored, batches
<1>. QED
  BY <1>3, <1>4, <1>5 DEF IntakeInv, Hands, HandedOnce, batches

LEMMA RollbackKeeps ==
  ASSUME IntakeInv, NEW b \in Batches, RollbackRows(b) \/ RollbackMark(b)
  PROVE  IntakeInv'
<1>0. /\ row \in [Candidates -> {NoRow, NoBatch} \cup Batches] /\ MaxFaults \in Nat
      /\ faults \in 0..MaxFaults /\ b # NoRow
  BY IntakeAssumption, BatchNames DEF IntakeInv, TypeOK, ABounds
<1>1. CASE RollbackRows(b)
  <2>1. /\ row' = [c \in Candidates |-> IF row[c] = b THEN NoRow ELSE row[c]]
        /\ inbox' = inbox \ RowsOf(b) /\ deleted' = deleted \cup RowsOf(b)
        /\ undoing' = undoing \cup {b} /\ faults' \in 0..MaxFaults
        /\ UNCHANGED <<spool, decided, ledger, task>>
    BY <1>0, <1>1 DEF RollbackRows
  <2>2. \A c \in Candidates :
          /\ c \notin RowsOf(b) => row'[c] = row[c]
          /\ c \in RowsOf(b) => row'[c] = NoRow /\ row[c] # NoRow
    BY <1>0, <2>1 DEF RowsOf
  <2>3. Homes' = Homes
    BY <2>1, <2>2 DEF Homes, Stored, RowsOf
  <2>4. /\ row' \in [Candidates -> {NoRow, NoBatch} \cup Batches]
        /\ inbox' \subseteq {c \in Candidates : row'[c] # NoRow}
        /\ deleted' \subseteq Candidates
    BY <1>0, <2>1, <2>2 DEF IntakeInv, TypeOK, Stored, RowsOf
  <2>5. TypeOK'
    BY <2>1, <2>4 DEF IntakeInv, TypeOK, Stored
  <2>6. HandedOnce'
    BY <2>1 DEF IntakeInv, Hands, HandedOnce
  <2>. QED
    BY <2>1, <2>3, <2>5, <2>6 DEF IntakeInv, Hands
<1>2. CASE RollbackMark(b)
  <2>1. ledger' \in [Batches -> [status: Statuses, count: Count]]
    BY <1>2 DEF RollbackMark, IntakeInv, TypeOK, Statuses
  <2>2. TypeOK'
    BY <1>2, <2>1 DEF RollbackMark, IntakeInv, TypeOK, store, Stored
  <2>. QED
    BY <1>2, <2>2 DEF RollbackMark, IntakeInv, Hands, HandedOnce, Homes, Stored, store
<1>. QED
  BY <1>1, <1>2

LEMMA StutterKeeps == IntakeInv /\ UNCHANGED vars => IntakeInv'
BY DEF vars, store, batches, IntakeInv, TypeOK, Stored, Hands, HandedOnce, Homes

LEMMA IntakeStep == IntakeInv /\ [Next]_vars => IntakeInv'
<1>. SUFFICES ASSUME IntakeInv, [Next]_vars PROVE IntakeInv'
  OBVIOUS
<1>1. CASE \E f \in Files : Capture(f) \/ Drop(f)
  BY <1>1, SpoolKeeps
<1>2. CASE SweepInstalled /\ Sweep
  BY <1>2, SweepKeeps
<1>3. ASSUME NEW p \in Processes,
             BeginCycle(p) \/ BeginImport(p) \/ Advance(p) \/ Kill(p) \/ SkipFile(p)
      PROVE  IntakeInv'
  BY <1>3, LookKeeps, InsertKeeps, RefuseKeeps, FilesKeep, CurateKeeps DEF Advance
<1>4. CASE \E b \in Batches : RollbackRows(b) \/ RollbackMark(b)
  BY <1>4, RollbackKeeps
<1>5. CASE UNCHANGED vars
  BY <1>5, StutterKeeps
<1>. QED
  BY <1>1, <1>2, <1>3, <1>4, <1>5 DEF Next

LEMMA Always == Spec => []IntakeInv
BY InitInv, IntakeStep, PTL DEF Spec

\* Every variable keeps its type whatever the processes, kills and rollbacks do
\* (the tables candidates and import_batches, the ingest loop's locals).
THEOREM Typing == Spec => []TypeOK
<1>1. IntakeInv => TypeOK
  BY DEF IntakeInv
<1>. QED
  BY <1>1, Always, PTL

\* Two ingests never take the same stored candidate for new, however many
\* daemons, commands and imports there are (spool-intake.ts 315-335).
THEOREM Once == Spec => []HandedOnce
<1>1. IntakeInv => HandedOnce
  BY DEF IntakeInv, Hands
<1>. QED
  BY <1>1, Always, PTL

----------------------------------------------------------------------------
(* What the ledger says of a batch.                                        *)

\* The lines of a batch are different candidates.
DistinctLines ==
  \A b \in Batches : \A i, j \in 1..Len(LinesOf[b]) : Line(b, i) = Line(b, j) => i = j

\* The lines a process has read, and the candidates that are or were a batch's.
Before(t) == {Line(t.at, i) : i \in 1..(t.next - 1)}
Theirs == [b \in Batches |-> RowsOf(b) \cup deleted]

Account(t, homes, theirs) ==
  t.step \in {"look", "insert"} =>
    /\ Before(t) \subseteq homes \cup Refused
    /\ t.at \in Batches =>
         /\ t.upto = Len(LinesOf[t.at])
         /\ t.count.created <= Cardinality(Before(t) \cap theirs[t.at])

\* A batch file comes whole, and only files with lines are read.
Whole ==
  /\ \A f \in Receipts : spool[f] \in {0, Len(LinesOf[f])}
  /\ \A p \in Processes : \A f \in task[p].files : spool[f] > 0

Accounts == \A p \in Processes : Account(task[p], Homes, Theirs)

LedgerInv == Whole /\ LedgerTrue /\ Accounts

LEMMA Finite ==
  \A S \in SUBSET Candidates : IsFiniteSet(S) /\ Cardinality(S) \in Nat
BY FS_Subset, FS_CardinalityType, IntakeAssumption DEF AFinite

LEMMA Larger ==
  \A S, T \in SUBSET Candidates : S \subseteq T => Cardinality(S) <= Cardinality(T)
BY Finite, FS_Subset

LEMMA TheirsTyped ==
  IntakeInv => Theirs \in [Batches -> SUBSET Candidates] /\ Homes \subseteq Candidates
BY DEF Theirs, RowsOf, IntakeInv, TypeOK, Homes

\* A candidate keeps its home, and a batch the candidates that were its own.
LEMMA Grow ==
  ASSUME IntakeInv, [Next]_vars
  PROVE  Homes \subseteq Homes' /\ \A b \in Batches : Theirs[b] \subseteq Theirs'[b]
<1>. DEFINE Kept == Homes \subseteq Homes' /\ \A b \in Batches : Theirs[b] \subseteq Theirs'[b]
<1>0. row \in [Candidates -> {NoRow, NoBatch} \cup Batches]
  BY DEF IntakeInv, TypeOK
<1>1. ASSUME UNCHANGED <<row, deleted>> PROVE Kept
  BY <1>1 DEF Homes, Theirs, RowsOf, Stored
<1>2. ASSUME NEW p \in Processes, Insert(p) PROVE Kept
  <2>1. row' = [row EXCEPT ![This(p)] = BatchOf(p)] /\ ~Stored(This(p)) /\ deleted' = deleted
    BY <1>2 DEF Insert, batches
  <2>2. \A c \in Candidates : Stored(c) => row'[c] = row[c]
    BY <1>0, <2>1 DEF Stored
  <2>3. \A b \in Batches : \A c \in RowsOf(b) : Stored(c)
    BY BatchNames DEF RowsOf, Stored
  <2>. QED
    BY <2>1, <2>2, <2>3 DEF Homes, Theirs, RowsOf, Stored
<1>3. ASSUME NEW b \in Batches, RollbackRows(b) PROVE Kept
  <2>1. /\ row' = [c \in Candidates |-> IF row[c] = b THEN NoRow ELSE row[c]]
        /\ deleted' = deleted \cup RowsOf(b)
    BY <1>3 DEF RollbackRows
  <2>2. \A c \in Candidates : c \notin RowsOf(b) => row'[c] = row[c]
    BY <2>1 DEF RowsOf
  <2>. QED
    BY <2>1, <2>2 DEF Homes, Theirs, RowsOf, Stored
<1>. HIDE DEF Kept
<1>4. ASSUME NEW f \in Files, Capture(f) \/ Drop(f) PROVE Kept
  BY <1>1, <1>4 DEF Capture, Drop, store, batches
<1>5. ASSUME NEW p \in Processes, BeginCycle(p) \/ BeginImport(p) \/ Kill(p) \/ SkipFile(p)
      PROVE  Kept
  BY <1>1, <1>5 DEF BeginCycle, BeginImport, Kill, SkipFile, store, batches
<1>6. ASSUME NEW p \in Processes, Advance(p) PROVE Kept
  <2>1. Insert(p) \/ UNCHANGED <<row, deleted>>
    BY <1>6 DEF Advance, OpenFile, Look, Refuse, Collide, CloseFile, BeginCurate, Decide,
                store, batches
  <2>. QED
    BY <1>1, <1>2, <2>1
<1>7. ASSUME Sweep \/ UNCHANGED vars \/ \E b \in Batches : RollbackMark(b) PROVE Kept
  BY <1>1, <1>7 DEF Sweep, vars, RollbackMark, store, batches
<1>8. Kept
  BY <1>3, <1>4, <1>5, <1>6, <1>7 DEF Next
<1>. QED
  BY <1>8 DEF Kept

\* What an account says goes on being so.
LEMMA AccountHolds ==
  ASSUME IntakeInv, IntakeInv', [Next]_vars
  PROVE  \A t \in Task : Account(t, Homes, Theirs) => Account(t, Homes', Theirs')
<1>. TAKE t \in Task
<1>1. Homes \subseteq Homes' /\ \A b \in Batches : Theirs[b] \subseteq Theirs'[b]
  BY Grow
<1>2. /\ Theirs \in [Batches -> SUBSET Candidates] /\ Theirs' \in [Batches -> SUBSET Candidates]
      /\ t.count.created \in Int
  <2>1. Theirs' \in [Batches -> SUBSET Candidates]
    BY DEF Theirs, RowsOf, IntakeInv, TypeOK
  <2>. QED
    BY <2>1, TheirsTyped DEF Task, Count, Lines
<1>3. ASSUME t.at \in Batches
      PROVE  /\ Cardinality(Before(t) \cap Theirs[t.at]) \in Nat
             /\ Cardinality(Before(t) \cap Theirs'[t.at]) \in Nat
             /\ Cardinality(Before(t) \cap Theirs[t.at])
                  <= Cardinality(Before(t) \cap Theirs'[t.at])
  <2>. DEFINE S == Before(t) \cap Theirs[t.at]
              T == Before(t) \cap Theirs'[t.at]
  <2>1. S \in SUBSET Candidates /\ T \in SUBSET Candidates /\ S \subseteq T
    BY <1>1, <1>2, <1>3
  <2>. HIDE DEF S, T
  <2>2. Cardinality(S) \in Nat /\ Cardinality(T) \in Nat /\ Cardinality(S) <= Cardinality(T)
    BY <2>1, Finite, Larger
  <2>. QED
    BY <2>2 DEF S, T
<1>4. t.at \in Batches /\ t.count.created <= Cardinality(Before(t) \cap Theirs[t.at])
      => t.count.created <= Cardinality(Before(t) \cap Theirs'[t.at])
  <2>1. \A a, b, c \in Int : a <= b /\ b <= c => a <= c
    OBVIOUS
  <2>. QED
    BY <1>2, <1>3, <2>1
<1>. QED
  BY <1>1, <1>4 DEF Account

\* A process that is handed a task keeps its account if the task has one.
LEMMA AccountsMove ==
  ASSUME IntakeInv, IntakeInv', [Next]_vars, Accounts, NEW p \in Processes, NEW u \in Task,
         task' = [task EXCEPT ![p] = u], Account(u, Homes', Theirs')
  PROVE  Accounts'
<1>1. task \in [Processes -> Task]
  BY DEF IntakeInv, TypeOK
<1>2. task'[p] = u /\ \A q \in Processes \ {p} : task'[q] = task[q] /\ task[q] \in Task
  BY <1>1
<1>. QED
  BY <1>2, AccountHolds DEF Accounts

\* A completed batch stays accounted for.
LEMMA LedgerHolds ==
  ASSUME IntakeInv, IntakeInv', [Next]_vars, LedgerTrue, NEW b \in Batches,
         ledger[b].status = "completed"
  PROVE  LET count == ledger[b].count IN
         /\ count.created + count.rejected + count.skipped = Len(LinesOf[b])
         /\ count.created <= Cardinality((RowsOf(b) \cup deleted)')
         /\ \A i \in 1..Len(LinesOf[b]) : Line(b, i) \in Homes' \cup Refused
<1>. DEFINE count == ledger[b].count
            S == RowsOf(b) \cup deleted
<1>1. Homes \subseteq Homes' /\ S \subseteq S'
  BY Grow DEF Theirs
<1>2. S \in SUBSET Candidates /\ S' \in SUBSET Candidates /\ count \in Count
      /\ LinesOf[b] \in Seq(Candidates)
  BY IntakeAssumption DEF RowsOf, IntakeInv, TypeOK, ALines, Batches, Files
<1>3. /\ count.created + count.rejected + count.skipped = Len(LinesOf[b])
      /\ count.created <= Cardinality(S)
      /\ \A i \in 1..Len(LinesOf[b]) :
           Stored(Line(b, i)) \/ Line(b, i) \in Refused \cup deleted
  BY DEF LedgerTrue
<1>4. \A i \in 1..Len(LinesOf[b]) : Line(b, i) \in Candidates
  BY <1>2 DEF Line
<1>5. \A i \in 1..Len(LinesOf[b]) : Line(b, i) \in Homes' \cup Refused
  BY <1>1, <1>3, <1>4 DEF Homes
<1>. HIDE DEF S, count
<1>6. Cardinality(S) \in Int /\ Cardinality(S') \in Int /\ Cardinality(S) <= Cardinality(S')
      /\ count.created \in Int
  BY <1>1, <1>2, Finite, Larger DEF Count, Lines
<1>7. count.created <= Cardinality(S')
  <2>1. \A x, y, z \in Int : x <= y /\ y <= z => x <= z
    OBVIOUS
  <2>. QED
    BY <1>3, <1>6, <2>1
<1>. QED
  BY <1>3, <1>5, <1>7 DEF S, count

LEMMA LedgerSame ==
  ASSUME IntakeInv, IntakeInv', [Next]_vars, LedgerTrue,
         \A b \in Batches : ledger'[b].status = "completed" => ledger'[b] = ledger[b]
  PROVE  LedgerTrue'
<1>. SUFFICES ASSUME NEW b \in Batches, ledger'[b].status = "completed"
              PROVE  LET count == ledger'[b].count IN
                     /\ count.created + count.rejected + count.skipped = Len(LinesOf[b])
                     /\ count.created <= Cardinality((RowsOf(b) \cup deleted)')
                     /\ \A i \in 1..Len(LinesOf[b]) :
                          Stored(Line(b, i))' \/ Line(b, i) \in Refused \cup deleted'
  BY DEF LedgerTrue
<1>. QED
  BY LedgerHolds DEF Homes

LEMMA MoveOn ==
  ASSUME IntakeInv, IntakeInv', [Next]_vars, LedgerInv, NEW p \in Processes, NEW u \in Task,
         task' = [task EXCEPT ![p] = u], Account(u, Homes', Theirs'),
         \A f \in u.files : spool[f] > 0, spool' = spool,
         \A b \in Batches : ledger'[b].status = "completed" => ledger'[b] = ledger[b]
  PROVE  LedgerInv'
<1>1. Accounts'
  BY AccountsMove DEF LedgerInv
<1>2. LedgerTrue'
  BY LedgerSame DEF LedgerInv
<1>3. Whole'
  <2>1. task'[p] = u /\ \A q \in Processes \ {p} : task'[q] = task[q]
    BY DEF IntakeInv, TypeOK
  <2>. QED
    BY <2>1 DEF LedgerInv, Whole
<1>. QED
  BY <1>1, <1>2, <1>3 DEF LedgerInv

\* A line more, passed over or turned down.
LEMMA LineMore ==
  ASSUME IntakeInv, IntakeInv', [Next]_vars, Accounts, NEW p \in Processes,
         task[p].step \in {"look", "insert"}, task[p].next <= task[p].upto,
         This(p) \in Homes \cup Refused,
         NEW u \in Task, u.at = task[p].at, u.upto = task[p].upto,
         u.next = task[p].next + 1, u.count.created = task[p].count.created
  PROVE  Account(u, Homes', Theirs')
<1>. DEFINE t == task[p]
<1>1. t \in Task /\ Account(t, Homes, Theirs) /\ t.next \in Nat /\ t.next >= 1
  BY DEF IntakeInv, TypeOK, Accounts, Task, Reading
<1>2. Account(t, Homes', Theirs')
  BY <1>1, AccountHolds
<1>3. 1..(u.next - 1) = 1..(t.next - 1) \cup {t.next}
  BY <1>1
<1>4. Before(u) = Before(t) \cup {This(p)}
  BY <1>3 DEF Before, This
<1>5. Before(u) \subseteq Homes' \cup Refused
  BY <1>2, <1>4, Grow DEF Account
<1>6. ASSUME t.at \in Batches
      PROVE  t.count.created <= Cardinality(Before(u) \cap Theirs'[t.at])
  <2>. DEFINE S == Before(t) \cap Theirs'[t.at]
              T == Before(u) \cap Theirs'[t.at]
  <2>1. Theirs' \in [Batches -> SUBSET Candidates]
    BY DEF Theirs, RowsOf, IntakeInv, TypeOK
  <2>2. S \in SUBSET Candidates /\ T \in SUBSET Candidates /\ S \subseteq T
    BY <1>4, <1>6, <2>1
  <2>3. t.count.created <= Cardinality(S) /\ t.count.created \in Int
    BY <1>1, <1>2, <1>6 DEF Account, Task, Count, Lines
  <2>. HIDE DEF S, T, t
  <2>4. Cardinality(S) \in Int /\ Cardinality(T) \in Int /\ Cardinality(S) <= Cardinality(T)
    BY <2>2, Finite, Larger
  <2>5. \A x, y, z \in Int : x <= y /\ y <= z => x <= z
    OBVIOUS
  <2>. QED
    BY <2>3, <2>4, <2>5 DEF S, T
<1>7. t.at \in Batches => t.upto = Len(LinesOf[t.at])
  BY <1>2 DEF Account
<1>. QED
  BY <1>5, <1>6, <1>7 DEF Account

LEMMA LookLedger ==
  ASSUME IntakeInv, IntakeInv', [Next]_vars, LedgerInv, NEW p \in Processes, Look(p)
  PROVE  LedgerInv'
<1>0. task \in [Processes -> Task] /\ task[p] \in Task /\ task[p].step = "look"
      /\ task[p].next <= task[p].upto /\ Accounts
      /\ \A f \in task[p].files : spool[f] > 0
  BY DEF IntakeInv, TypeOK, Look, Step, LedgerInv, Whole
<1>1. spool' = spool /\ ledger' = ledger
  BY DEF Look, batches
<1>2. CASE Known(p)
  <2>. DEFINE u == [task[p] EXCEPT !.next = @ + 1, !.count.skipped = @ + 1]
  <2>1. task' = [task EXCEPT ![p] = u]
    BY <1>2 DEF Look
  <2>2. /\ u \in Task /\ u.at = task[p].at /\ u.upto = task[p].upto /\ u.files = task[p].files
        /\ u.next = task[p].next + 1 /\ u.count.created = task[p].count.created
    BY <1>0, LineFacts, SkippedTask, Zenon
  <2>. HIDE DEF u
  <2>3. This(p) \in Homes
    BY <1>0, <1>2, LineFacts DEF Known, IntakeInv, memory, Homes
  <2>4. Account(u, Homes', Theirs')
    BY <1>0, <2>2, <2>3, LineMore
  <2>. QED
    BY <1>0, <1>1, <2>1, <2>2, <2>4, MoveOn
<1>3. CASE ~Known(p)
  <2>. DEFINE u == [task[p] EXCEPT !.step = "insert"]
  <2>1. task' = [task EXCEPT ![p] = u]
    BY <1>3 DEF Look
  <2>2. /\ u \in Task /\ u.at = task[p].at /\ u.count = task[p].count
        /\ u.upto = task[p].upto /\ u.next = task[p].next /\ u.files = task[p].files
    BY <1>0 DEF Task
  <2>. HIDE DEF u
  <2>3. Account(task[p], Homes', Theirs')
    BY <1>0, AccountHolds DEF Accounts
  <2>4. Account(u, Homes', Theirs')
    BY <1>0, <2>2, <2>3 DEF Account, Before
  <2>. QED
    BY <1>0, <1>1, <2>1, <2>2, <2>4, MoveOn
<1>. QED
  BY <1>2, <1>3

LEMMA RefuseLedger ==
  ASSUME IntakeInv, IntakeInv', [Next]_vars, LedgerInv, NEW p \in Processes,
         Refuse(p) \/ Collide(p)
  PROVE  LedgerInv'
<1>0. task \in [Processes -> Task] /\ task[p] \in Task /\ task[p].step = "insert"
      /\ task[p].next <= task[p].upto /\ Accounts
      /\ \A f \in task[p].files : spool[f] > 0
  BY DEF IntakeInv, TypeOK, Refuse, Collide, Step, LedgerInv, Whole, Reading
<1>1. spool' = spool /\ ledger' = ledger
  BY DEF Refuse, Collide, batches
<1>2. CASE Reject(p)
  <2>. DEFINE u == [task[p] EXCEPT !.step = "look", !.next = @ + 1, !.count.rejected = @ + 1]
  <2>1. task' = [task EXCEPT ![p] = u]
    BY <1>2 DEF Reject
  <2>2. /\ u \in Task /\ u.at = task[p].at /\ u.upto = task[p].upto /\ u.files = task[p].files
        /\ u.next = task[p].next + 1 /\ u.count.created = task[p].count.created
    BY <1>0, LineFacts, RejectedTask, Zenon
  <2>. HIDE DEF u
  <2>3. This(p) \in Homes \cup Refused
    BY <1>0, LineFacts DEF Refuse, Collide, Homes
  <2>4. Account(u, Homes', Theirs')
    BY <1>0, <2>2, <2>3, LineMore
  <2>. QED
    BY <1>0, <1>1, <2>1, <2>2, <2>4, MoveOn
<1>3. CASE task' = [task EXCEPT ![p] = Idle]
  BY <1>1, <1>3, MoveOn, IdleTask DEF Account, Idle
<1>. QED
  BY <1>2, <1>3 DEF Refuse, Collide

\* A stored line is one more candidate of the batch's own.
LEMMA InsertLedger ==
  ASSUME DistinctLines, IntakeInv, IntakeInv', [Next]_vars, LedgerInv, NEW p \in Processes,
         Insert(p)
  PROVE  LedgerInv'
<1>. DEFINE x == This(p)
            t == task[p]
            u == [t EXCEPT !.step = "look", !.next = @ + 1, !.count.created = @ + 1,
                           !.fresh = Append(@, x)]
<1>0. t \in Task /\ t.step = "insert" /\ t.next <= t.upto /\ Accounts
      /\ (\A f \in t.files : spool[f] > 0) /\ t.next \in Nat /\ t.next >= 1
      /\ Account(t, Homes, Theirs) /\ row \in [Candidates -> {NoRow, NoBatch} \cup Batches]
  <2>1. t \in Task /\ t.step = "insert" /\ Reading(t) /\ Accounts /\ Account(t, Homes, Theirs)
        /\ (\A f \in t.files : spool[f] > 0)
        /\ row \in [Candidates -> {NoRow, NoBatch} \cup Batches]
    BY DEF IntakeInv, TypeOK, Insert, Step, LedgerInv, Whole, Accounts
  <2>2. t.next \in Nat /\ t.upto \in Nat
    BY <2>1 DEF Task, Lines
  <2>. HIDE DEF t
  <2>. QED
    BY <2>1, <2>2 DEF Reading
<1>1. /\ x \in Candidates /\ ~Stored(x) /\ t.next \in 1..Len(LinesOf[t.at])
      /\ t.count.created + 1 \in Lines
  BY <1>0, LineFacts DEF Insert
<1>2. /\ row' = [row EXCEPT ![x] = BatchOf(p)] /\ spool' = spool /\ ledger' = ledger
      /\ task' = [task EXCEPT ![p] = u]
  BY DEF Insert, batches
<1>3. /\ u \in Task /\ u.at = t.at /\ u.upto = t.upto /\ u.files = t.files
      /\ u.next = t.next + 1 /\ u.count.created = t.count.created + 1
  BY <1>0, <1>1, CreatedTask, Zenon
<1>4. x = Line(t.at, t.next)
  BY DEF This
<1>5. row'[x] = BatchOf(p) /\ BatchOf(p) # NoRow /\ (t.at \in Batches => BatchOf(p) = t.at)
  BY <1>0, <1>1, <1>2, BatchNames DEF BatchOf
<1>6. x \in Homes' /\ (t.at \in Batches => x \in Theirs'[t.at])
  BY <1>1, <1>5 DEF Homes, Stored, Theirs, RowsOf
<1>. HIDE DEF u, x, t
<1>7. 1..(u.next - 1) = 1..(t.next - 1) \cup {t.next}
  BY <1>0, <1>3
<1>8. Before(u) = Before(t) \cup {x}
  BY <1>3, <1>4, <1>7 DEF Before
<1>9. Homes \subseteq Homes' /\ \A b \in Batches : Theirs[b] \subseteq Theirs'[b]
  BY Grow
<1>10. Before(u) \subseteq Homes' \cup Refused
  BY <1>0, <1>6, <1>8, <1>9 DEF Account
<1>11. ASSUME t.at \in Batches
       PROVE  u.count.created <= Cardinality(Before(u) \cap Theirs'[t.at])
  <2>. DEFINE S == Before(t) \cap Theirs[t.at]
              T == Before(u) \cap Theirs'[t.at]
  <2>1. Theirs' \in [Batches -> SUBSET Candidates] /\ Theirs \in [Batches -> SUBSET Candidates]
    <3>1. Theirs' \in [Batches -> SUBSET Candidates]
      BY DEF Theirs, RowsOf, IntakeInv, TypeOK
    <3>. QED
      BY <3>1, TheirsTyped
  <2>2. S \in SUBSET Candidates /\ T \in SUBSET Candidates /\ S \cup {x} \subseteq T
    BY <1>6, <1>8, <1>9, <1>11, <2>1
  <2>3. x \notin Before(t)
    <3>1. \A i \in 1..(t.next - 1) : i \in 1..Len(LinesOf[t.at]) /\ i # t.next
      <4>1. Len(LinesOf[t.at]) \in Nat
        BY <1>11, IntakeAssumption DEF ALines, Batches, Files
      <4>. QED
        BY <1>0, <1>1, <4>1
    <3>. QED
      BY <1>1, <1>4, <1>11, <3>1 DEF Before, DistinctLines
  <2>4. t.count.created <= Cardinality(S) /\ t.count.created \in Int
    BY <1>0, <1>11 DEF Account, Task, Count, Lines
  <2>5. x \notin S /\ IsFiniteSet(S) /\ S \cup {x} \in SUBSET Candidates
    BY <1>1, <2>2, <2>3, Finite
  <2>. HIDE DEF S, T
  <2>6. Cardinality(S \cup {x}) = Cardinality(S) + 1
    BY <2>5, FS_AddElement
  <2>7. Cardinality(S) \in Int /\ Cardinality(T) \in Int
        /\ Cardinality(S \cup {x}) <= Cardinality(T)
    BY <2>2, <2>5, Finite, Larger
  <2>8. \A a, b, c \in Int : a <= b /\ b + 1 <= c => a + 1 <= c
    OBVIOUS
  <2>9. t.count.created + 1 <= Cardinality(T)
    BY <2>4, <2>6, <2>7, <2>8
  <2>. QED
    BY <1>3, <2>9 DEF T
<1>12. Account(u, Homes', Theirs')
  BY <1>0, <1>3, <1>10, <1>11 DEF Account
<1>. QED
  BY <1>0, <1>2, <1>3, <1>12, MoveOn DEF t

\* Beginning and skipping, and what ends or goes to the curator.
LEMMA RestLedger ==
  ASSUME IntakeInv, IntakeInv', [Next]_vars, LedgerInv, NEW p \in Processes,
         BeginCycle(p) \/ SkipFile(p) \/ Kill(p) \/ BeginCurate(p) \/ Decide(p)
  PROVE  LedgerInv'
<1>0. task \in [Processes -> Task] /\ task[p] \in Task
      /\ \A f \in task[p].files : spool[f] > 0
  BY DEF IntakeInv, TypeOK, LedgerInv, Whole
<1>1. spool' = spool /\ ledger' = ledger
  BY DEF BeginCycle, SkipFile, Kill, BeginCurate, Decide, batches
<1>2. ASSUME NEW u, task' = [task EXCEPT ![p] = u], u.step \in {"idle", "file", "curate"},
             \A f \in u.files : spool[f] > 0
      PROVE  LedgerInv'
  <2>1. u \in Task
    BY <1>0, <1>2 DEF IntakeInv, TypeOK
  <2>2. Account(u, Homes', Theirs')
    BY <1>2 DEF Account
  <2>. QED
    BY <1>1, <1>2, <2>1, <2>2, MoveOn
<1>3. CASE BeginCycle(p)
  <2>. DEFINE u == [task[p] EXCEPT !.step = "file", !.files = {f \in Files : spool[f] > 0}]
  <2>1. task' = [task EXCEPT ![p] = u]
    BY <1>3 DEF BeginCycle
  <2>2. u.step = "file" /\ \A f \in u.files : spool[f] > 0
    BY <1>0 DEF Task
  <2>. QED
    BY <1>2, <2>1, <2>2
<1>4. CASE SkipFile(p)
  <2>1. PICK f \in task[p].files : task' = [task EXCEPT ![p].files = @ \ {f}]
    BY <1>4 DEF SkipFile
  <2>. DEFINE u == [task[p] EXCEPT !.files = @ \ {f}]
  <2>2. task' = [task EXCEPT ![p] = u]
    BY <2>1
  <2>3. u.step = "file" /\ \A g \in u.files : spool[g] > 0
    BY <1>0, <1>4 DEF Task, SkipFile, Step
  <2>. QED
    BY <1>2, <2>2, <2>3
<1>5. CASE Kill(p)
  <2>1. task' = [task EXCEPT ![p] = Idle]
    BY <1>5 DEF Kill
  <2>2. Idle.step = "idle" /\ Idle.files = {}
    BY DEF Idle
  <2>. QED
    BY <1>2, <2>1, <2>2
<1>6. ASSUME NEW s, Hand(p, s) PROVE LedgerInv'
  <2>. DEFINE u == IF s = <<>> THEN Idle ELSE [Idle EXCEPT !.step = "curate", !.fresh = s]
  <2>1. task' = [task EXCEPT ![p] = u]
    BY <1>6 DEF Hand
  <2>2. u.step \in {"idle", "curate"} /\ u.files = {}
    BY DEF Idle
  <2>. QED
    BY <1>2, <2>1, <2>2
<1>7. CASE BeginCurate(p) \/ Decide(p)
  BY <1>6, <1>7 DEF BeginCurate, Decide
<1>. QED
  BY <1>3, <1>4, <1>5, <1>7

\* A file or vault that is opened has no line read yet; one that is closed has
\* them all read, and the ledger says what became of them.
LEMMA FilesLedger ==
  ASSUME IntakeInv, IntakeInv', [Next]_vars, LedgerInv, NEW p \in Processes,
         OpenFile(p) \/ BeginImport(p) \/ CloseFile(p)
  PROVE  LedgerInv'
<1>0. /\ task \in [Processes -> Task] /\ task[p] \in Task /\ Accounts
      /\ (\A f \in task[p].files : spool[f] > 0)
      /\ ledger \in [Batches -> [status: Statuses, count: Count]]
      /\ spool' = spool
  BY DEF IntakeInv, TypeOK, LedgerInv, Whole, OpenFile, BeginImport, CloseFile
<1>1. ASSUME NEW u, u.next = 1, u.count = NoCount, \A f \in u.files : spool[f] > 0,
             u.at \in Batches => u.upto = Len(LinesOf[u.at]),
             task' = [task EXCEPT ![p] = u],
             \A b \in Batches : ledger'[b].status = "completed" => ledger'[b] = ledger[b]
      PROVE  LedgerInv'
  <2>1. u \in Task
    BY <1>0, <1>1 DEF IntakeInv, TypeOK
  <2>2. Before(u) = {}
    BY <1>1 DEF Before
  <2>3. Cardinality({}) = 0 /\ u.count.created = 0
    BY <1>1, FS_EmptySet DEF NoCount
  <2>4. \A S : {} \cap S = {}
    OBVIOUS
  <2>5. Account(u, Homes', Theirs')
    BY <1>1, <2>2, <2>3, <2>4 DEF Account
  <2>. QED
    BY <1>0, <1>1, <2>1, <2>5, MoveOn
<1>2. CASE OpenFile(p)
  <2>1. PICK f \in task[p].files :
         /\ task' = [task EXCEPT
              ![p].step = "look", ![p].files = @ \ {f}, ![p].at = f,
              ![p].upto = spool[f], ![p].next = 1, ![p].count = NoCount,
              ![p].existing = f \in Receipts /\ ledger[f].status # "none"]
         /\ ledger' = IF f \in Receipts /\ ledger[f].status = "none"
                      THEN [ledger EXCEPT ![f].status = "active"] ELSE ledger
    BY <1>2 DEF OpenFile
  <2>. DEFINE old == f \in Receipts /\ ledger[f].status # "none"
              u == [task[p] EXCEPT !.step = "look", !.files = @ \ {f}, !.at = f,
                      !.upto = spool[f], !.next = 1, !.count = NoCount, !.existing = old]
  <2>2. task' = [task EXCEPT ![p] = u]
    BY <2>1
  <2>. HIDE DEF old
  <2>3. /\ u.next = 1 /\ u.count = NoCount /\ u.at = f /\ u.upto = spool[f]
        /\ u.files = task[p].files \ {f}
    BY <1>0 DEF Task
  <2>. HIDE DEF u
  <2>4. f \in Batches => spool[f] = Len(LinesOf[f])
    <3>1. f \in Files /\ spool[f] > 0
      BY <1>0, <2>1 DEF Task
    <3>2. f \in Batches => f \in Receipts
      BY <3>1, IntakeAssumption DEF AKinds, Batches
    <3>. QED
      BY <3>1, <3>2 DEF LedgerInv, Whole
  <2>5. \A b \in Batches : ledger'[b].status = "completed" => ledger'[b] = ledger[b]
    BY <1>0, <2>1
  <2>. QED
    BY <1>0, <1>1, <2>2, <2>3, <2>4, <2>5
<1>3. CASE BeginImport(p)
  <2>. DEFINE u == [task[p] EXCEPT !.step = "look", !.at = p, !.upto = Len(LinesOf[p])]
  <2>1. task' = [task EXCEPT ![p] = u] /\ task[p] = Idle
    BY <1>3 DEF BeginImport, MayBegin, Step, IntakeInv, Resting
  <2>2. /\ u.next = task[p].next /\ u.count = task[p].count /\ u.at = p
        /\ u.upto = Len(LinesOf[p]) /\ u.files = task[p].files
    BY <1>0 DEF Task
  <2>. HIDE DEF u
  <2>3. u.next = 1 /\ u.count = NoCount /\ u.files = {}
    BY <2>1, <2>2 DEF Idle
  <2>4. \A b \in Batches : ledger'[b].status = "completed" => ledger'[b] = ledger[b]
    BY <1>0, <1>3 DEF BeginImport
  <2>. QED
    BY <1>1, <2>1, <2>2, <2>3, <2>4
<1>4. CASE CloseFile(p)
  <2>. DEFINE t == task[p]
  <2>1. /\ t.step = "look" /\ t.next > t.upto /\ Reading(t) /\ Account(t, Homes, Theirs)
        /\ t \in Task
    BY <1>0, <1>4 DEF CloseFile, Read, Step, IntakeInv, Accounts
  <2>2. t.next \in Nat /\ t.upto \in Nat
    BY <2>1 DEF Task, Lines
  <2>3. t.next = t.upto + 1 /\ Sum(t) = t.upto
    <3>. HIDE DEF t
    <3>. QED
      BY <2>1, <2>2 DEF Reading
  <2>4. UNCHANGED <<row, deleted>>
    BY <1>4 DEF CloseFile, store
  <2>5. t.at \in Batches => BatchOf(p) = t.at
    BY DEF BatchOf
  <2>6. t.at \notin Batches => BatchOf(p) = NoBatch
    BY DEF BatchOf
  <2>7. ASSUME t.at \in Batches
        PROVE  /\ Sum(t) = Len(LinesOf[t.at])
               /\ t.count.created <= Cardinality(RowsOf(t.at) \cup deleted)
               /\ \A i \in 1..Len(LinesOf[t.at]) : Line(t.at, i) \in Homes \cup Refused
    <3>. DEFINE S == Before(t) \cap Theirs[t.at]
                T == RowsOf(t.at) \cup deleted
    <3>1. Sum(t) = Len(LinesOf[t.at]) /\ t.next - 1 = Len(LinesOf[t.at])
      BY <2>1, <2>2, <2>3, <2>7 DEF Account
    <3>2. \A i \in 1..Len(LinesOf[t.at]) : Line(t.at, i) \in Homes \cup Refused
      BY <2>1, <3>1 DEF Account, Before
    <3>3. t.count.created <= Cardinality(S) /\ t.count.created \in Int
      BY <2>1, <2>7 DEF Account, Task, Count, Lines
    <3>4. S \in SUBSET Candidates /\ T \in SUBSET Candidates /\ S \subseteq T
      BY <2>7, TheirsTyped DEF Theirs
    <3>. HIDE DEF S, T
    <3>5. Cardinality(S) \in Int /\ Cardinality(T) \in Int /\ Cardinality(S) <= Cardinality(T)
      BY <3>4, Finite, Larger
    <3>6. \A x, y, z \in Int : x <= y /\ y <= z => x <= z
      OBVIOUS
    <3>7. t.count.created <= Cardinality(T)
      BY <3>3, <3>5, <3>6
    <3>. QED
      BY <3>1, <3>2, <3>7 DEF T
  <2>8. \A b \in Batches : ledger'[b].status = "completed" =>
          \/ ledger'[b] = ledger[b]
          \/ b = t.at /\ ledger'[b].count = t.count
    <3>1. CASE BatchOf(p) # NoBatch /\ ~t.existing
      <4>1. ledger' = [ledger EXCEPT ![BatchOf(p)] = [status |-> "completed", count |-> t.count]]
        BY <1>4, <3>1 DEF CloseFile
      <4>2. t.at \in Batches /\ BatchOf(p) = t.at
        BY <2>5, <2>6, <3>1
      <4>. QED
        BY <1>0, <4>1, <4>2
    <3>2. CASE ~(BatchOf(p) # NoBatch /\ ~t.existing)
      BY <1>4, <3>2 DEF CloseFile
    <3>. QED
      BY <3>1, <3>2
  <2>. HIDE DEF t
  <2>9. LedgerTrue'
    <3>. SUFFICES ASSUME NEW b \in Batches, ledger'[b].status = "completed"
                  PROVE  LET count == ledger'[b].count IN
                     /\ count.created + count.rejected + count.skipped = Len(LinesOf[b])
                     /\ count.created <= Cardinality((RowsOf(b) \cup deleted)')
                     /\ \A i \in 1..Len(LinesOf[b]) :
                          Stored(Line(b, i))' \/ Line(b, i) \in Refused \cup deleted'
      BY DEF LedgerTrue
    <3>1. CASE ledger'[b] = ledger[b]
      BY <3>1, LedgerHolds DEF LedgerInv, Homes
    <3>2. CASE b = t.at /\ ledger'[b].count = t.count
      <4>1. (RowsOf(b) \cup deleted)' = RowsOf(b) \cup deleted
        BY <2>4 DEF RowsOf
      <4>2. \A c \in Homes : Stored(c)' \/ c \in deleted'
        BY <2>4 DEF Homes, Stored
      <4>. QED
        BY <2>7, <3>2, <4>1, <4>2 DEF Sum
    <3>. QED
      BY <2>8, <3>1, <3>2
  <2>10. PICK u : /\ task' = [task EXCEPT ![p] = u] /\ u.step \in {"idle", "file"}
                  /\ \A f \in u.files : spool[f] > 0
    <3>1. CASE p \in Vaults
      <4>1. task' = [task EXCEPT ![p] = Idle]
        BY <1>4, <3>1 DEF CloseFile
      <4>2. Idle.step = "idle" /\ Idle.files = {}
        BY DEF Idle
      <4>. QED
        BY <4>1, <4>2
    <3>2. CASE p \notin Vaults
      <4>. DEFINE u == [Idle EXCEPT !.step = "file", !.files = task[p].files,
                                    !.fresh = task[p].fresh]
      <4>1. task' = [task EXCEPT ![p] = u]
        BY <1>4, <3>2 DEF CloseFile
      <4>2. u.step = "file" /\ u.files = task[p].files
        BY DEF Idle
      <4>. QED
        BY <1>0, <4>1, <4>2
    <3>. QED
      BY <3>1, <3>2
  <2>11. u \in Task /\ Account(u, Homes', Theirs')
    BY <1>0, <2>10 DEF IntakeInv, TypeOK, Account
  <2>12. Accounts'
    BY <1>0, <2>10, <2>11, AccountsMove
  <2>13. Whole'
    <3>1. task'[p] = u /\ \A q \in Processes \ {p} : task'[q] = task[q]
      BY <1>0, <2>10
    <3>. QED
      BY <1>0, <2>10, <3>1 DEF LedgerInv, Whole
  <2>. QED
    BY <2>9, <2>12, <2>13 DEF LedgerInv
<1>. QED
  BY <1>2, <1>3, <1>4

\* The steps that are no process's.
LEMMA OthersLedger ==
  ASSUME IntakeInv, IntakeInv', [Next]_vars, LedgerInv,
         \/ \E f \in Files : Capture(f) \/ Drop(f)
         \/ Sweep
         \/ \E b \in Batches : RollbackRows(b) \/ RollbackMark(b)
         \/ UNCHANGED vars
  PROVE  LedgerInv'
<1>0. /\ ledger \in [Batches -> [status: Statuses, count: Count]]
      /\ task \in [Processes -> Task] /\ spool \in [Files -> Nat]
      /\ \A f \in Files : Len(LinesOf[f]) \in Nat
  BY IntakeAssumption DEF IntakeInv, TypeOK, ALines
<1>1. task' = task
  BY DEF Capture, Drop, Sweep, RollbackRows, RollbackMark, vars
<1>2. Accounts'
  BY <1>0, <1>1, AccountHolds DEF LedgerInv, Accounts
<1>3. \A b \in Batches : ledger'[b].status = "completed" => ledger'[b] = ledger[b]
  <2>1. CASE ledger' = ledger
    BY <2>1
  <2>2. ASSUME NEW b \in Batches, RollbackMark(b)
        PROVE  \A o \in Batches : ledger'[o].status = "completed" => ledger'[o] = ledger[o]
    BY <1>0, <2>2 DEF RollbackMark
  <2>. QED
    BY <2>1, <2>2 DEF Capture, Drop, Sweep, RollbackRows, vars, batches
<1>4. LedgerTrue'
  BY <1>3, LedgerSame DEF LedgerInv
<1>5. Whole'
  <2>1. CASE spool' = spool
    BY <1>1, <2>1 DEF LedgerInv, Whole
  <2>2. ASSUME NEW f \in Files, Capture(f) \/ Drop(f) PROVE Whole'
    <3>1. \A g \in Files : spool[g] > 0 => spool'[g] > 0
      BY <1>0, <2>2 DEF Capture, Drop
    <3>2. \A g \in Receipts : spool'[g] \in {0, Len(LinesOf[g])}
      BY <1>0, <2>2, IntakeAssumption DEF Capture, Drop, LedgerInv, Whole, AFiles, Files
    <3>. QED
      BY <1>0, <1>1, <3>1, <3>2 DEF LedgerInv, Whole, Task
  <2>. QED
    BY <2>1, <2>2 DEF Sweep, RollbackRows, RollbackMark, vars, store
<1>. QED
  BY <1>2, <1>4, <1>5 DEF LedgerInv

LEMMA LedgerStep ==
  ASSUME DistinctLines
  PROVE  IntakeInv /\ IntakeInv' /\ LedgerInv /\ [Next]_vars => LedgerInv'
<1>. SUFFICES ASSUME IntakeInv, IntakeInv', LedgerInv, [Next]_vars PROVE LedgerInv'
  OBVIOUS
<1>1. ASSUME NEW p \in Processes,
             BeginCycle(p) \/ BeginImport(p) \/ Advance(p) \/ Kill(p) \/ SkipFile(p)
      PROVE  LedgerInv'
  BY <1>1, LookLedger, InsertLedger, RefuseLedger, RestLedger, FilesLedger DEF Advance
<1>. QED
  BY <1>1, OthersLedger DEF Next

LEMMA LedgerInit == Init => LedgerInv
<1>. SUFFICES ASSUME Init PROVE LedgerInv
  OBVIOUS
<1>1. Whole /\ Accounts
  BY DEF Init, Whole, Accounts, Account, Idle, Files
<1>2. LedgerTrue
  BY DEF Init, LedgerTrue
<1>. QED
  BY <1>1, <1>2 DEF LedgerInv

\* The ledger is true of every completed batch, whatever daemons, commands,
\* kills and rollbacks came between (import_batches), provided a batch holds
\* no candidate twice.
THEOREM Ledger ==
  ASSUME DistinctLines
  PROVE  Spec => []LedgerTrue
<1>1. Init => LedgerInv
  BY LedgerInit
<1>2. IntakeInv /\ IntakeInv' /\ LedgerInv /\ [Next]_vars => LedgerInv'
  BY LedgerStep
<1>3. LedgerInv => LedgerTrue
  BY DEF LedgerInv
<1>. QED
  BY <1>1, <1>2, <1>3, Always, PTL DEF Spec
=============================================================================
