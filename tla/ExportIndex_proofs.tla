-------------------------- MODULE ExportIndex_proofs --------------------------
(***************************************************************************)
(* Safety of export and index for any memories, runs at once and faults:   *)
(* what the cursor, the mark and a reconcile run say of the tree and of    *)
(* the index.                                                              *)
(***************************************************************************)
EXTENDS ExportIndex, TLAPS

----------------------------------------------------------------------------
(* The inductive invariant.                                                *)

Live(m) == Stored(m) /\ mem[m].open
Filed(m) == \E p \in Places : tree[m][p] # NoFile

\* Memories in doubt for more than the run of an incremental exporter, which
\* leaves a file of every memory it writes.
Lost(m) == m \in stray \/ \E e \in Operators : m \in run[e].behind

\* Nothing is stamped in the future.
Times == cursor <= clock /\ mark <= clock /\ \A e \in Exporters : run[e].started <= clock

\* What a run has in hand at each step.
Shape(e) ==
  LET r == run[e] IN
  /\ r.step \in {"idle", "read"} => r.items = {} /\ r.remove = {} /\ r.behind = {}
  /\ r.step \in {"index", "mark"} => e \notin Operators /\ r.items = {} /\ r.behind = {}
  /\ r.step = "scan" => e \in Operators
  /\ e \notin Operators => r.remove = {}
  /\ r.quiet => e \in Operators /\ r.step \in {"scan", "write"}

\* The rows a run has read: they are of stored memories, were open if these
\* still are, and are outdated only by what happened since the run began.
Items(e) ==
  \A r \in run[e].items :
    /\ Stored(r.id) /\ r.rev > 0
    /\ mem[r.id].open => r.open
    /\ e \notin Operators /\ Outdated(r) => mem[r.id].updated >= run[e].started

Behind(e) ==
  e \notin Operators =>
    \A m \in run[e].behind :
      /\ Stored(m) /\ mem[m].updated >= run[e].started
      /\ Live(m) /\ ~Lost(m) => Filed(m)

\* What is older than the start of a run is shown, or will be by the run.
Covers(e) ==
  e \notin Operators /\ run[e].step = "write" =>
    \A m \in Ids : Live(m) /\ mem[m].updated < run[e].started /\ ~Doubtful(m) =>
      AsItem(m) \in run[e].items \/ Shows(tree, m)

\* What was promoted before the start of a run has a file, or will get one,
\* and an entry in the index when the run is to mark it.
Files(e) ==
  e \notin Operators =>
    \A m \in Ids : Live(m) /\ mem[m].promoted < run[e].started /\ ~Lost(m) =>
      /\ run[e].step = "write" => Filed(m) \/ \E r \in run[e].items : r.id = m
      /\ run[e].step \in {"index", "mark"} => Filed(m)
      /\ run[e].step = "mark" => Indexed(m)

Marked ==
  \A m \in Ids : Live(m) /\ mem[m].promoted < mark /\ ~Lost(m) => Filed(m) /\ Indexed(m)

Wanted(m, p) == Live(m) /\ p = Place(mem[m])

\* A quiet reconcile has read the store as it is; nobody else writes files.
Quiet(e) ==
  LET r == run[e] IN
  r.quiet =>
    /\ \A g \in Exporters \ {e} : run[g].step \notin {"scan", "write"}
    /\ \A i \in r.items : ~Outdated(i)
    /\ r.step = "scan" => \A m \in Ids : Stored(m) => AsItem(m) \in r.items
    /\ r.step = "write" =>
         /\ \A m \in Ids : Live(m) => AsItem(m) \in r.items \/ Shows(tree, m)
         /\ \A m \in Ids : \A p \in Places :
              /\ tree[m][p] # NoFile /\ ~Wanted(m, p) => <<m, p>> \in r.remove
              /\ <<m, p>> \in r.remove => ~Wanted(m, p)

OnlyStored == \A m \in Ids : ~Stored(m) => \A p \in Places : tree[m][p] = NoFile

ExportInv ==
  /\ TypeOK
  /\ Times
  /\ \A e \in Exporters :
       Shape(e) /\ Items(e) /\ Behind(e) /\ Covers(e) /\ Files(e) /\ Quiet(e)
  /\ Marked
  /\ OnlyStored
  /\ CursorSound

----------------------------------------------------------------------------
(* What a step of one run leaves to the others.                            *)

Alike(r, s) ==
  /\ r.step = s.step /\ r.started = s.started /\ r.items = s.items
  /\ r.remove = s.remove /\ r.behind = s.behind /\ (r.quiet => s.quiet)

Writing(e) == run[e].step \in {"scan", "write"}

LEMMA Others ==
  ASSUME ExportInv, NEW e \in Exporters, mem' = mem,
         \A g \in Exporters \ {e} : Alike(run'[g], run[g]),
         \A m \in Ids : Doubtful(m) /\ ~Doubtful(m)' =>
           \/ Shows(tree, m)'
           \/ \A g \in (Exporters \ Operators) \ {e} : ~Running(g),
         \A m \in Ids : Live(m) =>
           /\ Lost(m) /\ ~Lost(m)' => Filed(m)' /\ Indexed(m)'
           /\ Shows(tree, m) /\ ~Doubtful(m)' => Shows(tree, m)'
           /\ Filed(m) /\ ~Lost(m)' => Filed(m)'
           /\ Filed(m) /\ Indexed(m) /\ ~Lost(m)' => Indexed(m)',
         \/ tree' = tree /\ (Writing(e)' => Writing(e))
         \/ \A g \in Exporters \ {e} : ~run'[g].quiet
  PROVE  /\ \A g \in Exporters \ {e} :
              Shape(g)' /\ Items(g)' /\ Behind(g)' /\ Covers(g)' /\ Files(g)' /\ Quiet(g)'
         /\ mark' = mark => Marked'
         /\ cursor' = cursor
            /\ (\A m \in Ids : Doubtful(m) /\ ~Doubtful(m)' => Shows(tree, m)')
              => CursorSound'
<1>1. ASSUME NEW g \in Exporters \ {e}
      PROVE  Shape(g)' /\ Items(g)' /\ Behind(g)' /\ Covers(g)' /\ Files(g)' /\ Quiet(g)'
  <2>0. /\ Shape(g) /\ Items(g) /\ Behind(g) /\ Covers(g) /\ Files(g) /\ Quiet(g)
        /\ Alike(run'[g], run[g])
    BY DEF ExportInv
  <2>1. Shape(g)'
    BY <2>0 DEF Shape, Alike
  <2>2. Items(g)'
    BY <2>0 DEF Items, Alike, Outdated, AsItem, Stored
  <2>3. Behind(g)'
    <3>1. ASSUME g \notin Operators, NEW m \in run'[g].behind
          PROVE  /\ Stored(m)' /\ mem'[m].updated >= run'[g].started
                 /\ Live(m)' /\ ~Lost(m)' => Filed(m)'
      <4>1. /\ m \in run[g].behind /\ mem[m].updated >= run[g].started /\ Stored(m)
            /\ Live(m) /\ ~Lost(m) => Filed(m)
        BY <2>0, <3>1 DEF Alike, Behind
      <4>2. m \in Ids
        BY <4>1 DEF ExportInv, TypeOK, Run
      <4>3. Live(m)' = Live(m) /\ Stored(m)' = Stored(m)
        BY DEF Live, Stored
      <4>. QED
        BY <2>0, <4>1, <4>2, <4>3 DEF Alike
    <3>. QED
      BY <3>1 DEF Behind
  <2>4. Covers(g)'
    <3>1. ASSUME g \notin Operators, run'[g].step = "write", NEW m \in Ids, Live(m)',
                 mem'[m].updated < run'[g].started, ~Doubtful(m)'
          PROVE  AsItem(m)' \in run'[g].items \/ Shows(tree, m)'
      <4>1. Live(m) /\ run[g].step = "write" /\ mem[m].updated < run[g].started
            /\ AsItem(m)' = AsItem(m) /\ run'[g].items = run[g].items
        BY <2>0, <3>1 DEF Live, Stored, Alike, AsItem
      <4>2. Running(g)
        BY <4>1 DEF Running
      <4>3. ~Doubtful(m) => AsItem(m) \in run[g].items \/ Shows(tree, m)
        BY <2>0, <3>1, <4>1 DEF Covers
      <4>. QED
        BY <3>1, <4>1, <4>2, <4>3
    <3>. QED
      BY <3>1 DEF Covers
  <2>5. Files(g)'
    <3>1. ASSUME g \notin Operators, NEW m \in Ids, Live(m)',
                 mem'[m].promoted < run'[g].started, ~Lost(m)'
          PROVE  /\ run'[g].step = "write" => Filed(m)' \/ \E r \in run'[g].items : r.id = m
                 /\ run'[g].step \in {"index", "mark"} => Filed(m)'
                 /\ run'[g].step = "mark" => Indexed(m)'
      <4>1. Live(m) /\ mem[m].promoted < run[g].started
            /\ run'[g].items = run[g].items /\ run'[g].step = run[g].step
        BY <2>0, <3>1 DEF Live, Stored, Alike
      <4>2. ~Lost(m) =>
              /\ run[g].step = "write" => Filed(m) \/ \E r \in run[g].items : r.id = m
              /\ run[g].step \in {"index", "mark"} => Filed(m)
              /\ run[g].step = "mark" => Indexed(m)
        BY <2>0, <3>1, <4>1 DEF Files
      <4>. QED
        BY <3>1, <4>1, <4>2
    <3>. QED
      BY <3>1 DEF Files
  <2>6. Quiet(g)'
    <3>1. CASE ~run'[g].quiet
      BY <3>1 DEF Quiet
    <3>2. CASE run'[g].quiet
      <4>1. run[g].quiet /\ tree' = tree /\ (Writing(e)' => Writing(e))
        BY <2>0, <3>2 DEF Alike
      <4>2. \A f \in Exporters \ {g} : run'[f].step \notin {"scan", "write"}
        BY <2>0, <4>1 DEF Quiet, Alike, Writing
      <4>. QED
        BY <2>0, <4>1, <4>2
           DEF Quiet, Alike, Outdated, AsItem, Stored, Live, Shows, Place, Wanted
    <3>. QED
      BY <3>1, <3>2
  <2>. QED
    BY <2>1, <2>2, <2>3, <2>4, <2>5, <2>6
<1>2. ASSUME mark' = mark PROVE Marked'
  <2>1. ASSUME NEW m \in Ids, Live(m)', mem'[m].promoted < mark', ~Lost(m)'
        PROVE  Filed(m)' /\ Indexed(m)'
    <3>1. Live(m) /\ (~Lost(m) => Filed(m) /\ Indexed(m))
      BY <1>2, <2>1 DEF ExportInv, Marked, Live, Stored
    <3>. QED
      BY <2>1, <3>1
  <2>. QED
    BY <2>1 DEF Marked
<1>3. ASSUME cursor' = cursor, \A m \in Ids : Doubtful(m) /\ ~Doubtful(m)' => Shows(tree, m)'
      PROVE  CursorSound'
  <2>1. ASSUME NEW m \in Ids, Live(m)', mem'[m].updated < cursor', ~Doubtful(m)'
        PROVE  Shows(tree, m)'
    <3>1. Live(m) /\ (~Doubtful(m) => Shows(tree, m))
      BY <1>3, <2>1 DEF ExportInv, CursorSound, Live, Stored
    <3>. QED
      BY <1>3, <2>1, <3>1
  <2>. QED
    BY <2>1 DEF CursorSound, Live
<1>. QED
  BY <1>1, <1>2, <1>3

----------------------------------------------------------------------------
(* The steps, one by one.                                                  *)

\* A run's step in which no memory changes: the parts put together.
Own(e) == Shape(e) /\ Items(e) /\ Behind(e) /\ Covers(e) /\ Files(e) /\ Quiet(e)

LEMMA Assemble ==
  ASSUME TypeOK', Times', NEW e \in Exporters, Own(e)',
         \A g \in Exporters \ {e} :
           Shape(g)' /\ Items(g)' /\ Behind(g)' /\ Covers(g)' /\ Files(g)' /\ Quiet(g)',
         Marked', OnlyStored', CursorSound'
  PROVE  ExportInv'
BY DEF ExportInv, Own

LEMMA IdleRun == Idle \in Run /\ Idle.step = "idle" /\ Idle.items = {} /\ Idle.remove = {}
                 /\ Idle.behind = {} /\ Idle.quiet = FALSE /\ Idle.started = 0
BY ExportAssumption DEF Idle, Run, ABounds

LEMMA Placed ==
  ASSUME TypeOK, NEW m \in Ids
  PROVE  AsItem(m) \in Item /\ Place(mem[m]) \in Places
BY DEF TypeOK, Memory, AsItem, Item, Place, Places

LEMMA InitInv == Init => ExportInv
<1>. SUFFICES ASSUME Init PROVE ExportInv
  OBVIOUS
<1>1. \A e \in Exporters : run[e] = Idle
  BY DEF Init
<1>2. Empty \in Memory
  BY ExportAssumption DEF Empty, Memory, AArchive, ABounds
<1>3. TypeOK
  BY <1>1, <1>2, IdleRun, ExportAssumption DEF Init, TypeOK, ABounds, NoFile
<1>4. \A m \in Ids : ~Stored(m)
  BY DEF Init, Stored, Empty
<1>5. Times
  BY <1>1, IdleRun DEF Init, Times, Never
<1>6. \A e \in Exporters :
        Shape(e) /\ Items(e) /\ Behind(e) /\ Covers(e) /\ Files(e) /\ Quiet(e)
  BY <1>1, <1>4, IdleRun DEF Shape, Items, Behind, Covers, Files, Quiet, Live
<1>7. Marked /\ CursorSound /\ OnlyStored
  BY <1>4 DEF Marked, CursorSound, OnlyStored, Live, Init
<1>. QED
  BY <1>3, <1>5, <1>6, <1>7 DEF ExportInv

LEMMA TickKeeps ==
  ASSUME ExportInv, Tick
  PROVE  ExportInv'
<1>1. UNCHANGED <<mem, tree, index, cursor, mark, run, stray, faults>>
      /\ clock \in 0..MaxClock /\ clock < MaxClock /\ clock' = clock + 1
  BY DEF Tick, ExportInv, TypeOK
<1>2. TypeOK'
  BY <1>1, ExportAssumption DEF ExportInv, TypeOK, ABounds
<1>3. Times'
  <2>1. cursor \in Int /\ mark \in Int /\ \A e \in Exporters : run[e].started \in Int
    BY ExportAssumption DEF ExportInv, TypeOK, Run, ABounds, Never
  <2>. QED
    BY <1>1, <2>1, ExportAssumption DEF ExportInv, Times, ABounds
<1>4. \A e \in Exporters :
        Shape(e)' /\ Items(e)' /\ Behind(e)' /\ Covers(e)' /\ Files(e)' /\ Quiet(e)'
  BY <1>1 DEF ExportInv, Shape, Items, Behind, Covers, Files, Quiet, Outdated, AsItem, Live,
              Stored, Lost, Doubtful, Shows, Filed, Indexed, Wanted
<1>5. Marked' /\ OnlyStored' /\ CursorSound'
  BY <1>1 DEF ExportInv, Marked, OnlyStored, CursorSound, Live, Stored, Lost, Doubtful, Shows,
              Filed, Indexed
<1>. QED
  BY <1>2, <1>3, <1>4, <1>5 DEF ExportInv

\* A step that touches neither store nor tree nor index and forgets no doubt.
LEMMA RunOnly ==
  ASSUME ExportInv, NEW e \in Exporters, NEW u \in Run, run' = [run EXCEPT ![e] = u],
         UNCHANGED <<clock, mem, tree, index, cursor, mark>>,
         stray \subseteq stray', stray' \subseteq Ids, faults' \in 0..MaxFaults,
         run[e].behind \subseteq u.behind \cup stray', u.started <= clock,
         u.step \in {"scan", "write"} => Writing(e), Own(e)'
  PROVE  ExportInv'
<1>1. /\ run \in [Exporters -> Run] /\ run'[e] = u
      /\ \A g \in Exporters \ {e} : run'[g] = run[g]
  BY DEF ExportInv, TypeOK
<1>2. TypeOK'
  BY DEF ExportInv, TypeOK
<1>3. Times'
  BY <1>1 DEF ExportInv, Times
<1>4. \A m \in Ids : (Doubtful(m) => Doubtful(m)') /\ (Lost(m) => Lost(m)')
  <2>1. ASSUME NEW m \in Ids, NEW g \in Exporters, m \in run[g].behind
        PROVE  m \in run'[g].behind \/ m \in stray'
    BY <1>1, <2>1
  <2>2. \A g \in Operators : g \in Exporters
    BY DEF Exporters
  <2>. QED
    BY <2>1, <2>2 DEF Doubtful, Lost
<1>5. \A m \in Ids : /\ Shows(tree, m)' = Shows(tree, m) /\ Filed(m)' = Filed(m)
                     /\ Indexed(m)' = Indexed(m)
  BY DEF Shows, Filed, Indexed
<1>6. Writing(e)' => Writing(e)
  BY <1>1 DEF Writing
<1>7. /\ \A g \in Exporters \ {e} :
           Shape(g)' /\ Items(g)' /\ Behind(g)' /\ Covers(g)' /\ Files(g)' /\ Quiet(g)'
      /\ Marked' /\ CursorSound'
  <2>1. \A g \in Exporters \ {e} : Alike(run'[g], run[g])
    BY <1>1 DEF Alike
  <2>. QED
    BY <1>4, <1>5, <1>6, <2>1, Others
<1>8. OnlyStored'
  BY DEF ExportInv, OnlyStored, Stored
<1>. QED
  BY <1>2, <1>3, <1>7, <1>8, Assemble

LEMMA StopKeeps ==
  ASSUME ExportInv, NEW e \in Exporters, EndReconcile(e) \/ Kill(e)
  PROVE  ExportInv'
<1>1. /\ run' = [run EXCEPT ![e] = Idle] /\ stray' = stray \cup run[e].behind
      /\ UNCHANGED <<clock, mem, tree, index, cursor, mark>>
  BY DEF EndReconcile, Kill, Stop
<1>2. faults' \in 0..MaxFaults
  BY ExportAssumption DEF EndReconcile, Kill, Fault, ExportInv, TypeOK, ABounds
<1>3. stray \cup run[e].behind \subseteq Ids /\ clock >= 0
  BY ExportAssumption DEF ExportInv, TypeOK, Run, ABounds
<1>4. run'[e] = Idle
  BY <1>1 DEF ExportInv, TypeOK
<1>5. Own(e)'
  BY <1>4, IdleRun DEF Own, Shape, Items, Behind, Covers, Files, Quiet
<1>. QED
  BY <1>1, <1>2, <1>3, <1>5, RunOnly, IdleRun

LEMMA BeginKeeps ==
  ASSUME ExportInv, NEW e \in Exporters, Begin(e)
  PROVE  ExportInv'
<1>. DEFINE s == IF e \in Operators THEN 0 ELSE clock
            u == [run[e] EXCEPT !.step = "read", !.started = s]
<1>1. /\ run' = [run EXCEPT ![e] = u]
      /\ UNCHANGED <<clock, mem, tree, index, cursor, mark, stray, faults>>
  BY DEF Begin
<1>2. /\ run[e] \in Run /\ run \in [Exporters -> Run] /\ clock \in 0..MaxClock
      /\ MaxClock \in Nat /\ stray \subseteq Ids /\ faults \in 0..MaxFaults /\ Shape(e)
  BY ExportAssumption DEF ExportInv, TypeOK, ABounds
<1>3. run[e].step = "idle"
  BY DEF Begin, Running
<1>4. s \in 0..MaxClock /\ s <= clock
  BY <1>2
<1>. HIDE DEF s
<1>5. /\ u \in Run /\ u.step = "read" /\ u.started = s /\ u.items = run[e].items
      /\ u.remove = run[e].remove /\ u.behind = run[e].behind /\ u.quiet = run[e].quiet
  BY <1>2, <1>4 DEF Run
<1>. HIDE DEF u
<1>6. u.items = {} /\ u.remove = {} /\ u.behind = {} /\ ~u.quiet
  BY <1>2, <1>3, <1>5 DEF Shape
<1>7. run'[e] = u
  BY <1>1, <1>2
<1>8. Own(e)'
  BY <1>5, <1>6, <1>7 DEF Own, Shape, Items, Behind, Covers, Files, Quiet
<1>. QED
  BY <1>1, <1>2, <1>4, <1>5, <1>8, RunOnly

\* A file that is not written leaves its memory in doubt.
LEMMA FailKeeps ==
  ASSUME ExportInv, NEW e \in Exporters, WriteFails(e)
  PROVE  ExportInv'
<1>0. /\ run[e] \in Run /\ run \in [Exporters -> Run] /\ stray \subseteq Ids /\ Own(e) /\ Times
      /\ run[e].step = "write"
  BY DEF ExportInv, TypeOK, Own, WriteFails
<1>1. PICK r \in run[e].items :
        /\ run' = [run EXCEPT ![e].items = @ \ {r}, ![e].quiet = FALSE]
        /\ stray' = stray \cup {r.id}
  BY DEF WriteFails
<1>. DEFINE u == [run[e] EXCEPT !.items = @ \ {r}, !.quiet = FALSE]
<1>2. /\ run' = [run EXCEPT ![e] = u]
      /\ UNCHANGED <<clock, mem, tree, index, cursor, mark>>
  BY <1>1 DEF WriteFails
<1>3. /\ u \in Run /\ u.step = "write" /\ u.started = run[e].started
      /\ u.items = run[e].items \ {r} /\ u.remove = run[e].remove
      /\ u.behind = run[e].behind /\ ~u.quiet /\ r.id \in Ids
  BY <1>0 DEF Run, Item
<1>. HIDE DEF u
<1>4. faults' \in 0..MaxFaults
  BY ExportAssumption DEF WriteFails, Fault, ExportInv, TypeOK, ABounds
<1>5. run'[e] = u
  BY <1>0, <1>2
<1>6. \A m \in Ids : (Doubtful(m) => Doubtful(m)') /\ (Lost(m) => Lost(m)')
                     /\ (m = r.id => Doubtful(m)' /\ Lost(m)')
  <2>1. \A g \in Exporters : run'[g].behind = run[g].behind
    BY <1>0, <1>2, <1>3
  <2>2. \A g \in Operators : g \in Exporters
    BY DEF Exporters
  <2>. QED
    BY <1>1, <2>1, <2>2 DEF Doubtful, Lost
<1>7. Own(e)'
  <2>1. Shape(e)' /\ Items(e)' /\ Quiet(e)'
    BY <1>0, <1>2, <1>3, <1>5
       DEF Own, Shape, Items, Quiet, Outdated, AsItem, Stored
  <2>2. Behind(e)'
    BY <1>0, <1>2, <1>3, <1>5, <1>6 DEF Own, Behind, Live, Stored, Filed, Run
  <2>3. Covers(e)'
    <3>1. ASSUME e \notin Operators, NEW m \in Ids, Live(m)',
                 mem'[m].updated < run'[e].started, ~Doubtful(m)'
          PROVE  AsItem(m)' \in run'[e].items \/ Shows(tree, m)'
      <4>1. /\ Live(m) /\ mem[m].updated < run[e].started /\ ~Doubtful(m) /\ m # r.id
            /\ AsItem(m)' = AsItem(m) /\ Shows(tree, m)' = Shows(tree, m)
        BY <1>2, <1>3, <1>5, <1>6, <3>1 DEF Live, Stored, AsItem, Shows
      <4>2. AsItem(m) \in run[e].items \/ Shows(tree, m)
        BY <1>0, <3>1, <4>1 DEF Own, Covers
      <4>3. AsItem(m) # r
        BY <4>1 DEF AsItem
      <4>. QED
        BY <1>3, <1>5, <4>1, <4>2, <4>3
    <3>. QED
      BY <3>1 DEF Covers
  <2>4. Files(e)'
    BY <1>0, <1>2, <1>3, <1>5, <1>6 DEF Own, Files, Live, Stored, Filed, Indexed
  <2>. QED
    BY <2>1, <2>2, <2>3, <2>4 DEF Own
<1>. QED
  BY <1>0, <1>1, <1>2, <1>3, <1>4, <1>7, RunOnly DEF Writing, Times

\* A daemon's export that fails: what the tree does not show is in doubt.
LEMMA SwallowKeeps ==
  ASSUME ExportInv, NEW e \in Exporters, ExportSwallowed(e)
  PROVE  ExportInv'
<1>0. /\ run[e] \in Run /\ run \in [Exporters -> Run] /\ stray \subseteq Ids /\ Own(e) /\ Times
      /\ e \notin Operators /\ ~run[e].quiet
  BY ExportAssumption DEF ExportInv, TypeOK, Own, ExportSwallowed, AKinds, Shape
<1>. DEFINE u == [run[e] EXCEPT !.step = "index", !.items = {}, !.behind = {}]
            lost == {m \in Ids : Stored(m) /\ ~Shows(tree, m)}
<1>1. /\ run' = [run EXCEPT ![e] = u]
      /\ UNCHANGED <<clock, mem, tree, index, cursor, mark>>
      /\ stray' = stray \cup run[e].behind \cup lost
  BY DEF ExportSwallowed
<1>2. /\ u \in Run /\ u.step = "index" /\ u.started = run[e].started /\ u.items = {}
      /\ u.remove = run[e].remove /\ u.behind = {} /\ ~u.quiet /\ run[e].behind \subseteq Ids
  BY <1>0 DEF Run
<1>. HIDE DEF u
<1>3. faults' \in 0..MaxFaults
  BY ExportAssumption DEF ExportSwallowed, Fault, ExportInv, TypeOK, ABounds
<1>4. run'[e] = u
  BY <1>0, <1>1
<1>5. \A m \in Ids : Live(m) /\ ~Lost(m)' => Filed(m)'
  <2>1. ASSUME NEW m \in Ids, Live(m), ~Lost(m)' PROVE Filed(m)'
    <3>1. Shows(tree, m) /\ mem[m].rev > 0
      BY <1>1, <2>1 DEF Lost, Live, Stored
    <3>2. Place(mem[m]) \in Places
      BY Placed DEF ExportInv
    <3>. QED
      BY <1>1, <3>1, <3>2 DEF Shows, Filed, NoFile
  <2>. QED
    BY <2>1
<1>6. Own(e)'
  <2>1. Shape(e)' /\ Items(e)' /\ Quiet(e)' /\ Covers(e)' /\ Behind(e)'
    BY <1>0, <1>2, <1>4 DEF Own, Shape, Items, Quiet, Covers, Behind
  <2>2. Files(e)'
    BY <1>1, <1>2, <1>4, <1>5 DEF Files, Live, Stored
  <2>. QED
    BY <2>1, <2>2 DEF Own
<1>. QED
  BY <1>0, <1>1, <1>2, <1>3, <1>6, RunOnly DEF Times

\* A reconcile looks for the files that do not belong.
LEMMA ScanKeeps ==
  ASSUME ExportInv, NEW e \in Exporters, Scan(e)
  PROVE  ExportInv'
<1>0. /\ run[e] \in Run /\ run \in [Exporters -> Run] /\ Own(e) /\ Times /\ TypeOK /\ OnlyStored
      /\ run[e].step = "scan" /\ e \in Operators /\ stray \subseteq Ids
      /\ faults \in 0..MaxFaults
  BY DEF ExportInv, TypeOK, Own, Scan, Shape
<1>. DEFINE gone == {f \in StaleFiles(run[e].items) : tree[f[1]][f[2]] # NoFile}
            u == [run[e] EXCEPT !.step = "write", !.remove = gone]
<1>1. /\ run' = [run EXCEPT ![e] = u]
      /\ UNCHANGED <<clock, mem, tree, index, cursor, mark, stray, faults>>
  BY DEF Scan
<1>2. gone \subseteq Ids \X Places
  BY <1>0 DEF StaleFiles, Run, Item
<1>. HIDE DEF gone
<1>3. /\ u \in Run /\ u.step = "write" /\ u.started = run[e].started
      /\ u.items = run[e].items /\ u.remove = gone
      /\ u.behind = run[e].behind /\ u.quiet = run[e].quiet
  BY <1>0, <1>2 DEF Run
<1>. HIDE DEF u
<1>4. run'[e] = u
  BY <1>0, <1>1
<1>5. ASSUME run[e].quiet, NEW m \in Ids, NEW p \in Places
      PROVE  /\ tree[m][p] # NoFile /\ ~Wanted(m, p) => <<m, p>> \in gone
             /\ <<m, p>> \in gone => ~Wanted(m, p)
  <2>1. /\ \A i \in run[e].items : ~Outdated(i)
        /\ \A n \in Ids : Stored(n) => AsItem(n) \in run[e].items
    BY <1>0, <1>5 DEF Own, Quiet
  <2>2. \A i \in run[e].items : i = AsItem(i.id) /\ Stored(i.id) /\ i.id \in Ids
    BY <1>0, <2>1 DEF Outdated, Own, Items, Run, Item
  <2>3. /\ AsItem(m).id = m /\ AsItem(m).open = mem[m].open
        /\ Place(AsItem(m)) = Place(mem[m])
    BY DEF AsItem, Place
  <2>4. <<m, p>> \in StaleFiles(run[e].items) <=> Stored(m) /\ ~Wanted(m, p)
    <3>1. <<m, p>> \in {<<r.id, q>> : r \in run[e].items, q \in Places} <=> Stored(m)
      BY <2>1, <2>2, <2>3
    <3>2. <<m, p>> \in {<<r.id, Place(r)>> : r \in {s \in run[e].items : s.open}}
            <=> Wanted(m, p)
      <4>1. Wanted(m, p) => <<m, p>> \in {<<r.id, Place(r)>> : r \in {s \in run[e].items : s.open}}
        BY <2>1, <2>3 DEF Wanted, Live
      <4>2. ASSUME NEW r \in run[e].items, r.open, <<m, p>> = <<r.id, Place(r)>>
            PROVE  Wanted(m, p)
        <5>1. r = AsItem(m) /\ p = Place(r) /\ Stored(m)
          BY <2>2, <4>2
        <5>. QED
          BY <2>3, <4>2, <5>1 DEF Wanted, Live
      <4>. QED
        BY <4>1, <4>2
    <3>. QED
      BY <3>1, <3>2 DEF StaleFiles
  <2>5. tree[m][p] # NoFile => Stored(m)
    BY <1>0 DEF OnlyStored
  <2>. QED
    BY <2>4, <2>5 DEF gone
<1>6. Own(e)'
  <2>1. Shape(e)' /\ Items(e)' /\ Behind(e)' /\ Covers(e)' /\ Files(e)'
    BY <1>0, <1>1, <1>3, <1>4
       DEF Own, Shape, Items, Behind, Covers, Files, Outdated, AsItem, Stored
  <2>2. Quiet(e)'
    <3>1. CASE ~run[e].quiet
      BY <1>3, <1>4, <3>1 DEF Quiet
    <3>2. CASE run[e].quiet
      <4>1. \A g \in Exporters \ {e} : run'[g].step \notin {"scan", "write"}
        BY <1>0, <1>1, <3>2 DEF Own, Quiet
      <4>2. \A i \in run'[e].items : ~Outdated(i)'
        BY <1>0, <1>1, <1>3, <1>4, <3>2 DEF Own, Quiet, Outdated, AsItem
      <4>3. \A m \in Ids : Live(m)' => AsItem(m)' \in run'[e].items
        BY <1>0, <1>1, <1>3, <1>4, <3>2 DEF Own, Quiet, Live, Stored, AsItem
      <4>4. \A m \in Ids : \A p \in Places :
              /\ tree'[m][p] # NoFile /\ ~Wanted(m, p)' => <<m, p>> \in run'[e].remove
              /\ <<m, p>> \in run'[e].remove => ~Wanted(m, p)'
        BY <1>1, <1>3, <1>4, <1>5, <3>2 DEF Wanted, Live, Stored
      <4>. QED
        BY <1>3, <1>4, <4>1, <4>2, <4>3, <4>4 DEF Quiet
    <3>. QED
      BY <3>1, <3>2
  <2>. QED
    BY <2>1, <2>2 DEF Own
<1>. QED
  BY <1>0, <1>1, <1>3, <1>6, RunOnly DEF Writing, Times

\* The mark follows a run that had all of it indexed.
LEMMA MarkKeeps ==
  ASSUME ExportInv, NEW e \in Exporters, MarkIndexed(e)
  PROVE  ExportInv'
<1>0. /\ run[e] \in Run /\ run \in [Exporters -> Run] /\ Own(e) /\ Times
      /\ run[e].step = "mark" /\ e \notin Operators /\ run[e].behind = {}
  BY DEF ExportInv, TypeOK, Own, MarkIndexed, Shape
<1>1. /\ run' = [run EXCEPT ![e] = Idle] /\ mark' = run[e].started
      /\ UNCHANGED <<clock, mem, tree, index, cursor, stray, faults>>
  BY DEF MarkIndexed, Stop
<1>2. run'[e] = Idle /\ \A g \in Exporters \ {e} : run'[g] = run[g]
  BY <1>0, <1>1
<1>3. TypeOK'
  BY <1>0, <1>1, IdleRun DEF ExportInv, TypeOK, Run
<1>4. Times'
  BY <1>0, <1>1, <1>2, IdleRun, ExportAssumption DEF Times, ExportInv, TypeOK, ABounds
<1>5. Own(e)'
  BY <1>2, IdleRun DEF Own, Shape, Items, Behind, Covers, Files, Quiet
<1>6. \A m \in Ids : /\ Doubtful(m)' = Doubtful(m) /\ Lost(m)' = Lost(m)
                     /\ Shows(tree, m)' = Shows(tree, m) /\ Filed(m)' = Filed(m)
                     /\ Indexed(m)' = Indexed(m) /\ Live(m)' = Live(m)
  <2>1. \A g \in Exporters : run'[g].behind = run[g].behind
    BY <1>0, <1>2, IdleRun
  <2>2. \A g \in Operators : g \in Exporters
    BY DEF Exporters
  <2>. QED
    BY <1>1, <2>1, <2>2 DEF Doubtful, Lost, Shows, Filed, Indexed, Live, Stored
<1>7. /\ \A g \in Exporters \ {e} :
           Shape(g)' /\ Items(g)' /\ Behind(g)' /\ Covers(g)' /\ Files(g)' /\ Quiet(g)'
      /\ CursorSound'
  <2>1. (\A g \in Exporters \ {e} : Alike(run'[g], run[g])) /\ ~Writing(e)'
    BY <1>2, IdleRun DEF Alike, Writing
  <2>. QED
    BY <1>1, <1>6, <2>1, Others
<1>8. Marked'
  BY <1>0, <1>1, <1>6 DEF Own, Files, Marked
<1>9. OnlyStored'
  BY <1>1 DEF ExportInv, OnlyStored, Stored
<1>. QED
  BY <1>3, <1>4, <1>5, <1>7, <1>8, <1>9, Assemble

\* The index is what the tree is.
LEMMA IndexKeeps ==
  ASSUME ExportInv, NEW e \in Exporters, UpdateIndex(e)
  PROVE  ExportInv'
<1>0. /\ run[e] \in Run /\ run \in [Exporters -> Run] /\ Own(e) /\ Times
      /\ run[e].step = "index" /\ e \notin Operators /\ run[e].behind = {} /\ ~run[e].quiet
      /\ stray \subseteq Ids
  BY ExportAssumption DEF ExportInv, TypeOK, Own, UpdateIndex, Shape
<1>. DEFINE u == [run[e] EXCEPT !.step = "mark"]
<1>1. /\ run' = [run EXCEPT ![e] = u] /\ index' = tree
      /\ stray' = {m \in stray : ~Shows(tree, m)}
      /\ UNCHANGED <<clock, mem, tree, cursor, mark, faults>>
  BY DEF UpdateIndex
<1>2. /\ u \in Run /\ u.step = "mark" /\ u.started = run[e].started /\ u.items = run[e].items
      /\ u.remove = run[e].remove /\ u.behind = {} /\ ~u.quiet
  BY <1>0 DEF Run
<1>. HIDE DEF u
<1>3. run'[e] = u /\ \A g \in Exporters \ {e} : run'[g] = run[g]
  BY <1>0, <1>1
<1>4. TypeOK'
  BY <1>0, <1>1, <1>2 DEF ExportInv, TypeOK
<1>5. Times'
  BY <1>0, <1>1, <1>2, <1>3 DEF Times
<1>6. \A m \in Ids :
        /\ Shows(tree, m)' = Shows(tree, m) /\ Filed(m)' = Filed(m)
        /\ Indexed(m)' = Filed(m) /\ Live(m)' = Live(m)
        /\ Live(m) /\ Shows(tree, m) => Filed(m)
        /\ Doubtful(m) /\ ~Doubtful(m)' => Shows(tree, m)
        /\ Lost(m) /\ ~Lost(m)' => Shows(tree, m)
  <2>1. \A g \in Exporters : run'[g].behind = run[g].behind
    BY <1>0, <1>2, <1>3
  <2>2. \A g \in Operators : g \in Exporters
    BY DEF Exporters
  <2>3. ASSUME NEW m \in Ids, Live(m), Shows(tree, m) PROVE Filed(m)
    <3>1. Place(mem[m]) \in Places /\ mem[m].rev > 0
      BY <2>3, Placed DEF ExportInv, Live, Stored
    <3>. QED
      BY <2>3, <3>1 DEF Shows, Filed, NoFile
  <2>4. \A m \in Ids : Shows(tree, m)' = Shows(tree, m) /\ Filed(m)' = Filed(m)
                       /\ Indexed(m)' = Filed(m) /\ Live(m)' = Live(m)
    BY <1>1 DEF Shows, Filed, Indexed, Live, Stored
  <2>. QED
    BY <1>1, <2>1, <2>2, <2>3, <2>4 DEF Doubtful, Lost
<1>7. /\ \A g \in Exporters \ {e} :
           Shape(g)' /\ Items(g)' /\ Behind(g)' /\ Covers(g)' /\ Files(g)' /\ Quiet(g)'
      /\ CursorSound' /\ Marked'
  <2>1. (\A g \in Exporters \ {e} : Alike(run'[g], run[g])) /\ ~Writing(e)'
    BY <1>2, <1>3 DEF Alike, Writing
  <2>2. \A m \in Ids : Doubtful(m) /\ ~Doubtful(m)' => Shows(tree, m)'
    BY <1>6
  <2>3. \A m \in Ids : Live(m) =>
           /\ Lost(m) /\ ~Lost(m)' => Filed(m)' /\ Indexed(m)'
           /\ Shows(tree, m) /\ ~Doubtful(m)' => Shows(tree, m)'
           /\ Filed(m) /\ ~Lost(m)' => Filed(m)'
           /\ Filed(m) /\ Indexed(m) /\ ~Lost(m)' => Indexed(m)'
    BY <1>6
  <2>. QED
    BY <1>1, <2>1, <2>2, <2>3, Others
<1>8. Own(e)'
  <2>1. Shape(e)' /\ Items(e)' /\ Quiet(e)' /\ Covers(e)' /\ Behind(e)'
    BY <1>0, <1>2, <1>3 DEF Own, Shape, Items, Quiet, Covers, Behind
  <2>2. Files(e)'
    <3>1. ASSUME NEW m \in Ids, Live(m)', mem'[m].promoted < run'[e].started, ~Lost(m)'
          PROVE  Filed(m)' /\ Indexed(m)'
      <4>1. Live(m) /\ mem[m].promoted < run[e].started
        BY <1>1, <1>2, <1>3, <3>1 DEF Live, Stored
      <4>2. ~Lost(m) => Filed(m)
        BY <1>0, <4>1 DEF Own, Files
      <4>. QED
        BY <1>6, <3>1, <4>1, <4>2
    <3>. QED
      BY <3>1 DEF Files
  <2>. QED
    BY <2>1, <2>2 DEF Own
<1>9. OnlyStored'
  BY <1>1 DEF ExportInv, OnlyStored, Stored
<1>. QED
  BY <1>4, <1>5, <1>7, <1>8, <1>9, Assemble

\* The cursor takes the start of a run whose files are all written.
LEMMA CursorKeeps ==
  ASSUME ExportInv, NEW e \in Exporters, SetCursor(e)
  PROVE  ExportInv'
<1>0. /\ run[e] \in Run /\ run \in [Exporters -> Run] /\ Own(e) /\ Times
      /\ run[e].step = "write" /\ run[e].items = {} /\ e \notin Operators /\ ~run[e].quiet
      /\ stray \subseteq Ids /\ cursor \in {Never} \cup 0..MaxClock
  BY DEF ExportInv, TypeOK, Own, SetCursor, Exported, Shape
<1>. DEFINE u == [run[e] EXCEPT !.step = "index", !.behind = {}]
            Alone == \A g \in (Exporters \ Operators) \ {e} : ~Running(g)
<1>1. /\ run' = [run EXCEPT ![e] = u] /\ cursor' = run[e].started
      /\ stray' = IF ~Alone THEN stray \cup run[e].behind ELSE stray
      /\ UNCHANGED <<clock, mem, tree, index, mark, faults>>
  BY DEF SetCursor
<1>2. /\ u \in Run /\ u.step = "index" /\ u.started = run[e].started /\ u.items = {}
      /\ u.remove = run[e].remove /\ u.behind = {} /\ ~u.quiet /\ run[e].behind \subseteq Ids
      /\ run[e].started \in 0..MaxClock
  BY <1>0 DEF Run
<1>. HIDE DEF u, Alone
<1>3. run'[e] = u /\ \A g \in Exporters \ {e} : run'[g] = run[g]
  BY <1>0, <1>1
<1>4. TypeOK'
  BY <1>0, <1>1, <1>2 DEF ExportInv, TypeOK
<1>5. Times'
  BY <1>0, <1>1, <1>2, <1>3 DEF Times
<1>6. \A m \in Ids :
        /\ Shows(tree, m)' = Shows(tree, m) /\ Filed(m)' = Filed(m)
        /\ Indexed(m)' = Indexed(m) /\ Live(m)' = Live(m)
        /\ Lost(m) => Lost(m)'
        /\ Doubtful(m) /\ ~Doubtful(m)' => Alone /\ m \in run[e].behind
  <2>1. \A g \in Exporters \ {e} : run'[g].behind = run[g].behind
    BY <1>0, <1>2, <1>3
  <2>2. \A g \in Operators : g \in Exporters \ {e}
    BY <1>0 DEF Exporters
  <2>3. \A m \in Ids : Shows(tree, m)' = Shows(tree, m) /\ Filed(m)' = Filed(m)
                       /\ Indexed(m)' = Indexed(m) /\ Live(m)' = Live(m)
    BY <1>1 DEF Shows, Filed, Indexed, Live, Stored
  <2>. QED
    BY <1>1, <2>1, <2>2, <2>3 DEF Doubtful, Lost
<1>7. /\ \A g \in Exporters \ {e} :
           Shape(g)' /\ Items(g)' /\ Behind(g)' /\ Covers(g)' /\ Files(g)' /\ Quiet(g)'
      /\ Marked'
  <2>1. (\A g \in Exporters \ {e} : Alike(run'[g], run[g])) /\ ~Writing(e)'
    BY <1>2, <1>3 DEF Alike, Writing
  <2>2. \A m \in Ids : Doubtful(m) /\ ~Doubtful(m)' =>
           \/ Shows(tree, m)'
           \/ \A g \in (Exporters \ Operators) \ {e} : ~Running(g)
    BY <1>6 DEF Alone
  <2>. QED
    BY <1>1, <1>6, <2>1, <2>2, Others
<1>8. Own(e)'
  <2>1. Shape(e)' /\ Items(e)' /\ Quiet(e)' /\ Covers(e)' /\ Behind(e)'
    BY <1>0, <1>2, <1>3 DEF Own, Shape, Items, Quiet, Covers, Behind
  <2>2. Files(e)'
    BY <1>0, <1>1, <1>2, <1>3, <1>6 DEF Own, Files
  <2>. QED
    BY <2>1, <2>2 DEF Own
<1>9. CursorSound'
  <2>1. ASSUME NEW m \in Ids, Live(m)', mem'[m].updated < cursor', ~Doubtful(m)'
        PROVE  Shows(tree, m)'
    <3>1. Live(m) /\ mem[m].updated < run[e].started
      BY <1>1, <2>1 DEF Live, Stored
    <3>2. ~Doubtful(m) => Shows(tree, m)
      BY <1>0, <3>1 DEF Own, Covers
    <3>3. m \notin run[e].behind
      <4>1. m \in run[e].behind => mem[m].updated >= run[e].started
        BY <1>0 DEF Own, Behind
      <4>2. mem[m].updated \in Int /\ run[e].started \in Int
        BY <1>0 DEF ExportInv, TypeOK, Memory, Run
      <4>. QED
        BY <3>1, <4>1, <4>2
    <3>. QED
      BY <1>6, <2>1, <3>2, <3>3
  <2>. QED
    BY <2>1 DEF CursorSound, Live
<1>10. OnlyStored'
  BY <1>1 DEF ExportInv, OnlyStored, Stored
<1>. QED
  BY <1>4, <1>5, <1>7, <1>8, <1>9, <1>10, Assemble

\* A run that is no longer quiet is otherwise what it was.
LEMMA Stirred ==
  ASSUME NEW r \in Run
  PROVE  LET q == [r EXCEPT !.quiet = FALSE] IN
         /\ q \in Run /\ q.step = r.step /\ q.started = r.started /\ q.items = r.items
         /\ q.remove = r.remove /\ q.behind = r.behind /\ ~q.quiet
BY DEF Run

\* A run reads what changed since the cursor.
LEMMA ReadKeeps ==
  ASSUME ExportInv, NEW e \in Exporters, ReadChanges(e)
  PROVE  ExportInv'
<1>0. /\ run[e] \in Run /\ run \in [Exporters -> Run] /\ Own(e) /\ Times /\ TypeOK
      /\ run[e].step = "read" /\ run[e].behind = {} /\ run[e].remove = {}
      /\ cursor \in {Never} \cup 0..MaxClock
  BY DEF ExportInv, TypeOK, Own, ReadChanges, Shape
<1>. DEFINE alone == e \in Operators /\ \A g \in Exporters \ {e} : ~Running(g)
            next == IF e \in Operators THEN "scan" ELSE "write"
            u == [run[e] EXCEPT !.step = next, !.items = ToExport(e), !.quiet = alone]
<1>1. /\ run' = [f \in Exporters |-> IF f = e THEN u ELSE [run[f] EXCEPT !.quiet = FALSE]]
      /\ UNCHANGED <<clock, mem, tree, index, cursor, mark, stray, faults>>
  BY DEF ReadChanges
<1>2. ToExport(e) \subseteq Item
  BY <1>0, Placed DEF ToExport
<1>. HIDE DEF alone
<1>3. /\ u \in Run /\ u.step = next /\ u.started = run[e].started /\ u.items = ToExport(e)
      /\ u.remove = {} /\ u.behind = {} /\ u.quiet = alone
  <2>1. alone \in BOOLEAN /\ next \in {"scan", "write"}
    BY DEF alone
  <2>. HIDE DEF next
  <2>. QED
    BY <1>0, <1>2, <2>1 DEF Run
<1>. HIDE DEF u
<1>4. run'[e] = u /\ \A g \in Exporters \ {e} : run'[g] = [run[g] EXCEPT !.quiet = FALSE]
  BY <1>1
<1>5. \A g \in Exporters \ {e} :
        /\ run'[g] \in Run /\ run'[g].step = run[g].step /\ run'[g].started = run[g].started
        /\ run'[g].items = run[g].items /\ run'[g].remove = run[g].remove
        /\ run'[g].behind = run[g].behind /\ ~run'[g].quiet
  <2>1. TAKE g \in Exporters \ {e}
  <2>2. run[g] \in Run
    BY <1>0
  <2>. DEFINE s == [run[g] EXCEPT !.quiet = FALSE]
  <2>3. /\ s \in Run /\ s.step = run[g].step /\ s.started = run[g].started
        /\ s.items = run[g].items /\ s.remove = run[g].remove
        /\ s.behind = run[g].behind /\ ~s.quiet
    BY <2>2, Stirred, Zenon
  <2>4. run'[g] = s
    BY <1>4
  <2>. HIDE DEF s
  <2>. QED
    BY <2>3, <2>4
<1>6. TypeOK'
  <2>1. run' \in [Exporters -> Run]
    BY <1>1, <1>3, <1>4, <1>5
  <2>. QED
    BY <1>0, <1>1, <2>1 DEF TypeOK
<1>7. Times'
  BY <1>0, <1>1, <1>3, <1>4, <1>5 DEF Times
<1>8. \A m \in Ids : /\ Doubtful(m)' = Doubtful(m) /\ Lost(m)' = Lost(m)
                     /\ Shows(tree, m)' = Shows(tree, m) /\ Filed(m)' = Filed(m)
                     /\ Indexed(m)' = Indexed(m) /\ Live(m)' = Live(m)
                     /\ AsItem(m)' = AsItem(m) /\ Stored(m)' = Stored(m)
  <2>1. \A g \in Exporters : run'[g].behind = run[g].behind
    BY <1>0, <1>3, <1>4, <1>5
  <2>2. \A g \in Operators : g \in Exporters
    BY DEF Exporters
  <2>. QED
    BY <1>1, <2>1, <2>2 DEF Doubtful, Lost, Shows, Filed, Indexed, Live, Stored, AsItem
<1>9. /\ \A g \in Exporters \ {e} :
           Shape(g)' /\ Items(g)' /\ Behind(g)' /\ Covers(g)' /\ Files(g)' /\ Quiet(g)'
      /\ CursorSound' /\ Marked'
  <2>1. \A g \in Exporters \ {e} : Alike(run'[g], run[g]) /\ ~run'[g].quiet
    BY <1>5 DEF Alike
  <2>. QED
    BY <1>1, <1>8, <2>1, Others
<1>10. OnlyStored'
  BY <1>1 DEF ExportInv, OnlyStored, Stored
<1>11. \A r \in ToExport(e) : r = AsItem(r.id) /\ r.id \in Ids /\ Stored(r.id)
                              /\ r.rev > 0 /\ r.open = mem[r.id].open
  BY DEF ToExport, AsItem, Stored
<1>12. \A m \in Ids : Stored(m) /\ (e \in Operators \/ Changed(m)) => AsItem(m) \in ToExport(e)
  BY DEF ToExport
<1>13. Shape(e)' /\ Items(e)' /\ Behind(e)'
  <2>1. Shape(e)'
    BY <1>0, <1>3, <1>4 DEF Shape, alone
  <2>2. Items(e)'
    BY <1>1, <1>3, <1>4, <1>8, <1>11 DEF Items, Outdated
  <2>. QED
    BY <1>3, <1>4, <2>1, <2>2 DEF Behind
<1>14. ASSUME e \notin Operators, NEW m \in Ids, Live(m), ~Changed(m), ~Doubtful(m)
       PROVE  Shows(tree, m)
  <2>1. cursor # Never /\ cursor \in Int /\ mem[m].updated \in Int
    BY <1>0, <1>14 DEF TypeOK, Memory, Changed, Never
  <2>2. mem[m].updated < cursor
    BY <1>14, <2>1 DEF Changed
  <2>. QED
    BY <1>14, <2>2 DEF ExportInv, CursorSound, Live
<1>15. Covers(e)'
  BY <1>3, <1>4, <1>8, <1>12, <1>14 DEF Covers, Live
<1>16. Files(e)'
  <2>1. ASSUME e \notin Operators, NEW m \in Ids, Live(m), ~Lost(m)
        PROVE  Filed(m) \/ \E r \in ToExport(e) : r.id = m
    <3>1. CASE Changed(m)
      <4>1. AsItem(m) \in ToExport(e) /\ AsItem(m).id = m
        BY <1>12, <2>1, <3>1 DEF Live, AsItem
      <4>. QED
        BY <4>1
    <3>2. CASE ~Changed(m) /\ ~Doubtful(m)
      <4>1. Shows(tree, m) /\ Place(mem[m]) \in Places /\ mem[m].rev > 0
        BY <1>0, <1>14, <2>1, <3>2, Placed DEF Live, Stored
      <4>. QED
        BY <4>1 DEF Shows, Filed, NoFile
    <3>3. CASE Doubtful(m)
      <4>1. PICK g \in Exporters : m \in run[g].behind
        BY <2>1, <3>3 DEF Doubtful, Lost
      <4>2. g \notin Operators /\ Behind(g)
        BY <2>1, <4>1 DEF Lost, ExportInv
      <4>. QED
        BY <2>1, <4>1, <4>2 DEF Behind
    <3>. QED
      BY <3>1, <3>2, <3>3
  <2>2. e \notin Operators => run'[e].step = "write" /\ run'[e].items = ToExport(e)
    BY <1>3, <1>4
  <2>. QED
    BY <1>8, <2>1, <2>2 DEF Files
<1>17. Quiet(e)'
  <2>1. CASE ~alone
    BY <1>3, <1>4, <2>1 DEF Quiet
  <2>2. CASE alone
    <3>1. e \in Operators /\ run'[e].step = "scan" /\ run'[e].items = ToExport(e)
      BY <1>3, <1>4, <2>2 DEF alone
    <3>2. \A g \in Exporters \ {e} : run'[g].step \notin {"scan", "write"}
      BY <1>5, <2>2 DEF alone, Running
    <3>3. \A i \in ToExport(e) : ~Outdated(i)'
      BY <1>8, <1>11 DEF Outdated
    <3>. QED
      BY <1>8, <1>12, <3>1, <3>2, <3>3 DEF Quiet
  <2>. QED
    BY <2>1, <2>2
<1>. QED
  BY <1>6, <1>7, <1>9, <1>10, <1>13, <1>15, <1>16, <1>17, Assemble DEF Own

\* A memory written to its file, or skipped.
LEMMA WriteKeeps ==
  ASSUME ExportInv, NEW e \in Exporters, WriteItem(e)
  PROVE  ExportInv'
<1>0. /\ run[e] \in Run /\ run \in [Exporters -> Run] /\ Own(e) /\ Times /\ TypeOK
      /\ run[e].step = "write" /\ tree \in [Ids -> [Places -> 0..MaxRev]] /\ OnlyStored
  BY DEF ExportInv, TypeOK, Own, WriteItem
<1>1. PICK r \in run[e].items :
        /\ tree' = Written(r)
        /\ run' = [run EXCEPT ![e].items = @ \ {r},
                              ![e].behind = IF Outdated(r) THEN @ \cup {r.id} ELSE @]
  BY DEF WriteItem
<1>. DEFINE b == IF Outdated(r) THEN run[e].behind \cup {r.id} ELSE run[e].behind
            u == [run[e] EXCEPT !.items = @ \ {r}, !.behind = b]
<1>2. /\ run' = [run EXCEPT ![e] = u]
      /\ UNCHANGED <<clock, mem, index, cursor, mark, stray, faults>>
  BY <1>1 DEF WriteItem
<1>3. /\ r \in Item /\ r.id \in Ids /\ r.dir \in Dirs /\ r.dir \in Places /\ Archive \in Places
      /\ r.rev \in 0..MaxRev /\ r.active \in BOOLEAN /\ r.open \in BOOLEAN
      /\ r.dir # Archive
  BY <1>0, ExportAssumption DEF Run, Item, Places, AArchive
<1>4. /\ Stored(r.id) /\ r.rev > 0 /\ (mem[r.id].open => r.open)
      /\ e \notin Operators /\ Outdated(r) => mem[r.id].updated >= run[e].started
  BY <1>0 DEF Own, Items
<1>5. b \subseteq Ids /\ run[e].behind \subseteq b
  BY <1>0, <1>3 DEF Run
<1>6. /\ u \in Run /\ u.step = "write" /\ u.started = run[e].started
      /\ u.items = run[e].items \ {r} /\ u.remove = run[e].remove /\ u.behind = b
      /\ u.quiet = run[e].quiet
  <2>. HIDE DEF b
  <2>. QED
    BY <1>0, <1>5 DEF Run
<1>. HIDE DEF u, b
<1>7. run'[e] = u /\ \A g \in Exporters \ {e} : run'[g] = run[g]
  BY <1>0, <1>2
<1>8. /\ tree' \in [Ids -> [Places -> 0..MaxRev]]
      /\ \A m \in Ids \ {r.id} : tree'[m] = tree[m]
      /\ ~r.open => tree' = tree
      /\ r.open => /\ tree'[r.id][Place(r)] = r.rev
                   /\ \A p \in Places \ {Place(r)} :
                        tree'[r.id][p] = tree[r.id][p] \/ tree'[r.id][p] = NoFile
  <2>1. CASE ~r.open
    BY <1>0, <1>1, <2>1 DEF Written
  <2>2. CASE r.open /\ r.active
    <3>1. tree' = [tree EXCEPT ![r.id][r.dir] = r.rev] /\ Place(r) = r.dir
      BY <1>1, <2>2 DEF Written, Place
    <3>. QED
      BY <1>0, <1>3, <2>2, <3>1
  <2>3. CASE r.open /\ ~r.active
    <3>1. tree' = [tree EXCEPT ![r.id][r.dir] = NoFile, ![r.id][Archive] = r.rev]
          /\ Place(r) = Archive
      BY <1>1, <2>3 DEF Written, Place
    <3>2. NoFile \in 0..MaxRev
      BY ExportAssumption DEF NoFile, ABounds
    <3>. QED
      BY <1>0, <1>3, <2>3, <3>1, <3>2
  <2>. QED
    BY <1>3, <2>1, <2>2, <2>3
<1>9. TypeOK'
  BY <1>0, <1>2, <1>6, <1>8 DEF TypeOK
<1>10. Times'
  BY <1>0, <1>2, <1>6, <1>7 DEF Times
<1>11. \A m \in Ids : /\ Live(m)' = Live(m) /\ AsItem(m)' = AsItem(m) /\ Stored(m)' = Stored(m)
                      /\ Place(mem[m])' = Place(mem[m]) /\ Indexed(m)' = Indexed(m)
                      /\ Doubtful(m) => Doubtful(m)'
                      /\ Lost(m) => Lost(m)'
                      /\ m = r.id /\ Outdated(r) => Doubtful(m)'
                      /\ m = r.id /\ Outdated(r) /\ e \in Operators => Lost(m)'
  <2>1. \A g \in Exporters : run[g].behind \subseteq run'[g].behind
    BY <1>5, <1>6, <1>7
  <2>2. \A g \in Operators : g \in Exporters
    BY DEF Exporters
  <2>3. Outdated(r) => r.id \in run'[e].behind
    BY <1>6, <1>7 DEF b
  <2>4. \A m \in Ids : /\ Live(m)' = Live(m) /\ AsItem(m)' = AsItem(m) /\ Stored(m)' = Stored(m)
                       /\ Place(mem[m])' = Place(mem[m]) /\ Indexed(m)' = Indexed(m)
    BY <1>2 DEF Live, AsItem, Stored, Place, Indexed
  <2>. QED
    BY <1>2, <2>1, <2>2, <2>3, <2>4 DEF Doubtful, Lost
<1>12. r.open /\ ~Outdated(r) => Shows(tree, r.id)'
  <2>1. ~Outdated(r) => /\ r.rev = mem[r.id].rev /\ r.active = mem[r.id].active
                        /\ r.dir = mem[r.id].dir
    BY DEF Outdated, AsItem
  <2>2. ~Outdated(r) => Place(r) = Place(mem[r.id])
    BY <2>1 DEF Place
  <2>. QED
    BY <1>2, <1>8, <2>1, <2>2 DEF Shows, Place
<1>13. r.open => Filed(r.id)'
  <2>1. Place(r) \in Places
    BY <1>3 DEF Place
  <2>. QED
    BY <1>3, <1>4, <1>8, <2>1 DEF Filed, NoFile
<1>14. \A m \in Ids : /\ Filed(m) => Filed(m)'
                      /\ Live(m) /\ Shows(tree, m) /\ ~Doubtful(m)' => Shows(tree, m)'
  <2>1. \A m \in Ids \ {r.id} : Filed(m)' = Filed(m) /\ Shows(tree, m)' = Shows(tree, m)
    BY <1>2, <1>8 DEF Filed, Shows, Place
  <2>2. Filed(r.id) => Filed(r.id)'
    BY <1>8, <1>13 DEF Filed
  <2>3. Live(r.id) /\ ~Doubtful(r.id)' => Shows(tree, r.id)'
    BY <1>3, <1>4, <1>11, <1>12 DEF Live
  <2>. QED
    BY <2>1, <2>2, <2>3
<1>15. /\ \A g \in Exporters \ {e} :
            Shape(g)' /\ Items(g)' /\ Behind(g)' /\ Covers(g)' /\ Files(g)' /\ Quiet(g)'
       /\ CursorSound' /\ Marked'
  <2>1. \A g \in Exporters \ {e} : Alike(run'[g], run[g]) /\ ~run'[g].quiet
    <3>1. \A g \in Exporters \ {e} : ~run[g].quiet
      BY <1>0 DEF ExportInv, Quiet
    <3>. QED
      BY <1>7, <3>1 DEF Alike
  <2>. QED
    BY <1>2, <1>11, <1>14, <2>1, Others
<1>16. OnlyStored'
  <2>1. ASSUME NEW m \in Ids, ~Stored(m)', NEW p \in Places PROVE tree'[m][p] = NoFile
    <3>1. ~Stored(m) /\ m # r.id
      BY <1>4, <1>11, <2>1
    <3>. QED
      BY <1>0, <1>8, <3>1 DEF OnlyStored
  <2>. QED
    BY <2>1 DEF OnlyStored
<1>17. Shape(e)' /\ Items(e)'
  <2>1. Shape(e)'
    BY <1>0, <1>6, <1>7 DEF Own, Shape
  <2>2. Items(e)'
    BY <1>0, <1>2, <1>6, <1>7 DEF Own, Items, Outdated, AsItem, Stored
  <2>. QED
    BY <2>1, <2>2
<1>18. Behind(e)'
  <2>1. ASSUME e \notin Operators, NEW m \in b
        PROVE  /\ Stored(m) /\ mem[m].updated >= run[e].started
               /\ Live(m) /\ ~Lost(m)' => Filed(m)'
    <3>1. CASE m \in run[e].behind
      BY <1>0, <1>5, <1>11, <1>14, <2>1, <3>1 DEF Own, Behind
    <3>2. CASE m = r.id /\ Outdated(r)
      BY <1>4, <1>13, <2>1, <3>2 DEF Live
    <3>. QED
      BY <2>1, <3>1, <3>2 DEF b
  <2>. QED
    BY <1>2, <1>5, <1>6, <1>7, <1>11, <2>1 DEF Behind
<1>19. ASSUME NEW m \in Ids, Live(m), AsItem(m) \in run[e].items, AsItem(m) \notin u.items
       PROVE  Shows(tree, m)'
  <2>1. r = AsItem(m) /\ r.id = m /\ r.open
    BY <1>6, <1>19 DEF AsItem, Live
  <2>. QED
    BY <1>12, <2>1 DEF Outdated
<1>20. Covers(e)'
  <2>1. ASSUME e \notin Operators, NEW m \in Ids, Live(m), mem[m].updated < run[e].started,
               ~Doubtful(m)'
        PROVE  AsItem(m) \in u.items \/ Shows(tree, m)'
    BY <1>0, <1>11, <1>14, <1>19, <2>1 DEF Own, Covers
  <2>. QED
    BY <1>2, <1>6, <1>7, <1>11, <2>1 DEF Covers
<1>21. Files(e)'
  <2>1. ASSUME e \notin Operators, NEW m \in Ids, Live(m), mem[m].promoted < run[e].started,
               ~Lost(m)'
        PROVE  Filed(m)' \/ \E i \in u.items : i.id = m
    <3>1. Filed(m) \/ \E i \in run[e].items : i.id = m
      BY <1>0, <1>11, <2>1 DEF Own, Files
    <3>2. r.id = m => Filed(m)'
      BY <1>4, <1>13, <2>1 DEF Live
    <3>. QED
      BY <1>6, <1>14, <3>1, <3>2
  <2>. QED
    BY <1>2, <1>6, <1>7, <1>11, <2>1 DEF Files
<1>22. Quiet(e)'
  <2>1. CASE ~u.quiet
    BY <1>7, <2>1 DEF Quiet
  <2>2. CASE u.quiet
    <3>0. /\ \A g \in Exporters \ {e} : run[g].step \notin {"scan", "write"}
          /\ \A i \in run[e].items : ~Outdated(i)
          /\ \A m \in Ids : Live(m) => AsItem(m) \in run[e].items \/ Shows(tree, m)
          /\ \A m \in Ids : \A p \in Places :
               /\ tree[m][p] # NoFile /\ ~Wanted(m, p) => <<m, p>> \in run[e].remove
               /\ <<m, p>> \in run[e].remove => ~Wanted(m, p)
      BY <1>0, <1>6, <2>2 DEF Own, Quiet
    <3>1. ~Outdated(r) /\ (\A i \in u.items : ~Outdated(i)')
      BY <1>2, <1>6, <3>0 DEF Outdated, AsItem
    <3>2. \A m \in Ids : Live(m) => AsItem(m) \in u.items \/ Shows(tree, m)'
      <4>1. ASSUME NEW m \in Ids, Live(m), AsItem(m) \notin u.items PROVE Shows(tree, m)'
        <5>1. CASE m = r.id
          BY <1>4, <1>12, <3>1, <4>1, <5>1 DEF Live
        <5>2. CASE m # r.id
          <6>1. AsItem(m) \notin run[e].items
            BY <1>6, <4>1, <5>2 DEF AsItem
          <6>2. Shows(tree, m)
            BY <3>0, <4>1, <6>1
          <6>. QED
            BY <1>2, <1>8, <5>2, <6>2 DEF Shows, Place
        <5>. QED
          BY <5>1, <5>2
      <4>. QED
        BY <4>1
    <3>3. \A m \in Ids : \A p \in Places : Wanted(m, p)' = Wanted(m, p)
      BY <1>11 DEF Wanted
    <3>4. ASSUME NEW m \in Ids, NEW p \in Places, tree'[m][p] # NoFile, ~Wanted(m, p)
          PROVE  tree[m][p] # NoFile
      <4>1. CASE m # r.id \/ ~r.open
        BY <1>8, <3>4, <4>1
      <4>2. CASE m = r.id /\ r.open
        <5>1. /\ r.rev = mem[r.id].rev /\ r.active = mem[r.id].active
              /\ r.dir = mem[r.id].dir /\ r.open = mem[r.id].open
          BY <3>1 DEF Outdated, AsItem
        <5>2. Wanted(m, Place(r))
          BY <1>4, <4>2, <5>1 DEF Wanted, Live, Place
        <5>3. p # Place(r)
          BY <3>4, <5>2
        <5>. QED
          BY <1>8, <3>4, <4>2, <5>3
      <4>. QED
        BY <4>1, <4>2
    <3>. QED
      BY <1>6, <1>7, <1>11, <3>0, <3>1, <3>2, <3>3, <3>4 DEF Quiet
  <2>. QED
    BY <2>1, <2>2
<1>. QED
  BY <1>9, <1>10, <1>15, <1>16, <1>17, <1>18, <1>20, <1>21, <1>22, Assemble DEF Own

\* A file that a reconcile found out of place is removed.
LEMMA RemoveKeeps ==
  ASSUME ExportInv, NEW e \in Exporters, RemoveFile(e)
  PROVE  ExportInv'
<1>0. /\ run[e] \in Run /\ run \in [Exporters -> Run] /\ Own(e) /\ Times /\ TypeOK
      /\ run[e].step = "write" /\ tree \in [Ids -> [Places -> 0..MaxRev]] /\ OnlyStored
      /\ run[e].items = {}
  BY DEF ExportInv, TypeOK, Own, RemoveFile
<1>1. PICK f \in run[e].remove :
        /\ tree' = [tree EXCEPT ![f[1]][f[2]] = NoFile]
        /\ run' = [run EXCEPT ![e].remove = @ \ {f},
                              ![e].behind = IF run[e].quiet THEN @ ELSE @ \cup {f[1]}]
  BY DEF RemoveFile
<1>2. PICK n \in Ids, q \in Places : f = <<n, q>>
  BY <1>0 DEF Run
<1>3. e \in Operators
  BY <1>0 DEF Own, Shape
<1>. DEFINE b == IF run[e].quiet THEN run[e].behind ELSE run[e].behind \cup {n}
            u == [run[e] EXCEPT !.remove = @ \ {f}, !.behind = b]
<1>4. /\ run' = [run EXCEPT ![e] = u] /\ tree' = [tree EXCEPT ![n][q] = NoFile]
      /\ UNCHANGED <<clock, mem, index, cursor, mark, stray, faults>>
  BY <1>1, <1>2 DEF RemoveFile
<1>5. b \subseteq Ids /\ run[e].behind \subseteq b
  BY <1>0 DEF Run
<1>6. /\ u \in Run /\ u.step = "write" /\ u.started = run[e].started /\ u.items = {}
      /\ u.remove = run[e].remove \ {f} /\ u.behind = b /\ u.quiet = run[e].quiet
  <2>. HIDE DEF b
  <2>. QED
    BY <1>0, <1>5 DEF Run
<1>. HIDE DEF u, b
<1>7. run'[e] = u /\ \A g \in Exporters \ {e} : run'[g] = run[g]
  BY <1>0, <1>4
<1>8. /\ tree' \in [Ids -> [Places -> 0..MaxRev]] /\ tree'[n][q] = NoFile
      /\ \A m \in Ids, p \in Places : <<m, p>> # f => tree'[m][p] = tree[m][p]
  <2>1. NoFile \in 0..MaxRev
    BY ExportAssumption DEF NoFile, ABounds
  <2>. QED
    BY <1>0, <1>2, <1>4, <2>1
<1>9. TypeOK'
  BY <1>0, <1>4, <1>6, <1>8 DEF TypeOK
<1>10. Times'
  BY <1>0, <1>4, <1>6, <1>7 DEF Times
<1>11. \A m \in Ids : /\ Live(m)' = Live(m) /\ AsItem(m)' = AsItem(m) /\ Stored(m)' = Stored(m)
                      /\ Place(mem[m])' = Place(mem[m]) /\ Indexed(m)' = Indexed(m)
                      /\ Doubtful(m) => Doubtful(m)'
                      /\ Lost(m) => Lost(m)'
                      /\ m = n /\ ~run[e].quiet => Doubtful(m)' /\ Lost(m)'
  <2>1. \A g \in Exporters : run[g].behind \subseteq run'[g].behind
    BY <1>5, <1>6, <1>7
  <2>2. \A g \in Operators : g \in Exporters
    BY DEF Exporters
  <2>3. ~run[e].quiet => n \in run'[e].behind
    BY <1>6, <1>7 DEF b
  <2>4. \A m \in Ids : /\ Live(m)' = Live(m) /\ AsItem(m)' = AsItem(m) /\ Stored(m)' = Stored(m)
                       /\ Place(mem[m])' = Place(mem[m]) /\ Indexed(m)' = Indexed(m)
    BY <1>4 DEF Live, AsItem, Stored, Place, Indexed
  <2>. QED
    BY <1>3, <1>4, <2>1, <2>2, <2>3, <2>4 DEF Doubtful, Lost
<1>12. ASSUME run[e].quiet
       PROVE  /\ ~Wanted(n, q)
              /\ \A m \in Ids : Live(m) => Shows(tree, m)
  BY <1>0, <1>1, <1>2, <1>12 DEF Own, Quiet
<1>13. \A m \in Ids : Live(m) /\ (m # n \/ run[e].quiet) =>
         (Shows(tree, m) => Shows(tree, m)') /\ (Filed(m) => Filed(m)')
  <2>1. ASSUME NEW m \in Ids, Live(m), m # n
        PROVE  (Shows(tree, m) => Shows(tree, m)') /\ (Filed(m) => Filed(m)')
    <3>1. \A p \in Places : tree'[m][p] = tree[m][p]
      BY <1>2, <1>8, <2>1
    <3>2. Place(mem[m]) \in Places
      BY <1>0, Placed
    <3>. QED
      BY <1>4, <3>1, <3>2 DEF Shows, Filed, Place
  <2>2. ASSUME NEW m \in Ids, Live(m), m = n, run[e].quiet
        PROVE  Shows(tree, m)' /\ Filed(m)'
    <3>1. Shows(tree, m) /\ Place(mem[m]) # q /\ mem[m].rev > 0
      BY <1>12, <2>2 DEF Wanted, Live, Stored
    <3>2. Place(mem[m]) \in Places
      BY <1>0, Placed
    <3>3. tree'[m][Place(mem[m])] = mem[m].rev
      BY <1>2, <1>8, <3>1, <3>2 DEF Shows
    <3>. QED
      BY <1>4, <3>1, <3>2, <3>3 DEF Shows, Filed, Place, NoFile
  <2>. QED
    BY <2>1, <2>2
<1>14. /\ \A g \in Exporters \ {e} :
            Shape(g)' /\ Items(g)' /\ Behind(g)' /\ Covers(g)' /\ Files(g)' /\ Quiet(g)'
       /\ CursorSound' /\ Marked'
  <2>1. \A g \in Exporters \ {e} : Alike(run'[g], run[g]) /\ ~run'[g].quiet
    <3>1. \A g \in Exporters \ {e} : ~run[g].quiet
      BY <1>0 DEF ExportInv, Quiet
    <3>. QED
      BY <1>7, <3>1 DEF Alike
  <2>. QED
    BY <1>4, <1>11, <1>13, <2>1, Others
<1>15. OnlyStored'
  BY <1>0, <1>2, <1>8, <1>11 DEF OnlyStored
<1>16. Shape(e)' /\ Items(e)' /\ Behind(e)' /\ Covers(e)' /\ Files(e)'
  BY <1>0, <1>3, <1>6, <1>7 DEF Own, Shape, Items, Behind, Covers, Files
<1>17. Quiet(e)'
  <2>1. CASE ~u.quiet
    BY <1>7, <2>1 DEF Quiet
  <2>2. CASE u.quiet
    <3>1. /\ \A g \in Exporters \ {e} : run[g].step \notin {"scan", "write"}
          /\ \A m \in Ids : \A p \in Places :
               /\ tree[m][p] # NoFile /\ ~Wanted(m, p) => <<m, p>> \in run[e].remove
               /\ <<m, p>> \in run[e].remove => ~Wanted(m, p)
      BY <1>0, <1>6, <2>2 DEF Own, Quiet
    <3>2. \A m \in Ids : Live(m)' => Shows(tree, m)'
      BY <1>6, <1>11, <1>12, <1>13, <2>2
    <3>3. \A m \in Ids : \A p \in Places :
            /\ tree'[m][p] # NoFile /\ ~Wanted(m, p) => <<m, p>> \in u.remove
            /\ <<m, p>> \in u.remove => ~Wanted(m, p)
      BY <1>2, <1>6, <1>8, <3>1
    <3>4. \A m \in Ids : \A p \in Places : Wanted(m, p)' = Wanted(m, p)
      BY <1>11 DEF Wanted
    <3>. QED
      BY <1>6, <1>7, <3>1, <3>2, <3>3, <3>4 DEF Quiet
  <2>. QED
    BY <2>1, <2>2
<1>. QED
  BY <1>9, <1>10, <1>14, <1>15, <1>16, <1>17, Assemble DEF Own

\* A memory is promoted or changed; no run has seen it.
LEMMA StoreKeeps ==
  ASSUME ExportInv, NEW m \in Ids, Promote(m) \/ Change(m)
  PROVE  ExportInv'
<1>0. /\ run \in [Exporters -> Run] /\ Times /\ TypeOK /\ mem \in [Ids -> Memory]
      /\ mem[m] \in Memory /\ clock \in 0..MaxClock /\ MaxClock \in Nat /\ MaxRev \in Nat
  BY ExportAssumption DEF ExportInv, TypeOK, ABounds
<1>1. PICK row \in Memory :
        /\ mem' = [mem EXCEPT ![m] = row]
        /\ row.rev > 0 /\ row.updated = clock
        /\ \/ ~Stored(m) /\ row.promoted = clock
           \/ Stored(m) /\ row.promoted = mem[m].promoted /\ (row.open => mem[m].open)
  <2>1. CASE Promote(m)
    <3>1. PICK d \in Dirs, o \in BOOLEAN :
            mem' = [mem EXCEPT ![m] = [rev |-> 1, active |-> TRUE, dir |-> d, open |-> o,
                                       promoted |-> clock, updated |-> clock]]
      BY <2>1 DEF Promote
    <3>. DEFINE row == [rev |-> 1, active |-> TRUE, dir |-> d, open |-> o,
                        promoted |-> clock, updated |-> clock]
    <3>2. row \in Memory /\ row.rev > 0 /\ row.updated = clock /\ row.promoted = clock
      BY <1>0, <2>1 DEF Memory, Promote
    <3>. QED
      BY <2>1, <3>1, <3>2 DEF Promote
  <2>2. CASE Change(m)
    <3>1. PICK x \in Edits(mem[m]) :
            mem' = [mem EXCEPT ![m] = [x EXCEPT !.rev = @ + 1, !.updated = clock]]
      BY <2>2 DEF Change
    <3>2. x \in Memory /\ x.rev = mem[m].rev /\ x.promoted = mem[m].promoted
          /\ (x.open => mem[m].open)
      <4>1. CASE x \in {[mem[m] EXCEPT !.active = ~@], [mem[m] EXCEPT !.open = FALSE]}
        BY <1>0, <4>1 DEF Memory
      <4>2. CASE \E d \in Dirs : x = [mem[m] EXCEPT !.dir = d]
        BY <1>0, <4>2 DEF Memory
      <4>. QED
        BY <4>1, <4>2 DEF Edits
    <3>. DEFINE row == [x EXCEPT !.rev = @ + 1, !.updated = clock]
    <3>3. x.rev + 1 \in 0..MaxRev /\ x.rev + 1 > 0
      <4>1. mem[m].rev \in 0..MaxRev /\ mem[m].rev < MaxRev
        BY <1>0, <2>2 DEF Change, Memory
      <4>2. \A k \in 0..MaxRev : k < MaxRev => k + 1 \in 0..MaxRev /\ k + 1 > 0
        BY <1>0
      <4>. QED
        BY <3>2, <4>1, <4>2
    <3>4. row \in Memory /\ row.rev > 0 /\ row.updated = clock /\ row.promoted = x.promoted
          /\ row.open = x.open
      BY <1>0, <3>2, <3>3 DEF Memory
    <3>5. Stored(m)
      BY <2>2 DEF Change
    <3>. QED
      BY <3>1, <3>2, <3>4, <3>5
  <2>. QED
    BY <2>1, <2>2
<1>2. /\ run' = Disturb
      /\ UNCHANGED <<clock, tree, index, cursor, mark, stray, faults>>
  BY DEF Promote, Change
<1>3. \A e \in Exporters :
        /\ run'[e] \in Run /\ run'[e].step = run[e].step /\ run'[e].started = run[e].started
        /\ run'[e].items = run[e].items /\ run'[e].remove = run[e].remove
        /\ run'[e].behind = run[e].behind /\ ~run'[e].quiet
  <2>1. TAKE e \in Exporters
  <2>2. run[e] \in Run
    BY <1>0
  <2>. DEFINE s == [run[e] EXCEPT !.quiet = FALSE]
  <2>3. /\ s \in Run /\ s.step = run[e].step /\ s.started = run[e].started
        /\ s.items = run[e].items /\ s.remove = run[e].remove
        /\ s.behind = run[e].behind /\ ~s.quiet
    BY <2>2, Stirred, Zenon
  <2>4. run'[e] = s
    BY <1>2 DEF Disturb
  <2>. HIDE DEF s
  <2>. QED
    BY <2>3, <2>4
<1>4. TypeOK'
  <2>1. run' \in [Exporters -> Run]
    BY <1>2, <1>3 DEF Disturb
  <2>2. mem' \in [Ids -> Memory]
    BY <1>0, <1>1
  <2>. QED
    BY <1>0, <1>2, <2>1, <2>2 DEF TypeOK
<1>5. Times'
  BY <1>0, <1>2, <1>3 DEF Times
<1>6. mem'[m] = row /\ \A n \in Ids \ {m} : mem'[n] = mem[n]
  BY <1>0, <1>1
<1>7. \A n \in Ids : /\ Doubtful(n)' = Doubtful(n) /\ Lost(n)' = Lost(n)
                     /\ Filed(n)' = Filed(n) /\ Indexed(n)' = Indexed(n)
                     /\ Stored(n) => Stored(n)'
                     /\ Live(n)' /\ Stored(n) => Live(n)
                     /\ n # m => /\ Live(n)' = Live(n) /\ Shows(tree, n)' = Shows(tree, n)
                                 /\ AsItem(n)' = AsItem(n)
  <2>1. \A g \in Operators : g \in Exporters
    BY DEF Exporters
  <2>2. \A n \in Ids : /\ Stored(n) => Stored(n)'
                       /\ Live(n)' /\ Stored(n) => Live(n)
                       /\ n # m => /\ Live(n)' = Live(n) /\ Shows(tree, n)' = Shows(tree, n)
                                   /\ AsItem(n)' = AsItem(n)
    BY <1>1, <1>2, <1>6 DEF Stored, Live, Shows, Place, AsItem
  <2>. QED
    BY <1>2, <1>3, <2>1, <2>2 DEF Doubtful, Lost, Filed, Indexed
<1>8. /\ cursor <= clock /\ mark <= clock /\ \A e \in Exporters : run[e].started <= clock
      /\ clock \in Int /\ cursor \in Int /\ mark \in Int
      /\ \A e \in Exporters : run[e].started \in Int
  <2>1. cursor \in Int /\ mark \in Int /\ \A e \in Exporters : run[e].started \in Int
    BY <1>0 DEF TypeOK, Run, Never
  <2>. QED
    BY <1>0, <2>1 DEF Times
<1>9. ASSUME NEW e \in Exporters
      PROVE  Shape(e)' /\ Items(e)' /\ Behind(e)' /\ Covers(e)' /\ Files(e)' /\ Quiet(e)'
  <2>0. /\ Shape(e) /\ Items(e) /\ Behind(e) /\ Covers(e) /\ Files(e)
        /\ run[e].started <= clock /\ run[e].started \in Int /\ run[e] \in Run
    BY <1>0, <1>8 DEF ExportInv
  <2>1. Shape(e)' /\ Quiet(e)'
    BY <1>3, <2>0 DEF Shape, Quiet
  <2>2. Items(e)'
    <3>1. ASSUME NEW r \in run[e].items
          PROVE  /\ Stored(r.id)' /\ r.rev > 0 /\ (mem'[r.id].open => r.open)
                 /\ e \notin Operators /\ Outdated(r)' => mem'[r.id].updated >= run[e].started
      <4>1. /\ Stored(r.id) /\ r.rev > 0 /\ (mem[r.id].open => r.open) /\ r.id \in Ids
            /\ e \notin Operators /\ Outdated(r) => mem[r.id].updated >= run[e].started
        BY <2>0 DEF Items, Run, Item
      <4>2. CASE r.id = m
        BY <1>0, <1>1, <1>6, <1>7, <2>0, <4>1, <4>2
      <4>3. CASE r.id # m
        BY <1>6, <1>7, <4>1, <4>3 DEF Outdated
      <4>. QED
        BY <4>2, <4>3
    <3>. QED
      BY <1>3, <3>1 DEF Items
  <2>3. Behind(e)'
    <3>1. ASSUME e \notin Operators, NEW n \in run[e].behind
          PROVE  /\ Stored(n)' /\ mem'[n].updated >= run[e].started
                 /\ Live(n)' /\ ~Lost(n)' => Filed(n)'
      <4>1. /\ mem[n].updated >= run[e].started /\ (Live(n) /\ ~Lost(n) => Filed(n))
            /\ n \in Ids /\ Stored(n)
        BY <2>0, <3>1 DEF Behind, Run
      <4>2. mem'[n].updated >= run[e].started
        BY <1>0, <1>1, <1>6, <2>0, <4>1
      <4>. QED
        BY <1>7, <4>1, <4>2
    <3>. QED
      BY <1>3, <3>1 DEF Behind
  <2>4. Covers(e)'
    <3>1. ASSUME e \notin Operators, run[e].step = "write", NEW n \in Ids, Live(n)',
                 mem'[n].updated < run[e].started, ~Doubtful(n)
          PROVE  AsItem(n)' \in run[e].items \/ Shows(tree, n)'
      <4>1. n # m
        BY <1>0, <1>1, <1>6, <2>0, <3>1
      <4>2. mem'[n] = mem[n] /\ Live(n)
        BY <1>6, <1>7, <3>1, <4>1
      <4>3. AsItem(n) \in run[e].items \/ Shows(tree, n)
        BY <2>0, <3>1, <4>2 DEF Covers
      <4>. QED
        BY <1>7, <4>1, <4>3
    <3>. QED
      BY <1>3, <1>7, <3>1 DEF Covers
  <2>5. Files(e)'
    <3>1. ASSUME e \notin Operators, NEW n \in Ids, Live(n)',
                 mem'[n].promoted < run[e].started, ~Lost(n)
          PROVE  Live(n) /\ mem[n].promoted < run[e].started
      <4>1. Stored(n)
        BY <1>0, <1>1, <1>6, <2>0, <3>1 DEF Live, Stored
      <4>2. mem'[n].promoted = mem[n].promoted
        BY <1>1, <1>6, <4>1
      <4>. QED
        BY <1>7, <3>1, <4>1, <4>2
    <3>2. ASSUME e \notin Operators, NEW n \in Ids, Live(n)',
                 mem'[n].promoted < run[e].started, ~Lost(n)
          PROVE  /\ run[e].step = "write" => Filed(n) \/ \E r \in run[e].items : r.id = n
                 /\ run[e].step \in {"index", "mark"} => Filed(n)
                 /\ run[e].step = "mark" => Indexed(n)
      BY <2>0, <3>1, <3>2 DEF Files
    <3>. QED
      BY <1>3, <1>7, <3>2 DEF Files
  <2>. QED
    BY <2>1, <2>2, <2>3, <2>4, <2>5
<1>10. Marked'
  <2>1. ASSUME NEW n \in Ids, Live(n)', mem'[n].promoted < mark, ~Lost(n)
        PROVE  Filed(n) /\ Indexed(n)
    <3>1. Stored(n)
      BY <1>0, <1>1, <1>6, <1>8, <2>1 DEF Live, Stored
    <3>2. mem'[n].promoted = mem[n].promoted
      BY <1>1, <1>6, <3>1
    <3>3. Live(n)
      BY <1>7, <2>1, <3>1
    <3>. QED
      BY <2>1, <3>2, <3>3 DEF ExportInv, Marked
  <2>. QED
    BY <1>2, <1>7, <2>1 DEF Marked
<1>11. CursorSound'
  <2>1. ASSUME NEW n \in Ids, Live(n)', mem'[n].updated < cursor, ~Doubtful(n)
        PROVE  Shows(tree, n)'
    <3>1. n # m
      BY <1>0, <1>1, <1>6, <1>8, <2>1
    <3>2. mem'[n] = mem[n] /\ Live(n)
      BY <1>6, <1>7, <2>1, <3>1
    <3>3. Shows(tree, n)
      BY <2>1, <3>2 DEF ExportInv, CursorSound, Live
    <3>. QED
      BY <1>7, <3>1, <3>3
  <2>. QED
    BY <1>2, <1>7, <2>1 DEF CursorSound, Live
<1>12. OnlyStored'
  BY <1>2, <1>7 DEF ExportInv, OnlyStored
<1>. QED
  BY <1>4, <1>5, <1>9, <1>10, <1>11, <1>12 DEF ExportInv

LEMMA StutterKeeps == ExportInv /\ UNCHANGED vars => ExportInv'
<1>. SUFFICES ASSUME ExportInv, UNCHANGED vars PROVE ExportInv'
  OBVIOUS
<1>1. UNCHANGED <<clock, mem, tree, index, cursor, mark, run, stray, faults>>
  BY DEF vars
<1>2. TypeOK' /\ Times' /\ OnlyStored'
  BY <1>1 DEF ExportInv, TypeOK, Times, OnlyStored, Stored
<1>3. Marked' /\ CursorSound'
  BY <1>1 DEF ExportInv, Marked, CursorSound, Live, Stored, Lost, Doubtful, Shows, Filed, Indexed
<1>4. \A e \in Exporters :
        Shape(e)' /\ Items(e)' /\ Behind(e)' /\ Covers(e)' /\ Files(e)' /\ Quiet(e)'
  BY <1>1 DEF ExportInv, Shape, Items, Behind, Covers, Files, Quiet, Outdated, AsItem, Live,
              Stored, Lost, Doubtful, Shows, Filed, Indexed, Wanted
<1>. QED
  BY <1>2, <1>3, <1>4 DEF ExportInv

LEMMA ExportStep == ExportInv /\ [Next]_vars => ExportInv'
<1>. SUFFICES ASSUME ExportInv, [Next]_vars PROVE ExportInv'
  OBVIOUS
<1>1. CASE Tick
  BY <1>1, TickKeeps
<1>2. CASE \E m \in Ids : Promote(m) \/ Change(m)
  BY <1>2, StoreKeeps
<1>3. ASSUME NEW e \in Exporters,
             Begin(e) \/ Advance(e) \/ Kill(e) \/ WriteFails(e) \/ ExportSwallowed(e)
      PROVE  ExportInv'
  BY <1>3, BeginKeeps, ReadKeeps, ScanKeeps, WriteKeeps, RemoveKeeps, CursorKeeps, StopKeeps,
     IndexKeeps, MarkKeeps, FailKeeps, SwallowKeeps DEF Advance
<1>4. CASE UNCHANGED vars
  BY <1>4, StutterKeeps
<1>. QED
  BY <1>1, <1>2, <1>3, <1>4 DEF Next

LEMMA Always == Spec => []ExportInv
BY InitInv, ExportStep, PTL DEF Spec

----------------------------------------------------------------------------
(* What every run of the system keeps.                                     *)

\* Every variable keeps its type whatever runs there are and however they end
\* (the rows, the tree, export_state and index_state).
THEOREM Typing == Spec => []TypeOK
<1>1. ExportInv => TypeOK
  BY DEF ExportInv
<1>. QED
  BY <1>1, Always, PTL

\* The cursor passes no change that is not on disk, for any number of runs,
\* changes and faults (exporter.ts 44-46 and 122).
THEOREM Cursor == Spec => []CursorSound
<1>1. ExportInv => CursorSound
  BY DEF ExportInv
<1>. QED
  BY <1>1, Always, PTL

\* A memory the gauge counts as fresh is in the index or was promoted at the
\* very instant of the mark and is not lost, for any number of runs, changes and
\* faults (cycle.ts 318-320, index-refresher.ts 83-85).
THEOREM Gauge == Spec => []FreshIsIndexed
<1>1. ExportInv => FreshIsIndexed
  <2>1. ASSUME ExportInv, NEW m \in Ids, Fresh(m), ~Doubtful(m), ~Indexed(m)
        PROVE  Tied(m) /\ (Changed(m) \/ Shows(tree, m))
    <3>1. Live(m) /\ mem[m].promoted <= mark
      BY <2>1 DEF Fresh, Live
    <3>2. ~Lost(m)
      BY <2>1 DEF Doubtful, Lost, Exporters
    <3>3. mem[m].promoted \in Int /\ mark \in Int /\ mem[m].updated \in Int /\ cursor \in Int
      BY <2>1, ExportAssumption DEF ExportInv, TypeOK, Memory, ABounds, Never
    <3>4. ~(mem[m].promoted < mark)
      BY <2>1, <3>1, <3>2 DEF ExportInv, Marked
    <3>5. Tied(m)
      BY <3>1, <3>3, <3>4 DEF Tied
    <3>6. mem[m].updated < cursor => Shows(tree, m)
      BY <2>1, <3>1 DEF ExportInv, CursorSound, Live
    <3>. QED
      BY <3>3, <3>5, <3>6 DEF Changed
  <2>. QED
    BY <2>1 DEF FreshIsIndexed
<1>. QED
  BY <1>1, Always, PTL

\* A reconcile that nothing disturbs leaves the tree exactly as the store wants
\* it, whatever state earlier runs left it in (exporter.ts 19-25).
THEOREM Reconcile == Spec => []ReconcileRepairs
<1>1. ExportInv => ReconcileRepairs
  <2>1. ASSUME ExportInv, NEW e \in Operators, Exported(e), run[e].quiet,
               NEW m \in Ids, NEW p \in Places
        PROVE  tree[m][p] = IF Stored(m) /\ mem[m].open /\ p = Place(mem[m])
                            THEN mem[m].rev ELSE NoFile
    <3>1. e \in Exporters /\ Quiet(e) /\ run[e].step = "write" /\ run[e].items = {}
          /\ run[e].remove = {}
      BY <2>1 DEF Exported, ExportInv, Exporters
    <3>2. /\ Live(m) => Shows(tree, m)
          /\ tree[m][p] # NoFile => Wanted(m, p)
      BY <2>1, <3>1 DEF Quiet
    <3>. QED
      BY <3>2 DEF Wanted, Live, Shows
  <2>. QED
    BY <2>1 DEF ReconcileRepairs, TreeExact
<1>. QED
  BY <1>1, Always, PTL
===============================================================================
