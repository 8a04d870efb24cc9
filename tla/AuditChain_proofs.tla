-------------------------- MODULE AuditChain_proofs --------------------------
(***************************************************************************)
(* Safety of the audit chain and of the signed-merge-anchor log, for every *)
(* number of events, writers and merges.                                   *)
(***************************************************************************)
EXTENDS AuditChain, SequenceTheorems, TLAPS

\* The hash of a row is a hash.
LEMMA HashType ==
  ASSUME NEW e \in Events, NEW b \in Bodies, NEW p \in Hashes
  PROVE  Hash(e, b, p) \in Hashes
BY DEF Hash, Hashes

\* The tip of a chain is a hash.
LEMMA TipType ==
  ASSUME NEW s \in Logs
  PROVE  Tip(s) \in Hashes
<1>1. CASE s = Null
  BY <1>1 DEF Tip, Null, Hashes
<1>2. CASE s # Null
  <2>1. s \in Seq(Rows) /\ s # << >>
    BY <1>2 DEF Logs, Null
  <2>2. Len(s) \in 1..Len(s) /\ s[Len(s)] \in Rows
    BY <2>1
  <2>. QED
    BY <1>2, <2>2 DEF Tip, Rows
<1>. QED
  BY <1>1, <1>2

\* A new row is a row.
LEMMA RowType ==
  ASSUME NEW e \in Events, NEW tip \in Hashes
  PROVE  Row(e, tip) \in Rows
BY HashType DEF Row, Rows, Bodies

\* What row i links to is a hash.
LEMMA ExpectedType ==
  ASSUME NEW s \in Logs, NEW i \in 1..Len(s)
  PROVE  Expected(s, i) \in Hashes
<1>1. i = 1 \/ s[i - 1] \in Rows
  BY DEF Logs
<1>. QED
  BY <1>1 DEF Expected, Null, Hashes, Rows

\* What altered history says is a hash's content.
LEMMA RetoldType ==
  ASSUME NEW s \in Logs, NEW i \in 1..Len(s), NEW j \in (i - 1)..Len(s)
  PROVE  /\ Retold(s, i, j) \in Hashes
         /\ Len(Retold(s, i, j)) = j + 1 - i
         /\ NewHash(s, i, j) \in Hashes
<1>. DEFINE n == j + 1 - i
            item(k) == <<s[i + k - 1].id, IF k = 1 THEN "altered" ELSE s[i + k - 1].body>>
<1>1. n \in Nat /\ \A k \in 1..n : i + k - 1 \in 1..Len(s)
  OBVIOUS
<1>2. ASSUME NEW k \in 1..n
      PROVE  item(k) \in Events \X Bodies
  <2>1. s[i + k - 1] \in Rows
    BY <1>1 DEF Logs
  <2>2. s[i + k - 1].id \in Events /\ s[i + k - 1].body \in Bodies
    BY <2>1 DEF Rows
  <2>. QED
    BY <2>2 DEF Bodies
<1>3. Retold(s, i, j) = [k \in 1..n |-> item(k)]
  BY DEF Retold
<1>. HIDE DEF n, item
<1>4. Retold(s, i, j) \in Seq(Events \X Bodies) /\ Len(Retold(s, i, j)) = n
  BY <1>1, <1>2, <1>3
<1>5. Expected(s, i) \in Seq(Events \X Bodies)
  BY ExpectedType DEF Hashes
<1>. QED
  BY <1>4, <1>5 DEF Hashes, NewHash, n

\* A rewritten history is a history of the same length.
LEMMA RehashedType ==
  ASSUME NEW s \in Logs, NEW i \in 1..Len(s)
  PROVE  Rehashed(s, i) \in Logs /\ Len(Rehashed(s, i)) = Len(s)
<1>. DEFINE new(j) == IF j < i THEN s[j] ELSE NewRow(s, i, j)
<1>1. ASSUME NEW j \in 1..Len(s)
      PROVE  new(j) \in Rows
  <2>0. s[j] \in Rows
    BY DEF Logs
  <2>1. CASE ~(j < i)
    <3>1. j - 1 \in (i - 1)..Len(s)
      BY <2>1 DEF Logs
    <3>2. NewHash(s, i, j - 1) \in Hashes
      BY <3>1, RetoldType
    <3>3. s[j].id \in Events /\ s[j].body \in Bodies /\ "altered" \in Bodies
      BY <2>0 DEF Rows, Bodies
    <3>4. NewRow(s, i, j) \in Rows
      BY <3>2, <3>3, HashType DEF NewRow, Rows
    <3>. QED
      BY <2>1, <3>4
  <2>. QED
    BY <2>0, <2>1
<1>2. Len(s) \in Nat
  BY DEF Logs
<1>3. Rehashed(s, i) = [j \in 1..Len(s) |-> new(j)]
  BY DEF Rehashed
<1>. HIDE DEF new
<1>. QED
  BY <1>1, <1>2, <1>3 DEF Logs

-----------------------------------------------------------------------------

\* Type correctness (every variable of the chain, the anchors and their lock).
THEOREM Typing == Spec => []TypeOK
<1>1. Init => TypeOK
  BY ChainAssumption DEF Init, TypeOK, Logs, Txs, NoTx, Null, Locks, NoLock, Runs, NoRun, Steps,
                         Section, Hashes, Links
<1>2. TypeOK /\ [Next]_vars => TypeOK'
  <2>. SUFFICES ASSUME TypeOK, [Next]_vars
                PROVE  TypeOK'
    OBVIOUS
  <2>. USE DEF TypeOK
  <2>l. Null \in Logs /\ Null \in Hashes /\ Null \in Links
    BY DEF Null, Logs, Hashes, Links
  <2>w. ASSUME NEW w \in Writers
        PROVE  /\ tx[w] \in Txs /\ tx[w].view \in Logs
               /\ w \in Writers \cup {Nobody}
               /\ \A v \in Logs : /\ [op |-> "reading", view |-> v] \in Txs
                                  /\ [op |-> "writing", view |-> v] \in Txs
               /\ [op |-> "idle", view |-> Null] \in Txs
    BY <2>l DEF Txs
  <2>t. ASSUME NEW w \in Writers, NEW op \in {"idle", "reading", "writing"}, NEW v \in Logs,
               op = "idle" => v = Null, SetTx(w, op, v)
        PROVE  tx' \in [Writers -> Txs]
    <3>1. [op |-> op, view |-> v] \in Txs
      BY <2>t DEF Txs
    <3>. QED
      BY <2>t, <3>1 DEF SetTx
  <2>g. ASSUME NEW m \in Mergers, NEW op \in Steps, GoOn(m, op)
        PROVE  run' \in [Mergers -> Runs]
    <3>1. [run[m] EXCEPT !.op = op] \in Runs
      BY DEF Runs
    <3>. QED
      BY <2>g, <3>1 DEF GoOn
  <2>k. NoLock \in Locks /\ \A m \in Mergers : [by |-> m, stale |-> FALSE] \in Locks
    BY DEF NoLock, Locks
  <2>1. ASSUME NEW w \in Writers, BeginImmediate(w)
        PROVE  TypeOK'
    BY <2>1, <2>t, <2>w DEF BeginImmediate, anchorVars
  <2>2. ASSUME NEW w \in Writers, BeginDeferred(w)
        PROVE  TypeOK'
    BY <2>2, <2>t, <2>w DEF BeginDeferred, anchorVars
  <2>3. ASSUME NEW w \in Writers, Upgrade(w)
        PROVE  TypeOK'
    <3>1. tx' \in [Writers -> Txs] /\ writer' \in Writers \cup {Nobody}
      BY <2>3, <2>t, <2>w, <2>l DEF Upgrade
    <3>. QED
      BY <2>3, <3>1 DEF Upgrade, anchorVars
  <2>4. ASSUME NEW w \in Writers, Commit(w)
        PROVE  TypeOK'
    <3>1. tx' \in [Writers -> Txs]
      BY <2>4, <2>t, <2>l DEF Commit
    <3>. QED
      BY <2>4, <3>1, <2>w DEF Commit, anchorVars
  <2>5. ASSUME NEW w \in Writers, Rollback(w)
        PROVE  TypeOK'
    <3>1. tx' \in [Writers -> Txs]
      BY <2>5, <2>t, <2>l DEF Rollback
    <3>. QED
      BY <2>5, <3>1 DEF Rollback, anchorVars
  <2>6. ASSUME NEW w \in Writers, NEW e \in Events, AppendEvent(w, e)
        PROVE  TypeOK'
    <3>1. Row(e, Tip(tx[w].view)) \in Rows
      BY <2>w, TipType, RowType
    <3>2. Append(tx[w].view, Row(e, Tip(tx[w].view))) \in Logs
      BY <3>1, <2>w DEF Logs
    <3>3. tx' \in [Writers -> Txs]
      BY <2>6, <3>2, <2>t DEF AppendEvent
    <3>. QED
      BY <2>6, <3>3 DEF AppendEvent, anchorVars
  <2>7. ASSUME NEW i \in 1..Len(log), EditRow(i)
        PROVE  TypeOK'
    <3>0. log[i] \in Rows
      BY DEF Logs
    <3>1. [log[i] EXCEPT !.body = "altered"] \in Rows
      BY <3>0 DEF Rows, Bodies
    <3>2. log' \in Logs
      BY <2>7, <3>0, <3>1 DEF EditRow, Logs
    <3>3. i \in Nat
      BY DEF Logs
    <3>. QED
      BY <2>7, <3>2, <3>3 DEF EditRow, anchorVars
  <2>8. ASSUME NEW i \in 1..Len(log), Rehash(i)
        PROVE  TypeOK'
    <3>1. log' \in Logs
      BY <2>8, RehashedType DEF Rehash
    <3>2. \A j \in i..Len(log) : log[j].entry \in Hashes
      <4>1. \A j \in i..Len(log) : log[j] \in Rows
        BY DEF Logs
      <4>. QED
        BY <4>1 DEF Rows
    <3>3. lost' \in SUBSET Hashes /\ altered' \in SUBSET Nat
      BY <2>8, <3>2 DEF Rehash
    <3>. QED
      BY <2>8, <3>1, <3>3 DEF Rehash, anchorVars
  <2>9. CASE AgeLock
    <3>1. lock.by \in Mergers /\ [lock EXCEPT !.stale = TRUE] \in Locks
      BY <2>9 DEF AgeLock, Locks, NoLock
    <3>. QED
      BY <2>9, <3>1 DEF AgeLock, chainVars
  <2>m. ASSUME NEW m \in Mergers
        PROVE  run[m] \in Runs
    OBVIOUS
  <2>10. ASSUME NEW m \in Mergers, Start(m) \/ ReadTail(m) \/ ReadChain(m) \/ ReadLink(m)
                                    \/ VerifyAnchors(m)
         PROVE  TypeOK'
    <3>1. ASSUME ReadTail(m)
          PROVE  TypeOK'
      <4>. DEFINE clk == IF anchors = Null THEN 1 ELSE anchors[Len(anchors)].clock + 1
      <4>0. run' = [run EXCEPT ![m].op = "chain", ![m].clock = clk]
        BY <3>1 DEF ReadTail
      <4>1. clk \in Nat
        <5>1. anchors = << >> \/ anchors[Len(anchors)] \in Anchors
          OBVIOUS
        <5>. QED
          BY <5>1 DEF Anchors, Null
      <4>2. \A c \in Nat : [run[m] EXCEPT !.op = "chain", !.clock = c] \in Runs
        BY <2>m DEF Runs, Steps, Section
      <4>. HIDE DEF clk
      <4>3. run' \in [Mergers -> Runs]
        BY <4>0, <4>1, <4>2
      <4>. QED
        BY <3>1, <4>3 DEF ReadTail, chainVars
    <3>2. ASSUME ReadChain(m)
          PROVE  TypeOK'
      <4>1. Len(log) \in Nat /\ Tip(log) \in Hashes
        BY TipType DEF Logs
      <4>2. [run[m] EXCEPT !.op = "link", !.rows = Len(log), !.head = Tip(log)] \in Runs
        BY <4>1, <2>m DEF Runs, Steps, Section
      <4>3. run' \in [Mergers -> Runs]
        BY <3>2, <4>2 DEF ReadChain
      <4>. QED
        BY <3>2, <4>3 DEF ReadChain, chainVars
    <3>3. ASSUME ReadLink(m)
          PROVE  TypeOK'
      <4>1. anchors = << >> \/ anchors[Len(anchors)] \in Anchors
        OBVIOUS
      <4>. DEFINE link == LastHash(anchors)
      <4>2. link \in Links
        BY <4>1, <2>l DEF LastHash, Anchors, Null
      <4>3. run' = [run EXCEPT ![m].op = "append", ![m].prev = link]
        BY <3>3 DEF ReadLink
      <4>. HIDE DEF link
      <4>4. [run[m] EXCEPT !.op = "append", !.prev = link] \in Runs
        BY <4>2, <2>m DEF Runs, Steps, Section
      <4>5. run' \in [Mergers -> Runs]
        BY <4>3, <4>4
      <4>. QED
        BY <3>3, <4>5 DEF ReadLink, chainVars
    <3>4. ASSUME VerifyAnchors(m)
          PROVE  TypeOK'
      <4>0. \A v \in {"ok", "failed"} : [run[m] EXCEPT !.op = "release", !.verdict = v] \in Runs
        BY <2>m DEF Runs, Steps, Section
      <4>1. run' \in [Mergers -> Runs]
        BY <3>4, <4>0 DEF VerifyAnchors
      <4>. QED
        BY <3>4, <4>1 DEF VerifyAnchors, chainVars
    <3>5. ASSUME Start(m)
          PROVE  TypeOK'
      BY <3>5, <2>g DEF Start, chainVars, Steps
    <3>. QED
      BY <2>10, <3>1, <3>2, <3>3, <3>4, <3>5
  <2>11. ASSUME NEW m \in Mergers, OpenLock(m) \/ StatLock(m) \/ StealLock(m) \/ ReleaseLock(m)
         PROVE  TypeOK'
    <3>. "open" \in Steps /\ "tail" \in Steps /\ "busy" \in Steps /\ "steal" \in Steps
           /\ "done" \in Steps
      BY DEF Steps, Section
    <3>1. run' \in [Mergers -> Runs]
      BY <2>11, <2>g DEF OpenLock, StatLock, StealLock, ReleaseLock
    <3>2. lock' \in Locks
      BY <2>11, <2>k DEF OpenLock, StatLock, StealLock, ReleaseLock
    <3>. QED
      BY <2>11, <3>1, <3>2 DEF OpenLock, StatLock, StealLock, ReleaseLock, chainVars
  <2>12. ASSUME NEW m \in Mergers, AppendAnchor(m)
         PROVE  TypeOK'
    <3>. DEFINE r == run[m]
                link == [rows |-> r.rows, head |-> r.head, clock |-> r.clock, by |-> m]
    <3>1. r \in Runs
      OBVIOUS
    <3>2. /\ r.rows \in Nat /\ r.head \in Hashes /\ r.clock \in Nat
          /\ r.prev \in Seq([rows : Nat, head : Hashes, clock : Nat, by : Mergers])
      BY <3>1 DEF Runs, Links
    <3>3. AnchorHash(r.rows, r.head, r.clock, m, r.prev) \in Links
      BY <3>2 DEF AnchorHash, Links
    <3>4. anchors' \in Seq(Anchors)
      BY <2>12, <3>2, <3>3 DEF AppendAnchor, Anchors, Links
    <3>5. run' \in [Mergers -> Runs]
      BY <2>12, <2>g DEF AppendAnchor, Steps, Section
    <3>. QED
      BY <2>12, <3>4, <3>5 DEF AppendAnchor, chainVars
  <2>13. ASSUME NEW m \in Mergers, Throw(m) \/ Crash(m)
         PROVE  TypeOK'
    <3>1. run' \in [Mergers -> Runs]
      BY <2>13, <2>g DEF Throw, Crash, Steps, Section
    <3>2. crashes' \in Nat
      BY <2>13 DEF Throw, Crash
    <3>3. UNCHANGED <<log, writer, tx, anchors, lock, edits, altered, lost>>
      BY <2>13 DEF Throw, Crash, chainVars
    <3>. QED
      BY <3>1, <3>2, <3>3
  <2>14. CASE UNCHANGED vars
    BY <2>14 DEF vars
  <2>. QED
    BY <2>1, <2>2, <2>3, <2>4, <2>5, <2>6, <2>7, <2>8, <2>9, <2>10, <2>11, <2>12, <2>13, <2>14
    DEF Next
<1>. QED
  BY <1>1, <1>2, PTL DEF Spec

-----------------------------------------------------------------------------
(* The hash chain.                                                         *)

\* Every row of a chain links to the row before it, and exactly the rows of alt,
\* all of which say something altered, do not have the hash they store.
Linked(s, alt) ==
  /\ alt \subseteq 1..Len(s)
  /\ \A i \in 1..Len(s) : /\ s[i].prev = Expected(s, i)
                          /\ i \in alt <=> ~EntryMatches(s[i])
                          /\ i \in alt => s[i].body = "altered"

\* The chain, and what the one process that may append to it sees of it.
ChainInv ==
  /\ Linked(log, altered)
  /\ \A w \in Writers :
       /\ tx[w].op = "writing" <=> writer = w
       /\ tx[w].op = "writing" => /\ Linked(tx[w].view, altered)
                                  /\ Len(log) <= Len(tx[w].view)
                                  /\ \A i \in 1..Len(log) : tx[w].view[i] = log[i]

\* Hashes that differ in the last row's content differ.
LEMMA HashInjective ==
  ASSUME NEW e \in Events, NEW p \in Hashes, NEW b \in Bodies, NEW c \in Bodies,
         Hash(e, b, p) = Hash(e, c, p)
  PROVE  b = c
<1>1. <<e, b>> \in Events \X Bodies /\ <<e, c>> \in Events \X Bodies
  OBVIOUS
<1>2. Append(p, <<e, b>>)[Len(p) + 1] = <<e, b>> /\ Append(p, <<e, c>>)[Len(p) + 1] = <<e, c>>
  BY <1>1, AppendProperties DEF Hashes
<1>. QED
  BY <1>2 DEF Hash

\* A chain that is linked stays linked when a row is appended to its tip.
LEMMA AppendLinked ==
  ASSUME NEW s \in Logs, NEW alt, NEW e \in Events, Linked(s, alt)
  PROVE  Linked(Append(s, Row(e, Tip(s))), alt)
<1>. DEFINE r == Row(e, Tip(s))
            t == Append(s, r)
<1>1. r \in Rows /\ r.prev = Tip(s) /\ EntryMatches(r)
  BY TipType, RowType DEF Row, EntryMatches
<1>2. /\ Len(s) \in Nat
      /\ Len(t) = Len(s) + 1
      /\ t[Len(s) + 1] = r
      /\ \A i \in 1..Len(s) : t[i] = s[i]
  BY <1>1, AppendProperties DEF Logs
<1>. HIDE DEF r, t
<1>3. \A i \in 1..Len(s) : Expected(t, i) = Expected(s, i)
  BY <1>2 DEF Expected
<1>4. Expected(t, Len(s) + 1) = Tip(s)
  <2>1. CASE s = Null
    BY <2>1, <1>2 DEF Expected, Tip, Null
  <2>2. CASE s # Null
    <3>1. Len(s) # 0
      BY <2>2 DEF Logs, Null
    <3>. QED
      BY <2>2, <3>1, <1>2 DEF Expected, Tip
  <2>. QED
    BY <2>1, <2>2
<1>5. ASSUME NEW i \in 1..Len(t)
      PROVE  /\ t[i].prev = Expected(t, i)
             /\ i \in alt <=> ~EntryMatches(t[i])
             /\ i \in alt => t[i].body = "altered"
  <2>1. CASE i \in 1..Len(s)
    BY <2>1, <1>2, <1>3 DEF Linked
  <2>2. CASE i = Len(s) + 1
    <3>1. i \notin alt
      BY <2>2, <1>2 DEF Linked
    <3>. QED
      BY <2>2, <3>1, <1>1, <1>2, <1>4
  <2>. QED
    BY <2>1, <2>2, <1>2
<1>6. alt \subseteq 1..Len(t)
  BY <1>2 DEF Linked
<1>. QED
  BY <1>5, <1>6 DEF Linked, t, r

\* An alteration in place breaks the row it touches and no other.
LEMMA EditLinked ==
  ASSUME NEW s \in Logs, NEW alt, NEW i \in 1..Len(s), Linked(s, alt), s[i].body = "written"
  PROVE  Linked([s EXCEPT ![i].body = "altered"], alt \cup {i})
<1>. DEFINE r == [s[i] EXCEPT !.body = "altered"]
            t == [s EXCEPT ![i] = r]
<1>1. s[i] \in Rows
  BY DEF Logs
<1>2. /\ r \in Rows /\ r.body = "altered" /\ r.prev = s[i].prev /\ r.entry = s[i].entry
      /\ r.id = s[i].id
  BY <1>1 DEF Rows, Bodies
<1>3. /\ Len(t) = Len(s)
      /\ t[i] = r
      /\ \A j \in 1..Len(s) : j # i => t[j] = s[j]
  BY <1>2 DEF Logs
<1>4. ~EntryMatches(r)
  <2>1. EntryMatches(s[i])
    BY DEF Linked
  <2>. QED
    BY <1>1, <1>2, <2>1, HashInjective DEF EntryMatches, Rows, Bodies
<1>. HIDE DEF r
<1>5. Len(s) \in Nat
  BY DEF Logs
<1>6. \A j \in 1..Len(s) : Expected(t, j) = Expected(s, j)
  BY <1>2, <1>3, <1>5 DEF Expected
<1>7. ASSUME NEW j \in 1..Len(s)
      PROVE  /\ t[j].prev = Expected(t, j)
             /\ j \in alt \cup {i} <=> ~EntryMatches(t[j])
             /\ j \in alt \cup {i} => t[j].body = "altered"
  <2>1. CASE j = i
    BY <2>1, <1>2, <1>3, <1>4, <1>6 DEF Linked
  <2>2. CASE j # i
    BY <2>2, <1>3, <1>6 DEF Linked
  <2>. QED
    BY <2>1, <2>2
<1>8. alt \cup {i} \subseteq 1..Len(t)
  BY <1>3 DEF Linked
<1>9. [s EXCEPT ![i].body = "altered"] = t
  BY <1>1 DEF r
<1>. HIDE DEF t
<1>. QED
  BY <1>3, <1>7, <1>8, <1>9 DEF Linked

\* Appending after a concatenation is concatenating with an appended sequence.
LEMMA ConcatAppend ==
  ASSUME NEW S, NEW p \in Seq(S), NEW q \in Seq(S), NEW x \in S
  PROVE  p \o Append(q, x) = Append(p \o q, x)
<1>. DEFINE c == Append(q, x)
            d == p \o q
            a == p \o c
            b == Append(d, x)
            n == Len(p) + Len(q) + 1
<1>1. /\ c \in Seq(S) /\ Len(c) = Len(q) + 1 /\ c[Len(q) + 1] = x
      /\ \A i \in 1..Len(q) : c[i] = q[i]
  BY AppendProperties
<1>2. /\ d \in Seq(S) /\ Len(d) = Len(p) + Len(q)
      /\ \A i \in 1..(Len(p) + Len(q)) : d[i] = IF i <= Len(p) THEN p[i] ELSE q[i - Len(p)]
  BY ConcatProperties
<1>3. Len(p) \in Nat /\ Len(q) \in Nat
  OBVIOUS
<1>. HIDE DEF c, d
<1>4. /\ a \in Seq(S) /\ Len(a) = n
      /\ \A i \in 1..n : a[i] = IF i <= Len(p) THEN p[i] ELSE c[i - Len(p)]
  <2>1. /\ a \in Seq(S) /\ Len(a) = Len(p) + Len(c)
        /\ \A i \in 1..(Len(p) + Len(c)) : a[i] = IF i <= Len(p) THEN p[i] ELSE c[i - Len(p)]
    BY <1>1, ConcatProperties
  <2>2. Len(p) + Len(c) = n
    BY <1>1, <1>3
  <2>. QED
    BY <2>1, <2>2
<1>5. /\ b \in Seq(S) /\ Len(b) = n /\ b[n] = x
      /\ \A i \in 1..(n - 1) : b[i] = d[i]
  BY <1>2, <1>3, AppendProperties
<1>. HIDE DEF a, b
<1>6. ASSUME NEW i \in 1..n PROVE a[i] = b[i]
  <2>1. CASE i = n
    <3>1. i - Len(p) = Len(q) + 1 /\ ~(i <= Len(p))
      BY <2>1, <1>3
    <3>. QED
      BY <2>1, <3>1, <1>1, <1>4, <1>5
  <2>2. CASE i # n
    <3>1. i \in 1..(n - 1) /\ i \in 1..(Len(p) + Len(q))
      BY <2>2, <1>3
    <3>2. CASE i <= Len(p)
      BY <3>1, <3>2, <1>2, <1>4, <1>5
    <3>3. CASE ~(i <= Len(p))
      <4>1. i - Len(p) \in 1..Len(q)
        BY <3>1, <3>3, <1>3
      <4>2. a[i] = q[i - Len(p)]
        BY <4>1, <3>3, <1>1, <1>4
      <4>. QED
        BY <4>2, <3>1, <3>3, <1>2, <1>5
    <3>. QED
      BY <3>2, <3>3
  <2>. QED
    BY <2>1, <2>2
<1>. HIDE DEF n
<1>. QED
  BY <1>4, <1>5, <1>6, SeqEqual DEF a, b, c, d

\* A rewritten history is hashed forward one row at a time.
LEMMA NewHashStep ==
  ASSUME NEW s \in Logs, NEW i \in 1..Len(s), NEW j \in i..Len(s)
  PROVE  /\ NewHash(s, i, i - 1) = Expected(s, i)
         /\ NewRow(s, i, j).entry = NewHash(s, i, j)
         /\ EntryMatches(NewRow(s, i, j))
         /\ NewRow(s, i, j).prev = NewHash(s, i, j - 1)
<1>. DEFINE body == IF j = i THEN "altered" ELSE s[j].body
            item == <<s[j].id, body>>
            r == Retold(s, i, j)
            q == Retold(s, i, j - 1)
            E == Events \X Bodies
<1>0. Len(s) \in Nat /\ i \in Nat /\ j \in Nat /\ i - 1 \in (i - 1)..Len(s) /\ j - 1 \in (i - 1)..Len(s)
      /\ j \in (i - 1)..Len(s) /\ j \in 1..Len(s)
  BY DEF Logs
<1>1. item \in E
  <2>1. s[j] \in Rows
    BY <1>0 DEF Logs
  <2>. QED
    BY <2>1 DEF Rows, Bodies
<1>2. Expected(s, i) \in Seq(E)
  BY ExpectedType DEF Hashes
<1>3. /\ r \in Seq(E) /\ Len(r) = j + 1 - i
      /\ q \in Seq(E) /\ Len(q) = j - i
      /\ Retold(s, i, i - 1) \in Seq(E) /\ Len(Retold(s, i, i - 1)) = 0
  <2>1. \A k \in (i - 1)..Len(s) : Retold(s, i, k) \in Hashes /\ Len(Retold(s, i, k)) = k + 1 - i
    BY RetoldType
  <2>2. Len(q) = (j - 1) + 1 - i /\ Len(Retold(s, i, i - 1)) = (i - 1) + 1 - i
    BY <2>1, <1>0
  <2>. HIDE DEF q
  <2>3. Len(q) = j - i /\ Len(Retold(s, i, i - 1)) = 0
    BY <2>2, <1>0
  <2>. QED
    BY <2>1, <2>3, <1>0 DEF Hashes, q
<1>4. NewHash(s, i, i - 1) = Expected(s, i)
  <2>1. Retold(s, i, i - 1) = << >>
    BY <1>3
  <2>. QED
    BY <2>1, <1>2 DEF NewHash
<1>5. r = Append(q, item)
  <2>1. r[j + 1 - i] = item
    BY <1>0 DEF Retold
  <2>2. \A k \in 1..(j - i) : r[k] = q[k]
    BY <1>0 DEF Retold
  <2>3. /\ Append(q, item) \in Seq(E) /\ Len(Append(q, item)) = j + 1 - i
        /\ Append(q, item)[j + 1 - i] = item
        /\ \A k \in 1..(j - i) : Append(q, item)[k] = q[k]
    <3>1. q \in Seq(E) /\ item \in E /\ Len(q) = j - i
      BY <1>1, <1>3
    <3>. HIDE DEF q, item, E
    <3>2. /\ Append(q, item) \in Seq(E) /\ Len(Append(q, item)) = Len(q) + 1
          /\ Append(q, item)[Len(q) + 1] = item
          /\ \A k \in 1..Len(q) : Append(q, item)[k] = q[k]
      BY <3>1, AppendProperties
    <3>3. Len(q) + 1 = j + 1 - i
      BY <3>1, <1>0
    <3>. QED
      BY <3>1, <3>2, <3>3
  <2>. HIDE DEF r, q, item, E
  <2>4. \A k \in 1..Len(r) : r[k] = Append(q, item)[k]
    BY <1>0, <1>3, <2>1, <2>2, <2>3
  <2>. QED
    BY <1>3, <2>3, <2>4, SeqEqual
<1>6. NewHash(s, i, j) = Append(NewHash(s, i, j - 1), item)
  <2>. DEFINE x == Expected(s, i)
  <2>1. x \in Seq(E) /\ q \in Seq(E) /\ item \in E
    BY <1>1, <1>2, <1>3
  <2>. HIDE DEF r, q, item, E, x
  <2>2. x \o Append(q, item) = Append(x \o q, item)
    BY <2>1, ConcatAppend
  <2>. QED
    BY <2>2, <1>5 DEF NewHash, r, q, x
<1>7. Hash(s[j].id, body, NewHash(s, i, j - 1)) = NewHash(s, i, j)
  BY <1>6 DEF Hash
<1>8. /\ NewRow(s, i, j).entry = Hash(s[j].id, body, NewHash(s, i, j - 1))
      /\ NewRow(s, i, j).id = s[j].id
      /\ NewRow(s, i, j).body = body
      /\ NewRow(s, i, j).prev = NewHash(s, i, j - 1)
  BY DEF NewRow
<1>9. EntryMatches(NewRow(s, i, j))
  BY <1>8 DEF EntryMatches
<1>. QED
  BY <1>4, <1>7, <1>8, <1>9

\* A history rewritten and rehashed forward is linked, its new rows unbroken.
LEMMA RehashLinked ==
  ASSUME NEW s \in Logs, NEW alt, NEW i \in 1..Len(s), Linked(s, alt)
  PROVE  Linked(Rehashed(s, i), {j \in alt : j < i})
<1>. DEFINE t == Rehashed(s, i)
<1>1. /\ Len(s) \in Nat /\ i \in Nat
      /\ Len(t) = Len(s)
      /\ \A j \in 1..Len(s) : t[j] = IF j < i THEN s[j] ELSE NewRow(s, i, j)
  BY RehashedType DEF Logs, Rehashed
<1>. HIDE DEF t
<1>2. ASSUME NEW j \in 1..Len(t)
      PROVE  /\ t[j].prev = Expected(t, j)
             /\ j \in {k \in alt : k < i} <=> ~EntryMatches(t[j])
             /\ j \in {k \in alt : k < i} => t[j].body = "altered"
  <2>1. CASE j < i
    <3>1. t[j] = s[j] /\ Expected(t, j) = Expected(s, j)
      BY <1>1, <2>1 DEF Expected
    <3>. QED
      BY <1>1, <2>1, <3>1 DEF Linked
  <2>2. CASE ~(j < i)
    <3>0. j \in i..Len(s)
      BY <1>1, <2>2
    <3>1. t[j].prev = NewHash(s, i, j - 1) /\ EntryMatches(t[j])
      BY <3>0, <1>1, <2>2, NewHashStep
    <3>2. Expected(t, j) = NewHash(s, i, j - 1)
      <4>1. CASE j = i
        <5>1. Expected(t, i) = Expected(s, i)
          BY <1>1 DEF Expected
        <5>. QED
          BY <4>1, <5>1, <3>0, NewHashStep
      <4>2. CASE j # i
        <5>1. j - 1 \in i..Len(s) /\ ~(j - 1 < i) /\ j # 1 /\ j - 1 \in 1..Len(s)
          BY <1>1, <3>0, <4>2
        <5>2. t[j - 1] = NewRow(s, i, j - 1)
          BY <5>1, <1>1
        <5>3. NewRow(s, i, j - 1).entry = NewHash(s, i, j - 1)
          BY <5>1, NewHashStep
        <5>. QED
          BY <5>1, <5>2, <5>3 DEF Expected
      <4>. QED
        BY <4>1, <4>2
    <3>. QED
      BY <2>2, <3>1, <3>2
  <2>. QED
    BY <2>1, <2>2
<1>3. {j \in alt : j < i} \subseteq 1..Len(t)
  BY <1>1 DEF Linked
<1>. QED
  BY <1>2, <1>3 DEF Linked, t

-----------------------------------------------------------------------------

\* The chain invariant is inductive.
LEMMA ChainInductive == TypeOK /\ ChainInv /\ [Next]_vars => ChainInv'
<1>. SUFFICES ASSUME TypeOK, ChainInv, [Next]_vars
              PROVE  ChainInv'
  OBVIOUS
<1>t. /\ log \in Logs /\ Len(log) \in Nat
      /\ \A w \in Writers : tx[w] \in Txs /\ tx[w].view \in Logs /\ Len(tx[w].view) \in Nat
      /\ tx \in [Writers -> Txs]
  BY DEF TypeOK, Logs, Txs
<1>. USE DEF ChainInv
<1>n. ASSUME NEW w \in Writers, writer = Nobody
      PROVE  tx[w].op # "writing"
  BY <1>n, ChainAssumption
<1>1. ASSUME NEW w \in Writers, BeginImmediate(w)
      PROVE  ChainInv'
  BY <1>1, <1>t, <1>n DEF BeginImmediate, SetTx, Linked, Expected, EntryMatches
<1>2. ASSUME NEW w \in Writers, BeginDeferred(w) \/ Rollback(w)
      PROVE  ChainInv'
  <2>1. log' = log /\ altered' = altered /\ tx'[w].op # "writing"
        /\ \A v \in Writers \ {w} : tx'[v] = tx[v]
    BY <1>2, <1>t DEF BeginDeferred, Rollback, SetTx
  <2>2. \A v \in Writers : tx'[v].op = "writing" <=> writer' = v
    BY <1>2, <2>1, ChainAssumption DEF BeginDeferred, Rollback
  <2>. QED
    BY <2>1, <2>2
<1>3. ASSUME NEW w \in Writers, Upgrade(w)
      PROVE  ChainInv'
  <2>1. log' = log /\ altered' = altered /\ \A v \in Writers \ {w} : tx'[v] = tx[v]
    BY <1>3, <1>t DEF Upgrade, SetTx
  <2>2. CASE tx[w].view = log
    BY <1>3, <1>t, <1>n, <2>1, <2>2 DEF Upgrade, SetTx
  <2>3. CASE tx[w].view # log
    BY <1>3, <1>t, <1>n, <2>1, <2>3 DEF Upgrade, SetTx
  <2>. QED
    BY <2>2, <2>3
<1>4. ASSUME NEW w \in Writers, Commit(w)
      PROVE  ChainInv'
  <2>1. /\ log' = tx[w].view /\ altered' = altered /\ writer' = Nobody
        /\ tx'[w].op = "idle"
        /\ \A v \in Writers \ {w} : tx'[v] = tx[v]
        /\ Linked(tx[w].view, altered) /\ writer = w
    BY <1>4, <1>t DEF Commit, SetTx
  <2>2. \A v \in Writers : tx'[v].op # "writing"
    BY <2>1
  <2>. QED
    BY <2>1, <2>2, ChainAssumption
<1>5. ASSUME NEW w \in Writers, NEW e \in Events, AppendEvent(w, e)
      PROVE  ChainInv'
  <2>. DEFINE v == tx[w].view
              r == Row(e, Tip(v))
  <2>1. /\ tx[w].op = "writing" /\ log' = log /\ altered' = altered /\ writer' = writer
        /\ tx' = [tx EXCEPT ![w] = [op |-> "writing", view |-> Append(v, r)]]
    BY <1>5 DEF AppendEvent, SetTx
  <2>2. /\ v \in Logs /\ r \in Rows
        /\ Linked(v, altered)
        /\ Len(log) <= Len(v)
        /\ \A i \in 1..Len(log) : v[i] = log[i]
    BY <2>1, <1>t, TipType, RowType
  <2>3. Linked(Append(v, r), altered)
    BY <2>2, AppendLinked
  <2>4. Len(log) <= Len(Append(v, r)) /\ \A i \in 1..Len(log) : Append(v, r)[i] = log[i]
    <3>. HIDE DEF v, r
    <3>. QED
      BY <2>2, <1>t DEF Logs
  <2>5. /\ tx'[w].op = "writing" /\ tx'[w].view = Append(v, r)
        /\ \A u \in Writers \ {w} : tx'[u] = tx[u]
    BY <2>1, <1>t
  <2>. QED
    BY <2>1, <2>3, <2>4, <2>5
<1>6. ASSUME NEW i \in 1..Len(log), EditRow(i)
      PROVE  ChainInv'
  <2>1. /\ writer = Nobody /\ log[i].body = "written"
        /\ log' = [log EXCEPT ![i].body = "altered"] /\ altered' = altered \cup {i}
        /\ tx' = tx /\ writer' = writer
    BY <1>6 DEF EditRow
  <2>2. Linked(log', altered')
    BY <2>1, <1>t, EditLinked
  <2>. QED
    BY <2>1, <2>2, <1>n
<1>7. ASSUME NEW i \in 1..Len(log), Rehash(i)
      PROVE  ChainInv'
  <2>1. /\ writer = Nobody
        /\ log' = Rehashed(log, i) /\ altered' = {j \in altered : j < i}
        /\ tx' = tx /\ writer' = writer
    BY <1>7 DEF Rehash
  <2>2. Linked(log', altered')
    BY <2>1, <1>t, RehashLinked
  <2>. QED
    BY <2>1, <2>2, <1>n
<1>8. CASE AgeLock \/ UNCHANGED vars \/ \E m \in Mergers : \/ Start(m) \/ OpenLock(m) \/ StatLock(m)
                                          \/ StealLock(m) \/ ReadTail(m) \/ ReadChain(m)
                                          \/ ReadLink(m) \/ AppendAnchor(m) \/ VerifyAnchors(m)
                                          \/ ReleaseLock(m) \/ Throw(m) \/ Crash(m)
  <2>1. log' = log /\ altered' = altered /\ tx' = tx /\ writer' = writer
    BY <1>8 DEF AgeLock, vars, chainVars, Start, OpenLock, StatLock, StealLock, ReadTail, ReadChain,
                ReadLink, AppendAnchor, VerifyAnchors, ReleaseLock, Throw, Crash
  <2>. QED
    BY <2>1
<1>. QED
  BY <1>1, <1>2, <1>3, <1>4, <1>5, <1>6, <1>7, <1>8 DEF Next

\* The chain never forks and the verifier reports exactly the altered rows
\* (appendTxn under a transaction, verifyAuditChain).
THEOREM Breaks == Spec => []BreaksExact
<1>1. Init => ChainInv
  BY ChainAssumption DEF Init, ChainInv, Linked, Null, NoTx
<1>2. ChainInv => BreaksExact
  <2>. SUFFICES ASSUME ChainInv PROVE BreaksExact
    OBVIOUS
  <2>1. ChainBreaks(log) = altered
    BY DEF ChainInv, Linked, ChainBreaks
  <2>2. \A i \in ChainBreaks(log) : ~EntryMatches(log[i])
    BY <2>1 DEF ChainInv, Linked
  <2>. QED
    BY <2>1, <2>2 DEF BreaksExact, ChainForks
<1>. QED
  BY <1>1, <1>2, Typing, ChainInductive, PTL DEF Spec

-----------------------------------------------------------------------------
(* What an anchor witnesses.                                               *)

\* The hash of row j covers what the hashes of the rows up to it say of them.
Told(s) ==
  \A j \in 1..Len(s) : /\ Len(s[j].entry) = j
                       /\ \A p \in 1..j : s[j].entry[p] = s[p].entry[p]

\* A hash that tells of a row as written which the chain's hashes now tell of as
\* altered: no row will have it again.
Dead(s, h) ==
  \E p \in 1..Len(s) : /\ p <= Len(h)
                       /\ h[p][2] = "written"
                       /\ s[p].entry[p][2] = "altered"

\* A snapshot of the chain that still stands or has been rewritten.
Witness(s, gone, a) ==
  /\ a.rows <= Len(s)
  /\ a.rows = 0 => a.head = Null
  /\ a.rows # 0 => a.head = s[a.rows].entry \/ a.head \in gone

\* What is known of every hash that was replaced and every snapshot taken.
AlarmInv ==
  /\ Told(log)
  /\ \A w \in Writers : tx[w].op = "writing" => Told(tx[w].view)
  /\ \A h \in lost : Dead(log, h)
  /\ \A k \in 1..Len(anchors) : Witness(log, lost, anchors[k])
  /\ \A m \in Mergers : run[m].op \in {"link", "append"} => Witness(log, lost, run[m])

\* The tip of a told chain is as long as the chain.
LEMMA TipTold ==
  ASSUME NEW s \in Logs, Told(s)
  PROVE  /\ Len(Tip(s)) = Len(s)
         /\ \A p \in 1..Len(s) : Tip(s)[p] = s[p].entry[p]
<1>1. CASE s = Null
  BY <1>1 DEF Tip, Null
<1>2. CASE s # Null
  <2>1. Len(s) \in 1..Len(s)
    BY <1>2 DEF Logs, Null
  <2>. QED
    BY <1>2, <2>1 DEF Told, Tip
<1>. QED
  BY <1>1, <1>2

\* Appending to the tip keeps a chain told.
LEMMA AppendTold ==
  ASSUME NEW s \in Logs, NEW e \in Events, Told(s)
  PROVE  Told(Append(s, Row(e, Tip(s))))
<1>. DEFINE r == Row(e, Tip(s))
            t == Append(s, r)
            n == Len(s) + 1
<1>1. r \in Rows /\ Tip(s) \in Hashes /\ r.entry = Append(Tip(s), <<e, "written">>)
  BY TipType, RowType DEF Row, Hash
<1>2. Len(s) \in Nat /\ Len(t) = n /\ t[n] = r /\ \A i \in 1..Len(s) : t[i] = s[i]
  BY <1>1, AppendProperties DEF Logs
<1>3. /\ Len(r.entry) = n
      /\ \A p \in 1..Len(s) : r.entry[p] = s[p].entry[p]
  <2>1. <<e, "written">> \in Events \X Bodies
    BY DEF Bodies
  <2>2. /\ Len(r.entry) = Len(Tip(s)) + 1
        /\ \A p \in 1..Len(Tip(s)) : r.entry[p] = Tip(s)[p]
    BY <1>1, <2>1, AppendProperties DEF Hashes
  <2>. QED
    BY <2>2, TipTold
<1>. HIDE DEF r, t
<1>4. ASSUME NEW j \in 1..Len(t)
      PROVE  Len(t[j].entry) = j /\ \A p \in 1..j : t[j].entry[p] = t[p].entry[p]
  <2>1. CASE j = n
    BY <2>1, <1>2, <1>3
  <2>2. CASE j # n
    <3>1. j \in 1..Len(s) /\ \A p \in 1..j : p \in 1..Len(s)
      BY <2>2, <1>2
    <3>. QED
      BY <3>1, <1>2 DEF Told
  <2>. QED
    BY <2>1, <2>2
<1>. QED
  BY <1>4 DEF Told, t, r

\* What the hashes of a rewritten history say of each row.
LEMMA NewHashTold ==
  ASSUME NEW s \in Logs, Told(s), NEW i \in 1..Len(s), NEW j \in i..Len(s)
  PROVE  /\ Len(NewHash(s, i, j)) = j
         /\ \A p \in 1..j : NewHash(s, i, j)[p] =
              IF p < i THEN s[p].entry[p] ELSE <<s[p].id, IF p = i THEN "altered" ELSE s[p].body>>
<1>. DEFINE x == Expected(s, i)
            r == Retold(s, i, j)
            E == Events \X Bodies
<1>0. Len(s) \in Nat /\ i \in Nat /\ j \in Nat /\ j \in (i - 1)..Len(s)
  BY DEF Logs
<1>1. x \in Seq(E)
  BY ExpectedType DEF Hashes
<1>2. r \in Seq(E) /\ Len(r) = j + 1 - i
  BY <1>0, RetoldType DEF Hashes
<1>3. Len(x) = i - 1 /\ \A p \in 1..(i - 1) : x[p] = s[p].entry[p]
  <2>1. CASE i = 1
    BY <2>1 DEF Expected, Null
  <2>2. CASE i # 1
    <3>1. i - 1 \in 1..Len(s)
      BY <1>0, <2>2
    <3>. QED
      BY <2>2, <3>1 DEF Told, Expected
  <2>. QED
    BY <2>1, <2>2
<1>4. \A k \in 1..(j + 1 - i) :
        r[k] = <<s[i + k - 1].id, IF k = 1 THEN "altered" ELSE s[i + k - 1].body>>
  BY <1>0 DEF Retold
<1>. HIDE DEF x, r, E
<1>5. /\ Len(x \o r) = Len(x) + Len(r)
      /\ \A p \in 1..(Len(x) + Len(r)) : (x \o r)[p] = IF p <= Len(x) THEN x[p] ELSE r[p - Len(x)]
  BY <1>1, <1>2, ConcatProperties
<1>6. Len(x) + Len(r) = j
  BY <1>0, <1>2, <1>3
<1>7. ASSUME NEW p \in 1..j
      PROVE  (x \o r)[p] = IF p < i THEN s[p].entry[p]
                           ELSE <<s[p].id, IF p = i THEN "altered" ELSE s[p].body>>
  <2>1. CASE p < i
    <3>1. p \in 1..(i - 1) /\ p <= Len(x)
      BY <2>1, <1>0, <1>3
    <3>2. (x \o r)[p] = x[p]
      BY <3>1, <1>5, <1>6
    <3>. QED
      BY <2>1, <3>1, <3>2, <1>3
  <2>2. CASE ~(p < i)
    <3>. DEFINE k == p - (i - 1)
    <3>1. k \in 1..(j + 1 - i) /\ ~(p <= Len(x)) /\ i + k - 1 = p /\ (k = 1 <=> p = i)
      BY <2>2, <1>0, <1>3
    <3>2. (x \o r)[p] = r[k]
      BY <3>1, <1>3, <1>5, <1>6
    <3>. HIDE DEF k
    <3>3. r[k] = <<s[p].id, IF k = 1 THEN "altered" ELSE s[p].body>>
      BY <3>1, <1>4
    <3>. QED
      BY <2>2, <3>1, <3>2, <3>3
  <2>. QED
    BY <2>1, <2>2
<1>. QED
  BY <1>5, <1>6, <1>7 DEF NewHash, x, r

\* An unbroken row's hash ends with what the row says.
LEMMA LastTold ==
  ASSUME NEW s \in Logs, Told(s), NEW p \in 1..Len(s), EntryMatches(s[p])
  PROVE  s[p].entry[p] = <<s[p].id, s[p].body>>
<1>1. s[p] \in Rows
  BY DEF Logs
<1>2. /\ s[p].prev \in Seq(Events \X Bodies)
      /\ <<s[p].id, s[p].body>> \in Events \X Bodies
  BY <1>1 DEF Rows, Hashes
<1>3. s[p].entry = Append(s[p].prev, <<s[p].id, s[p].body>>) /\ Len(s[p].entry) = p
  BY DEF EntryMatches, Hash, Told
<1>4. /\ Len(s[p].entry) = Len(s[p].prev) + 1
      /\ s[p].entry[Len(s[p].prev) + 1] = <<s[p].id, s[p].body>>
  BY <1>2, <1>3, AppendProperties
<1>. QED
  BY <1>3, <1>4

\* Rewriting a history keeps it told, kills the hashes it replaces and revives
\* none.
LEMMA RehashTold ==
  ASSUME NEW s \in Logs, NEW alt, Linked(s, alt), Told(s),
         NEW i \in 1..Len(s), s[i].body = "written"
  PROVE  /\ Told(Rehashed(s, i))
         /\ \A h : Dead(s, h) => Dead(Rehashed(s, i), h)
         /\ \A j \in i..Len(s) : Dead(Rehashed(s, i), s[j].entry)
<1>. DEFINE t == Rehashed(s, i)
<1>1. /\ Len(s) \in Nat /\ i \in Nat
      /\ Len(t) = Len(s)
      /\ \A j \in 1..Len(s) : t[j] = IF j < i THEN s[j] ELSE NewRow(s, i, j)
  BY RehashedType DEF Logs, Rehashed
<1>. HIDE DEF t
<1>2. ASSUME NEW j \in i..Len(s)
      PROVE  t[j].entry = NewHash(s, i, j)
  <2>1. j \in 1..Len(s) /\ ~(j < i)
    BY <1>1
  <2>. QED
    BY <2>1, <1>1, NewHashStep
<1>3. ASSUME NEW j \in 1..Len(s)
      PROVE  /\ Len(t[j].entry) = j
             /\ \A p \in 1..j : t[j].entry[p] =
                  IF p < i THEN s[p].entry[p]
                  ELSE <<s[p].id, IF p = i THEN "altered" ELSE s[p].body>>
  <2>1. CASE j < i
    BY <2>1, <1>1 DEF Told
  <2>2. CASE ~(j < i)
    <3>1. j \in i..Len(s)
      BY <2>2, <1>1
    <3>2. t[j].entry = NewHash(s, i, j)
      BY <3>1, <1>2
    <3>. QED
      BY <3>1, <3>2, NewHashTold
  <2>. QED
    BY <2>1, <2>2
<1>4. Told(t)
  <2>. SUFFICES ASSUME NEW j \in 1..Len(s), NEW p \in 1..j
                PROVE  t[j].entry[p] = t[p].entry[p]
    BY <1>1, <1>3 DEF Told
  <2>1. p \in 1..Len(s) /\ p \in 1..p
    BY <1>1
  <2>. QED
    BY <2>1, <1>3
<1>5. s[i].entry[i] = <<s[i].id, "written">>
  <2>1. EntryMatches(s[i])
    BY DEF Linked
  <2>. QED
    BY <2>1, LastTold
<1>6. \A p \in 1..Len(s) : p < i => t[p].entry[p] = s[p].entry[p]
  BY <1>1, <1>3
<1>7. t[i].entry[i][2] = "altered"
  <2>0. i \in 1..i /\ ~(i < i)
    BY <1>1
  <2>1. t[i].entry[i] = <<s[i].id, "altered">>
    BY <2>0, <1>3
  <2>. QED
    BY <2>1
<1>8. ASSUME NEW p \in 1..Len(s), s[p].entry[p][2] = "altered"
      PROVE  t[p].entry[p][2] = "altered"
  <2>1. CASE p < i
    BY <2>1, <1>6, <1>8
  <2>2. CASE p = i
    BY <2>2, <1>7
  <2>3. CASE p > i
    <3>1. s[p].body = "altered"
      <4>1. s[p] \in Rows
        BY DEF Logs
      <4>2. CASE EntryMatches(s[p])
        <5>1. s[p].entry[p] = <<s[p].id, s[p].body>>
          BY <4>2, LastTold
        <5>. QED
          BY <5>1, <1>8
      <4>3. CASE ~EntryMatches(s[p])
        BY <4>3 DEF Linked
      <4>. QED
        BY <4>2, <4>3
    <3>2. p \in 1..p /\ ~(p < i) /\ p # i
      BY <2>3, <1>1
    <3>3. t[p].entry[p] = <<s[p].id, "altered">>
      BY <3>1, <3>2, <1>3
    <3>. QED
      BY <3>3
  <2>. QED
    BY <2>1, <2>2, <2>3, <1>1
<1>9. ASSUME NEW h, Dead(s, h)
      PROVE  Dead(t, h)
  BY <1>9, <1>8, <1>1 DEF Dead
<1>10. ASSUME NEW j \in i..Len(s)
       PROVE  Dead(t, s[j].entry)
  <2>1. j \in 1..Len(s) /\ i \in 1..j
    BY <1>1
  <2>2. s[j].entry[i] = s[i].entry[i] /\ i <= Len(s[j].entry)
    BY <2>1 DEF Told
  <2>3. s[j].entry[i][2] = "written"
    BY <2>2, <1>5
  <2>. QED
    BY <2>2, <2>3, <1>1, <1>7 DEF Dead
<1>. QED
  BY <1>4, <1>9, <1>10 DEF t

\* The alarm invariant is inductive beside the chain invariant.
LEMMA AlarmInductive == TypeOK /\ ChainInv /\ AlarmInv /\ [Next]_vars => AlarmInv'
<1>. SUFFICES ASSUME TypeOK, ChainInv, AlarmInv, [Next]_vars
              PROVE  AlarmInv'
  OBVIOUS
<1>t. /\ log \in Logs /\ Len(log) \in Nat
      /\ \A w \in Writers : tx[w] \in Txs /\ tx[w].view \in Logs /\ Len(tx[w].view) \in Nat
      /\ tx \in [Writers -> Txs]
      /\ run \in [Mergers -> Runs]
      /\ anchors \in Seq(Anchors)
  BY DEF TypeOK, Logs, Txs
<1>a. \A k \in 1..Len(anchors) : anchors[k].rows \in Nat
  <2>1. \A k \in 1..Len(anchors) : anchors[k] \in Anchors
    BY <1>t
  <2>. QED
    BY <2>1 DEF Anchors
<1>r. \A m \in Mergers : run[m] \in Runs /\ run[m].rows \in Nat
  BY <1>t DEF Runs
<1>. USE DEF AlarmInv
<1>1. ASSUME NEW w \in Writers, BeginImmediate(w) \/ BeginDeferred(w) \/ Upgrade(w) \/ Rollback(w)
      PROVE  AlarmInv'
  <2>1. /\ log' = log /\ lost' = lost /\ anchors' = anchors /\ run' = run
        /\ \A v \in Writers : tx'[v] = tx[v] \/ tx'[v].op # "writing" \/ tx'[v].view = log
    BY <1>1, <1>t DEF BeginImmediate, BeginDeferred, Upgrade, Rollback, SetTx, anchorVars
  <2>. QED
    BY <2>1
<1>2. ASSUME NEW w \in Writers, Commit(w)
      PROVE  AlarmInv'
  <2>. DEFINE v == tx[w].view
  <2>1. /\ log' = v /\ lost' = lost /\ anchors' = anchors /\ run' = run
        /\ tx[w].op = "writing"
        /\ \A u \in Writers : tx'[u] = tx[u] \/ tx'[u].op # "writing"
    BY <1>2, <1>t DEF Commit, SetTx, anchorVars
  <2>2. Told(v) /\ Len(log) <= Len(v) /\ Len(v) \in Nat /\ \A i \in 1..Len(log) : v[i] = log[i]
    BY <2>1, <1>t DEF ChainInv
  <2>. HIDE DEF v
  <2>3. ASSUME NEW a, a.rows \in Nat, Witness(log, lost, a)
        PROVE  Witness(v, lost, a)
    <3>1. a.rows # 0 => a.rows \in 1..Len(log)
      BY <2>3, <1>t DEF Witness
    <3>. QED
      BY <2>2, <2>3, <3>1, <1>t DEF Witness
  <2>4. \A h : Dead(log, h) => Dead(v, h)
    <3>1. \A p \in 1..Len(log) : p \in 1..Len(v) /\ v[p] = log[p]
      BY <2>2, <1>t
    <3>. QED
      BY <3>1 DEF Dead
  <2>5. \A u \in Writers : tx'[u].op = "writing" => Told(tx'[u].view)
    BY <2>1
  <2>6. /\ \A k \in 1..Len(anchors) : Witness(v, lost, anchors[k])
        /\ \A m \in Mergers : run[m].op \in {"link", "append"} => Witness(v, lost, run[m])
    BY <2>3, <1>a, <1>r
  <2>. QED
    BY <2>1, <2>2, <2>4, <2>5, <2>6
<1>3. ASSUME NEW w \in Writers, NEW e \in Events, AppendEvent(w, e)
      PROVE  AlarmInv'
  <2>. DEFINE v == tx[w].view
              s == Append(v, Row(e, Tip(v)))
  <2>1. /\ log' = log /\ lost' = lost /\ anchors' = anchors /\ run' = run
        /\ tx[w].op = "writing"
        /\ tx' = [tx EXCEPT ![w] = [op |-> "writing", view |-> s]]
    BY <1>3 DEF AppendEvent, SetTx, anchorVars
  <2>2. Told(s)
    BY <2>1, <1>t, AppendTold
  <2>. HIDE DEF s
  <2>3. tx'[w].view = s /\ \A u \in Writers \ {w} : tx'[u] = tx[u]
    BY <2>1, <1>t
  <2>. QED
    BY <2>1, <2>2, <2>3
<1>4. ASSUME NEW i \in 1..Len(log), EditRow(i)
      PROVE  AlarmInv'
  <2>1. /\ log' = [log EXCEPT ![i].body = "altered"] /\ writer = Nobody
        /\ lost' = lost /\ anchors' = anchors /\ run' = run /\ tx' = tx
    BY <1>4 DEF EditRow, anchorVars
  <2>2. Len(log') = Len(log) /\ \A j \in 1..Len(log) : log'[j].entry = log[j].entry
    <3>0. log[i] \in Rows
      BY <1>t DEF Logs
    <3>1. [log[i] EXCEPT !.body = "altered"].entry = log[i].entry
      BY <3>0 DEF Rows
    <3>. QED
      BY <2>1, <3>1, <1>t DEF Logs
  <2>3. Told(log')
    <3>. SUFFICES ASSUME NEW j \in 1..Len(log), NEW p \in 1..j
                  PROVE  Len(log'[j].entry) = j /\ log'[j].entry[p] = log'[p].entry[p]
      BY <2>2 DEF Told
    <3>1. p \in 1..Len(log)
      BY <1>t
    <3>. QED
      BY <3>1, <2>2 DEF Told
  <2>4. \A h : Dead(log, h) => Dead(log', h)
    BY <2>2 DEF Dead
  <2>5. ASSUME NEW a, a.rows \in Nat, Witness(log, lost, a)
        PROVE  Witness(log', lost, a)
    <3>1. a.rows # 0 => a.rows \in 1..Len(log)
      BY <2>5, <1>t DEF Witness
    <3>. QED
      BY <2>2, <2>5, <3>1 DEF Witness
  <2>6. /\ \A k \in 1..Len(anchors) : Witness(log', lost, anchors[k])
        /\ \A m \in Mergers : run[m].op \in {"link", "append"} => Witness(log', lost, run[m])
    BY <2>5, <1>a, <1>r
  <2>. QED
    BY <2>1, <2>3, <2>4, <2>6
<1>5. ASSUME NEW i \in 1..Len(log), Rehash(i)
      PROVE  AlarmInv'
  <2>. DEFINE gone == {log[j].entry : j \in i..Len(log)}
  <2>1. /\ log' = Rehashed(log, i) /\ writer = Nobody /\ log[i].body = "written"
        /\ lost' = lost \cup gone /\ anchors' = anchors /\ run' = run /\ tx' = tx
    BY <1>5 DEF Rehash, anchorVars
  <2>2. /\ Told(log')
        /\ \A h : Dead(log, h) => Dead(log', h)
        /\ \A j \in i..Len(log) : Dead(log', log[j].entry)
    <3>1. Linked(log, altered)
      BY DEF ChainInv
    <3>. QED
      BY <2>1, <3>1, <1>t, RehashTold
  <2>3. \A h \in lost' : Dead(log', h)
    BY <2>1, <2>2
  <2>4. /\ Len(log') = Len(log)
        /\ \A j \in 1..Len(log) : j < i => log'[j] = log[j]
    BY <2>1, <1>t, RehashedType DEF Rehashed
  <2>5. ASSUME NEW a, a.rows \in Nat, Witness(log, lost, a)
        PROVE  Witness(log', lost', a)
    <3>1. a.rows # 0 => a.rows \in 1..Len(log)
      BY <2>5, <1>t DEF Witness
    <3>2. a.rows \in i..Len(log) => log[a.rows].entry \in gone
      OBVIOUS
    <3>. HIDE DEF gone
    <3>3. ASSUME a.rows # 0
          PROVE  a.head = log'[a.rows].entry \/ a.head \in lost'
      <4>1. CASE a.rows < i
        BY <4>1, <3>1, <3>3, <2>1, <2>4, <2>5 DEF Witness
      <4>2. CASE ~(a.rows < i)
        <5>1. a.rows \in i..Len(log)
          BY <4>2, <3>1, <3>3, <1>t
        <5>. QED
          BY <5>1, <3>2, <3>3, <2>1, <2>5 DEF Witness
      <4>. QED
        BY <4>1, <4>2
    <3>. QED
      BY <2>4, <2>5, <3>3 DEF Witness
  <2>6. /\ \A k \in 1..Len(anchors) : Witness(log', lost', anchors[k])
        /\ \A m \in Mergers : run[m].op \in {"link", "append"} => Witness(log', lost', run[m])
    BY <2>5, <1>a, <1>r
  <2>. HIDE DEF gone
  <2>. QED
    BY <2>1, <2>2, <2>3, <2>6
<1>6. ASSUME NEW m \in Mergers, ReadChain(m)
      PROVE  AlarmInv'
  <2>1. /\ log' = log /\ lost' = lost /\ anchors' = anchors /\ tx' = tx
        /\ run'[m].rows = Len(log) /\ run'[m].head = Tip(log)
        /\ \A n \in Mergers \ {m} : run'[n] = run[n]
    BY <1>6, <1>r, <1>t DEF ReadChain, chainVars, Runs
  <2>2. Witness(log, lost, run'[m])
    <3>1. Len(log) = 0 <=> log = Null
      BY <1>t DEF Null, Logs
    <3>2. IF Len(log) = 0 THEN Tip(log) = Null ELSE Tip(log) = log[Len(log)].entry
      BY <3>1 DEF Tip
    <3>. HIDE DEF AlarmInv
    <3>. QED
      BY <2>1, <3>2, <1>t DEF Witness
  <2>. QED
    BY <2>1, <2>2
<1>7. ASSUME NEW m \in Mergers, AppendAnchor(m)
      PROVE  AlarmInv'
  <2>. DEFINE r == run[m]
              a == [rows |-> r.rows, head |-> r.head, clock |-> r.clock, by |-> m, prev |-> r.prev,
                    hash |-> AnchorHash(r.rows, r.head, r.clock, m, r.prev)]
  <2>1. /\ log' = log /\ lost' = lost /\ anchors' = Append(anchors, a) /\ tx' = tx
        /\ run' = [run EXCEPT ![m].op = "verify"]
        /\ Witness(log, lost, r)
    BY <1>7 DEF AppendAnchor, chainVars, GoOn
  <2>2. Witness(log, lost, a)
    BY <2>1 DEF Witness
  <2>. HIDE DEF a
  <2>3. \A k \in 1..Len(anchors') : anchors'[k] = a \/ (k \in 1..Len(anchors) /\ anchors'[k] = anchors[k])
    BY <2>1, <1>t
  <2>4. \A n \in Mergers : run'[n] = run[n] \/ run'[n].op = "verify"
    BY <2>1, <1>t, <1>r DEF Runs
  <2>. QED
    BY <2>1, <2>2, <2>3, <2>4
<1>8. ASSUME NEW m \in Mergers, ReadLink(m)
      PROVE  AlarmInv'
  <2>1. /\ log' = log /\ lost' = lost /\ anchors' = anchors /\ tx' = tx
        /\ run[m].op = "link" /\ run'[m].rows = run[m].rows /\ run'[m].head = run[m].head
        /\ \A n \in Mergers \ {m} : run'[n] = run[n]
    BY <1>8, <1>r, <1>t DEF ReadLink, chainVars, Runs
  <2>2. Witness(log, lost, run'[m])
    BY <2>1 DEF Witness
  <2>. QED
    BY <2>1, <2>2
<1>9. CASE AgeLock \/ UNCHANGED vars \/ \E m \in Mergers : \/ Start(m) \/ OpenLock(m) \/ StatLock(m)
                                          \/ StealLock(m) \/ ReadTail(m) \/ VerifyAnchors(m)
                                          \/ ReleaseLock(m) \/ Throw(m) \/ Crash(m)
  <2>1. log' = log /\ lost' = lost /\ tx' = tx /\ anchors' = anchors
    BY <1>9 DEF AgeLock, vars, chainVars, Start, OpenLock, StatLock, StealLock, ReadTail,
                VerifyAnchors, ReleaseLock, Throw, Crash
  <2>2. \A n \in Mergers : run'[n] = run[n] \/ run'[n].op \notin {"link", "append"}
    <3>. HIDE DEF AlarmInv
    <3>1. CASE AgeLock \/ UNCHANGED vars
      BY <3>1 DEF AgeLock, vars
    <3>2. ASSUME NEW m \in Mergers, NEW op \in Steps \ {"link", "append"}, GoOn(m, op)
          PROVE  \A n \in Mergers : run'[n] = run[n] \/ run'[n].op \notin {"link", "append"}
      BY <3>2, <1>r, <1>t DEF GoOn, Runs
    <3>3. ASSUME NEW m \in Mergers, \/ Start(m) \/ OpenLock(m) \/ StatLock(m) \/ StealLock(m)
                                    \/ ReleaseLock(m) \/ Throw(m) \/ Crash(m)
          PROVE  \E op \in Steps \ {"link", "append"} : GoOn(m, op)
      BY <3>3 DEF Start, OpenLock, StatLock, StealLock, ReleaseLock, Throw, Crash, Steps, Section
    <3>4. ASSUME NEW m \in Mergers, ReadTail(m)
          PROVE  run'[m].op = "chain" /\ \A n \in Mergers \ {m} : run'[n] = run[n]
      BY <3>4, <1>r, <1>t DEF ReadTail, Runs
    <3>5. ASSUME NEW m \in Mergers, VerifyAnchors(m)
          PROVE  run'[m].op = "release" /\ \A n \in Mergers \ {m} : run'[n] = run[n]
      BY <3>5, <1>r, <1>t DEF VerifyAnchors, Runs
    <3>. QED
      BY <1>9, <3>1, <3>2, <3>3, <3>4, <3>5
  <2>. QED
    BY <2>1, <2>2
<1>. QED
  BY <1>1, <1>2, <1>3, <1>4, <1>5, <1>6, <1>7, <1>8, <1>9 DEF Next

\* An anchor raises an alarm exactly when the history it witnessed was rewritten
\* (verifySignedMergeAnchors, HISTORY_TRUNCATED and HISTORY_REWRITTEN).
THEOREM Alarms == Spec => []AlarmExact
<1>1. Init => ChainInv /\ AlarmInv
  BY ChainAssumption DEF Init, ChainInv, Linked, AlarmInv, Told, Null, NoTx, NoRun
<1>2. TypeOK /\ AlarmInv => AlarmExact
  <2>. SUFFICES ASSUME TypeOK, AlarmInv, NEW k \in 1..Len(anchors)
                PROVE  HistoryBroken(log, anchors[k]) <=> anchors[k].head \in lost
    BY DEF AlarmExact
  <2>. DEFINE a == anchors[k]
  <2>1. a.rows \in Nat /\ Len(log) \in Nat
    <3>1. a \in Anchors
      BY DEF TypeOK
    <3>. QED
      BY <3>1 DEF Anchors, TypeOK, Logs
  <2>2. Witness(log, lost, a)
    BY DEF AlarmInv
  <2>. HIDE DEF a
  <2>3. ASSUME HistoryBroken(log, a)
        PROVE  a.head \in lost
    BY <2>1, <2>2, <2>3 DEF HistoryBroken, Witness
  <2>4. ASSUME a.head \in lost
        PROVE  HistoryBroken(log, a)
    <3>1. PICK p \in 1..Len(log) : /\ p <= Len(a.head) /\ a.head[p][2] = "written"
                                   /\ log[p].entry[p][2] = "altered"
      BY <2>4 DEF AlarmInv, Dead
    <3>2. a.rows # 0
      <4>1. a.head # Null
        BY <3>1, <2>1 DEF Null
      <4>. QED
        BY <4>1, <2>2 DEF Witness
    <3>3. a.rows \in 1..Len(log)
      BY <2>1, <2>2, <3>2 DEF Witness
    <3>4. log[a.rows].entry # a.head
      <4>. SUFFICES ASSUME log[a.rows].entry = a.head
                    PROVE  FALSE
        OBVIOUS
      <4>1. p \in 1..a.rows
        BY <3>1, <3>3, <2>1 DEF AlarmInv, Told
      <4>2. a.head[p] = log[p].entry[p]
        BY <4>1, <3>3 DEF AlarmInv, Told
      <4>. QED
        BY <4>2, <3>1
    <3>. QED
      BY <2>1, <3>3, <3>4 DEF HistoryBroken
  <2>. QED
    BY <2>3, <2>4 DEF a
<1>. QED
  BY <1>1, <1>2, Typing, ChainInductive, AlarmInductive, PTL DEF Spec

-----------------------------------------------------------------------------
(* The anchor lock.                                                        *)

\* Where the stale-lock steal is sound: no merge is killed, or there are at most
\* two of them, so that at most one waits for the lock of a killed one.
OneWaiter == MaxCrashes = 0 \/ \A m, n, o \in Mergers : m = n \/ n = o \/ m = o

\* Who works under the lock created it; an old lock's creator was killed.
LockInv ==
  \A m \in Mergers :
    /\ run[m].op \in Section => lock = [by |-> m, stale |-> FALSE]
    /\ lock.by = m => run[m].op \in Section \cup {"down"}
    /\ lock.by = m /\ lock.stale => run[m].op = "down"
    /\ run[m].op = "steal" => lock.stale
    /\ run[m].op = "down" => MaxCrashes # 0

\* What a run under the lock has read is current, and the log so far is one chain.
AnchorInv ==
  /\ \A k \in 1..Len(anchors) :
       LET a == anchors[k] IN
       /\ a.prev = ExpectedLink(anchors, k)
       /\ a.clock = k
       /\ k > 1 => anchors[k - 1].rows <= a.rows
       /\ a.rows <= Len(log)
       /\ a.hash = AnchorHash(a.rows, a.head, a.clock, a.by, a.prev)
  /\ \A m \in Mergers :
       LET r == run[m] IN
       /\ r.op \in {"chain", "link", "append"} => r.clock = Len(anchors) + 1
       /\ r.op \in {"link", "append"} =>
            /\ r.rows <= Len(log)
            /\ \A k \in 1..Len(anchors) : anchors[k].rows <= r.rows
       /\ r.op = "append" => r.prev = LastHash(anchors)
       /\ r.op = "verify" => anchors # Null /\ anchors[Len(anchors)].by = m
       /\ r.verdict = "failed" => lost # {}

\* A step of a run moves that run only.
LEMMA GoOnMoves ==
  ASSUME TypeOK, NEW m \in Mergers, NEW op, GoOn(m, op)
  PROVE  /\ run'[m] = [run[m] EXCEPT !.op = op]
         /\ run'[m].op = op
         /\ run'[m].clock = run[m].clock /\ run'[m].rows = run[m].rows
         /\ run'[m].head = run[m].head /\ run'[m].prev = run[m].prev
         /\ run'[m].verdict = run[m].verdict
         /\ \A n \in Mergers \ {m} : run'[n] = run[n]
<1>1. run \in [Mergers -> Runs] /\ run[m] \in Runs
  BY DEF TypeOK
<1>2. run'[m] = [run[m] EXCEPT !.op = op]
  BY <1>1 DEF GoOn
<1>. QED
  BY <1>1, <1>2 DEF GoOn, Runs

\* A step of a run that reads.
LEMMA ReadMoves ==
  ASSUME TypeOK, NEW m \in Mergers,
         ReadTail(m) \/ ReadChain(m) \/ ReadLink(m) \/ VerifyAnchors(m)
  PROVE  /\ run[m].op \in Section /\ run'[m].op \in Section
         /\ \A n \in Mergers \ {m} : run'[n] = run[n]
<1>1. run \in [Mergers -> Runs] /\ run[m] \in Runs
  BY DEF TypeOK
<1>2. CASE ReadTail(m)
  BY <1>1, <1>2 DEF ReadTail, Runs, Section
<1>3. CASE ReadChain(m)
  BY <1>1, <1>3 DEF ReadChain, Runs, Section
<1>4. CASE ReadLink(m)
  BY <1>1, <1>4 DEF ReadLink, Runs, Section
<1>5. CASE VerifyAnchors(m)
  BY <1>1, <1>5 DEF VerifyAnchors, Runs, Section
<1>. QED
  BY <1>2, <1>3, <1>4, <1>5

\* The lock excludes where at most one run can wait for a killed one's lock.
LEMMA LockInductive ==
  ASSUME OneWaiter
  PROVE  TypeOK /\ LockInv /\ [Next]_vars => LockInv'
<1>. SUFFICES ASSUME TypeOK, LockInv, [Next]_vars
              PROVE  LockInv'
  OBVIOUS
<1>t. /\ lock.by \in Mergers \cup {Nobody} /\ lock.stale \in BOOLEAN
      /\ lock = [by |-> lock.by, stale |-> lock.stale]
      /\ lock.stale => lock.by \in Mergers
      /\ lock.by = Nobody => lock = NoLock
      /\ Nobody \notin Mergers
      /\ NoLock.by = Nobody /\ NoLock.stale = FALSE
  BY ChainAssumption DEF TypeOK, Locks, NoLock
<1>s. "steal" \notin Section /\ "down" \notin Section /\ "open" \notin Section /\ "busy" \notin Section
      /\ "done" \notin Section /\ "idle" \notin Section /\ "tail" \in Section
      /\ "release" \in Section /\ "verify" \in Section /\ "append" \in Section
  BY DEF Section
<1>g. ASSUME NEW m \in Mergers, NEW op, GoOn(m, op)
      PROVE  run'[m].op = op /\ \A n \in Mergers \ {m} : run'[n] = run[n]
  BY <1>g, GoOnMoves
<1>. USE DEF LockInv
<1>1. ASSUME lock' = lock, \A m \in Mergers : run'[m].op = run[m].op
      PROVE  LockInv'
  BY <1>1
<1>2. ASSUME NEW m \in Mergers, Start(m)
      PROVE  LockInv'
  <2>1. /\ lock' = lock /\ run[m].op = "idle" /\ run'[m].op = "open"
        /\ \A n \in Mergers \ {m} : run'[n] = run[n]
    BY <1>2, <1>g DEF Start
  <2>. QED
    BY <2>1, <1>s
<1>3. ASSUME NEW m \in Mergers, OpenLock(m)
      PROVE  LockInv'
  <2>1. CASE lock = NoLock
    <3>1. /\ lock' = [by |-> m, stale |-> FALSE] /\ run'[m].op = "tail"
          /\ \A n \in Mergers \ {m} : run'[n] = run[n]
      BY <1>3, <2>1, <1>g DEF OpenLock
    <3>2. \A n \in Mergers : run[n].op \notin Section /\ run[n].op # "steal"
      BY <2>1, <1>t
    <3>. QED
      BY <3>1, <3>2, <1>s
  <2>2. CASE lock # NoLock
    <3>1. /\ lock' = lock /\ run[m].op = "open" /\ run'[m].op = "busy"
          /\ \A n \in Mergers \ {m} : run'[n] = run[n]
      BY <1>3, <2>2, <1>g DEF OpenLock
    <3>. QED
      BY <3>1, <1>s
  <2>. QED
    BY <2>1, <2>2
<1>4. ASSUME NEW m \in Mergers, StatLock(m)
      PROVE  LockInv'
  <2>1. /\ lock' = lock /\ run[m].op = "busy"
        /\ \A n \in Mergers \ {m} : run'[n] = run[n]
        /\ run'[m].op \in {"steal", "open", "done"}
        /\ run'[m].op = "steal" => lock.stale
    <3>1. \E op \in {"steal", "open", "done"} : GoOn(m, op) /\ (op = "steal" => lock.stale)
      BY <1>4 DEF StatLock
    <3>2. lock' = lock /\ run[m].op = "busy"
      BY <1>4 DEF StatLock
    <3>. QED
      BY <3>1, <3>2, <1>g
  <2>. QED
    BY <2>1, <1>s
<1>5. ASSUME NEW m \in Mergers, StealLock(m)
      PROVE  LockInv'
  <2>1. /\ lock' = NoLock /\ run[m].op = "steal" /\ run'[m].op = "open"
        /\ \A n \in Mergers \ {m} : run'[n] = run[n]
    BY <1>5, <1>g DEF StealLock
  <2>2. lock.stale /\ lock.by \in Mergers /\ run[lock.by].op = "down" /\ MaxCrashes # 0
    BY <2>1, <1>t
  <2>3. \A n \in Mergers \ {m} : n = lock.by
    BY <2>1, <2>2 DEF OneWaiter
  <2>. QED
    BY <2>1, <2>2, <2>3, <1>s, <1>t
<1>6. CASE AgeLock
  <2>1. lock.by \in Mergers
    BY <1>6, <1>t DEF AgeLock
  <2>2. /\ run' = run /\ lock' = [lock EXCEPT !.stale = TRUE] /\ run[lock.by].op = "down"
    BY <1>6, <2>1 DEF AgeLock
  <2>3. lock'.by = lock.by /\ lock'.stale
    BY <2>2, <1>t
  <2>. QED
    BY <2>1, <2>2, <2>3, <1>s
<1>7. ASSUME NEW m \in Mergers, AppendAnchor(m)
      PROVE  LockInv'
  <2>1. /\ lock' = lock /\ run[m].op = "append" /\ run'[m].op = "verify"
        /\ \A n \in Mergers \ {m} : run'[n] = run[n]
    BY <1>7, <1>g DEF AppendAnchor
  <2>. QED
    BY <2>1, <1>s
<1>8. ASSUME NEW m \in Mergers, ReleaseLock(m)
      PROVE  LockInv'
  <2>1. /\ lock' = NoLock /\ run[m].op = "release" /\ run'[m].op = "done"
        /\ \A n \in Mergers \ {m} : run'[n] = run[n]
    BY <1>8, <1>g DEF ReleaseLock
  <2>2. lock = [by |-> m, stale |-> FALSE]
    BY <2>1, <1>s
  <2>3. \A n \in Mergers \ {m} : run[n].op \notin Section /\ run[n].op # "steal"
    BY <2>2
  <2>. QED
    BY <2>1, <2>3, <1>s, <1>t
<1>9. ASSUME NEW m \in Mergers, Crash(m)
      PROVE  LockInv'
  <2>1. /\ lock' = lock /\ run'[m].op = "down" /\ MaxCrashes # 0
        /\ \A n \in Mergers \ {m} : run'[n] = run[n]
    <3>1. MaxCrashes # 0
      BY <1>9, ChainAssumption DEF Crash, TypeOK
    <3>. QED
      BY <3>1, <1>9, <1>g DEF Crash
  <2>. QED
    BY <2>1, <1>s, <1>t
<1>10. ASSUME NEW m \in Mergers, ReadTail(m) \/ ReadChain(m) \/ ReadLink(m) \/ VerifyAnchors(m)
       PROVE  LockInv'
  <2>1. lock' = lock
    BY <1>10 DEF ReadTail, ReadChain, ReadLink, VerifyAnchors
  <2>2. /\ run[m].op \in Section /\ run'[m].op \in Section
        /\ \A n \in Mergers \ {m} : run'[n] = run[n]
    BY <1>10, ReadMoves
  <2>. QED
    BY <2>1, <2>2, <1>s
<1>11. ASSUME \/ UNCHANGED vars
              \/ \E w \in Writers : \/ BeginImmediate(w) \/ BeginDeferred(w) \/ Upgrade(w)
                                    \/ Commit(w) \/ Rollback(w)
                                    \/ \E e \in Events : AppendEvent(w, e)
              \/ \E i \in 1..Len(log) : EditRow(i) \/ Rehash(i)
       PROVE  lock' = lock /\ run' = run
  BY <1>11 DEF vars, anchorVars, BeginImmediate, BeginDeferred, Upgrade, Commit, Rollback, AppendEvent,
               EditRow, Rehash
<1>12. ASSUME NEW m \in Mergers, Throw(m)
       PROVE  LockInv'
  <2>1. /\ lock' = lock /\ run[m].op \in Section /\ run'[m].op = "release"
        /\ \A n \in Mergers \ {m} : run'[n] = run[n]
    BY <1>12, <1>g DEF Throw
  <2>. QED
    BY <2>1, <1>s, <1>t
<1>. QED
  BY <1>1, <1>2, <1>3, <1>4, <1>5, <1>6, <1>7, <1>8, <1>9, <1>10, <1>11, <1>12 DEF Next

\* The chain never shrinks and no replaced hash is forgotten.
LEMMA LogGrows ==
  ASSUME TypeOK, ChainInv, [Next]_vars
  PROVE  Len(log) <= Len(log') /\ lost \subseteq lost' /\ Len(log) \in Nat /\ Len(log') \in Nat
<1>t. /\ log \in Logs /\ Len(log) \in Nat
      /\ \A w \in Writers : tx[w].view \in Logs /\ Len(tx[w].view) \in Nat
  BY DEF TypeOK, Logs, Txs
<1>1. ASSUME NEW w \in Writers, Commit(w)
      PROVE  Len(log) <= Len(log') /\ lost' = lost /\ Len(log') \in Nat
  BY <1>1, <1>t DEF Commit, ChainInv
<1>2. ASSUME NEW i \in 1..Len(log), EditRow(i)
      PROVE  Len(log') = Len(log) /\ lost' = lost
  BY <1>2, <1>t DEF EditRow, Logs
<1>3. ASSUME NEW i \in 1..Len(log), Rehash(i)
      PROVE  Len(log') = Len(log) /\ lost \subseteq lost'
  BY <1>3, <1>t, RehashedType DEF Rehash
<1>4. ASSUME \/ AgeLock \/ UNCHANGED vars
             \/ \E m \in Mergers : \/ Start(m) \/ OpenLock(m) \/ StatLock(m) \/ StealLock(m)
                                   \/ ReadTail(m) \/ ReadChain(m) \/ ReadLink(m) \/ AppendAnchor(m)
                                   \/ VerifyAnchors(m) \/ ReleaseLock(m) \/ Throw(m) \/ Crash(m)
             \/ \E w \in Writers : \/ BeginImmediate(w) \/ BeginDeferred(w) \/ Upgrade(w)
                                   \/ Rollback(w) \/ \E e \in Events : AppendEvent(w, e)
      PROVE  log' = log /\ lost' = lost
  BY <1>4 DEF AgeLock, vars, chainVars, Start, OpenLock, StatLock, StealLock, ReadTail, ReadChain,
              ReadLink, AppendAnchor, VerifyAnchors, ReleaseLock, Throw, Crash, BeginImmediate,
              BeginDeferred, Upgrade, Rollback, AppendEvent
<1>. QED
  BY <1>1, <1>2, <1>3, <1>4, <1>t DEF Next

\* The anchor log stays one chain while the lock excludes.
LEMMA AnchorInductive ==
  TypeOK /\ ChainInv /\ AlarmExact /\ LockInv /\ AnchorInv /\ [Next]_vars => AnchorInv'
<1>. SUFFICES ASSUME TypeOK, ChainInv, AlarmExact, LockInv, AnchorInv, [Next]_vars
              PROVE  AnchorInv'
  OBVIOUS
<1>t. /\ run \in [Mergers -> Runs] /\ \A m \in Mergers : run[m] \in Runs
      /\ anchors \in Seq(Anchors) /\ Len(anchors) \in Nat
      /\ anchors = Null <=> Len(anchors) = 0
  BY DEF TypeOK, Null
<1>a. \A k \in 1..Len(anchors) : anchors[k].rows \in Nat
  <2>1. \A k \in 1..Len(anchors) : anchors[k] \in Anchors
    BY <1>t
  <2>. QED
    BY <2>1 DEF Anchors
<1>r. \A m \in Mergers : run[m].rows \in Nat
  BY <1>t DEF Runs
<1>l. Len(log) <= Len(log') /\ lost \subseteq lost' /\ Len(log) \in Nat /\ Len(log') \in Nat
  BY LogGrows
<1>s. "verify" \in Section /\ "append" \in Section /\ "tail" \in Section /\ "chain" \in Section
      /\ "link" \in Section
  BY DEF Section
<1>x. ASSUME NEW m \in Mergers, NEW n \in Mergers \ {m}, run[m].op \in Section
      PROVE  run[n].op \notin Section
  BY <1>x DEF LockInv
<1>g. ASSUME NEW m \in Mergers, NEW op, GoOn(m, op)
      PROVE  /\ run'[m].op = op
             /\ run'[m].clock = run[m].clock /\ run'[m].rows = run[m].rows
             /\ run'[m].prev = run[m].prev /\ run'[m].verdict = run[m].verdict
             /\ \A n \in Mergers \ {m} : run'[n] = run[n]
  BY <1>g, GoOnMoves
<1>. USE DEF AnchorInv
\* Steps that leave the anchor log alone and move a run to where it need know nothing.
<1>1. ASSUME anchors' = anchors,
             \A m \in Mergers : \/ run'[m] = run[m]
                                \/ /\ run'[m].op \notin {"chain", "link", "append", "verify"}
                                   /\ run'[m].verdict = run[m].verdict
      PROVE  AnchorInv'
  <2>1. \A k \in 1..Len(anchors) : anchors[k].rows <= Len(log')
    BY <1>l, <1>a
  <2>2. \A m \in Mergers : run[m].op \in {"link", "append"} => run[m].rows <= Len(log')
    BY <1>l, <1>r
  <2>3. \A m \in Mergers : run[m].verdict = "failed" => lost' # {}
    BY <1>l
  <2>. QED
    BY <1>1, <2>1, <2>2, <2>3 DEF ExpectedLink, LastHash
<1>2. ASSUME NEW m \in Mergers, ReadTail(m)
      PROVE  AnchorInv'
  <2>. DEFINE clk == IF anchors = Null THEN 1 ELSE anchors[Len(anchors)].clock + 1
  <2>0. run' = [run EXCEPT ![m].op = "chain", ![m].clock = clk]
    BY <1>2 DEF ReadTail
  <2>1. clk = Len(anchors) + 1
    BY <1>t
  <2>. HIDE DEF clk
  <2>2. /\ run'[m].op = "chain" /\ run'[m].clock = clk /\ run'[m].verdict = run[m].verdict
        /\ \A n \in Mergers \ {m} : run'[n] = run[n]
    BY <2>0, <1>t DEF Runs
  <2>3. log' = log /\ anchors' = anchors /\ lost' = lost
    BY <1>2 DEF ReadTail, chainVars
  <2>. QED
    BY <2>1, <2>2, <2>3 DEF ExpectedLink, LastHash
<1>3. ASSUME NEW m \in Mergers, ReadChain(m)
      PROVE  AnchorInv'
  <2>1. /\ run[m].op = "chain" /\ run'[m].op = "link" /\ run'[m].clock = run[m].clock
        /\ run'[m].rows = Len(log) /\ run'[m].verdict = run[m].verdict
        /\ \A n \in Mergers \ {m} : run'[n] = run[n]
    BY <1>3, <1>t DEF ReadChain, Runs
  <2>2. log' = log /\ anchors' = anchors /\ lost' = lost
    BY <1>3 DEF ReadChain, chainVars
  <2>. QED
    BY <2>1, <2>2, <1>l DEF ExpectedLink, LastHash
<1>4. ASSUME NEW m \in Mergers, ReadLink(m)
      PROVE  AnchorInv'
  <2>1. /\ run[m].op = "link" /\ run'[m].op = "append" /\ run'[m].clock = run[m].clock
        /\ run'[m].rows = run[m].rows /\ run'[m].prev = LastHash(anchors)
        /\ run'[m].verdict = run[m].verdict
        /\ \A n \in Mergers \ {m} : run'[n] = run[n]
    BY <1>4, <1>t DEF ReadLink, Runs
  <2>2. log' = log /\ anchors' = anchors /\ lost' = lost
    BY <1>4 DEF ReadLink, chainVars
  <2>. QED
    BY <2>1, <2>2 DEF ExpectedLink, LastHash
<1>5. ASSUME NEW m \in Mergers, AppendAnchor(m)
      PROVE  AnchorInv'
  <2>. DEFINE r == run[m]
              a == [rows |-> r.rows, head |-> r.head, clock |-> r.clock, by |-> m, prev |-> r.prev,
                    hash |-> AnchorHash(r.rows, r.head, r.clock, m, r.prev)]
              n == Len(anchors) + 1
  <2>1. /\ log' = log /\ lost' = lost /\ anchors' = Append(anchors, a)
        /\ r.op = "append" /\ GoOn(m, "verify")
    BY <1>5 DEF AppendAnchor, chainVars
  <2>2. /\ a.rows = r.rows /\ a.clock = r.clock /\ a.prev = r.prev /\ a.by = m
        /\ a.hash = AnchorHash(a.rows, a.head, a.clock, a.by, a.prev)
    OBVIOUS
  <2>. HIDE DEF a
  <2>3. /\ Len(anchors') = n /\ anchors'[n] = a
        /\ \A k \in 1..Len(anchors) : anchors'[k] = anchors[k]
    BY <2>1, <1>t
  <2>4. LastHash(anchors) = ExpectedLink(anchors', n)
    BY <2>3, <1>t DEF LastHash, ExpectedLink
  <2>5. ASSUME NEW k \in 1..Len(anchors')
        PROVE  LET b == anchors'[k] IN
               /\ b.prev = ExpectedLink(anchors', k)
               /\ b.clock = k
               /\ k > 1 => anchors'[k - 1].rows <= b.rows
               /\ b.rows <= Len(log)
               /\ b.hash = AnchorHash(b.rows, b.head, b.clock, b.by, b.prev)
    <3>1. CASE k = n
      <4>1. k > 1 => k - 1 \in 1..Len(anchors)
        BY <3>1, <1>t
      <4>2. k > 1 => anchors'[k - 1].rows <= a.rows
        BY <4>1, <2>1, <2>2, <2>3
      <4>. QED
        BY <3>1, <4>2, <2>1, <2>2, <2>3, <2>4
    <3>2. CASE k # n
      <4>1. k \in 1..Len(anchors)
        BY <3>2, <2>3, <1>t
      <4>2. k > 1 => k - 1 \in 1..Len(anchors)
        BY <4>1, <1>t
      <4>3. ExpectedLink(anchors', k) = ExpectedLink(anchors, k)
        BY <4>1, <4>2, <2>3 DEF ExpectedLink
      <4>. QED
        BY <4>1, <4>2, <4>3, <2>3
    <3>. QED
      BY <3>1, <3>2
  <2>6. /\ run'[m].op = "verify" /\ run'[m].verdict = run[m].verdict
        /\ \A o \in Mergers \ {m} : run'[o] = run[o] /\ run[o].op \notin Section
    BY <2>1, <1>g, <1>x, <1>s
  <2>7. anchors' # Null
    BY <2>3, <1>t DEF Null
  <2>. QED
    BY <2>1, <2>2, <2>3, <2>5, <2>6, <2>7, <1>s
<1>6. ASSUME NEW m \in Mergers, VerifyAnchors(m)
      PROVE  AnchorInv'
  <2>. DEFINE v == IF AnchorBreaks(log, anchors, m) = {} THEN "ok" ELSE "failed"
  <2>0. run' = [run EXCEPT ![m].op = "release", ![m].verdict = v] /\ run[m].op = "verify"
    BY <1>6 DEF VerifyAnchors
  <2>1. v = "failed" => lost # {}
    <3>. SUFFICES ASSUME NEW k \in AnchorBreaks(log, anchors, m)
                  PROVE  lost # {}
      OBVIOUS
    <3>1. k \in 1..Len(anchors)
      BY DEF AnchorBreaks
    <3>2. HistoryBroken(log, anchors[k])
      BY <2>0, <3>1 DEF AnchorBreaks
    <3>. QED
      BY <3>1, <3>2 DEF AlarmExact
  <2>. HIDE DEF v
  <2>2. /\ run'[m].op = "release" /\ run'[m].verdict = v
        /\ \A n \in Mergers \ {m} : run'[n] = run[n]
    BY <2>0, <1>t DEF Runs
  <2>3. log' = log /\ anchors' = anchors /\ lost' = lost
    BY <1>6 DEF VerifyAnchors, chainVars
  <2>. QED
    BY <2>1, <2>2, <2>3 DEF ExpectedLink, LastHash
<1>7. ASSUME NEW m \in Mergers, \/ Start(m) \/ OpenLock(m) \/ StatLock(m) \/ StealLock(m)
                                \/ ReleaseLock(m) \/ Throw(m) \/ Crash(m)
      PROVE  AnchorInv'
  <2>1. /\ anchors' = anchors
        /\ \E op \in {"open", "tail", "busy", "steal", "done", "release", "down"} : GoOn(m, op)
    BY <1>7 DEF Start, OpenLock, StatLock, StealLock, ReleaseLock, Throw, Crash
  <2>. HIDE DEF AnchorInv
  <2>2. \A n \in Mergers : \/ run'[n] = run[n]
                           \/ /\ run'[n].op \notin {"chain", "link", "append", "verify"}
                              /\ run'[n].verdict = run[n].verdict
    BY <2>1, <1>g
  <2>. QED
    BY <2>1, <2>2, <1>1
<1>8. ASSUME \/ AgeLock \/ UNCHANGED vars
             \/ \E w \in Writers : \/ BeginImmediate(w) \/ BeginDeferred(w) \/ Upgrade(w)
                                   \/ Commit(w) \/ Rollback(w)
                                   \/ \E e \in Events : AppendEvent(w, e)
             \/ \E i \in 1..Len(log) : EditRow(i) \/ Rehash(i)
      PROVE  AnchorInv'
  <2>. HIDE DEF AnchorInv
  <2>1. anchors' = anchors /\ run' = run
    BY <1>8 DEF vars, anchorVars, AgeLock, BeginImmediate, BeginDeferred, Upgrade, Commit, Rollback,
                AppendEvent, EditRow, Rehash
  <2>. QED
    BY <2>1, <1>1
<1>. QED
  BY <1>2, <1>3, <1>4, <1>5, <1>6, <1>7, <1>8 DEF Next

\* The anchor log stays one chain, where at most one merge can wait for the lock
\* of a killed one (acquireAnchorLock, appendSignedMergeAnchor); the violation
\* an instance with three merges shows what happens with two.
THEOREM Anchored == ASSUME OneWaiter PROVE Spec => []AnchorsLinked
<1>1. Init => ChainInv /\ LockInv /\ AnchorInv
  BY ChainAssumption DEF Init, ChainInv, Linked, LockInv, AnchorInv, Null, NoTx, NoRun, NoLock, Section
<1>2. AnchorInv => AnchorsLinked
  BY DEF AnchorInv, AnchorsLinked
<1>3. TypeOK /\ LockInv /\ [Next]_vars => LockInv'
  BY LockInductive
<1>. QED
  BY <1>1, <1>2, <1>3, Typing, Alarms, ChainInductive, AnchorInductive, PTL DEF Spec

\* A merge is told that its anchor does not verify only when history was
\* rewritten (verifySignedMergeAnchors under the lock).
THEOREM Verdicts == ASSUME OneWaiter PROVE Spec => []VerdictsTrue
<1>1. Init => ChainInv /\ LockInv /\ AnchorInv
  BY ChainAssumption DEF Init, ChainInv, Linked, LockInv, AnchorInv, Null, NoTx, NoRun, NoLock, Section
<1>2. AnchorInv => VerdictsTrue
  BY DEF AnchorInv, VerdictsTrue
<1>3. TypeOK /\ LockInv /\ [Next]_vars => LockInv'
  BY LockInductive
<1>. QED
  BY <1>1, <1>2, <1>3, Typing, Alarms, ChainInductive, AnchorInductive, PTL DEF Spec

-----------------------------------------------------------------------------
(* Refinement: the chain and its anchors implement Ledger.                 *)

\* What the ledger sees of a chain and of an anchor log.
Said(s)  == [i \in 1..Len(s) |-> <<s[i].id, s[i].body>>]
Seals(a) == [k \in 1..Len(a) |-> a[k].rows]

\* The id is the primary key.
UniqueIds(s) == \A i, j \in 1..Len(s) : s[i].id = s[j].id => i = j

\* What a transaction adds to the chain is written, and under ids of its own.
IdsInv ==
  /\ UniqueIds(log)
  /\ \A w \in Writers : tx[w].op = "writing" =>
       /\ UniqueIds(tx[w].view)
       /\ \A i \in (Len(log) + 1)..Len(tx[w].view) : tx[w].view[i].body = "written"

\* A row under an id that is not in the chain is appended.
LEMMA AppendUnique ==
  ASSUME NEW s \in Logs, NEW r \in Rows, UniqueIds(s), r.id \notin Ids(s)
  PROVE  UniqueIds(Append(s, r))
<1>. DEFINE t == Append(s, r)
<1>1. /\ Len(s) \in Nat /\ Len(t) = Len(s) + 1 /\ t[Len(s) + 1] = r
      /\ \A i \in 1..Len(s) : t[i] = s[i]
  BY AppendProperties DEF Logs
<1>2. \A i \in 1..Len(s) : s[i].id # r.id
  BY DEF Ids
<1>. HIDE DEF t
<1>. QED
  BY <1>1, <1>2 DEF UniqueIds, t

\* Both alterations change what one row says and no id.
LEMMA AlterSays ==
  ASSUME NEW s \in Logs, NEW i \in 1..Len(s), NEW t,
         t = [s EXCEPT ![i].body = "altered"] \/ t = Rehashed(s, i)
  PROVE  /\ Len(t) = Len(s)
         /\ \A j \in 1..Len(s) : /\ t[j].id = s[j].id
                                 /\ t[j].body = IF j = i THEN "altered" ELSE s[j].body
<1>0. s \in Seq(Rows) /\ Len(s) \in Nat /\ \A j \in 1..Len(s) : s[j] \in Rows
  BY DEF Logs
<1>1. CASE t = [s EXCEPT ![i].body = "altered"]
  <2>1. Len(t) = Len(s) /\ \A j \in 1..Len(s) :
          t[j] = IF j = i THEN [s[j] EXCEPT !.body = "altered"] ELSE s[j]
    BY <1>0, <1>1
  <2>. QED
    BY <1>0, <2>1 DEF Rows
<1>2. CASE t = Rehashed(s, i)
  <2>1. Len(t) = Len(s)
    BY <1>2, RehashedType
  <2>2. \A j \in 1..Len(s) : t[j] = IF j < i THEN s[j] ELSE NewRow(s, i, j)
    BY <1>2 DEF Rehashed
  <2>3. \A j \in 1..Len(s) : NewRow(s, i, j).id = s[j].id
                             /\ NewRow(s, i, j).body = IF j = i THEN "altered" ELSE s[j].body
    BY DEF NewRow
  <2>. QED
    BY <1>0, <2>1, <2>2, <2>3
<1>. QED
  BY <1>1, <1>2

LEMMA IdsInductive == TypeOK /\ ChainInv /\ IdsInv /\ [Next]_vars => IdsInv'
<1>. SUFFICES ASSUME TypeOK, ChainInv, IdsInv, [Next]_vars
              PROVE  IdsInv'
  OBVIOUS
<1>t. /\ log \in Logs /\ Len(log) \in Nat
      /\ \A w \in Writers : tx[w] \in Txs /\ tx[w].view \in Logs /\ Len(tx[w].view) \in Nat
      /\ tx \in [Writers -> Txs]
  BY DEF TypeOK, Logs, Txs
<1>n. ASSUME NEW w \in Writers, writer = Nobody
      PROVE  tx[w].op # "writing"
  BY <1>n, ChainAssumption DEF ChainInv
<1>. USE DEF IdsInv
<1>1. ASSUME NEW w \in Writers, BeginImmediate(w) \/ BeginDeferred(w) \/ Upgrade(w) \/ Rollback(w)
      PROVE  IdsInv'
  <2>1. /\ log' = log
        /\ \A v \in Writers : tx'[v] = tx[v] \/ tx'[v].op # "writing" \/ tx'[v].view = log
    BY <1>1, <1>t DEF BeginImmediate, BeginDeferred, Upgrade, Rollback, SetTx
  <2>. QED
    BY <2>1, <1>t
<1>2. ASSUME NEW w \in Writers, Commit(w)
      PROVE  IdsInv'
  <2>1. log' = tx[w].view /\ tx[w].op = "writing" /\ tx'[w].op = "idle"
        /\ \A v \in Writers \ {w} : tx'[v] = tx[v] /\ tx[v].op # "writing"
    BY <1>2, <1>t DEF Commit, SetTx, ChainInv
  <2>. QED
    BY <2>1
<1>3. ASSUME NEW w \in Writers, NEW e \in Events, AppendEvent(w, e)
      PROVE  IdsInv'
  <2>. DEFINE v == tx[w].view
              r == Row(e, Tip(v))
              u == Append(v, r)
  <2>1. /\ tx[w].op = "writing" /\ log' = log /\ e \notin Ids(v)
        /\ tx'[w].op = "writing" /\ tx'[w].view = u
        /\ \A x \in Writers \ {w} : tx'[x] = tx[x]
    BY <1>3, <1>t DEF AppendEvent, SetTx
  <2>2. v \in Logs /\ r \in Rows /\ r.id = e /\ r.body = "written"
    BY <1>t, TipType, RowType DEF Row
  <2>3. UniqueIds(u)
    BY <2>1, <2>2, AppendUnique
  <2>4. Len(u) = Len(v) + 1 /\ u[Len(v) + 1] = r /\ \A i \in 1..Len(v) : u[i] = v[i]
    BY <2>2, AppendProperties DEF Logs
  <2>. HIDE DEF u, r
  <2>5. \A i \in (Len(log) + 1)..Len(u) : u[i].body = "written"
    <3>1. Len(log) <= Len(v)
      BY <2>1 DEF ChainInv
    <3>2. TAKE i \in (Len(log) + 1)..Len(u)
    <3>3. i = Len(v) + 1 \/ i \in (Len(log) + 1)..Len(v)
      BY <1>t, <2>4
    <3>4. i \in (Len(log) + 1)..Len(v) => i \in 1..Len(v) /\ v[i].body = "written"
      BY <1>t, <2>1
    <3>. QED
      BY <2>2, <2>4, <3>3, <3>4
  <2>. QED
    BY <2>1, <2>3, <2>5
<1>4. ASSUME NEW i \in 1..Len(log), EditRow(i) \/ Rehash(i)
      PROVE  IdsInv'
  <2>1. /\ writer = Nobody /\ tx' = tx
        /\ log' = [log EXCEPT ![i].body = "altered"] \/ log' = Rehashed(log, i)
    BY <1>4 DEF EditRow, Rehash
  <2>2. Len(log') = Len(log) /\ \A j \in 1..Len(log) : log'[j].id = log[j].id
    BY <1>t, <2>1, AlterSays
  <2>3. UniqueIds(log')
    BY <2>2 DEF UniqueIds
  <2>. QED
    BY <1>n, <2>1, <2>3
<1>5. CASE AgeLock \/ UNCHANGED vars \/ \E m \in Mergers : \/ Start(m) \/ OpenLock(m) \/ StatLock(m)
                                          \/ StealLock(m) \/ ReadTail(m) \/ ReadChain(m)
                                          \/ ReadLink(m) \/ AppendAnchor(m) \/ VerifyAnchors(m)
                                          \/ ReleaseLock(m) \/ Throw(m) \/ Crash(m)
  <2>1. log' = log /\ tx' = tx
    BY <1>5 DEF AgeLock, vars, chainVars, Start, OpenLock, StatLock, StealLock, ReadTail, ReadChain,
                ReadLink, AppendAnchor, VerifyAnchors, ReleaseLock, Throw, Crash
  <2>. QED
    BY <2>1
<1>. QED
  BY <1>1, <1>2, <1>3, <1>4, <1>5 DEF Next

\* A commit records what the transaction wrote, or nothing when it wrote nothing.
LEMMA CommitRecords ==
  ASSUME TypeOK, ChainInv, IdsInv, NEW w \in Writers, Commit(w)
  PROVE  Receipts!Record \/ UNCHANGED (Receipts!ledgerVars)
<1>. DEFINE v == tx[w].view
<1>1. /\ log' = v /\ anchors' = anchors
      /\ Len(log) <= Len(v) /\ \A i \in 1..Len(log) : v[i] = log[i]
      /\ UniqueIds(v)
      /\ \A i \in (Len(log) + 1)..Len(v) : v[i].body = "written"
  BY DEF Commit, anchorVars, ChainInv, IdsInv
<1>2. Len(log) \in Nat /\ Len(v) \in Nat
  BY DEF TypeOK, Logs, Txs
<1>. HIDE DEF v
<1>3. Len(Said(log)) = Len(log) /\ Len(Said(v)) = Len(v)
  BY <1>2 DEF Said
<1>4. \A i \in 1..Len(log) : Said(v)[i] = Said(log)[i]
  BY <1>1, <1>2 DEF Said
<1>5. Said(log)' = Said(v) /\ Seals(anchors)' = Seals(anchors)
  BY <1>1 DEF Said, Seals
<1>6. CASE Len(v) = Len(log)
  <2>1. Said(v) = Said(log)
    BY <1>1, <1>6 DEF Said
  <2>. QED
    BY <1>5, <2>1 DEF Receipts!ledgerVars, Said, Seals
<1>7. CASE Len(log) < Len(v)
  <2>1. \A i \in (Len(log) + 1)..Len(v) : Said(v)[i][2] = "written"
    BY <1>1, <1>2 DEF Said
  <2>2. Receipts!OneReceiptPerId(Said(v))
    BY <1>1, <1>2, <1>3 DEF Receipts!OneReceiptPerId, UniqueIds, Said
  <2>3. Receipts!Record <=>
          /\ Len(Said(log)) < Len(Said(log)')
          /\ \A i \in 1..Len(Said(log)) : Said(log)'[i] = Said(log)[i]
          /\ \A i \in (Len(Said(log)) + 1)..Len(Said(log)') : Said(log)'[i][2] = "written"
          /\ Receipts!OneReceiptPerId(Said(log)')
          /\ Seals(anchors)' = Seals(anchors)
    BY DEF Receipts!Record, Said, Seals
  <2>. QED
    BY <1>3, <1>4, <1>5, <1>7, <2>1, <2>2, <2>3
<1>. QED
  BY <1>1, <1>2, <1>6, <1>7

\* An alteration, rehashed or not, changes what one receipt says.
LEMMA AlterAlters ==
  ASSUME TypeOK, NEW i \in 1..Len(log), EditRow(i) \/ Rehash(i)
  PROVE  Receipts!LedgerNext
<1>1. /\ log \in Logs /\ Len(log) \in Nat /\ anchors' = anchors
      /\ log' = [log EXCEPT ![i].body = "altered"] \/ log' = Rehashed(log, i)
  BY DEF TypeOK, Logs, EditRow, Rehash, anchorVars
<1>2. /\ Len(log') = Len(log)
      /\ \A j \in 1..Len(log) : /\ log'[j].id = log[j].id
                                /\ log'[j].body = IF j = i THEN "altered" ELSE log[j].body
  BY <1>1, AlterSays
<1>3. Said(log') = [Said(log) EXCEPT ![i] = <<Said(log)[i][1], "altered">>]
  BY <1>2 DEF Said
<1>4. Receipts!Alter(i)
  BY <1>1, <1>3 DEF Receipts!Alter, Said
<1>5. i \in 1..Len(Said(log))
  BY <1>1 DEF Said
<1>. QED
  BY <1>4, <1>5 DEF Receipts!LedgerNext, Said

\* An anchor seals a length the chain has reached.
LEMMA AnchorSeals ==
  ASSUME TypeOK, AlarmInv, NEW m \in Mergers, AppendAnchor(m)
  PROVE  Receipts!LedgerNext
<1>0. run[m].rows \in Nat
  BY DEF TypeOK, Runs
<1>. PICK n \in Nat : n = run[m].rows
  BY <1>0
<1>1. Len(log) \in Nat /\ Len(anchors) \in Nat /\ anchors \in Seq(Anchors)
  BY DEF TypeOK, Logs
<1>2. n <= Len(log)
  BY DEF AppendAnchor, AlarmInv, Witness
<1>3. PICK a : anchors' = Append(anchors, a) /\ a.rows = n /\ log' = log
  BY DEF AppendAnchor, chainVars
<1>4. /\ Len(anchors') = Len(anchors) + 1 /\ anchors'[Len(anchors) + 1] = a
      /\ \A k \in 1..Len(anchors) : anchors'[k] = anchors[k]
  BY <1>1, <1>3
<1>5. Len(Seals(anchors)) = Len(anchors)
  BY <1>1 DEF Seals
<1>6. Seals(anchors') = Append(Seals(anchors), n)
  BY <1>1, <1>3, <1>4, <1>5 DEF Seals
<1>7. Receipts!Seal(n)
  BY <1>3, <1>6 DEF Receipts!Seal, Said, Seals
<1>8. n \in 0..Len(Said(log))
  BY <1>1, <1>2 DEF Said
<1>9. \E k \in 0..Len(Said(log)) : Receipts!Seal(k)
  BY <1>7, <1>8
<1>. QED
  BY <1>9 DEF Receipts!LedgerNext, Said

\* Every interleaving of transactions, alterations, merges and crashes is one the
\* ledger allows: append-only but for alterations behind the program's back, one
\* transaction at a time, and sealed no further than it reaches (appendTxn,
\* appendSignedMergeAnchor).
THEOREM Implements == Spec => ImplementsLedger
<1>1. Init => ChainInv /\ AlarmInv /\ IdsInv /\ Receipts!LedgerInit
  BY ChainAssumption DEF Init, ChainInv, Linked, AlarmInv, Told, IdsInv, UniqueIds, Null, NoTx,
                         NoRun, Receipts!LedgerInit
<1>2. TypeOK /\ ChainInv /\ AlarmInv /\ IdsInv /\ [Next]_vars
      => [Receipts!LedgerNext]_(Receipts!ledgerVars)
  <2>. SUFFICES ASSUME TypeOK, ChainInv, AlarmInv, IdsInv, [Next]_vars
                PROVE  Receipts!LedgerNext \/ UNCHANGED (Receipts!ledgerVars)
    OBVIOUS
  <2>1. ASSUME NEW w \in Writers, Commit(w)
        PROVE  Receipts!LedgerNext \/ UNCHANGED (Receipts!ledgerVars)
    BY <2>1, CommitRecords DEF Receipts!LedgerNext
  <2>2. ASSUME NEW i \in 1..Len(log), EditRow(i) \/ Rehash(i)
        PROVE  Receipts!LedgerNext
    BY <2>2, AlterAlters
  <2>3. ASSUME NEW m \in Mergers, AppendAnchor(m)
        PROVE  Receipts!LedgerNext
    BY <2>3, AnchorSeals
  <2>4. ASSUME \/ AgeLock \/ UNCHANGED vars
               \/ \E m \in Mergers : \/ Start(m) \/ OpenLock(m) \/ StatLock(m) \/ StealLock(m)
                                     \/ ReadTail(m) \/ ReadChain(m) \/ ReadLink(m)
                                     \/ VerifyAnchors(m) \/ ReleaseLock(m) \/ Throw(m) \/ Crash(m)
               \/ \E w \in Writers : \/ BeginImmediate(w) \/ BeginDeferred(w) \/ Upgrade(w)
                                     \/ Rollback(w) \/ \E e \in Events : AppendEvent(w, e)
        PROVE  UNCHANGED (Receipts!ledgerVars)
    <3>1. log' = log /\ anchors' = anchors
      BY <2>4 DEF AgeLock, vars, chainVars, anchorVars, Start, OpenLock, StatLock, StealLock,
                  ReadTail, ReadChain, ReadLink, VerifyAnchors, ReleaseLock, Throw, Crash,
                  BeginImmediate, BeginDeferred, Upgrade, Rollback, AppendEvent
    <3>. QED
      BY <3>1 DEF Receipts!ledgerVars
  <2>. QED
    BY <2>1, <2>2, <2>3, <2>4 DEF Next
<1>. QED
  BY <1>1, <1>2, Typing, ChainInductive, AlarmInductive, IdsInductive, PTL
  DEF Spec, ImplementsLedger, Receipts!LedgerSpec

=============================================================================
