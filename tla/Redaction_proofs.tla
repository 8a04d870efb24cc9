-------------------------- MODULE Redaction_proofs --------------------------
(***************************************************************************)
(* Promotion and redaction for any number of candidates, texts, intakes    *)
(* and redactions: types and sensitivity constraints for any promoters and *)
(* operators; that a content is promoted once, for one promoter; what the  *)
(* receipts tell and what is gone, for one operator.                       *)
(***************************************************************************)
EXTENDS Redaction, SequenceTheorems, TLAPS

----------------------------------------------------------------------------
(* Types.                                                                  *)

LEMMA InitTypes == Init => TypeOK
  BY RedactionAssumption DEF Init, TypeOK, Memories

\* What intakes and checks write.
LEMMA CheckTypes ==
  ASSUME TypeOK,
         \/ \E c \in Candidates : Propose(c)
         \/ \E i \in Intakes, c \in Candidates : CheckText(i, c)
         \/ \E i \in Intakes : Insert(i)
         \/ \E p \in Promoters, c \in Candidates, text \in Texts : TakeUp(p, c, text)
         \/ \E p \in Promoters : Resolve(p)
         \/ \E p \in Promoters : CheckDuplicate(p)
         \/ \E p \in Promoters : CheckRedacted(p)
         \/ \E p \in Promoters : GiveUp(p)
  PROVE  TypeOK'
<1>. USE RedactionAssumption DEF TypeOK, trails
<1>1. CASE \E c \in Candidates : Propose(c)
  BY <1>1 DEF Propose
<1>2. CASE \E i \in Intakes, c \in Candidates : CheckText(i, c)
  BY <1>2 DEF CheckText
<1>3. CASE \E i \in Intakes : Insert(i)
  BY <1>3 DEF Insert
<1>4. CASE \E p \in Promoters, c \in Candidates, text \in Texts : TakeUp(p, c, text)
  BY <1>4 DEF TakeUp, Work
<1>5. CASE \E p \in Promoters : Resolve(p) \/ CheckDuplicate(p) \/ CheckRedacted(p)
  <2>1. PICK p \in Promoters : Resolve(p) \/ CheckDuplicate(p) \/ CheckRedacted(p)
    BY <1>5
  <2>2. promoter[p] \in Work
    BY <2>1 DEF Resolve, CheckDuplicate, CheckRedacted
  <2>3. /\ [promoter[p] EXCEPT !.bound = Bound(promoter[p].id)] \in Work
        /\ [promoter[p] EXCEPT !.at = "unique"] \in Work
        /\ [promoter[p] EXCEPT !.at = "cleared"] \in Work
    BY <2>2 DEF Work, Bound
  <2>4. promoter' \in [Promoters -> Work \cup {None}]
    BY <2>1, <2>3 DEF Resolve, CheckDuplicate, CheckRedacted
  <2>. QED
    BY <2>1, <2>4 DEF Resolve, CheckDuplicate, CheckRedacted
<1>6. CASE \E p \in Promoters : GiveUp(p)
  BY <1>6 DEF GiveUp
<1>. QED
  BY <1>1, <1>2, <1>3, <1>4, <1>5, <1>6

\* A promotion names a candidate and its text.
LEMMA PromoteTypes ==
  ASSUME TypeOK, NEW p \in Promoters, Promote(p)
  PROVE  /\ promoter[p] \in Work
         /\ <<promoter[p].id, promoter[p].text>> \in Memories
         /\ TypeOK'
<1>1. promoter[p] \in Work
  BY DEF TypeOK, Promote
<1>2. <<promoter[p].id, promoter[p].text>> \in Memories
  BY <1>1 DEF Work, Memories
<1>3. TypeOK'
  BY <1>1, <1>2 DEF TypeOK, Promote, Work, trails
<1>. QED
  BY <1>1, <1>2, <1>3

LEMMA SettleTypes ==
  ASSUME TypeOK, NEW c \in Candidates, NEW constrain \in BOOLEAN,
         NEW passes \in BOOLEAN, Settle(c, constrain, passes)
  PROVE  row[c] \in Texts /\ <<c, row[c]>> \in Memories /\ TypeOK'
<1>1. row[c] \in Texts
  BY DEF TypeOK, Settle
<1>2. <<c, row[c]>> \in Memories
  BY <1>1 DEF Memories
<1>3. floor' \in [Candidates -> Texts \cup {None}]
  BY <1>1 DEF TypeOK, Settle
<1>4. memory' \in [Memories -> Texts \cup {None}] /\ floored' \subseteq Memories
  BY <1>1, <1>2 DEF TypeOK, Settle
<1>5. TypeOK'
  BY <1>3, <1>4 DEF TypeOK, Settle, trails
<1>. QED
  BY <1>1, <1>2, <1>5

\* What an operator plans and writes.
LEMMA EditTypes ==
  ASSUME TypeOK,
         \/ \E o \in Operators, m \in Memories, new \in Texts : Plan(o, m, new)
         \/ \E o \in Operators : ListCopies(o)
         \/ \E o \in Operators : Withdraw(o)
  PROVE  TypeOK'
<1>. USE DEF TypeOK, trails
<1>1. CASE \E o \in Operators, m \in Memories, new \in Texts : Plan(o, m, new)
  BY <1>1 DEF Plan, Edit
<1>2. CASE \E o \in Operators : ListCopies(o)
  <2>1. PICK o \in Operators : ListCopies(o)
    BY <1>2
  <2>2. operator[o] \in Edit
    BY <2>1 DEF ListCopies
  <2>. DEFINE copies == {c \in Candidates :
                row[c] # None /\ (c = operator[o].id[1] \/ row[c] = operator[o].old)}
  <2>3. [operator[o] EXCEPT !.at = "listed", !.copies = copies] \in Edit
    BY <2>2 DEF Edit
  <2>4. operator' = [operator EXCEPT ![o] =
           [operator[o] EXCEPT !.at = "listed", !.copies = copies]]
    BY <2>1, <2>2 DEF ListCopies, Edit
  <2>. QED
    BY <2>1, <2>3, <2>4 DEF ListCopies
<1>3. CASE \E o \in Operators : Withdraw(o)
  BY <1>3 DEF Withdraw
<1>. QED
  BY <1>1, <1>2, <1>3

\* The memory an operator edits exists, and so do the rows it has listed.
Listed ==
  \A o \in Operators : operator[o] # None =>
    /\ memory[operator[o].id] # None
    /\ \A c \in operator[o].copies : row[c] # None
    /\ operator[o].at = "planned" => operator[o].copies = {}

LEMMA RedactTypes ==
  ASSUME TypeOK, Listed, NEW o \in Operators, Redact(o)
  PROVE  operator[o] \in Edit /\ TypeOK'
<1>1. operator[o] \in Edit
  BY DEF TypeOK, Redact
<1>2. memory' \in [Memories -> Texts \cup {None}]
  BY <1>1 DEF TypeOK, Redact, Edit
<1>3. memTrail' \in [Memories -> Seq(Receipt)]
  <2>1. /\ [old |-> operator[o].old, new |-> operator[o].new] \in Receipt
        /\ operator[o].id \in Memories
    BY <1>1 DEF Edit, Receipt
  <2>2. Append(memTrail[operator[o].id],
               [old |-> operator[o].old, new |-> operator[o].new]) \in Seq(Receipt)
    BY <2>1 DEF TypeOK
  <2>. QED
    BY <2>1, <2>2 DEF TypeOK, Redact
<1>4. row' \in [Candidates -> Texts \cup {None}]
  BY <1>1 DEF TypeOK, Redact, Edit
<1>5. rowTrail' \in [Candidates -> Seq(Receipt)]
  <2>1. ASSUME NEW c \in operator[o].copies
        PROVE  c \in Candidates /\ [old |-> row[c], new |-> operator[o].new] \in Receipt
    <3>1. c \in Candidates /\ row[c] # None
      BY <1>1, <2>1 DEF Listed, Edit, Redact
    <3>2. row[c] \in Texts /\ operator[o].new \in Texts
      BY <1>1, <3>1 DEF TypeOK, Edit
    <3>. QED
      BY <3>1, <3>2 DEF Receipt
  <2>. DEFINE After(c) ==
         IF c \in operator[o].copies
         THEN Append(rowTrail[c], [old |-> row[c], new |-> operator[o].new])
         ELSE rowTrail[c]
  <2>2. \A c \in Candidates : After(c) \in Seq(Receipt)
    <3>1. \A s \in Seq(Receipt), r \in Receipt : Append(s, r) \in Seq(Receipt)
      OBVIOUS
    <3>. QED
      BY <2>1, <3>1 DEF TypeOK
  <2>3. rowTrail' = [c \in Candidates |-> After(c)]
    BY DEF Redact
  <2>. HIDE DEF After
  <2>. QED
    BY <2>2, <2>3
<1>6. redactions' \in 0..MaxRedactions
  BY RedactionAssumption DEF TypeOK, Redact
<1>7. operator' \in [Operators -> Edit \cup {None}]
  BY DEF TypeOK, Redact
<1>. QED
  BY <1>1, <1>2, <1>3, <1>4, <1>5, <1>6, <1>7 DEF TypeOK, Redact

Types == TypeOK /\ Listed

\* A narrowing writes the memory row as it was read and nothing else.
LEMMA NarrowTypes ==
  ASSUME TypeOK, Listed, NEW o \in Operators, Narrow(o)
  PROVE  /\ operator[o] \in Edit /\ operator[o].id \in Memories /\ operator[o].old \in Texts
         /\ memory' = [memory EXCEPT ![operator[o].id] = operator[o].old]
         /\ operator' = [operator EXCEPT ![o] = None]
         /\ \A m \in Memories : memory'[m] # None <=> memory[m] # None
         /\ UNCHANGED <<row, floor, floored, rowTrail, memTrail, promoter, intake, redactions>>
         /\ TypeOK'
<1>1. operator[o] \in Edit /\ operator[o] # None
  BY DEF TypeOK, Narrow
<1>2. operator[o].id \in Memories /\ operator[o].old \in Texts
  BY <1>1 DEF Edit
<1>3. /\ memory' = [memory EXCEPT ![operator[o].id] = operator[o].old]
      /\ operator' = [operator EXCEPT ![o] = None]
      /\ UNCHANGED <<row, floor, floored, rowTrail, memTrail, promoter, intake, redactions>>
  BY DEF Narrow, trails
<1>4. \A m \in Memories : memory'[m] # None <=> memory[m] # None
  BY <1>1, <1>2, <1>3, RedactionAssumption DEF TypeOK, Listed
<1>. QED
  BY <1>1, <1>2, <1>3, <1>4 DEF TypeOK

LEMMA NextTypes == Types /\ [Next]_vars => Types'
<1>. SUFFICES ASSUME Types, [Next]_vars PROVE Types'
  OBVIOUS
<1>. USE DEF Types
<1>1. TypeOK'
  <2>1. CASE Next
    BY <2>1, CheckTypes, PromoteTypes, SettleTypes, EditTypes, RedactTypes, NarrowTypes
    DEF Next
  <2>2. CASE UNCHANGED vars
    BY <2>2 DEF TypeOK, vars, trails
  <2>. QED
    BY <2>1, <2>2
<1>2. /\ \A c \in Candidates : row[c] # None => row'[c] # None
      /\ \A m \in Memories : memory[m] # None => memory'[m] # None
  <2>1. CASE \E o \in Operators : Redact(o)
    <3>1. PICK o \in Operators : Redact(o)
      BY <2>1
    <3>2. operator[o].new \in Texts /\ operator[o].id \in Memories
      BY <3>1, RedactTypes DEF Edit
    <3>. QED
      BY <3>1, <3>2, RedactionAssumption DEF Redact, TypeOK
  <2>2. CASE \E c \in Candidates : Propose(c)
    BY <2>2 DEF Propose, TypeOK
  <2>3. CASE \E i \in Intakes : Insert(i)
    BY <2>3 DEF Insert, TypeOK
  <2>4. CASE \E p \in Promoters : Promote(p)
    <3>1. PICK p \in Promoters : Promote(p)
      BY <2>4
    <3>. QED
      BY <3>1, PromoteTypes DEF Promote, TypeOK
  <2>5. CASE \E c \in Candidates, constrain, passes \in BOOLEAN :
               Settle(c, constrain, passes)
    <3>1. PICK c \in Candidates, constrain \in BOOLEAN, passes \in BOOLEAN :
            Settle(c, constrain, passes)
      BY <2>5
    <3>2. row[c] \in Texts /\ <<c, row[c]>> \in Memories
      BY <3>1, SettleTypes
    <3>. QED
      BY <3>1, <3>2, RedactionAssumption DEF Settle, TypeOK
  <2>6. CASE \E o \in Operators : Narrow(o)
    BY <2>6, NarrowTypes
  <2>7. CASE UNCHANGED <<row, memory>>
    BY <2>7
  <2>. QED
    BY <2>1, <2>2, <2>3, <2>4, <2>5, <2>6, <2>7
    DEF Next, vars, CheckText, TakeUp, Resolve, CheckDuplicate, CheckRedacted,
        GiveUp, Plan, ListCopies, Withdraw
<1>3. Listed'
  <2>. SUFFICES ASSUME NEW o \in Operators, operator'[o] # None
                PROVE  /\ memory'[operator'[o].id] # None
                       /\ \A c \in operator'[o].copies : row'[c] # None
                       /\ operator'[o].at = "planned" => operator'[o].copies = {}
    BY DEF Listed
  <2>1. CASE \E q \in Operators, m \in Memories, new \in Texts : Plan(q, m, new)
    <3>1. PICK q \in Operators, m \in Memories, new \in Texts : Plan(q, m, new)
      BY <2>1
    <3>2. CASE o = q
      BY <3>1, <3>2 DEF Plan, TypeOK
    <3>3. CASE o # q
      <4>1. operator'[o] = operator[o] /\ row' = row /\ memory' = memory
        BY <3>1, <3>3 DEF Plan, TypeOK
      <4>. QED
        BY <4>1 DEF Listed
    <3>. QED
      BY <3>2, <3>3
  <2>2. CASE \E q \in Operators : ListCopies(q)
    <3>1. PICK q \in Operators : ListCopies(q)
      BY <2>2
    <3>2. CASE o = q
      <4>1. operator[o] \in Edit
        BY <3>1, <3>2 DEF ListCopies, TypeOK
      <4>2. /\ operator'[o].copies = {c \in Candidates :
                 row[c] # None /\ (c = operator[o].id[1] \/ row[c] = operator[o].old)}
            /\ operator'[o].at = "listed" /\ operator'[o].id = operator[o].id
        BY <3>1, <3>2, <4>1 DEF ListCopies, TypeOK, Edit
      <4>. QED
        BY <3>1, <3>2, <4>2 DEF ListCopies, Listed
    <3>3. CASE o # q
      <4>1. operator'[o] = operator[o] /\ row' = row /\ memory' = memory
        BY <3>1, <3>3 DEF ListCopies, TypeOK
      <4>. QED
        BY <4>1 DEF Listed
    <3>. QED
      BY <3>2, <3>3
  <2>3. CASE operator'[o] = operator[o]
    <3>1. /\ operator[o].id \in Memories /\ memory[operator[o].id] # None
          /\ \A c \in operator[o].copies : c \in Candidates /\ row[c] # None
      BY <2>3 DEF Listed, TypeOK, Edit
    <3>. QED
      BY <2>3, <3>1, <1>2 DEF Listed
  <2>4. operator' = operator \/ (\E q \in Operators : Redact(q) \/ Narrow(q) \/ Withdraw(q))
        \/ (\E q \in Operators : ListCopies(q))
        \/ (\E q \in Operators, m \in Memories, new \in Texts : Plan(q, m, new))
    BY DEF Next, vars, CheckText, TakeUp, Resolve, CheckDuplicate, CheckRedacted,
           Promote, GiveUp, Settle, Propose, Insert
  <2>5. CASE \E q \in Operators : Redact(q) \/ Narrow(q) \/ Withdraw(q)
    <3>1. PICK q \in Operators : Redact(q) \/ Narrow(q) \/ Withdraw(q)
      BY <2>5
    <3>2. o # q => operator'[o] = operator[o]
      BY <3>1 DEF Redact, Narrow, Withdraw, TypeOK
    <3>3. operator'[q] = None
      BY <3>1 DEF Redact, Narrow, Withdraw, TypeOK
    <3>. QED
      BY <3>2, <3>3, <2>3
  <2>. QED
    BY <2>1, <2>2, <2>3, <2>4, <2>5
<1>. QED
  BY <1>1, <1>3

\* Every variable keeps its type, whoever runs.
THEOREM Typing == Spec => []TypeOK
<1>1. Init => Types
  BY InitTypes DEF Types, Listed, Init
<1>2. Types => TypeOK
  BY DEF Types
<1>. QED
  BY <1>1, <1>2, NextTypes, PTL DEF Spec

----------------------------------------------------------------------------
(* Sensitivity constraints.                                                *)

Constraint ==
  /\ Types
  /\ ConstraintKept
  /\ \A m \in floored : memory[m] # None

LEMMA NextConstraint == Constraint /\ [Next]_vars => Constraint'
<1>. SUFFICES ASSUME Constraint, [Next]_vars PROVE Constraint'
  OBVIOUS
<1>. USE DEF Constraint, Types
<1>0. Types'
  BY NextTypes
<1>1. ASSUME NEW p \in Promoters, Promote(p)
      PROVE  ConstraintKept' /\ \A m \in floored' : memory'[m] # None
  <2>. DEFINE m == <<promoter[p].id, promoter[p].text>>
  <2>1. m \in Memories /\ promoter[p].text \in Texts /\ m[1] = promoter[p].id
    BY <1>1, PromoteTypes DEF Work
  <2>2. /\ memory' = [memory EXCEPT ![m] = promoter[p].text]
        /\ floored' = IF promoter[p].bound THEN floored \cup {m} ELSE floored
        /\ Bound(m[1]) = promoter[p].bound
        /\ memory[m] = None /\ floor' = floor
    BY <1>1, <2>1 DEF Promote
  <2>3. Bound(m[1]) \in BOOLEAN /\ m \notin floored
    BY <2>2 DEF Bound
  <2>. HIDE DEF m
  <2>. QED
    BY <2>1, <2>2, <2>3, RedactionAssumption DEF ConstraintKept, TypeOK, Bound
<1>2. ASSUME NEW c \in Candidates, NEW constrain \in BOOLEAN,
             NEW passes \in BOOLEAN, Settle(c, constrain, passes)
      PROVE  ConstraintKept' /\ \A m \in floored' : memory'[m] # None
  <2>. DEFINE m == <<c, row[c]>>
  <2>1. m \in Memories /\ row[c] \in Texts /\ m[1] = c
    BY <1>2, SettleTypes
  <2>2. \A n \in Memories : n[1] = c => memory[n] = None
    BY <1>2 DEF Settle, Admitted, Memories
  <2>3. \A n \in Memories : n[1] # c => floor'[n[1]] = floor[n[1]]
    BY <1>2 DEF Settle, TypeOK, Memories
  <2>4. \/ memory' = memory /\ floored' = floored
        \/ /\ memory' = [memory EXCEPT ![m] = row[c]]
           /\ floored' = IF floor'[c] # None THEN floored \cup {m} ELSE floored
    BY <1>2 DEF Settle
  <2>5. m \notin floored /\ row[c] # None
    BY <2>1, <2>2, RedactionAssumption
  <2>. HIDE DEF m
  <2>6. ASSUME NEW n \in Memories
        PROVE  /\ memory'[n] # None => (n \in floored' <=> Bound(n[1])')
               /\ n \in floored' => memory'[n] # None
    <3>1. CASE n = m /\ memory' # memory
      BY <2>1, <2>4, <2>5, <3>1 DEF Bound, TypeOK
    <3>2. CASE n # m \/ memory' = memory
      <4>1. memory'[n] = memory[n] /\ (n \in floored' <=> n \in floored)
        BY <2>1, <2>2, <2>4, <2>5, <3>2 DEF TypeOK
      <4>. QED
        BY <2>2, <2>3, <4>1 DEF ConstraintKept, Bound
    <3>. QED
      BY <3>1, <3>2
  <2>7. floored' \subseteq Memories
    BY <2>1, <2>4 DEF TypeOK
  <2>. QED
    BY <2>6, <2>7 DEF ConstraintKept
<1>3. ASSUME NEW o \in Operators, Redact(o)
      PROVE  ConstraintKept' /\ \A m \in floored' : memory'[m] # None
  <2>1. operator[o].id \in Memories /\ operator[o].new \in Texts
    BY <1>3, RedactTypes DEF Edit
  <2>2. memory[operator[o].id] # None
    BY <1>3 DEF Listed, Redact
  <2>3. \A m \in Memories : memory'[m] # None <=> memory[m] # None
    BY <1>3, <2>1, <2>2, RedactionAssumption DEF TypeOK, Redact
  <2>4. floor' = floor /\ floored' = floored /\ floored \subseteq Memories
    BY <1>3 DEF Redact, TypeOK
  <2>. QED
    BY <2>3, <2>4 DEF ConstraintKept, Bound
<1>4. ASSUME UNCHANGED <<memory, floor, floored>>
      PROVE  ConstraintKept' /\ \A m \in floored' : memory'[m] # None
  BY <1>4 DEF ConstraintKept, Bound
<1>5. ASSUME \/ \E c \in Candidates : Propose(c)
             \/ \E i \in Intakes, c \in Candidates : CheckText(i, c)
             \/ \E i \in Intakes : Insert(i)
             \/ \E p \in Promoters, c \in Candidates, text \in Texts : TakeUp(p, c, text)
             \/ \E p \in Promoters : Resolve(p) \/ CheckDuplicate(p)
                                      \/ CheckRedacted(p) \/ GiveUp(p)
             \/ \E o \in Operators, m \in Memories, new \in Texts : Plan(o, m, new)
             \/ \E o \in Operators : ListCopies(o) \/ Withdraw(o)
             \/ UNCHANGED vars
      PROVE  UNCHANGED <<memory, floor, floored>>
  BY <1>5 DEF vars, Propose, CheckText, Insert, TakeUp, Resolve, CheckDuplicate,
              CheckRedacted, GiveUp, Plan, ListCopies, Withdraw
<1>6. ASSUME NEW o \in Operators, Narrow(o)
      PROVE  ConstraintKept' /\ \A m \in floored' : memory'[m] # None
  <2>1. /\ \A m \in Memories : memory'[m] # None <=> memory[m] # None
        /\ floor' = floor /\ floored' = floored /\ floored \subseteq Memories
    BY <1>6, NarrowTypes DEF TypeOK
  <2>. QED
    BY <2>1 DEF ConstraintKept, Bound
<1>7. ConstraintKept' /\ \A m \in floored' : memory'[m] # None
  BY <1>1, <1>2, <1>3, <1>4, <1>5, <1>6 DEF Next
<1>. QED
  BY <1>0, <1>7

\* A memory is stored under the constraint its candidate has, whoever
\* promotes and whenever the constraint is recorded.
THEOREM Constrained == Spec => []ConstraintKept
<1>1. Init => Constraint
  BY InitTypes DEF Init, Constraint, Types, Listed, ConstraintKept
<1>2. Constraint => ConstraintKept
  BY DEF Constraint
<1>. QED
  BY <1>1, <1>2, NextConstraint, PTL DEF Spec

----------------------------------------------------------------------------
(* The receipts, and a content promoted once.                              *)

\* Of the trails only Redact makes one longer, by one receipt.
LEMMA TrailsGrow ==
  ASSUME Types, [Next]_vars
  PROVE  /\ \A m \in Memories : \A i \in DOMAIN memTrail[m] :
              i \in DOMAIN memTrail'[m] /\ memTrail'[m][i] = memTrail[m][i]
         /\ \A c \in Candidates : \A i \in DOMAIN rowTrail[c] :
              i \in DOMAIN rowTrail'[c] /\ rowTrail'[c][i] = rowTrail[c][i]
<1>0. ASSUME NEW s \in Seq(Receipt), NEW r, NEW i \in DOMAIN s
      PROVE  i \in DOMAIN Append(s, r) /\ Append(s, r)[i] = s[i]
  OBVIOUS
<1>1. ASSUME NEW o \in Operators, Redact(o)
      PROVE  /\ \A m \in Memories : \A i \in DOMAIN memTrail[m] :
                  i \in DOMAIN memTrail'[m] /\ memTrail'[m][i] = memTrail[m][i]
             /\ \A c \in Candidates : \A i \in DOMAIN rowTrail[c] :
                  i \in DOMAIN rowTrail'[c] /\ rowTrail'[c][i] = rowTrail[c][i]
  <2>1. \A m \in Memories : \/ memTrail'[m] = memTrail[m]
                            \/ \E r : memTrail'[m] = Append(memTrail[m], r)
    BY <1>1 DEF Redact, TypeOK, Types
  <2>2. \A c \in Candidates : \/ rowTrail'[c] = rowTrail[c]
                              \/ \E r : rowTrail'[c] = Append(rowTrail[c], r)
    BY <1>1 DEF Redact
  <2>3. /\ \A m \in Memories : memTrail[m] \in Seq(Receipt)
        /\ \A c \in Candidates : rowTrail[c] \in Seq(Receipt)
    BY DEF Types, TypeOK
  <2>4. ASSUME NEW m \in Memories, NEW i \in DOMAIN memTrail[m]
        PROVE  i \in DOMAIN memTrail'[m] /\ memTrail'[m][i] = memTrail[m][i]
    <3>1. CASE memTrail'[m] = memTrail[m]
      BY <3>1
    <3>2. CASE \E r : memTrail'[m] = Append(memTrail[m], r)
      <4>1. PICK r : memTrail'[m] = Append(memTrail[m], r)
        BY <3>2
      <4>2. memTrail[m] \in Seq(Receipt)
        BY <2>3
      <4>3. /\ i \in DOMAIN Append(memTrail[m], r)
            /\ Append(memTrail[m], r)[i] = memTrail[m][i]
        BY <1>0, <4>2
      <4>. QED
        BY <4>1, <4>3
    <3>. QED
      BY <2>1, <3>1, <3>2
  <2>5. ASSUME NEW c \in Candidates, NEW i \in DOMAIN rowTrail[c]
        PROVE  i \in DOMAIN rowTrail'[c] /\ rowTrail'[c][i] = rowTrail[c][i]
    <3>1. CASE rowTrail'[c] = rowTrail[c]
      BY <3>1
    <3>2. CASE \E r : rowTrail'[c] = Append(rowTrail[c], r)
      <4>1. PICK r : rowTrail'[c] = Append(rowTrail[c], r)
        BY <3>2
      <4>2. rowTrail[c] \in Seq(Receipt)
        BY <2>3
      <4>3. /\ i \in DOMAIN Append(rowTrail[c], r)
            /\ Append(rowTrail[c], r)[i] = rowTrail[c][i]
        BY <1>0, <4>2
      <4>. QED
        BY <4>1, <4>3
    <3>. QED
      BY <2>2, <3>1, <3>2
  <2>. QED
    BY <2>4, <2>5
<1>2. (\E o \in Operators : Redact(o)) \/ UNCHANGED trails
  BY DEF Next, vars, trails, Propose, CheckText, Insert, TakeUp, Resolve,
         CheckDuplicate, CheckRedacted, Promote, GiveUp, Settle, Plan,
         ListCopies, Narrow, Withdraw
<1>. QED
  BY <1>1, <1>2 DEF trails

LEMMA RemovedGrows ==
  ASSUME Types, [Next]_vars PROVE Removed \subseteq Removed'
<1>. SUFFICES ASSUME NEW t \in Removed PROVE t \in Removed'
  OBVIOUS
<1>1. t \in Texts
  BY DEF Removed
<1>2. CASE \E m \in Memories : \E i \in DOMAIN memTrail[m] : memTrail[m][i].old = t
  BY <1>1, <1>2, TrailsGrow DEF Removed
<1>3. CASE \E c \in Candidates : \E i \in DOMAIN rowTrail[c] : rowTrail[c][i].old = t
  BY <1>1, <1>3, TrailsGrow DEF Removed
<1>. QED
  BY <1>2, <1>3 DEF Removed

\* The first receipt of a memory names the content its id was derived from,
\* and so will the one of an operator that has read it before the first.
Past ==
  /\ \A m \in Memories :
       /\ memory[m] = None => memTrail[m] = <<>>
       /\ memory[m] # None /\ memTrail[m] = <<>> => memory[m] = m[2]
       /\ memTrail[m] # <<>> => memTrail[m][1].old = m[2]
  /\ \A o \in Operators :
       operator[o] # None /\ memTrail[operator[o].id] = <<>> =>
         operator[o].old = operator[o].id[2]

Told == Types /\ Past

\* A redaction adds its receipt to the memory it edits.
LEMMA RedactPast ==
  ASSUME Told, NEW o \in Operators, Redact(o)
  PROVE  Past'
<1>. USE DEF Told, Types
<1>. DEFINE e == operator[o]
<1>1. e \in Edit /\ e # None /\ memory[e.id] # None /\ e.id \in Memories
  BY RedactTypes DEF Listed, Redact, Edit
<1>2. /\ memory' = [memory EXCEPT ![e.id] = e.new]
      /\ memTrail' = [memTrail EXCEPT ![e.id] =
                        Append(@, [old |-> e.old, new |-> e.new])]
      /\ operator' = [operator EXCEPT ![o] = None]
  BY DEF Redact
<1>3. memTrail[e.id] \in Seq(Receipt)
  BY <1>1 DEF TypeOK
<1>4. memTrail'[e.id] = Append(memTrail[e.id], [old |-> e.old, new |-> e.new])
  BY <1>1, <1>2 DEF TypeOK
<1>5. memTrail'[e.id] # <<>> /\ memTrail'[e.id][1].old = e.id[2]
  <2>1. CASE memTrail[e.id] = <<>>
    BY <1>1, <1>4, <2>1 DEF Past
  <2>2. CASE memTrail[e.id] # <<>>
    BY <1>1, <1>3, <1>4, <2>2 DEF Past
  <2>. QED
    BY <2>1, <2>2
<1>6. memory'[e.id] # None
  BY <1>1, <1>2, RedactionAssumption DEF TypeOK, Edit
<1>7. \A m \in Memories : m # e.id => memory'[m] = memory[m] /\ memTrail'[m] = memTrail[m]
  BY <1>2 DEF TypeOK
<1>8. \A q \in Operators : operator'[q] # None => operator'[q] = operator[q]
  BY <1>2 DEF TypeOK
<1>9. \A q \in Operators : operator[q] # None => operator[q].id \in Memories
  BY DEF TypeOK, Edit
<1>. HIDE DEF e
<1>. QED
  BY <1>1, <1>5, <1>6, <1>7, <1>8, <1>9 DEF Past

\* A narrowing that goes back to a text read before the first receipt goes back to
\* the one the id was derived from.
LEMMA NarrowPast ==
  ASSUME Told, NEW o \in Operators, Narrow(o)
  PROVE  Past'
<1>. USE DEF Told, Types
<1>. DEFINE e == operator[o]
<1>1. /\ e \in Edit /\ e # None /\ memory[e.id] # None /\ e.id \in Memories
      /\ e.old \in Texts
  BY NarrowTypes DEF Listed, Narrow
<1>2. /\ memory' = [memory EXCEPT ![e.id] = e.old] /\ memTrail' = memTrail
      /\ operator' = [operator EXCEPT ![o] = None]
      /\ \A m \in Memories : memory'[m] # None <=> memory[m] # None
  BY NarrowTypes
<1>3. memTrail[e.id] = <<>> => memory'[e.id] = e.id[2]
  BY <1>1, <1>2 DEF Past, TypeOK
<1>4. \A m \in Memories : m # e.id => memory'[m] = memory[m]
  BY <1>2 DEF TypeOK
<1>5. \A q \in Operators : operator'[q] # None => operator'[q] = operator[q]
  BY <1>2 DEF TypeOK
<1>. HIDE DEF e
<1>. QED
  BY <1>1, <1>2, <1>3, <1>4, <1>5 DEF Past

LEMMA NextTold == Told /\ [Next]_vars => Told'
<1>. SUFFICES ASSUME Told, [Next]_vars PROVE Told'
  OBVIOUS
<1>. USE DEF Told, Types
<1>0. Types'
  BY NextTypes
<1>1. ASSUME NEW p \in Promoters, Promote(p) PROVE Past'
  <2>. DEFINE m == <<promoter[p].id, promoter[p].text>>
  <2>1. m \in Memories /\ m[2] = promoter[p].text /\ promoter[p].text \in Texts
    BY <1>1, PromoteTypes DEF Work
  <2>2. /\ memory' = [memory EXCEPT ![m] = m[2]]
        /\ memory[m] = None /\ memTrail' = memTrail /\ operator' = operator
    BY <1>1, <2>1 DEF Promote, trails
  <2>. HIDE DEF m
  <2>. QED
    BY <2>1, <2>2, RedactionAssumption DEF Past, TypeOK
<1>2. ASSUME NEW c \in Candidates, NEW constrain \in BOOLEAN,
             NEW passes \in BOOLEAN, Settle(c, constrain, passes)
      PROVE  Past'
  <2>. DEFINE m == <<c, row[c]>>
  <2>1. m \in Memories /\ m[2] = row[c] /\ row[c] \in Texts /\ memory[m] = None
    BY <1>2, SettleTypes DEF Settle, Admitted
  <2>2. /\ memory' = memory \/ memory' = [memory EXCEPT ![m] = m[2]]
        /\ memTrail' = memTrail /\ operator' = operator
    BY <1>2, <2>1 DEF Settle, trails
  <2>. HIDE DEF m
  <2>. QED
    BY <2>1, <2>2, RedactionAssumption DEF Past, TypeOK
<1>3. ASSUME NEW o \in Operators, NEW m \in Memories, NEW new \in Texts,
             Plan(o, m, new)
      PROVE  Past'
  <2>1. /\ UNCHANGED <<memory, memTrail>>
        /\ \A q \in Operators : q # o => operator'[q] = operator[q]
        /\ operator'[o].id = m /\ operator'[o].old = memory[m] /\ memory[m] # None
    BY <1>3 DEF Plan, TypeOK, trails
  <2>. QED
    BY <2>1 DEF Past
<1>4. ASSUME NEW o \in Operators, ListCopies(o) \/ Withdraw(o)
      PROVE  Past'
  <2>1. UNCHANGED <<memory, memTrail>>
    BY <1>4 DEF ListCopies, Withdraw, trails
  <2>2. ASSUME NEW q \in Operators, operator'[q] # None
        PROVE  /\ operator[q] # None /\ operator'[q].id = operator[q].id
               /\ operator'[q].old = operator[q].old
    <3>1. CASE q # o
      BY <1>4, <2>2, <3>1 DEF ListCopies, Withdraw, TypeOK
    <3>2. CASE q = o /\ Withdraw(o)
      BY <2>2, <3>2 DEF Withdraw, TypeOK
    <3>3. CASE q = o /\ ListCopies(o)
      <4>1. operator[o] \in Edit
        BY <3>3 DEF ListCopies, TypeOK
      <4>. QED
        BY <3>3, <4>1 DEF ListCopies, TypeOK, Edit
    <3>. QED
      BY <1>4, <3>1, <3>2, <3>3
  <2>. QED
    BY <2>1, <2>2 DEF Past
<1>5. ASSUME UNCHANGED <<memory, memTrail, operator>> PROVE Past'
  BY <1>5 DEF Past
<1>6. ASSUME \/ \E c \in Candidates : Propose(c)
             \/ \E i \in Intakes, c \in Candidates : CheckText(i, c)
             \/ \E i \in Intakes : Insert(i)
             \/ \E p \in Promoters, c \in Candidates, text \in Texts : TakeUp(p, c, text)
             \/ \E p \in Promoters : Resolve(p) \/ CheckDuplicate(p)
                                      \/ CheckRedacted(p) \/ GiveUp(p)
             \/ UNCHANGED vars
      PROVE  UNCHANGED <<memory, memTrail, operator>>
  BY <1>6 DEF vars, trails, Propose, CheckText, Insert, TakeUp, Resolve,
              CheckDuplicate, CheckRedacted, GiveUp
<1>7. Past'
  BY <1>1, <1>2, <1>3, <1>4, <1>5, <1>6, RedactPast, NarrowPast DEF Next
<1>. QED
  BY <1>0, <1>7

LEMMA InitTold == Init => Told
  BY InitTypes DEF Init, Told, Types, Listed, Past, Memories

\* What one promoter knows of the text in its hands: after the first check no
\* memory was promoted with it unless a receipt names it, after the second
\* none was.
Ahead ==
  \A p \in Promoters : promoter[p] # None =>
    /\ promoter[p].at \in {"unique", "cleared"} =>
         \A m \in Memories : memory[m] # None /\ m[2] = promoter[p].text =>
           m[2] \in Removed
    /\ promoter[p].at = "cleared" =>
         \A m \in Memories : memory[m] # None => m[2] # promoter[p].text

OnePromoter == ~Recovering /\ \A p, q \in Promoters : p = q

Once == Told /\ Ahead /\ OneMemory

\* A step that promotes nothing leaves the promoted contents as they are.
LEMMA SamePromoted ==
  ASSUME Types, [Next]_vars, ~Recovering,
         ~(\E p \in Promoters : Promote(p)), NEW m \in Memories
  PROVE  memory'[m] # None <=> memory[m] # None
<1>1. ASSUME NEW o \in Operators, Redact(o)
      PROVE  memory'[m] # None <=> memory[m] # None
  <2>1. /\ memory' = [memory EXCEPT ![operator[o].id] = operator[o].new]
        /\ operator[o].new \in Texts /\ memory[operator[o].id] # None
    BY <1>1, RedactTypes DEF Redact, Edit, Types, Listed
  <2>. QED
    BY <2>1, RedactionAssumption DEF Types, TypeOK
<1>2. (\E o \in Operators : Redact(o) \/ Narrow(o)) \/ UNCHANGED memory
  BY DEF Next, vars, Propose, CheckText, Insert, TakeUp, Resolve,
         CheckDuplicate, CheckRedacted, GiveUp, Settle, Plan, ListCopies, Withdraw
<1>. QED
  BY <1>1, <1>2, NarrowTypes DEF Types

\* A promoter that stays at its place keeps what it knows.
LEMMA KeepsAhead ==
  ASSUME Once, [Next]_vars, ~Recovering, ~(\E p \in Promoters : Promote(p)),
         \A p \in Promoters : promoter'[p] # None =>
           \/ promoter'[p].at = "read"
           \/ /\ promoter[p] # None /\ promoter'[p].at = promoter[p].at
              /\ promoter'[p].text = promoter[p].text
  PROVE  Once'
<1>1. Told'
  BY NextTold DEF Once
<1>2. \A m \in Memories : memory'[m] # None <=> memory[m] # None
  BY SamePromoted DEF Once, Told
<1>3. OneMemory'
  BY <1>2 DEF OneMemory, Once
<1>4. Removed \subseteq Removed'
  BY RemovedGrows DEF Once, Told
<1>5. Ahead'
  BY <1>2, <1>4 DEF Once, Ahead
<1>. QED
  BY <1>1, <1>3, <1>5 DEF Once

LEMMA NextOnce ==
  ASSUME OnePromoter, Once, [Next]_vars PROVE Once'
<1>. USE DEF Once, Told, Types
<1>0. Told' /\ Removed \subseteq Removed'
  BY NextTold, RemovedGrows
<1>1. ASSUME NEW p \in Promoters, Promote(p) PROVE Once'
  <2>. DEFINE m == <<promoter[p].id, promoter[p].text>>
  <2>1. m \in Memories /\ m[2] = promoter[p].text /\ promoter[p].text \in Texts
    BY <1>1, PromoteTypes DEF Work
  <2>2. memory' = [memory EXCEPT ![m] = m[2]]
    BY <1>1, <2>1 DEF Promote
  <2>3. \A n \in Memories : memory[n] # None => n[2] # m[2]
    BY <1>1, <2>1 DEF Ahead, Promote
  <2>4. \A q \in Promoters : promoter'[q] = None
    BY <1>1 DEF Promote, TypeOK, OnePromoter
  <2>. HIDE DEF m
  <2>5. OneMemory'
    BY <2>1, <2>2, <2>3 DEF OneMemory, TypeOK
  <2>. QED
    BY <1>0, <2>4, <2>5 DEF Ahead
<1>2. ASSUME NEW p \in Promoters, CheckDuplicate(p) PROVE Once'
  <2>1. /\ promoter[p] \in Work /\ UNCHANGED <<memory, memTrail, rowTrail>>
        /\ promoter'[p].at = "unique" /\ promoter'[p].text = promoter[p].text
    BY <1>2 DEF CheckDuplicate, TypeOK, trails, Work
  <2>2. \A q \in Promoters : q = p
    BY DEF OnePromoter
  <2>3. ASSUME NEW m \in Memories, memory[m] # None, m[2] = promoter[p].text
        PROVE  m[2] \in Removed
    <3>1. memory[m] # m[2] /\ m[2] \in Texts
      BY <1>2, <2>3 DEF CheckDuplicate, Held, Memories
    <3>2. memTrail[m] # <<>> /\ memTrail[m][1].old = m[2] /\ memTrail[m] \in Seq(Receipt)
      BY <2>3, <3>1 DEF Past, TypeOK
    <3>3. 1 \in DOMAIN memTrail[m]
      BY <3>2
    <3>. QED
      BY <3>1, <3>2, <3>3 DEF Removed
  <2>4. Ahead'
    BY <1>0, <2>1, <2>2, <2>3 DEF Ahead
  <2>. QED
    BY <1>0, <2>1, <2>4 DEF OneMemory
<1>3. ASSUME NEW p \in Promoters, CheckRedacted(p) PROVE Once'
  <2>1. /\ promoter[p] \in Work /\ promoter[p].at = "unique"
        /\ promoter[p].text \notin Removed
        /\ promoter'[p].at = "cleared" /\ promoter'[p].text = promoter[p].text
        /\ UNCHANGED memory
    BY <1>3 DEF CheckRedacted, TypeOK, Work
  <2>2. \A q \in Promoters : q = p
    BY DEF OnePromoter
  <2>3. \A m \in Memories : memory[m] # None => m[2] # promoter[p].text
    BY <1>3, <2>1 DEF Ahead, CheckRedacted
  <2>4. Ahead'
    BY <2>1, <2>2, <2>3 DEF Ahead
  <2>. QED
    BY <1>0, <2>1, <2>4 DEF OneMemory
<1>4. ASSUME NEW p \in Promoters, NEW c \in Candidates, NEW text \in Texts,
             TakeUp(p, c, text)
      PROVE  \A q \in Promoters : promoter'[q] # None =>
               \/ promoter'[q].at = "read"
               \/ /\ promoter[q] # None /\ promoter'[q].at = promoter[q].at
                  /\ promoter'[q].text = promoter[q].text
  BY <1>4 DEF TakeUp, TypeOK
<1>5. ASSUME NEW p \in Promoters, Resolve(p)
      PROVE  \A q \in Promoters : promoter'[q] # None =>
               /\ promoter[q] # None /\ promoter'[q].at = promoter[q].at
               /\ promoter'[q].text = promoter[q].text
  <2>1. promoter[p] \in Work
    BY <1>5 DEF Resolve, TypeOK
  <2>. QED
    BY <1>5, <2>1 DEF Resolve, TypeOK, Work
<1>6. ASSUME NEW p \in Promoters, GiveUp(p)
      PROVE  \A q \in Promoters : promoter'[q] # None => promoter'[q] = promoter[q]
  BY <1>6 DEF GiveUp, TypeOK
<1>7. \/ \E p \in Promoters : \/ Promote(p) \/ CheckDuplicate(p) \/ CheckRedacted(p)
                              \/ Resolve(p) \/ GiveUp(p)
      \/ \E p \in Promoters, c \in Candidates, text \in Texts : TakeUp(p, c, text)
      \/ UNCHANGED promoter
  BY DEF OnePromoter, Next, vars, Propose, CheckText, Insert, Settle, Plan,
         ListCopies, Redact, Narrow, Withdraw
<1>8. CASE \E p \in Promoters : Promote(p) \/ CheckDuplicate(p) \/ CheckRedacted(p)
  BY <1>1, <1>2, <1>3, <1>8
<1>9. CASE ~(\E p \in Promoters : Promote(p) \/ CheckDuplicate(p) \/ CheckRedacted(p))
  <2>1. \A q \in Promoters : promoter'[q] # None =>
          \/ promoter'[q].at = "read"
          \/ /\ promoter[q] # None /\ promoter'[q].at = promoter[q].at
             /\ promoter'[q].text = promoter[q].text
    BY <1>4, <1>5, <1>6, <1>7, <1>9
  <2>. QED
    BY <1>9, <2>1, KeepsAhead DEF OnePromoter
<1>. QED
  BY <1>8, <1>9

\* With one promoter a content is promoted once, whatever operators do
\* between its checks.
THEOREM PromotedOnce == OnePromoter /\ Spec => []OneMemory
<1>1. Init => Once
  BY InitTold DEF Init, Once, Ahead, OneMemory
<1>2. Once => OneMemory
  BY DEF Once
<1>3. OnePromoter /\ Once /\ [Next]_vars => Once'
  BY NextOnce
<1>4. OnePromoter => OnePromoter'
  BY DEF OnePromoter
<1>. QED
  BY <1>1, <1>2, <1>3, <1>4, PTL DEF Spec

----------------------------------------------------------------------------
(* What one operator does.                                                 *)

OneOperator == \A o, q \in Operators : o = q

\* What an operator has read of its memory is what the memory holds.
Fresh ==
  \A o \in Operators : operator[o] # None =>
    /\ operator[o].old = memory[operator[o].id]
    /\ operator[o].new \in Replacements \cup {operator[o].old}

\* A narrowing of what the memory still holds changes no text.
LEMMA NarrowKeeps ==
  ASSUME Types, Fresh, NEW o \in Operators, Narrow(o)
  PROVE  memory' = memory
<1>1. /\ operator[o].id \in Memories
      /\ memory' = [memory EXCEPT ![operator[o].id] = operator[o].old]
  BY NarrowTypes DEF Types
<1>2. operator[o].old = memory[operator[o].id]
  BY DEF Narrow, Fresh
<1>. QED
  BY <1>1, <1>2 DEF Types, TypeOK

\* Every other step leaves what is stored and adds at most a row or a memory, as
\* long as a narrowing has read the memory as it is.
LEMMA OnlyAdds ==
  ASSUME Types, [Next]_vars, ~(\E o \in Operators : Redact(o))
  PROVE  /\ rowTrail' = rowTrail /\ memTrail' = memTrail
         /\ Fresh => \A m \in Memories : \/ memory'[m] = memory[m]
                                         \/ memory[m] = None /\ memory'[m] = m[2]
         /\ \A c \in Candidates : \/ row'[c] = row[c]
                                  \/ row[c] = None /\ row'[c] = TextOf[c]
<1>. USE DEF Types
<1>1. CASE \E p \in Promoters : Promote(p)
  <2>1. PICK p \in Promoters : Promote(p)
    BY <1>1
  <2>. DEFINE m == <<promoter[p].id, promoter[p].text>>
  <2>2. m \in Memories /\ m[2] = promoter[p].text
    BY <2>1, PromoteTypes
  <2>3. /\ memory' = [memory EXCEPT ![m] = m[2]] /\ memory[m] = None
        /\ UNCHANGED <<row, trails>>
    BY <2>1, <2>2 DEF Promote
  <2>. HIDE DEF m
  <2>. QED
    BY <2>2, <2>3 DEF TypeOK, trails
<1>2. CASE \E c \in Candidates, constrain, passes \in BOOLEAN :
             Settle(c, constrain, passes)
  <2>1. PICK c \in Candidates, constrain \in BOOLEAN, passes \in BOOLEAN :
          Settle(c, constrain, passes)
    BY <1>2
  <2>. DEFINE m == <<c, row[c]>>
  <2>2. m \in Memories /\ m[2] = row[c] /\ memory[m] = None
    BY <2>1, SettleTypes DEF Settle, Admitted
  <2>3. /\ memory' = memory \/ memory' = [memory EXCEPT ![m] = m[2]]
        /\ UNCHANGED <<row, trails>>
    BY <2>1, <2>2 DEF Settle
  <2>. HIDE DEF m
  <2>. QED
    BY <2>2, <2>3 DEF TypeOK, trails
<1>3. CASE \E c \in Candidates : Propose(c)
  BY <1>3 DEF Propose, TypeOK, trails
<1>4. CASE \E i \in Intakes : Insert(i)
  BY <1>4 DEF Insert, TypeOK, trails
<1>5. CASE UNCHANGED <<row, memory, trails>>
  BY <1>5 DEF trails
<1>6. CASE \E o \in Operators : Narrow(o)
  BY <1>6, NarrowTypes, NarrowKeeps
<1>. QED
  BY <1>1, <1>2, <1>3, <1>4, <1>5, <1>6
  DEF Next, vars, trails, CheckText, TakeUp, Resolve, CheckDuplicate,
      CheckRedacted, GiveUp, Plan, ListCopies, Withdraw

LEMMA NextFresh ==
  ASSUME OneOperator, Types, Fresh, [Next]_vars PROVE Fresh'
<1>. SUFFICES ASSUME NEW o \in Operators, operator'[o] # None
              PROVE  /\ operator'[o].old = memory'[operator'[o].id]
                     /\ operator'[o].new \in Replacements \cup {operator'[o].old}
  BY DEF Fresh
<1>. USE DEF Types
<1>1. \A q \in Operators : q = o
  BY DEF OneOperator
<1>2. ~(\E q \in Operators : Redact(q))
  BY <1>1 DEF Redact, TypeOK
<1>3. CASE \E m \in Memories, new \in Texts : Plan(o, m, new)
  <2>1. PICK m \in Memories, new \in Texts : Plan(o, m, new)
    BY <1>3
  <2>2. /\ operator'[o] = [at |-> "planned", id |-> m, old |-> memory[m],
                           new |-> new, copies |-> {}]
        /\ memory' = memory /\ new \in Replacements \cup {memory[m]}
    BY <2>1 DEF Plan, TypeOK
  <2>. QED
    BY <2>2
<1>4. CASE ~(\E m \in Memories, new \in Texts : Plan(o, m, new))
  <2>1. /\ operator[o] # None /\ operator'[o].id = operator[o].id
        /\ operator'[o].old = operator[o].old /\ operator'[o].new = operator[o].new
    <3>1. CASE ListCopies(o)
      <4>1. operator[o] \in Edit
        BY <3>1 DEF ListCopies, TypeOK
      <4>. QED
        BY <3>1, <4>1 DEF ListCopies, TypeOK, Edit
    <3>2. CASE UNCHANGED operator
      BY <3>2
    <3>3. ListCopies(o) \/ UNCHANGED operator
      <4>1. ~Withdraw(o) /\ ~Narrow(o)
        BY DEF Withdraw, Narrow, TypeOK
      <4>. QED
        BY <1>1, <1>2, <1>4, <4>1 DEF Next, vars, Propose, CheckText, Insert, TakeUp,
           Resolve, CheckDuplicate, CheckRedacted, Promote, GiveUp, Settle
    <3>. QED
      BY <3>1, <3>2, <3>3
  <2>2. operator[o].id \in Memories /\ memory[operator[o].id] # None
    BY <2>1 DEF Listed, TypeOK, Edit
  <2>3. memory'[operator[o].id] = memory[operator[o].id]
    BY <1>2, <2>2, OnlyAdds
  <2>. QED
    BY <2>1, <2>3 DEF Fresh
<1>. QED
  BY <1>3, <1>4

\* What a redaction does to the memory, the rows and their receipts.
LEMMA RedactSteps ==
  ASSUME Types, NEW o \in Operators, Redact(o)
  PROVE  /\ operator[o] \in Edit
         /\ memory'[operator[o].id] = operator[o].new
         /\ memTrail'[operator[o].id] =
              Append(memTrail[operator[o].id],
                     [old |-> operator[o].old, new |-> operator[o].new])
         /\ \A m \in Memories : m # operator[o].id =>
              memory'[m] = memory[m] /\ memTrail'[m] = memTrail[m]
         /\ \A c \in Candidates :
              IF c \in operator[o].copies
              THEN /\ row'[c] = operator[o].new
                   /\ rowTrail'[c] = Append(rowTrail[c],
                                       [old |-> row[c], new |-> operator[o].new])
              ELSE row'[c] = row[c] /\ rowTrail'[c] = rowTrail[c]
<1>1. operator[o] \in Edit /\ operator[o].id \in Memories
  BY RedactTypes DEF Types, Edit
<1>. QED
  BY <1>1 DEF Redact, Types, TypeOK

----------------------------------------------------------------------------
(* Receipts.                                                               *)

\* A receipt that begins where a trail ends makes it one longer.
LEMMA LeadsOn ==
  ASSUME NEW trail \in Seq(Receipt), NEW from, NEW r \in Receipt,
         Leads(trail, from, r.old)
  PROVE  Leads(Append(trail, r), from, r.new)
<1>1. CASE trail = <<>>
  BY <1>1 DEF Leads
<1>2. CASE trail # <<>>
  <2>. DEFINE n == Len(trail)  longer == Append(trail, r)
  <2>1. n \in Nat \ {0} /\ Len(longer) = n + 1 /\ longer # <<>>
    BY <1>2
  <2>2. \A i \in 1..n : longer[i] = trail[i]
    OBVIOUS
  <2>3. longer[n + 1] = r
    OBVIOUS
  <2>4. longer[1].old = from
    BY <1>2, <2>1, <2>2 DEF Leads
  <2>5. ASSUME NEW i \in 2..(n + 1) PROVE longer[i].old = longer[i - 1].new
    <3>1. CASE i = n + 1
      <4>1. longer[i] = r /\ longer[i - 1] = trail[n]
        BY <2>1, <2>2, <2>3, <3>1
      <4>2. trail[n].new = r.old
        BY <1>2 DEF Leads
      <4>. QED
        BY <4>1, <4>2
    <3>2. CASE i # n + 1
      <4>1. i \in 2..n /\ i - 1 \in 1..n /\ i \in 1..n
        BY <2>1, <3>2
      <4>2. trail[i].old = trail[i - 1].new
        BY <1>2, <4>1 DEF Leads
      <4>. QED
        BY <2>2, <4>1, <4>2
    <3>. QED
      BY <3>1, <3>2
  <2>. HIDE DEF n, longer
  <2>6. Leads(longer, from, r.new)
    BY <2>1, <2>3, <2>4, <2>5 DEF Leads
  <2>. QED
    BY <2>6 DEF longer
<1>. QED
  BY <1>1, <1>2

Account ==
  /\ Told
  /\ Fresh
  /\ TrailTrue
  /\ \A c \in Candidates : row[c] = None => rowTrail[c] = <<>>

LEMMA NextAccount ==
  ASSUME OneOperator, Account, [Next]_vars PROVE Account'
<1>. USE DEF Account, Told, Types
<1>0. Told' /\ Fresh'
  BY NextTold, NextFresh
<1>1. CASE \E o \in Operators : Redact(o)
  <2>1. PICK o \in Operators : Redact(o)
    BY <1>1
  <2>. DEFINE e == operator[o]
  <2>2. e \in Edit /\ e # None /\ memory[e.id] # None /\ e.old = memory[e.id]
    BY <2>1, RedactSteps DEF Redact, Listed, Fresh
  <2>3. /\ e.id \in Memories /\ e.new \in Texts /\ e.old \in Texts
        /\ e.copies \subseteq Candidates
    BY <2>2 DEF Edit
  <2>4. ASSUME NEW m \in Memories, memory'[m] # None
        PROVE  Leads(memTrail'[m], m[2], memory'[m])
    <3>1. CASE m = e.id
      <4>. DEFINE r == [old |-> e.old, new |-> e.new]
      <4>1. /\ memTrail'[m] = Append(memTrail[m], r) /\ memory'[m] = r.new
            /\ r \in Receipt /\ memTrail[m] \in Seq(Receipt)
        BY <2>1, <2>3, <3>1, RedactSteps DEF TypeOK, Receipt
      <4>2. Leads(memTrail[m], m[2], r.old)
        BY <2>2, <3>1 DEF TrailTrue
      <4>. HIDE DEF r
      <4>. QED
        BY <4>1, <4>2, LeadsOn
    <3>2. CASE m # e.id
      BY <2>1, <2>4, <3>2, RedactSteps DEF TrailTrue
    <3>. QED
      BY <3>1, <3>2
  <2>5. ASSUME NEW c \in Candidates
        PROVE  /\ row'[c] # None => Leads(rowTrail'[c], TextOf[c], row'[c])
               /\ row'[c] = None => rowTrail'[c] = <<>>
    <3>1. CASE c \in e.copies
      <4>. DEFINE r == [old |-> row[c], new |-> e.new]
      <4>1. row[c] # None /\ row[c] \in Texts
        BY <2>2, <3>1 DEF Listed, TypeOK
      <4>2. /\ rowTrail'[c] = Append(rowTrail[c], r) /\ row'[c] = r.new
            /\ r \in Receipt /\ rowTrail[c] \in Seq(Receipt)
        BY <2>1, <2>3, <3>1, <4>1, RedactSteps DEF TypeOK, Receipt
      <4>3. Leads(rowTrail[c], TextOf[c], r.old)
        BY <4>1 DEF TrailTrue
      <4>4. r.new # None
        BY <2>3, RedactionAssumption
      <4>. HIDE DEF r
      <4>. QED
        BY <4>2, <4>3, <4>4, LeadsOn
    <3>2. CASE c \notin e.copies
      BY <2>1, <3>2, RedactSteps DEF TrailTrue
    <3>. QED
      BY <3>1, <3>2
  <2>. QED
    BY <1>0, <2>4, <2>5 DEF TrailTrue
<1>2. CASE ~(\E o \in Operators : Redact(o))
  <2>1. ASSUME NEW m \in Memories, memory'[m] # None
        PROVE  Leads(memTrail'[m], m[2], memory'[m])
    <3>1. CASE memory'[m] = memory[m]
      BY <1>2, <2>1, <3>1, OnlyAdds DEF TrailTrue
    <3>2. CASE memory[m] = None /\ memory'[m] = m[2]
      <4>1. memTrail'[m] = <<>>
        BY <1>2, <3>2, OnlyAdds DEF Past
      <4>. QED
        BY <3>2, <4>1 DEF Leads
    <3>. QED
      BY <1>2, <3>1, <3>2, OnlyAdds
  <2>2. ASSUME NEW c \in Candidates
        PROVE  /\ row'[c] # None => Leads(rowTrail'[c], TextOf[c], row'[c])
               /\ row'[c] = None => rowTrail'[c] = <<>>
    <3>1. CASE row'[c] = row[c]
      BY <1>2, <3>1, OnlyAdds DEF TrailTrue
    <3>2. CASE row[c] = None /\ row'[c] = TextOf[c]
      <4>1. rowTrail'[c] = <<>> /\ TextOf[c] # None
        BY <1>2, <3>2, OnlyAdds, RedactionAssumption
      <4>. QED
        BY <3>2, <4>1 DEF Leads
    <3>. QED
      BY <1>2, <3>1, <3>2, OnlyAdds
  <2>. QED
    BY <1>0, <2>1, <2>2 DEF TrailTrue
<1>. QED
  BY <1>1, <1>2

\* With one operator the receipts account for every memory and every row,
\* however many promoters and intakes there are.
THEOREM Accounted == OneOperator /\ Spec => []TrailTrue
<1>1. Init => Account
  BY InitTold DEF Init, Account, Fresh, TrailTrue, Leads
<1>2. Account => TrailTrue
  BY DEF Account
<1>3. OneOperator /\ Account /\ [Next]_vars => Account'
  BY NextAccount
<1>4. OneOperator => OneOperator'
  BY DEF OneOperator
<1>. QED
  BY <1>1, <1>2, <1>3, <1>4, PTL DEF Spec

----------------------------------------------------------------------------
(* What is gone.                                                           *)

\* A text no operator writes is in the memory that was promoted with it, or in
\* none: no receipt brought it in, and while it is there none took it out.
Origin ==
  \A m \in Memories :
    /\ memory[m] \in Captured =>
         /\ memory[m] = m[2]
         /\ \A i \in DOMAIN memTrail[m] : memTrail[m][i].new = m[2]
    /\ \A i \in DOMAIN memTrail[m] :
         memTrail[m][i].old \in Captured => memTrail[m][i].old = m[2]

Traced == Told /\ Fresh /\ Origin

LEMMA NextTraced ==
  ASSUME OneOperator, Traced, [Next]_vars PROVE Traced'
<1>. USE DEF Traced, Told, Types
<1>0. Told' /\ Fresh'
  BY NextTold, NextFresh
<1>1. CASE \E o \in Operators : Redact(o)
  <2>1. PICK o \in Operators : Redact(o)
    BY <1>1
  <2>. DEFINE e == operator[o]
              r == [old |-> e.old, new |-> e.new]
              trail == memTrail[e.id]
  <2>2. e \in Edit /\ e # None /\ memory[e.id] # None /\ e.old = memory[e.id]
    BY <2>1, RedactSteps DEF Redact, Listed, Fresh
  <2>3. e.id \in Memories /\ trail \in Seq(Receipt) /\ e.new \in Replacements \cup {e.old}
    BY <2>2 DEF Edit, TypeOK, Fresh
  <2>4. memory'[e.id] = e.new /\ memTrail'[e.id] = Append(trail, r)
    BY <2>1, RedactSteps
  <2>5. \A i \in DOMAIN Append(trail, r) :
          \/ Append(trail, r)[i] = r
          \/ i \in DOMAIN trail /\ Append(trail, r)[i] = trail[i]
    BY <2>3
  <2>6. e.new \in Captured => e.new = e.old
    BY <2>3 DEF Captured
  <2>7. e.old \in Captured => e.old = e.id[2] /\ \A i \in DOMAIN trail : trail[i].new = e.old
    BY <2>2, <2>3 DEF Origin
  <2>8. /\ memory'[e.id] \in Captured =>
             /\ memory'[e.id] = e.id[2]
             /\ \A i \in DOMAIN memTrail'[e.id] : memTrail'[e.id][i].new = e.id[2]
        /\ \A i \in DOMAIN memTrail'[e.id] :
             memTrail'[e.id][i].old \in Captured => memTrail'[e.id][i].old = e.id[2]
    <3>1. \A i \in DOMAIN trail : trail[i].old \in Captured => trail[i].old = e.id[2]
      BY <2>3 DEF Origin
    <3>2. r.old = e.old /\ r.new = e.new
      OBVIOUS
    <3>. HIDE DEF r, trail, e
    <3>. QED
      BY <2>4, <2>5, <2>6, <2>7, <3>1, <3>2
  <2>9. Origin'
    <3>1. \A m \in Memories : m # e.id => memory'[m] = memory[m] /\ memTrail'[m] = memTrail[m]
      BY <2>1, RedactSteps
    <3>. HIDE DEF e
    <3>. QED
      BY <2>8, <3>1 DEF Origin, Captured
  <2>. QED
    BY <1>0, <2>9
<1>2. CASE ~(\E o \in Operators : Redact(o))
  <2>1. \A m \in Memories : \/ memory'[m] = memory[m] /\ memTrail'[m] = memTrail[m]
                            \/ memory'[m] = m[2] /\ memTrail'[m] = <<>>
    BY <1>2, OnlyAdds DEF Past
  <2>2. Origin'
    BY <2>1 DEF Origin, Captured
  <2>. QED
    BY <1>0, <2>2
<1>. QED
  BY <1>1, <1>2

LEMMA TracedGone == Traced /\ OneMemory => StaysGone
<1>. SUFFICES ASSUME Traced, OneMemory, NEW text \in Captured, TakenOut(text),
                     NEW n \in Memories, memory[n] = text
              PROVE  FALSE
  BY DEF StaysGone, Held
<1>1. PICK m \in Memories : \E i \in DOMAIN memTrail[m] :
        memTrail[m][i].old = text /\ memTrail[m][i].new # text
  BY DEF TakenOut
<1>2. PICK i \in DOMAIN memTrail[m] :
        memTrail[m][i].old = text /\ memTrail[m][i].new # text
  BY <1>1
<1>3. m[2] = text /\ n[2] = text
  BY <1>2 DEF Traced, Origin
<1>4. memory[m] # None
  <2>1. memTrail[m] # <<>>
    BY <1>2
  <2>. QED
    BY <2>1 DEF Traced, Told, Past
<1>5. memory[n] # None
  BY RedactionAssumption DEF Captured
<1>6. m = n
  BY <1>3, <1>4, <1>5 DEF OneMemory
<1>. QED
  BY <1>2, <1>3, <1>6 DEF Traced, Origin

\* At the beginning nothing was promoted or taken out.
LEMMA OnceTraced == Init => Once /\ Traced
<1>. SUFFICES ASSUME Init PROVE Once /\ Traced
  OBVIOUS
<1>1. Told
  BY InitTold
<1>2. Ahead /\ OneMemory
  BY DEF Init, Ahead, OneMemory
<1>3. Fresh
  BY DEF Init, Fresh
<1>4. Origin
  <2>1. \A m \in Memories : memory[m] = None /\ memTrail[m] = <<>>
    BY DEF Init
  <2>2. None \notin Captured
    BY RedactionAssumption DEF Captured
  <2>. QED
    BY <2>1, <2>2 DEF Origin
<1>. QED
  BY <1>1, <1>2, <1>3, <1>4 DEF Once, Traced

\* With one promoter and one operator, what a redaction took out of a memory
\* is in no memory any more.
THEOREM Gone == OnePromoter /\ OneOperator /\ Spec => []StaysGone
<1>1. Init => Once /\ Traced
  BY OnceTraced
<1>2. Once /\ Traced => StaysGone
  BY TracedGone DEF Once
<1>3. OnePromoter /\ OneOperator /\ Once /\ Traced /\ [Next]_vars => (Once /\ Traced)'
  BY NextOnce, NextTraced
<1>4. OnePromoter /\ OneOperator => OnePromoter' /\ OneOperator'
  BY DEF OnePromoter, OneOperator
<1>. QED
  BY <1>1, <1>2, <1>3, <1>4, PTL DEF Spec

----------------------------------------------------------------------------
(* As good as single moments.                                              *)

\* A row stays, and what it says and has said is remembered.
LEMMA RowsStay ==
  ASSUME Types, [Next]_vars, NEW c \in Candidates, row[c] # None
  PROVE  row'[c] # None /\ ReadAs(c) \subseteq ReadAs(c)'
<1>1. CASE \E o \in Operators : Redact(o) /\ c \in operator[o].copies
  <2>1. PICK o \in Operators : Redact(o) /\ c \in operator[o].copies
    BY <1>1
  <2>. DEFINE r == [old |-> row[c], new |-> operator[o].new]
  <2>2. row'[c] = operator[o].new /\ rowTrail'[c] = Append(rowTrail[c], r)
    BY <2>1, RedactSteps
  <2>3. operator[o].new \in Texts
    BY <2>1, RedactSteps DEF Edit
  <2>4. rowTrail[c] \in Seq(Receipt)
    BY DEF Types, TypeOK
  <2>. DEFINE n == Len(rowTrail[c]) + 1
  <2>5. n \in DOMAIN rowTrail'[c] /\ rowTrail'[c][n] = r
    BY <2>2, <2>4
  <2>6. row[c] \in ReadAs(c)'
    BY <2>5 DEF ReadAs
  <2>7. ASSUME NEW i \in DOMAIN rowTrail[c] PROVE rowTrail[c][i].old \in ReadAs(c)'
    BY TrailsGrow DEF ReadAs
  <2>. QED
    BY <2>2, <2>3, <2>6, <2>7, RedactionAssumption DEF ReadAs
<1>2. CASE ~(\E o \in Operators : Redact(o) /\ c \in operator[o].copies)
  <2>1. row'[c] = row[c] /\ rowTrail'[c] = rowTrail[c]
    BY <1>2, OnlyAdds, RedactSteps
  <2>. QED
    BY <2>1 DEF ReadAs
<1>. QED
  BY <1>1, <1>2

\* A memory's candidate has a row; the text in a promoter's hands is one that the
\* row says or said; and an operator's list has the row its memory came from.
Sourced ==
  /\ \A m \in Memories : memory[m] # None => row[m[1]] # None
  /\ \A p \in Promoters, c \in Candidates :
       promoter[p] # None /\ promoter[p].id = c =>
         row[c] # None /\ promoter[p].text \in ReadAs(c)
  /\ \A o \in Operators : operator[o] # None /\ operator[o].at = "listed" =>
       operator[o].id[1] \in operator[o].copies

\* A promoter has just taken its candidate up or keeps what it has.
LEMMA PromoterSteps ==
  ASSUME Types, [Next]_vars, NEW p \in Promoters, promoter'[p] # None
  PROVE  \/ \E c \in Candidates, text \in Texts : TakeUp(p, c, text)
         \/ /\ promoter[p] # None
            /\ promoter'[p].id = promoter[p].id /\ promoter'[p].text = promoter[p].text
<1>. USE DEF Types, TypeOK
<1>w. \A q \in Promoters : promoter[q] # None => promoter[q] \in Work
  OBVIOUS
<1>1. CASE \E q \in Promoters, c \in Candidates, text \in Texts : TakeUp(q, c, text)
  BY <1>1 DEF TakeUp
<1>2. CASE \E q \in Promoters : Resolve(q) \/ CheckDuplicate(q) \/ CheckRedacted(q)
  <2>1. PICK q \in Promoters : Resolve(q) \/ CheckDuplicate(q) \/ CheckRedacted(q)
    BY <1>2
  <2>2. promoter[q] # None /\ promoter[q] \in Work
    BY <2>1, <1>w DEF Resolve, CheckDuplicate, CheckRedacted
  <2>3. promoter'[q].id = promoter[q].id /\ promoter'[q].text = promoter[q].text
    <3>1. CASE Resolve(q)
      BY <2>2, <3>1 DEF Resolve, Work
    <3>2. CASE CheckDuplicate(q)
      BY <2>2, <3>2 DEF CheckDuplicate, Work
    <3>3. CASE CheckRedacted(q)
      BY <2>2, <3>3 DEF CheckRedacted, Work
    <3>. QED
      BY <2>1, <3>1, <3>2, <3>3
  <2>4. \A r \in Promoters : r # q => promoter'[r] = promoter[r]
    BY <2>1 DEF Resolve, CheckDuplicate, CheckRedacted
  <2>. QED
    BY <2>2, <2>3, <2>4
<1>3. CASE \E q \in Promoters : Promote(q) \/ GiveUp(q)
  BY <1>3 DEF Promote, GiveUp
<1>4. CASE UNCHANGED promoter
  BY <1>4
<1>. QED
  BY <1>1, <1>2, <1>3, <1>4
  DEF Next, vars, Propose, CheckText, Insert, Settle, Plan, ListCopies, Redact, Narrow,
      Withdraw

LEMMA NextSourced ==
  ASSUME Types, ~Recovering, Sourced, [Next]_vars PROVE Sourced'
<1>1. ASSUME NEW m \in Memories, memory'[m] # None PROVE row'[m[1]] # None
  <2>1. m[1] \in Candidates
    BY DEF Memories
  <2>2. row[m[1]] # None
    <3>1. CASE memory[m] # None
      BY <3>1 DEF Sourced
    <3>2. CASE memory[m] = None
      <4>1. PICK p \in Promoters : Promote(p)
        BY <1>1, <3>2, SamePromoted
      <4>2. m = <<promoter[p].id, promoter[p].text>>
        BY <1>1, <3>2, <4>1 DEF Promote, Types, TypeOK
      <4>3. promoter[p].id \in Candidates
        BY <4>1, PromoteTypes DEF Types, Work
      <4>. QED
        BY <4>1, <4>2, <4>3 DEF Promote, Sourced
    <3>. QED
      BY <3>1, <3>2
  <2>. QED
    BY <2>1, <2>2, RowsStay
<1>2. ASSUME NEW p \in Promoters, NEW c \in Candidates,
             promoter'[p] # None, promoter'[p].id = c
      PROVE  row'[c] # None /\ promoter'[p].text \in ReadAs(c)'
  <2>1. row[c] # None /\ promoter'[p].text \in ReadAs(c)
    <3>1. CASE \E d \in Candidates, text \in Texts : TakeUp(p, d, text)
      <4>1. PICK d \in Candidates, text \in Texts : TakeUp(p, d, text)
        BY <3>1
      <4>2. promoter'[p].id = d /\ promoter'[p].text = text
        BY <4>1 DEF TakeUp, Types, TypeOK
      <4>. QED
        BY <1>2, <4>1, <4>2 DEF TakeUp, ReadAs
    <3>2. CASE /\ promoter[p] # None
               /\ promoter'[p].id = promoter[p].id /\ promoter'[p].text = promoter[p].text
      BY <1>2, <3>2 DEF Sourced
    <3>. QED
      BY <1>2, <3>1, <3>2, PromoterSteps
  <2>. QED
    BY <2>1, RowsStay
<1>3. ASSUME NEW o \in Operators, operator'[o] # None, operator'[o].at = "listed"
      PROVE  operator'[o].id[1] \in operator'[o].copies
  <2>. USE DEF Types, TypeOK
  <2>1. CASE ListCopies(o)
    <3>1. operator[o] \in Edit /\ operator[o].id \in Memories
      BY <2>1 DEF ListCopies, Edit
    <3>2. row[operator[o].id[1]] # None /\ operator[o].id[1] \in Candidates
      BY <2>1, <3>1 DEF ListCopies, Listed, Sourced, Memories
    <3>3. /\ operator'[o].id = operator[o].id
          /\ operator'[o].copies = {c \in Candidates :
               row[c] # None /\ (c = operator[o].id[1] \/ row[c] = operator[o].old)}
      BY <2>1, <3>1 DEF ListCopies, Edit
    <3>. QED
      BY <3>2, <3>3
  <2>2. CASE operator'[o] = operator[o]
    BY <1>3, <2>2 DEF Sourced
  <2>3. CASE \E m \in Memories, new \in Texts : Plan(o, m, new)
    BY <1>3, <2>3 DEF Plan
  <2>4. \/ ListCopies(o) \/ operator'[o] = operator[o]
        \/ \E m \in Memories, new \in Texts : Plan(o, m, new)
    <3>1. CASE \E q \in Operators, m \in Memories, new \in Texts : Plan(q, m, new)
      <4>1. PICK q \in Operators, m \in Memories, new \in Texts : Plan(q, m, new)
        BY <3>1
      <4>2. q # o => operator'[o] = operator[o]
        BY <4>1 DEF Plan
      <4>. QED
        BY <4>1, <4>2
    <3>2. CASE \E q \in Operators : ListCopies(q)
      <4>1. PICK q \in Operators : ListCopies(q)
        BY <3>2
      <4>2. q # o => operator'[o] = operator[o]
        BY <4>1 DEF ListCopies
      <4>. QED
        BY <4>1, <4>2
    <3>3. CASE \E q \in Operators : Redact(q) \/ Narrow(q) \/ Withdraw(q)
      BY <1>3, <3>3 DEF Redact, Narrow, Withdraw
    <3>4. CASE UNCHANGED operator
      BY <3>4
    <3>. QED
      BY <3>1, <3>2, <3>3, <3>4
      DEF Next, vars, Propose, CheckText, Insert, TakeUp, Resolve, CheckDuplicate,
          CheckRedacted, Promote, GiveUp, Settle
  <2>. QED
    BY <2>1, <2>2, <2>3, <2>4
<1>. QED
  BY <1>1, <1>2, <1>3 DEF Sourced

\* A text that is promoted has been promoted by nobody, and if no operator writes
\* it, it is and was nowhere.
LEMMA PromotesUnused ==
  ASSUME Once, Traced, NEW p \in Promoters, Promote(p)
  PROVE  Words!Unused(promoter[p].text)
<1>. DEFINE t == promoter[p].text
<1>1. \A n \in Memories : memory[n] # None => n[2] # t
  BY DEF Once, Ahead, Promote
<1>2. ASSUME NEW n \in Memories, t \in Captured PROVE memory[n] # t
  <2>. SUFFICES ASSUME memory[n] = t PROVE FALSE
    OBVIOUS
  <2>1. memory[n] # None
    BY <1>2, RedactionAssumption DEF Captured
  <2>2. n[2] = t
    BY <1>2 DEF Traced, Origin
  <2>. QED
    BY <1>1, <2>1, <2>2
<1>3. ASSUME NEW n \in Memories, t \in Captured, NEW i \in DOMAIN memTrail[n]
      PROVE  memTrail[n][i].old # t
  <2>. SUFFICES ASSUME memTrail[n][i].old = t PROVE FALSE
    OBVIOUS
  <2>1. memory[n] # None
    <3>1. memTrail[n] # <<>>
      OBVIOUS
    <3>. QED
      BY <3>1 DEF Traced, Told, Past
  <2>2. n[2] = t
    BY <1>3 DEF Traced, Origin
  <2>. QED
    BY <1>1, <2>1, <2>2
<1>. QED
  BY <1>1, <1>2, <1>3 DEF Words!Unused

\* Every step, however long ago its checks and lists were made, is one of the
\* moments or changes no text.
LEMMA WordStep ==
  ASSUME ~Recovering, Once, Traced, Sourced, [Next]_vars
  PROVE  [Words!WordNext]_(Words!wordVars)
<1>. USE DEF Once, Traced, Told, Types
<1>1. ASSUME NEW c \in Candidates, Propose(c) PROVE Words!WordNext
  BY <1>1 DEF Propose, trails, Words!Capture, Words!WordNext
<1>2. ASSUME NEW i \in Intakes, Insert(i) PROVE [Words!WordNext]_(Words!wordVars)
  <2>1. intake[i] \in Candidates
    BY <1>2 DEF Insert, TypeOK
  <2>. SUFFICES ASSUME NEW c \in Candidates, c = intake[i]
                PROVE  [Words!WordNext]_(Words!wordVars)
    BY <2>1
  <2>2. CASE row[c] = None
    BY <1>2, <2>2 DEF Insert, trails, Words!Capture, Words!WordNext
  <2>3. CASE row[c] # None
    BY <1>2, <2>3 DEF Insert, trails, Words!wordVars
  <2>. QED
    BY <2>2, <2>3
<1>3. ASSUME NEW p \in Promoters, Promote(p) PROVE Words!WordNext
  <2>1. /\ <<promoter[p].id, promoter[p].text>> \in Memories
        /\ promoter[p].id \in Candidates
    BY <1>3, PromoteTypes DEF Work
  <2>. SUFFICES ASSUME NEW m \in Memories, m = <<promoter[p].id, promoter[p].text>>
                PROVE  Words!WordNext
    BY <2>1
  <2>2. m[1] = promoter[p].id /\ m[2] = promoter[p].text
    OBVIOUS
  <2>3. row[m[1]] # None /\ m[2] \in ReadAs(m[1])
    BY <1>3, <2>1, <2>2 DEF Promote, Sourced
  <2>4. Words!SaidBy(m[1], m[2])
    BY <2>3 DEF ReadAs, Words!SaidBy
  <2>5. Words!Unused(m[2])
    BY <1>3, <2>2, PromotesUnused DEF Words!Unused
  <2>6. memory' = [memory EXCEPT ![m] = m[2]] /\ UNCHANGED <<row, rowTrail, memTrail>>
    BY <1>3, <2>2 DEF Promote, trails
  <2>. QED
    BY <2>3, <2>4, <2>5, <2>6 DEF Words!Admit, Words!WordNext
<1>4. ASSUME NEW o \in Operators, Redact(o) PROVE Words!WordNext
  <2>1. operator[o] \in Edit
    BY <1>4, RedactSteps
  <2>. SUFFICES ASSUME NEW m \in Memories, m = operator[o].id,
                       NEW new \in Texts, new = operator[o].new,
                       NEW copies \in SUBSET Candidates, copies = operator[o].copies
                PROVE  Words!WordNext
    BY <2>1 DEF Edit
  <2>2. /\ operator[o] # None /\ operator[o].at = "listed"
        /\ operator[o].old = memory[m] /\ new \in Replacements \cup {memory[m]}
    BY <1>4 DEF Redact, Fresh
  <2>3. memory[m] # None /\ \A c \in copies : row[c] # None
    BY <2>2 DEF Listed
  <2>4. m[1] \in copies
    BY <2>2 DEF Sourced
  <2>5. new \in Captured => new = memory[m]
    BY <2>2 DEF Captured
  <2>6. Words!Reword(m, new, copies)
    BY <1>4, <2>2, <2>3, <2>4, <2>5 DEF Redact, Words!Reword
  <2>. QED
    BY <2>6 DEF Words!WordNext
<1>5. CASE UNCHANGED <<row, memory, rowTrail, memTrail>>
  BY <1>5 DEF Words!wordVars
<1>6. CASE \E o \in Operators : Narrow(o)
  BY <1>6, NarrowTypes, NarrowKeeps DEF Words!wordVars
<1>. QED
  BY <1>1, <1>2, <1>3, <1>4, <1>5, <1>6
  DEF Next, vars, trails, CheckText, TakeUp, Resolve, CheckDuplicate, CheckRedacted,
      GiveUp, Settle, Plan, ListCopies, Withdraw

\* With one promoter and one operator, the checks of a promotion (checkDuplicate,
\* findRedactionByOldContentHash, the row it read) and the list of a redaction
\* (candidateCopies) are as good as made in the transaction that relies on them:
\* the store goes through captures, first promotions and rewordings, each in one
\* moment, and nothing else.
THEOREM ImplementsWords ==
  ASSUME OnePromoter, OneOperator
  PROVE  Spec => ImplementsWording
<1>1. Init => Once /\ Traced /\ Sourced /\ Words!WordInit
  <2>1. Init => Once /\ Traced
    BY OnceTraced
  <2>2. Init => Sourced
    BY DEF Init, Sourced
  <2>3. Init => Words!WordInit
    BY DEF Init, Words!WordInit
  <2>. QED
    BY <2>1, <2>2, <2>3
<1>2. Once /\ Traced /\ Sourced /\ [Next]_vars => (Once /\ Traced /\ Sourced)'
  BY NextOnce, NextTraced, NextSourced DEF OnePromoter, Once, Told
<1>3. Once /\ Traced /\ Sourced /\ [Next]_vars => [Words!WordNext]_(Words!wordVars)
  BY WordStep DEF OnePromoter
<1>. QED
  BY <1>1, <1>2, <1>3, PTL DEF Spec, ImplementsWording, Words!WordSpec

----------------------------------------------------------------------------
(* What is in no row either.                                               *)

\* On a quiet store an operator has it to itself; what it listed is all there
\* is; and what an intake is about to store was taken out by nobody.
Alone ==
  /\ Busy => Silent
  /\ \A o \in Operators : operator[o] # None /\ operator[o].at = "listed" =>
       \A c \in Candidates : row[c] = operator[o].old => c \in operator[o].copies
  /\ \A i \in Intakes : intake[i] # None => TextOf[intake[i]] \notin Removed

Cleared == Types /\ Fresh /\ Alone /\ CopiesGone

LEMMA NextAlone ==
  ASSUME Quiet, OneOperator, Types, Fresh, Alone, [Next]_vars PROVE Alone'
<1>. USE DEF Types
<1>1. CASE Busy
  <2>1. PICK o \in Operators : operator[o] # None
    BY <1>1 DEF Busy
  <2>2. \A q \in Operators : q = o
    BY DEF OneOperator
  <2>3. Silent
    BY <1>1 DEF Alone
  <2>4. CASE ListCopies(o)
    <3>1. operator[o] \in Edit
      BY <2>1 DEF TypeOK
    <3>2. /\ operator'[o].copies = {c \in Candidates :
               row[c] # None /\ (c = operator[o].id[1] \/ row[c] = operator[o].old)}
          /\ operator'[o].old = operator[o].old /\ operator[o].old \in Texts
          /\ UNCHANGED <<row, promoter, intake>>
      BY <2>4, <3>1 DEF ListCopies, TypeOK, Edit
    <3>3. \A c \in Candidates : row[c] = operator[o].old => row[c] # None
      BY <3>2, RedactionAssumption
    <3>. QED
      BY <2>2, <2>3, <3>2, <3>3 DEF Alone, Silent
  <2>5. CASE Redact(o) \/ Narrow(o) \/ Withdraw(o)
    <3>1. ~Busy' /\ UNCHANGED intake
      BY <2>2, <2>5 DEF Redact, Narrow, Withdraw, Busy, TypeOK
    <3>2. \A i \in Intakes : intake'[i] = None
      BY <2>3, <3>1 DEF Silent
    <3>3. \A q \in Operators : operator'[q] = None
      BY <3>1 DEF Busy
    <3>. QED
      BY <3>1, <3>2, <3>3 DEF Alone
  <2>6. CASE ~(ListCopies(o) \/ Redact(o) \/ Narrow(o) \/ Withdraw(o))
    <3>1. UNCHANGED vars
      <4>1. \A q \in Operators, m \in Memories, new \in Texts : ~Plan(q, m, new)
        BY <2>1, <2>2 DEF Plan
      <4>2. ~Open
        BY <1>1 DEF Open
      <4>3. \A p \in Promoters : promoter[p] = None
        BY <2>3 DEF Silent
      <4>4. \A i \in Intakes : intake[i] = None
        BY <2>3 DEF Silent
      <4>5. \A c \in Candidates : ~Propose(c)
        BY <4>2 DEF Propose
      <4>6. \A i \in Intakes : ~Insert(i) /\ \A c \in Candidates : ~CheckText(i, c)
        BY <4>2, <4>4 DEF Insert, CheckText
      <4>7. \A p \in Promoters :
              /\ ~Resolve(p) /\ ~CheckDuplicate(p) /\ ~CheckRedacted(p)
              /\ ~Promote(p) /\ ~GiveUp(p)
              /\ \A c \in Candidates, text \in Texts : ~TakeUp(p, c, text)
        BY <4>2, <4>3 DEF Resolve, CheckDuplicate, CheckRedacted, Promote, GiveUp, TakeUp
      <4>8. \A c \in Candidates, constrain, passes \in BOOLEAN :
              ~Settle(c, constrain, passes)
        BY <4>2 DEF Settle
      <4>9. \A q \in Operators : ~ListCopies(q) /\ ~Redact(q) /\ ~Narrow(q) /\ ~Withdraw(q)
        BY <2>2, <2>6
      <4>. QED
        BY <4>1, <4>5, <4>6, <4>7, <4>8, <4>9 DEF Next
    <3>. QED
      BY <3>1 DEF vars, trails, Alone, Busy, Silent, Removed
  <2>. QED
    BY <2>4, <2>5, <2>6
<1>2. CASE ~Busy
  <2>1. \A o \in Operators : operator[o] = None
    BY <1>2 DEF Busy
  <2>2. ~(\E o \in Operators : Redact(o))
    BY <2>1 DEF Redact
  <2>3. Removed' = Removed
    BY <2>2, OnlyAdds DEF Removed
  <2>4. ASSUME NEW i \in Intakes, intake'[i] # None
        PROVE  TextOf[intake'[i]] \notin Removed'
    <3>1. CASE intake'[i] = intake[i]
      BY <2>3, <2>4, <3>1 DEF Alone
    <3>2. CASE \E c \in Candidates : CheckText(i, c)
      BY <2>3, <3>2 DEF CheckText, TypeOK
    <3>3. intake'[i] = intake[i] \/ \E c \in Candidates : CheckText(i, c)
      <4>1. ASSUME NEW j \in Intakes, NEW c \in Candidates, CheckText(j, c), j # i
            PROVE  intake'[i] = intake[i]
        BY <4>1 DEF CheckText, TypeOK
      <4>2. ASSUME NEW j \in Intakes, Insert(j) PROVE intake'[i] = intake[i]
        BY <2>4, <4>2 DEF Insert, TypeOK
      <4>. QED
        BY <4>1, <4>2 DEF Next, vars, Propose, TakeUp, Resolve, CheckDuplicate,
           CheckRedacted, Promote, GiveUp, Settle, Plan, ListCopies, Redact, Narrow, Withdraw
    <3>. QED
      BY <3>1, <3>2, <3>3
  <2>5. CASE \E o \in Operators, m \in Memories, new \in Texts : Plan(o, m, new)
    <3>1. PICK o \in Operators, m \in Memories, new \in Texts : Plan(o, m, new)
      BY <2>5
    <3>2. Silent /\ UNCHANGED <<promoter, intake>>
      BY <3>1 DEF Plan
    <3>3. \A q \in Operators : operator'[q] # None => operator'[q].at = "planned"
      BY <2>1, <3>1 DEF Plan, TypeOK
    <3>. QED
      BY <2>4, <3>2, <3>3 DEF Alone, Silent
  <2>6. CASE ~(\E o \in Operators, m \in Memories, new \in Texts : Plan(o, m, new))
    <3>1. operator' = operator
      <4>1. \A o \in Operators : ~ListCopies(o) /\ ~Redact(o) /\ ~Narrow(o) /\ ~Withdraw(o)
        BY <2>1 DEF ListCopies, Redact, Narrow, Withdraw
      <4>. QED
        BY <2>6, <4>1 DEF Next, vars, Propose, CheckText, Insert, TakeUp, Resolve,
           CheckDuplicate, CheckRedacted, Promote, GiveUp, Settle
    <3>2. ~Busy' /\ \A o \in Operators : operator'[o] = None
      BY <2>1, <3>1 DEF Busy
    <3>. QED
      BY <2>4, <3>2 DEF Alone
  <2>. QED
    BY <2>5, <2>6
<1>. QED
  BY <1>1, <1>2

LEMMA NextCleared ==
  ASSUME Quiet, OneOperator, Cleared, [Next]_vars PROVE Cleared'
<1>. USE DEF Cleared, Types
<1>0. Types' /\ Fresh' /\ Alone'
  BY NextTypes, NextFresh, NextAlone
<1>. SUFFICES ASSUME NEW text \in Texts, TakenOut(text)', ~Held(text)',
                     NEW c \in Candidates, row'[c] = text
              PROVE  FALSE
  BY <1>0 DEF CopiesGone
<1>1. CASE \E o \in Operators : Redact(o)
  <2>1. PICK o \in Operators : Redact(o)
    BY <1>1
  <2>. DEFINE e == operator[o]
  <2>2. /\ e \in Edit /\ e # None /\ e.at = "listed"
        /\ e.id \in Memories /\ e.old = memory[e.id]
    BY <2>1, RedactSteps DEF Redact, Fresh, Edit
  <2>3. e.new # text
    BY <2>1, <2>2, RedactSteps DEF Held
  <2>4. row[c] = text /\ c \notin e.copies
    BY <2>1, <2>3, RedactSteps
  <2>5. e.old # text
    BY <2>2, <2>4 DEF Alone
  <2>6. TakenOut(text)
    <3>1. PICK m \in Memories : \E i \in DOMAIN memTrail'[m] :
            memTrail'[m][i].old = text /\ memTrail'[m][i].new # text
      BY DEF TakenOut
    <3>2. PICK i \in DOMAIN memTrail'[m] :
            memTrail'[m][i].old = text /\ memTrail'[m][i].new # text
      BY <3>1
    <3>3. CASE m = e.id
      <4>. DEFINE r == [old |-> e.old, new |-> e.new]
      <4>1. memTrail'[m] = Append(memTrail[m], r) /\ memTrail[m] \in Seq(Receipt)
        BY <2>1, <2>2, <3>3, RedactSteps DEF TypeOK
      <4>2. r.old # text
        BY <2>5
      <4>. HIDE DEF r
      <4>3. i \in DOMAIN memTrail[m] /\ memTrail'[m][i] = memTrail[m][i]
        BY <3>2, <4>1, <4>2
      <4>. QED
        BY <3>2, <4>3 DEF TakenOut
    <3>4. CASE m # e.id
      <4>1. memTrail'[m] = memTrail[m]
        BY <2>1, <3>4, RedactSteps
      <4>. QED
        BY <3>2, <4>1 DEF TakenOut
    <3>. QED
      BY <3>3, <3>4
  <2>7. ~Held(text)
    <3>1. ASSUME NEW n \in Memories, memory[n] = text PROVE FALSE
      <4>1. n # e.id
        BY <2>2, <2>5, <3>1
      <4>2. memory'[n] = text
        BY <2>1, <3>1, <4>1, RedactSteps
      <4>. QED
        BY <4>2 DEF Held
    <3>. QED
      BY <3>1 DEF Held
  <2>. QED
    BY <2>4, <2>6, <2>7 DEF CopiesGone
<1>2. CASE ~(\E o \in Operators : Redact(o))
  <2>1. TakenOut(text)
    BY <1>2, OnlyAdds DEF TakenOut
  <2>2. ~Held(text)
    <3>1. \A m \in Memories : memory[m] = text => memory'[m] = text
      BY <1>2, OnlyAdds, RedactionAssumption
    <3>. QED
      BY <3>1 DEF Held
  <2>3. row'[c] # row[c]
    BY <2>1, <2>2 DEF CopiesGone
  <2>4. text = TextOf[c] /\ row[c] = None
    BY <1>2, <2>3, OnlyAdds
  <2>5. text \in Removed
    BY <2>1 DEF TakenOut, Removed
  <2>6. PICK d \in Candidates, j \in Intakes \cup {None} :
          \/ Propose(d) /\ d = c
          \/ j \in Intakes /\ Insert(j) /\ intake[j] = c
    <3>1. CASE \E d \in Candidates : Propose(d)
      BY <2>3, <3>1 DEF Propose, TypeOK
    <3>2. CASE \E j \in Intakes : Insert(j)
      BY <2>3, <3>2 DEF Insert, TypeOK
    <3>3. CASE UNCHANGED row
      BY <2>3, <3>3
    <3>. QED
      BY <1>2, <3>1, <3>2, <3>3 DEF Next, vars, CheckText, TakeUp, Resolve,
         CheckDuplicate, CheckRedacted, Promote, GiveUp, Settle, Plan, ListCopies, Narrow,
         Withdraw
  <2>7. text \notin Removed
    <3>1. CASE Propose(c)
      BY <2>4, <3>1 DEF Propose
    <3>2. CASE j \in Intakes /\ Insert(j) /\ intake[j] = c
      BY <2>4, <3>2 DEF Insert, Alone
    <3>. QED
      BY <2>6, <3>1, <3>2
  <2>. QED
    BY <2>5, <2>7
<1>. QED
  BY <1>1, <1>2

QuietOperator == Quiet /\ OneOperator

\* With one operator on a quiet store, a text that was taken out is in no row
\* unless a memory holds it.
THEOREM CopiesCleared == QuietOperator /\ Spec => []CopiesGone
<1>1. Init => Cleared
  BY InitTypes DEF Init, Cleared, Types, Listed, Fresh, Alone, Busy, CopiesGone, TakenOut
<1>2. Cleared => CopiesGone
  BY DEF Cleared
<1>3. QuietOperator /\ Cleared /\ [Next]_vars => Cleared'
  BY NextCleared DEF QuietOperator
<1>4. QuietOperator => QuietOperator'
  BY DEF QuietOperator, OneOperator
<1>. QED
  BY <1>1, <1>2, <1>3, <1>4, PTL DEF Spec
=============================================================================
