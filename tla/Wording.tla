------------------------------- MODULE Wording -------------------------------
(***************************************************************************)
(* What the runbook of redactions (000-docs/054, 4.1: "Steps 1 to 4 are    *)
(* one transaction") and the provenance walk take for granted of the texts *)
(* in the store, with no checks in advance, no lists and no processes: a   *)
(* text is captured into a row, promoted out of the row that holds or held *)
(* it, once, and reworded, row and memory together, each change with the   *)
(* receipt that says what was there the moment before.                     *)
(***************************************************************************)
EXTENDS Sequences

CONSTANTS Candidates, Memories, Texts, TextOf, None,
          Own    \* texts nobody puts in the place of another

VARIABLES row, memory,        \* what is said where
          rowTrail, memTrail  \* the receipts of every rewording

wordVars == <<row, memory, rowTrail, memTrail>>

WordInit ==
  /\ row = [c \in Candidates |-> None]
  /\ memory = [m \in Memories |-> None]
  /\ rowTrail = [c \in Candidates |-> <<>>]
  /\ memTrail = [m \in Memories |-> <<>>]

Capture(c) ==
  /\ row[c] = None
  /\ row' = [row EXCEPT ![c] = TextOf[c]]
  /\ UNCHANGED <<memory, rowTrail, memTrail>>

\* The row of the candidate says this, or did before it was reworded.
SaidBy(c, text) == row[c] = text \/ \E i \in DOMAIN rowTrail[c] : rowTrail[c][i].old = text

\* No memory was promoted with this text; and a text of somebody's own is in no
\* memory, nor was it taken out of one.
Unused(text) ==
  \A m \in Memories :
    /\ memory[m] # None => m[2] # text
    /\ text \in Own => /\ memory[m] # text
                       /\ \A i \in DOMAIN memTrail[m] :
                            memTrail[m][i].old = text => memTrail[m][i].new = text

\* A memory is named after its candidate and the text it enters with.
Admit(m) ==
  /\ row[m[1]] # None /\ SaidBy(m[1], m[2])
  /\ Unused(m[2])
  /\ memory' = [memory EXCEPT ![m] = m[2]]
  /\ UNCHANGED <<row, rowTrail, memTrail>>

\* One memory is reworded with stored rows, its own candidate's among them.
Reword(m, new, copies) ==
  /\ memory[m] # None
  /\ new \in Own => new = memory[m]
  /\ m[1] \in copies /\ \A c \in copies : row[c] # None
  /\ memory' = [memory EXCEPT ![m] = new]
  /\ memTrail' = [memTrail EXCEPT ![m] = Append(@, [old |-> memory[m], new |-> new])]
  /\ row' = [c \in Candidates |-> IF c \in copies THEN new ELSE row[c]]
  /\ rowTrail' = [c \in Candidates |->
       IF c \in copies THEN Append(rowTrail[c], [old |-> row[c], new |-> new])
       ELSE rowTrail[c]]

WordNext ==
  \/ \E c \in Candidates : Capture(c)
  \/ \E m \in Memories : Admit(m)
  \/ \E m \in Memories, new \in Texts, copies \in SUBSET Candidates : Reword(m, new, copies)

WordSpec == WordInit /\ [][WordNext]_wordVars

=============================================================================
