---------------------------- MODULE HoldPromise ----------------------------
(***************************************************************************)
(* What the runbook (000-docs/055-OD-RNBK-human-escalation-hold.md,        *)
(* sections 2 and 5) promises of a hold, with no processes, no transactions*)
(* and no stale reads: a candidate that is not held may be admitted; a     *)
(* held one is admitted by a release and by nothing else; a closed one     *)
(* never is.                                                               *)
(***************************************************************************)
CONSTANT Candidates

VARIABLES phase,     \* "free", "held", "released" or "closed"
          admitted   \* candidates with a curated memory

promiseVars == <<phase, admitted>>

PromiseInit ==
  /\ phase = [c \in Candidates |-> "free"]
  /\ admitted = {}

\* A candidate no rule is in doubt about becomes a memory.
Admit(c) ==
  /\ phase[c] = "free"
  /\ admitted' = admitted \cup {c}
  /\ UNCHANGED phase

\* A rule outcome puts a candidate on hold.
Hold(c) ==
  /\ phase[c] = "free"
  /\ c \notin admitted
  /\ phase' = [phase EXCEPT ![c] = "held"]
  /\ UNCHANGED admitted

\* A person releases it.
Release(c) ==
  /\ phase[c] = "held"
  /\ phase' = [phase EXCEPT ![c] = "released"]
  /\ admitted' = admitted \cup {c}

\* A person rejects it, or its bound elapses.
Close(c) ==
  /\ phase[c] = "held"
  /\ phase' = [phase EXCEPT ![c] = "closed"]
  /\ UNCHANGED admitted

PromiseNext == \E c \in Candidates : Admit(c) \/ Hold(c) \/ Release(c) \/ Close(c)

PromiseSpec == PromiseInit /\ [][PromiseNext]_promiseVars

=============================================================================
