------------------------------ MODULE Lifecycle ------------------------------
(***************************************************************************)
(* What the schema and the thesis promise of a memory's lifecycle          *)
(* (packages/schema/src/lifecycle.ts, ALLOWED_TRANSITIONS; 000-docs/003,   *)
(* "explicit states"; 000-docs/007, supersededBy), with no processes, no   *)
(* plans and no snapshots: a memory enters active, a few earlier ones step *)
(* back for it in the same moment, and otherwise it moves along an edge of *)
(* the graph, one memory at a time.                                        *)
(*                                                                         *)
(* Entering is the one move the graph does not rule: promote() does not    *)
(* ask it about the memories it retires.                                   *)
(***************************************************************************)
CONSTANTS Memories,
          Groups,    \* the groups of memories a new one may take the place of
          NoMemory

VARIABLES life,       \* of each memory
          successor   \* the memory that replaced it

lifeVars == <<life, successor>>

Edges == {<<"active", "deprecated">>, <<"active", "superseded">>, <<"active", "archived">>,
          <<"deprecated", "active">>, <<"deprecated", "archived">>,
          <<"superseded", "archived">>}

LifeInit ==
  /\ life = [m \in Memories |-> "absent"]
  /\ successor = [m \in Memories |-> NoMemory]

\* A memory enters in the place of those in S.
Enter(m, S) ==
  /\ life[m] = "absent"
  /\ \A x \in S : life[x] # "absent"
  /\ life' = [x \in Memories |-> IF x = m THEN "active"
                                 ELSE IF x \in S THEN "superseded" ELSE life[x]]
  /\ successor' = [x \in Memories |-> IF x = m THEN NoMemory
                                      ELSE IF x \in S THEN m ELSE successor[x]]

\* A memory is replaced by one in force.
Replace(m, by) ==
  /\ <<life[m], "superseded">> \in Edges
  /\ by # m /\ life[by] = "active"
  /\ life' = [life EXCEPT ![m] = "superseded"]
  /\ successor' = [successor EXCEPT ![m] = by]

\* Any other move, which leaves the history as it is.
Move(m, to) ==
  /\ <<life[m], to>> \in Edges
  /\ to # "superseded"
  /\ life' = [life EXCEPT ![m] = to]
  /\ UNCHANGED successor

LifeNext ==
  \/ \E m \in Memories : \E S \in Groups : Enter(m, S)
  \/ \E m, by \in Memories : Replace(m, by)
  \/ \E m \in Memories : \E to \in {"active", "deprecated", "archived"} : Move(m, to)

LifeSpec == LifeInit /\ [][LifeNext]_lifeVars

=============================================================================
