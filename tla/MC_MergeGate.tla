---------------------------- MODULE MC_MergeGate ----------------------------
(* A small instance of MergeGate: see the .cfg file. *)
EXTENDS MergeGate, TLC

\* Ids 1 and 3 hold one text under two candidates, 2 holds a text the gate
\* refuses, 5 one that no clone has.
MCMemories  == 1..5
MCTexts     == {"a", "b", "secret", "own"}
MCTextOf    == <<"a", "secret", "a", "b", "own">>

Fresh(m) ==
  [id |-> m, text |-> MCTextOf[m], tier |-> "team", active |-> TRUE, at |-> 0]

Narrowed(m) == [Fresh(m) EXCEPT !.tier = "private"]
Retired(m)  == [Fresh(m) EXCEPT !.active = FALSE]
Gone(m)     == [Fresh(m) EXCEPT !.text = "redacted"]

MCContents ==
  ("A" :> {{Fresh(1), Fresh(2), Fresh(4)}, {Retired(3), Fresh(4)}}) @@
  ("B" :> {{Fresh(3), Narrowed(4)}, {Narrowed(1), Gone(4)}})
MCBases == {{Fresh(3)}, {Fresh(5)}}

MCInto  == ("p" :> "x") @@ ("q" :> "x") @@ ("r" :> "y")
MCOrder == ("p" :> <<"A", "B">>) @@ ("q" :> <<"B", "A">>) @@ ("r" :> <<"B", "A">>)
=============================================================================
