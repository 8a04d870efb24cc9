---------------------------- MODULE MC_Redaction ----------------------------
(* A small instance of Redaction: see the .cfg files. *)
EXTENDS Redaction, TLC

\* Two candidates with one text, a third with a text that an operator may
\* also write.
MCTextOf == ("c1" :> "secret") @@ ("c2" :> "secret") @@ ("c3" :> "clean")
=============================================================================
