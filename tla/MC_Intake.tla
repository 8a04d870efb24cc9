----------------------------- MODULE MC_Intake -----------------------------
(* A small instance of Intake: see the .cfg file. *)
EXTENDS Intake, TLC

\* A session captures one candidate, a batch file holds another, which a vault
\* holds as well, and one that is refused.
MCLines ==
  ("capture" :> <<"a">>) @@ ("receipt" :> <<"b", "s">>) @@ ("vault" :> <<"b">>)
MCSorted == <<"capture", "receipt">>
=============================================================================
