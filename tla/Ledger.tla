------------------------------- MODULE Ledger -------------------------------
(***************************************************************************)
(* What the store promises of its receipts (packages/store/src/            *)
(* audit-chain.ts, "structurally append-only"; audit-repository.ts,        *)
(* "Append-only repository for immutable audit events"), with no           *)
(* transactions, no hashes and no lock files: the receipts of a            *)
(* transaction enter together, after everything said before; nothing is    *)
(* withdrawn, moved or said twice under one id; and a seal names a length  *)
(* the ledger has reached.  Only somebody who writes behind the program's  *)
(* back changes what one stored receipt says.                              *)
(***************************************************************************)
EXTENDS Integers, Sequences

VARIABLES said,    \* what each receipt is and says, a pair, in order
          sealed   \* how many receipts each seal vouches for

ledgerVars == <<said, sealed>>

LedgerInit == said = <<>> /\ sealed = <<>>

\* Each receipt has an id of its own.
OneReceiptPerId(s) == \A i, j \in 1..Len(s) : s[i][1] = s[j][1] => i = j

\* The receipts of one transaction, all at once.
Record ==
  /\ Len(said) < Len(said')
  /\ \A i \in 1..Len(said) : said'[i] = said[i]
  /\ \A i \in (Len(said) + 1)..Len(said') : said'[i][2] = "written"
  /\ OneReceiptPerId(said')
  /\ UNCHANGED sealed

\* Somebody alters what one of them says.
Alter(i) ==
  /\ said' = [said EXCEPT ![i] = <<said[i][1], "altered">>]
  /\ UNCHANGED sealed

\* A merge vouches for the receipts up to one it has seen.
Seal(n) ==
  /\ sealed' = Append(sealed, n)
  /\ UNCHANGED said

LedgerNext ==
  \/ Record
  \/ \E i \in 1..Len(said) : Alter(i)
  \/ \E n \in 0..Len(said) : Seal(n)

LedgerSpec == LedgerInit /\ [][LedgerNext]_ledgerVars

=============================================================================
