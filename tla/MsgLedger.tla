------------------------------ MODULE MsgLedger ------------------------------
(***************************************************************************)
(* What the lock on a message base is for.  Seen from outside, the index   *)
(* file is a ledger: a post adds one entry at its end, with a number above *)
(* all the others, a purge takes entries out, and nothing else changes it. *)
(***************************************************************************)
EXTENDS Naturals, SequencesExt

VARIABLE ledger   \* the entries of the index, records with a number

Init == ledger = <<>>

Post ==
    /\ Len(ledger') = Len(ledger) + 1
    /\ IsPrefix(ledger, ledger')
    /\ \A i \in 1 .. Len(ledger) : ledger[i].number < Last(ledger').number

Purge == \E i \in 1 .. Len(ledger) : ledger' = RemoveAt(ledger, i)

Spec == Init /\ [][Post \/ Purge]_ledger
=============================================================================
