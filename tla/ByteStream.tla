----------------------------- MODULE ByteStream -----------------------------
(***************************************************************************)
(* What a server's output buffer promises: bytes reach the client in the   *)
(* order they were written, none twice, none out of turn.                  *)
(***************************************************************************)
EXTENDS Naturals, Sequences

VARIABLES
    accepted,  \* how many bytes were written; they are numbered from 1
    delivered  \* the numbers of the bytes that reached the client

Init == accepted = 0 /\ delivered = <<>>

Accept ==
    /\ accepted' \in Nat /\ accepted' > accepted
    /\ UNCHANGED delivered

Deliver == \E k \in Len(delivered) + 1 .. accepted :
    /\ delivered' = [i \in 1 .. k |-> i]
    /\ UNCHANGED accepted

Next == Accept \/ Deliver
Spec == Init /\ [][Next]_<<accepted, delivered>>
=============================================================================
