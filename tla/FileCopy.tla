------------------------------- MODULE FileCopy -------------------------------
(* What a file transfer promises: the receiver's file grows along the one    *)
(* that is sent; the receiver reports success when it has all of it, and the *)
(* sender after the receiver.  Either may fail instead.                      *)
EXTENDS Naturals, Sequences

CONSTANT FileLen     \* the length of the file that is sent

VARIABLES copy,      \* the receiver's file: the units of the sender's, by number
          sender, receiver     \* "busy", "ok" or "failed"

copyVars == <<copy, sender, receiver>>

Init == copy = <<>> /\ sender = "busy" /\ receiver = "busy"

Write ==
    /\ receiver = "busy"
    /\ \E n \in Len(copy) + 1 .. FileLen : copy' = [i \in 1 .. n |-> i]
    /\ UNCHANGED <<sender, receiver>>

ReceiverEnds ==
    /\ receiver = "busy"
    /\ receiver' \in {"failed"} \cup (IF Len(copy) = FileLen THEN {"ok"} ELSE {})
    /\ UNCHANGED <<copy, sender>>

SenderEnds ==
    /\ sender = "busy"
    /\ sender' \in {"failed"} \cup (IF receiver = "ok" THEN {"ok"} ELSE {})
    /\ UNCHANGED <<copy, receiver>>

Spec == Init /\ [][Write \/ ReceiverEnds \/ SenderEnds]_copyVars
=============================================================================
