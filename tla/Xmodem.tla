-------------------------------- MODULE Xmodem --------------------------------
(***************************************************************************)
(* The transfer of a file by XMODEM (src/sbbs3/xmodem.c, and the receiver's *)
(* loop in src/sbbs3/sexyz.c) over a line that loses, damages and delays.  *)
(*                                                                         *)
(* A message on the line is a block or a control character; the eight CANs *)
(* of xmodem_cancel() are one message.  A message that the line damages is *)
(* noise: neither its checksum nor its meaning is left.  A file is counted *)
(* in units of 128 bytes, the length of a small block.                     *)
(***************************************************************************)
EXTENDS Integers, Sequences

CONSTANTS
    FileLen,       \* the length of the file that is sent, in units
    Large,         \* xm->block_size at first, in units: 1, or 8 in the code
    Modulus,       \* a block's number has one byte: 256
    MaxErrors,     \* xm->max_errors
    AckTries,      \* how often the sender waits for one acknowledgement: 5
    FallsBackAt,   \* the error at which the sender takes to small blocks: 3
    MaxTrouble     \* bound: what the line and the clocks do wrong

ASSUME XmodemAssumption ==
    /\ FileLen \in Nat /\ Large \in Nat \ {0}
    /\ Modulus \in Nat \ {0, 1}
    /\ MaxErrors \in Nat /\ AckTries \in Nat \ {0} /\ FallsBackAt \in Nat
    /\ MaxTrouble \in Nat

VARIABLES
    toRecv, toSend,    \* the line: what is under way to the receiver and to the sender
    s,                 \* the sender: xmodem_send_file()
    r,                 \* the receiver: receive_files() and xmodem_get_block()
    file,              \* the receiver's file: units of the sender's, by number
    unwritten,         \* those of the block that is acknowledged and not in the file
    trouble,           \* how much has gone wrong
    ackVain            \* ghost: an ACK was lost, damaged or thrown away, or its block
                       \* could not be written

vars == <<toRecv, toSend, s, r, file, unwritten, trouble, ackVain>>

-----------------------------------------------------------------------------
Control(t) == [t |-> t]
Noise == Control("noise")
NoInput == Control("NOINP")

\* What is left of a line when its first k messages are gone.
Rest(line, k) == SubSeq(line, k + 1, Len(line))

\* A flush takes what has come so far.
Flushed(line) == {Rest(line, k) : k \in 0 .. Len(line)}

SenderStopped == s.at \in {"done", "failed"}
ReceiverStopped == r.at \in {"done", "failed"}

Init ==
    /\ toRecv = <<>> /\ toSend = <<>> /\ file = <<>> /\ unwritten = <<>>
    /\ s = [at |-> "idle", num |-> 1, off |-> 0, len |-> 0, size |-> Large,
            errors |-> 0, tries |-> 0, crc |-> FALSE]
    /\ \E crc \in BOOLEAN :
           r = [at |-> "idle", num |-> 1, errors |-> 0, pass |-> 0, eot |-> FALSE, crc |-> crc]
    /\ trouble = 0 /\ ackVain = FALSE

-----------------------------------------------------------------------------
(* The line and the clocks.                                                *)

Trouble == trouble < MaxTrouble /\ trouble' = trouble + 1

\* Nobody will send a side anything: the other has stopped, or both wait.  Then a
\* time-out is nobody's fault.  Of two that wait the receiver is first, whose time
\* is never longer; any other time-out is trouble: somebody was late.
SenderAlone == toSend = <<>> /\ ReceiverStopped
ReceiverAlone ==
    /\ toRecv = <<>>
    /\ SenderStopped \/ (toSend = <<>> /\ s.at \in {"mode", "ack", "eotWait"})

\* What getcom() may give a side: the next message, or NOINP when time is up; what
\* is on the line afterwards; and the clock.
Inputs(line) == {NoInput} \cup (IF line = <<>> THEN {} ELSE {line[1]})
After(line, m) == IF m = NoInput THEN line ELSE Rest(line, 1)
Clock(m, due) == IF m = NoInput /\ ~due THEN Trouble ELSE UNCHANGED trouble

LoseBlock ==
    /\ toRecv # <<>> /\ Trouble
    /\ toRecv' = Rest(toRecv, 1)
    /\ UNCHANGED <<toSend, s, r, file, unwritten, ackVain>>

DamageBlock ==
    /\ toRecv # <<>> /\ Trouble
    /\ toRecv' = [toRecv EXCEPT ![1] = Noise]
    /\ UNCHANGED <<toSend, s, r, file, unwritten, ackVain>>

LoseAnswer ==
    /\ toSend # <<>> /\ Trouble
    /\ toSend' = Rest(toSend, 1)
    /\ ackVain' = (ackVain \/ toSend[1].t = "ACK")
    /\ UNCHANGED <<toRecv, s, r, file, unwritten>>

DamageAnswer ==
    /\ toSend # <<>> /\ Trouble
    /\ toSend' = [toSend EXCEPT ![1] = Noise]
    /\ ackVain' = (ackVain \/ toSend[1].t = "ACK")
    /\ UNCHANGED <<toRecv, s, r, file, unwritten>>

Line == LoseBlock \/ DamageBlock \/ LoseAnswer \/ DamageAnswer

-----------------------------------------------------------------------------
(* The sender.                                                             *)

\* xmodem_cancel()
SenderGivesUp ==
    /\ s' = [s EXCEPT !.at = "failed"]
    /\ toRecv' = Append(toRecv, Control("CAN"))

\* Mutant: the end of the text comes before the last block is acknowledged.
OnwardEarly(sent) == IF sent + 1 < FileLen THEN "send" ELSE "eot"

\* After an acknowledged block comes the next, or the end of the text.
Onward(sent) == IF sent < FileLen THEN "send" ELSE "eot"

SenderStarts ==
    /\ s.at = "idle"
    /\ s' = [s EXCEPT !.at = "mode"]
    /\ UNCHANGED <<toRecv, toSend, r, file, unwritten, trouble, ackVain>>

\* xmodem_get_mode(): the receiver asks for CRCs or checksums.
GetMode(a) ==
    /\ s.at = "mode"
    /\ Clock(a, SenderAlone) /\ toSend' = After(toSend, a)
    /\ \/ /\ a.t \in {"C", "NAK"}
          /\ s' = [s EXCEPT !.at = Onward(0), !.errors = 0, !.crc = (a.t = "C")]
          /\ UNCHANGED toRecv
       \/ /\ a.t \notin {"C", "NAK", "CAN"} /\ s.errors < MaxErrors
          /\ s' = [s EXCEPT !.errors = @ + 1]
          /\ UNCHANGED toRecv
       \/ /\ a.t \notin {"C", "NAK"}
          /\ a.t = "CAN" \/ s.errors = MaxErrors
          /\ SenderGivesUp
    /\ UNCHANGED <<r, file, unwritten, ackVain>>

\* A large block, or a small one if less than a large one is left.
BlockLen == IF FileLen - s.off < s.size THEN 1 ELSE s.size

Block == [t |-> "block", num |-> s.num % Modulus, from |-> s.off, len |-> BlockLen,
          crc |-> s.crc]

\* xmodem_put_block()
PutBlock ==
    /\ s.at = "send" /\ s.errors <= MaxErrors
    /\ toRecv' = Append(toRecv, Block)
    /\ s' = [s EXCEPT !.at = "ack", !.tries = 0, !.size = BlockLen, !.len = BlockLen]
    /\ UNCHANGED <<toSend, r, file, unwritten, trouble, ackVain>>

TooManyErrors ==
    /\ s.at \in {"send", "eot"} /\ s.errors > MaxErrors
    /\ SenderGivesUp
    /\ UNCHANGED <<toSend, r, file, unwritten, trouble, ackVain>>

\* The block was acknowledged.
Acknowledged ==
    s' = [s EXCEPT !.at = Onward(s.off + s.len), !.num = @ + 1, !.off = @ + s.len,
                   !.errors = IF Onward(s.off + s.len) = "eot" THEN 0 ELSE @]

\* The block is to be sent again; at one of the errors the first block is made
\* small.
SentAgain ==
    s' = [s EXCEPT !.at = "send", !.errors = @ + 1,
                   !.size = IF s.errors + 1 = FallsBackAt /\ s.num = 1 THEN 1 ELSE @]

\* xmodem_get_ack(): any other character than an ACK ends the wait at once.
GetAck(a) ==
    /\ s.at = "ack"
    /\ Clock(a, SenderAlone) /\ toSend' = After(toSend, a)
    /\ \/ a.t = "ACK" /\ Acknowledged /\ UNCHANGED toRecv
       \/ a.t = "CAN" /\ SenderGivesUp
       \/ /\ a = NoInput /\ s.tries + 1 < AckTries
          /\ s' = [s EXCEPT !.tries = @ + 1]
          /\ UNCHANGED toRecv
       \/ /\ a.t \notin {"ACK", "CAN"}
          /\ a = NoInput => s.tries + 1 = AckTries
          /\ SentAgain /\ UNCHANGED toRecv
    /\ UNCHANGED <<r, file, unwritten, ackVain>>

\* xmodem_put_eot(): what has come is thrown away first.
PutEot ==
    /\ s.at = "eot" /\ s.errors <= MaxErrors
    /\ \E k \in 0 .. Len(toSend) :
           /\ toSend' = Rest(toSend, k)
           /\ ackVain' = (ackVain \/ \E i \in 1 .. k : toSend[i].t = "ACK")
    /\ toRecv' = Append(toRecv, Control("EOT"))
    /\ s' = [s EXCEPT !.at = "eotWait"]
    /\ UNCHANGED <<r, file, unwritten, trouble>>

\* Mutant: the sender waits for an answer to its EOT without a time limit.
GetEotAckPatiently(a) ==
    /\ s.at = "eotWait" /\ a # NoInput
    /\ toSend' = After(toSend, a)
    /\ s' = [s EXCEPT !.at = IF a.t = "ACK" THEN "done" ELSE "eot", !.errors = @ + 1]
    /\ UNCHANGED <<toRecv, r, file, unwritten, trouble, ackVain>>

\* A second CAN ends the wait, if it has not come early enough to be thrown away.
GetEotAck(a) ==
    /\ s.at = "eotWait"
    /\ Clock(a, SenderAlone) /\ toSend' = After(toSend, a)
    /\ \/ /\ a.t = "ACK"
          /\ s' = [s EXCEPT !.at = "done"]
          /\ UNCHANGED toRecv
       \/ /\ a.t # "ACK"
          /\ s' = [s EXCEPT !.at = "eot", !.errors = @ + 1]
          /\ UNCHANGED toRecv
       \/ a.t = "CAN" /\ SenderGivesUp
    /\ UNCHANGED <<r, file, unwritten, ackVain>>

Sender ==
    \/ SenderStarts \/ PutBlock \/ TooManyErrors \/ PutEot
    \/ \E a \in Inputs(toSend) : GetMode(a) \/ GetAck(a) \/ GetEotAck(a)

-----------------------------------------------------------------------------
(* The receiver.                                                           *)

\* xmodem_put_nak(): the first block is asked for by its mode.
Request(num, crc) == Control(IF num = 1 /\ crc THEN "C" ELSE "NAK")

ReceiverStarts ==
    /\ r.at = "idle"
    /\ toRecv' \in Flushed(toRecv)
    /\ toSend' = Append(toSend, Request(r.num, r.crc))
    /\ r' = [r EXCEPT !.at = "read"]
    /\ UNCHANGED <<s, file, unwritten, trouble, ackVain>>

\* A block whose check is right.
Sound(m) == m.t = "block" /\ m.crc = r.crc

\* Mutant: a block that was repeated is acknowledged, and written, again.
ExpectedOrRepeated(m) == Sound(m) /\ m.num \in {r.num % Modulus, (r.num - 1) % Modulus}

Expected(m) == Sound(m) /\ m.num = r.num % Modulus
Repeated(m) == Sound(m) /\ r.num > 1 /\ m.num = (r.num - 1) % Modulus

\* xmodem_get_block() has the block: the ACK goes out before the block is written.
Accept(m) ==
    /\ r.at = "read" /\ Expected(m)
    /\ toRecv' = After(toRecv, m)
    /\ toSend' = Append(toSend, Control("ACK"))
    /\ unwritten' = [i \in 1 .. m.len |-> m.from + i]
    /\ r' = [r EXCEPT !.at = "write", !.num = @ + 1, !.pass = 0, !.eot = FALSE]
    /\ UNCHANGED <<s, file, trouble, ackVain>>

\* fwrite() takes the block.
Write ==
    /\ r.at = "write"
    /\ file' = file \o unwritten /\ unwritten' = <<>>
    /\ r' = [r EXCEPT !.at = "read"]
    /\ UNCHANGED <<toRecv, toSend, s, trouble, ackVain>>

\* It does not: the transfer is cancelled.
WriteFails ==
    /\ r.at = "write"
    /\ toSend' = Append(toSend, Control("CAN"))
    /\ r' = [r EXCEPT !.at = "failed"]
    /\ ackVain' = TRUE
    /\ UNCHANGED <<toRecv, s, file, unwritten, trouble>>

\* It is discarded in silence; xmodem_get_block() goes round again.
Discard(m) ==
    /\ r.at = "read" /\ ~Expected(m) /\ Repeated(m) /\ r.pass < MaxErrors
    /\ toRecv' = After(toRecv, m)
    /\ r' = [r EXCEPT !.pass = @ + 1, !.eot = FALSE]
    /\ UNCHANGED <<toSend, s, file, unwritten, trouble, ackVain>>

\* Mutant: every EOT is the first.
RefuseEotAlways(m) ==
    /\ r.at = "read" /\ m.t = "EOT" /\ r.pass < MaxErrors
    /\ toRecv' \in Flushed(After(toRecv, m))
    /\ toSend' = Append(toSend, Request(r.num, r.crc))
    /\ r' = [r EXCEPT !.pass = @ + 1]
    /\ UNCHANGED <<s, file, unwritten, trouble, ackVain>>

\* The first EOT is refused, lest it be noise.
RefuseEot(m) ==
    /\ r.at = "read" /\ m.t = "EOT" /\ ~r.eot /\ r.pass < MaxErrors
    /\ toRecv' \in Flushed(After(toRecv, m))
    /\ toSend' = Append(toSend, Request(r.num, r.crc))
    /\ r' = [r EXCEPT !.pass = @ + 1, !.eot = TRUE]
    /\ UNCHANGED <<s, file, unwritten, trouble, ackVain>>

\* The second one ends the text, and so does silence after the first.
AcceptEot(m) ==
    /\ r.at = "read" /\ r.eot /\ (m.t = "EOT" \/ m = NoInput)
    /\ Clock(m, ReceiverAlone) /\ toRecv' \in Flushed(After(toRecv, m))
    /\ toSend' = Append(toSend, Control("ACK"))
    /\ r' = [r EXCEPT !.at = "done"]
    /\ UNCHANGED <<s, file, unwritten, ackVain>>

Cancelled(m) ==
    /\ r.at = "read" /\ m.t = "CAN"
    /\ toRecv' = After(toRecv, m)
    /\ r' = [r EXCEPT !.at = "failed"]
    /\ UNCHANGED <<toSend, s, file, unwritten, trouble, ackVain>>

\* xmodem_get_block() has no block: damage, silence, another number or mode, or
\* no pass is left.
NoBlock(m) ==
    \/ m.t = "noise"
    \/ m = NoInput /\ ~r.eot
    \/ m.t = "block" /\ ~Expected(m) /\ (Repeated(m) => r.pass = MaxErrors)
    \/ m.t = "EOT" /\ ~r.eot /\ r.pass = MaxErrors

\* The EOT that took the last pass is refused before.
RefusedBefore(m) == IF m.t = "EOT" THEN <<Request(r.num, r.crc)>> ELSE <<>>

\* Checksums take the place of CRCs when the first block does not come.
ModeAfter(errors) == r.crc /\ ~(r.num = 1 /\ errors > MaxErrors \div 3)

AskAgain(m) ==
    /\ r.at = "read" /\ NoBlock(m)
    /\ r.errors < MaxErrors
    /\ Clock(m, ReceiverAlone) /\ toRecv' \in Flushed(After(toRecv, m))
    /\ LET crc == ModeAfter(r.errors + 1)
       IN  /\ toSend' = toSend \o RefusedBefore(m) \o <<Request(r.num, crc)>>
           /\ r' = [r EXCEPT !.errors = @ + 1, !.pass = 0, !.eot = FALSE, !.crc = crc]
    /\ UNCHANGED <<s, file, unwritten, ackVain>>

ReceiverGivesUp(m) ==
    /\ r.at = "read" /\ NoBlock(m)
    /\ r.errors = MaxErrors
    /\ Clock(m, ReceiverAlone) /\ toRecv' = After(toRecv, m)
    /\ toSend' = toSend \o RefusedBefore(m) \o <<Control("CAN")>>
    /\ r' = [r EXCEPT !.at = "failed"]
    /\ UNCHANGED <<s, file, unwritten, ackVain>>

Receiver ==
    \/ ReceiverStarts \/ Write \/ WriteFails
    \/ \E m \in Inputs(toRecv) :
           \/ Accept(m) \/ Discard(m) \/ RefuseEot(m) \/ AcceptEot(m)
           \/ Cancelled(m) \/ AskAgain(m) \/ ReceiverGivesUp(m)

-----------------------------------------------------------------------------
Next == Sender \/ Receiver \/ Line

Spec == Init /\ [][Next]_vars

\* Both programs go on, and the waits of getcom() have an end.
FairSpec == Spec /\ WF_vars(Sender) /\ WF_vars(Receiver)

-----------------------------------------------------------------------------
(* Properties.                                                             *)

\* What the receiver has written is the beginning of the file, and it has what the
\* sender takes for acknowledged: but for one block, which the receiver is about to
\* write or has failed to.
CopyRight ==
    /\ \A i \in 1 .. Len(file) : file[i] = i
    /\ s.off <= Len(file) + Len(unwritten)
    /\ s.off > Len(file) => r.at \in {"write", "failed"}

Outcome(at) == CASE at = "done" -> "ok" [] at = "failed" -> "failed" [] OTHER -> "busy"

Copy == INSTANCE FileCopy WITH copy <- file, sender <- Outcome(s.at), receiver <- Outcome(r.at)

\* The transfer is a file copy: success is reported for a whole file only, by the
\* receiver first.
IsFileCopy == Copy!Spec

\* A side fails only if an ACK was in vain, if the two sides took different modes (at
\* whatever time, and whatever came of it), or if at least half as much went wrong as
\* errors are allowed.
Recovers ==
    s.at = "failed" \/ r.at = "failed" =>
        ackVain \/ s.crc # r.crc \/ 2 * trouble >= MaxErrors

\* Both sides come to an end, with a file or without.
BothEnd == <>(SenderStopped /\ ReceiverStopped)
=============================================================================
