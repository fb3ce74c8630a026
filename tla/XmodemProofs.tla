----------------------------- MODULE XmodemProofs -----------------------------
(* Proofs about Xmodem: as long as the sender does not take to small blocks    *)
(* for the sake of errors, whatever the line loses, damages or delays, the    *)
(* receiver's file is the beginning of the one that is sent, the transfer is  *)
(* a file copy, and trouble makes it fail only for a reason.                  *)
EXTENDS Xmodem, FiniteSetTheorems, TLAPS

MsgType ==
    [t : {"EOT", "CAN", "noise"}]
    \cup [t : {"block"}, num : Nat, from : Nat, len : Nat, crc : BOOLEAN]
AnswerType == [t : {"ACK", "NAK", "C", "CAN", "noise"}]
SenderType ==
    [at : {"idle", "mode", "send", "ack", "eot", "eotWait", "done", "failed"},
     num : Nat, off : Nat, len : Nat, size : Nat, errors : Nat, tries : Nat, crc : BOOLEAN]
ReceiverType ==
    [at : {"idle", "read", "write", "done", "failed"}, num : Nat, errors : Nat, pass : Nat,
     eot : BOOLEAN, crc : BOOLEAN]

\* The length of the block that starts there.
LenAt(off) == IF FileLen - off < Large THEN 1 ELSE Large

\* Where that block ends.
EndAt(off) == off + LenAt(off)

\* The blocks on a line to a receiver that has so much written and expects block
\* n, from a sender with so much acknowledged: block n or the last one, in order.
NextBlock(m, written, n) ==
    m.from = written /\ m.from < FileLen /\ m.num = n % Modulus /\ m.len = LenAt(written)
LastBlock(m, written, n) ==
    m.from < written /\ n > 1 /\ m.num = (n - 1) % Modulus
BlocksRight(line, written, n, sent) ==
    \A i \in 1 .. Len(line) : line[i].t = "block" =>
        /\ line[i].from <= sent
        /\ NextBlock(line[i], written, n) \/ LastBlock(line[i], written, n)
BlocksInOrder(line) ==
    \A i, j \in 1 .. Len(line) :
        i < j /\ line[i].t = "block" /\ line[j].t = "block" => line[i].from <= line[j].from
EotsRight(line, sent) ==
    \A i \in 1 .. Len(line) : line[i].t = "EOT" => sent = FileLen

ToRecvInv(line, written, n, sent) ==
    /\ line \in Seq(MsgType)
    /\ BlocksRight(line, written, n, sent)
    /\ BlocksInOrder(line)
    /\ EotsRight(line, sent)

\* The ACKs on a line: at most one, for a block the sender does not know to be
\* written, or for the end of the text.
AcksRight(line, due) == \A i \in 1 .. Len(line) : line[i].t = "ACK" => due
OneAck(line) ==
    \A i, j \in 1 .. Len(line) : i < j => ~(line[i].t = "ACK" /\ line[j].t = "ACK")

ToSendInv(line, due) ==
    /\ line \in Seq(AnswerType)
    /\ AcksRight(line, due)
    /\ OneAck(line)

\* Small blocks are the sender's only ones, or its last.
SenderInv(x) ==
    /\ x \in SenderType
    /\ x.size = Large \/ (x.size = 1 /\ FileLen - x.off < Large)
    /\ x.num > 0
    /\ x.at \in {"idle", "mode"} => x.off = 0 /\ x.num = 1
    /\ x.at = "send" => x.off < FileLen
    /\ x.at = "ack" => x.off < FileLen /\ x.len = LenAt(x.off)
    /\ x.at \in {"eot", "eotWait", "done"} => x.off = FileLen

ReceiverInv(x, sent) ==
    /\ x \in ReceiverType
    /\ x.eot \/ x.at = "done" => sent = FileLen

\* What the receiver has acknowledged: its file, and the block it has in hand.
Taken == file \o unwritten

HandInv ==
    /\ file \in Seq(Nat) /\ unwritten \in Seq(Nat)
    /\ unwritten # <<>> => r.at \in {"write", "failed"}
    /\ r.at = "write" => unwritten # <<>>

FileInv ==
    /\ Taken \in Seq(Nat)
    /\ \A i \in 1 .. Len(Taken) : Taken[i] = i
    /\ Len(Taken) <= FileLen

\* The receiver has what the sender knows to be written, or a block more.
Level == r.num = s.num /\ Len(Taken) = s.off
Ahead == r.num = s.num + 1 /\ s.off < FileLen /\ Len(Taken) = EndAt(s.off)

AckDue == Len(Taken) > s.off \/ r.at = "done"

\* The sender does not take to small blocks at the first one's errors; with small
\* blocks only it has nothing to take to.
KeepsSize ==
    Large = 1 \/ (s.at \in {"send", "ack"} /\ s.num = 1 => s.errors < FallsBackAt)

CopyInv ==
    /\ SenderInv(s)
    /\ ReceiverInv(r, s.off)
    /\ FileInv
    /\ Level \/ Ahead
    /\ s.at = "done" => r.at = "done"
    /\ ToRecvInv(toRecv, Len(Taken), r.num, s.off)
    /\ ToSendInv(toSend, AckDue)

-----------------------------------------------------------------------------
(* Lines.                                                                  *)

\* What is left of a line has the messages of the line, in the same order.
LEMMA RestOfLine ==
    ASSUME NEW T, NEW line \in Seq(T), NEW k \in 0 .. Len(line)
    PROVE  /\ Rest(line, k) \in Seq(T)
           /\ Len(Rest(line, k)) = Len(line) - k
           /\ \A i \in 1 .. Len(Rest(line, k)) : i + k \in 1 .. Len(line) /\ Rest(line, k)[i] = line[i + k]
BY DEF Rest

LEMMA RestToRecv ==
    ASSUME NEW line, NEW written \in Nat, NEW n \in Nat, NEW sent \in Nat,
           ToRecvInv(line, written, n, sent),
           NEW k \in 0 .. Len(line)
    PROVE  ToRecvInv(Rest(line, k), written, n, sent)
<1>. DEFINE left == Rest(line, k)
<1>1. line \in Seq(MsgType)
  BY DEF ToRecvInv
<1>2. /\ left \in Seq(MsgType)
      /\ \A i \in 1 .. Len(left) : i + k \in 1 .. Len(line) /\ left[i] = line[i + k]
  BY <1>1, RestOfLine
<1>3. Len(left) \in Nat /\ k \in Nat
  BY <1>1, <1>2
<1>. HIDE DEF left
<1>4. BlocksRight(left, written, n, sent)
  BY <1>2 DEF ToRecvInv, BlocksRight
<1>5. ASSUME NEW i \in 1 .. Len(left), NEW j \in 1 .. Len(left), i < j,
             left[i].t = "block", left[j].t = "block"
      PROVE  left[i].from <= left[j].from
  <2>1. i + k \in 1 .. Len(line) /\ j + k \in 1 .. Len(line) /\ i + k < j + k
    BY <1>2, <1>3, <1>5
  <2>. QED  BY <2>1, <1>2, <1>5 DEF ToRecvInv, BlocksInOrder
<1>6. EotsRight(left, sent)
  BY <1>2 DEF ToRecvInv, EotsRight
<1>7. BlocksInOrder(left)
  BY <1>5 DEF BlocksInOrder
<1>. QED  BY <1>2, <1>4, <1>6, <1>7 DEF ToRecvInv, left

LEMMA RestToSend ==
    ASSUME NEW line, NEW due, ToSendInv(line, due), NEW k \in 0 .. Len(line)
    PROVE  ToSendInv(Rest(line, k), due)
<1>. DEFINE left == Rest(line, k)
<1>1. line \in Seq(AnswerType)
  BY DEF ToSendInv
<1>2. /\ left \in Seq(AnswerType)
      /\ \A i \in 1 .. Len(left) : i + k \in 1 .. Len(line) /\ left[i] = line[i + k]
  BY <1>1, RestOfLine
<1>3. Len(left) \in Nat /\ k \in Nat
  BY <1>1, <1>2
<1>. HIDE DEF left
<1>4. AcksRight(left, due)
  BY <1>2 DEF ToSendInv, AcksRight
<1>5. ASSUME NEW i \in 1 .. Len(left), NEW j \in 1 .. Len(left), i < j
      PROVE  ~(left[i].t = "ACK" /\ left[j].t = "ACK")
  <2>1. i + k \in 1 .. Len(line) /\ j + k \in 1 .. Len(line) /\ i + k < j + k
    BY <1>2, <1>3, <1>5
  <2>. QED  BY <2>1, <1>2 DEF ToSendInv, OneAck
<1>6. OneAck(left)
  BY <1>5 DEF OneAck
<1>. QED  BY <1>2, <1>4, <1>6 DEF ToSendInv, left

\* A message that is no block, and no EOT before its time, may be added.
LEMMA AddToRecv ==
    ASSUME NEW line, NEW written \in Nat, NEW n \in Nat, NEW sent \in Nat,
           ToRecvInv(line, written, n, sent),
           NEW m \in MsgType, m.t # "block", m.t = "EOT" => sent = FileLen
    PROVE  ToRecvInv(Append(line, m), written, n, sent)
<1>. DEFINE more == Append(line, m)
<1>1. line \in Seq(MsgType)
  BY DEF ToRecvInv
<1>2. /\ more \in Seq(MsgType) /\ Len(more) = Len(line) + 1 /\ Len(line) \in Nat
      /\ more[Len(line) + 1] = m
      /\ \A i \in 1 .. Len(line) : more[i] = line[i]
  BY <1>1
<1>. HIDE DEF more
<1>3. \A i \in 1 .. Len(more) : i \in 1 .. Len(line) \/ more[i] = m
  BY <1>2
<1>4. BlocksRight(more, written, n, sent)
  BY <1>2, <1>3 DEF ToRecvInv, BlocksRight
<1>5. BlocksInOrder(more)
  BY <1>2, <1>3 DEF ToRecvInv, BlocksInOrder
<1>6. EotsRight(more, sent)
  BY <1>2, <1>3 DEF ToRecvInv, EotsRight
<1>. QED  BY <1>2, <1>4, <1>5, <1>6 DEF ToRecvInv, more

\* So may any answer but an ACK.
LEMMA AddToSend ==
    ASSUME NEW line, NEW due, ToSendInv(line, due), NEW a \in AnswerType, a.t # "ACK"
    PROVE  ToSendInv(Append(line, a), due)
<1>. DEFINE more == Append(line, a)
<1>1. line \in Seq(AnswerType)
  BY DEF ToSendInv
<1>2. /\ more \in Seq(AnswerType) /\ Len(more) = Len(line) + 1 /\ Len(line) \in Nat
      /\ more[Len(line) + 1] = a
      /\ \A i \in 1 .. Len(line) : more[i] = line[i]
  BY <1>1
<1>. HIDE DEF more
<1>3. \A i \in 1 .. Len(more) : i \in 1 .. Len(line) \/ more[i] = a
  BY <1>2
<1>4. AcksRight(more, due)
  BY <1>2, <1>3 DEF ToSendInv, AcksRight
<1>5. OneAck(more)
  BY <1>2, <1>3 DEF ToSendInv, OneAck
<1>. QED  BY <1>2, <1>4, <1>5 DEF ToSendInv, more

\* An ACK may, when there is none.
LEMMA AddAck ==
    ASSUME NEW line, ToSendInv(line, FALSE)
    PROVE  ToSendInv(Append(line, Control("ACK")), TRUE)
<1>. DEFINE a == Control("ACK")
            more == Append(line, a)
<1>1. line \in Seq(AnswerType) /\ a \in AnswerType
  BY DEF ToSendInv, Control, AnswerType
<1>2. /\ more \in Seq(AnswerType) /\ Len(more) = Len(line) + 1 /\ Len(line) \in Nat
      /\ \A i \in 1 .. Len(line) : more[i] = line[i]
  BY <1>1
<1>. HIDE DEF more
<1>3. \A i \in 1 .. Len(line) : more[i].t # "ACK"
  BY <1>2 DEF ToSendInv, AcksRight
<1>4. OneAck(more)
  BY <1>2, <1>3 DEF OneAck
<1>. QED  BY <1>2, <1>4 DEF ToSendInv, AcksRight, more

\* Division with a remainder.
LEMMA Division ==
    ASSUME NEW n \in Nat, NEW M \in Nat \ {0}
    PROVE  n = M * (n \div M) + (n % M)
BY Z3

\* The number of the next block is not the number of this one.
LEMMA NextNumber ==
    ASSUME NEW n \in Nat, NEW M \in Nat \ {0, 1}
    PROVE  n % M # (n + 1) % M
<1>. DEFINE a == n \div M
            b == (n + 1) \div M
            c == n % M
            d == (n + 1) % M
<1>1. n = M * a + c /\ n + 1 = M * b + d
  BY Division
<1>2. a \in Int /\ b \in Int /\ c \in Int /\ d \in Int
  OBVIOUS
<1>. HIDE DEF a, b, c, d
<1>3. M * (b - a) # 1
  BY <1>2
<1>4. ASSUME c = d
      PROVE  M * b - M * a = 1
  <2>1. M * a \in Int /\ M * b \in Int
    BY <1>2
  <2>. QED  BY <1>1, <1>2, <1>4, <2>1
<1>5. c # d
  BY <1>2, <1>3, <1>4
<1>. QED  BY <1>5 DEF c, d

\* A block has some of the file, and no more than is left of it.
LEMMA EndFits ==
    ASSUME NEW off \in Nat, off < FileLen
    PROVE  /\ LenAt(off) \in Nat \ {0} /\ EndAt(off) \in Nat
           /\ off < EndAt(off) /\ EndAt(off) <= FileLen
BY XmodemAssumption DEF EndAt, LenAt

\* The sender's next block may follow the blocks under way.
LEMMA AddBlock ==
    ASSUME NEW line, NEW written \in Nat, NEW n \in Nat, NEW sent \in Nat,
           ToRecvInv(line, written, n, sent),
           NEW m \in MsgType, m.t = "block", m.from = sent,
           NextBlock(m, written, n) \/ LastBlock(m, written, n)
    PROVE  ToRecvInv(Append(line, m), written, n, sent)
<1>. DEFINE more == Append(line, m)
<1>1. line \in Seq(MsgType)
  BY DEF ToRecvInv
<1>2. /\ more \in Seq(MsgType) /\ Len(more) = Len(line) + 1 /\ Len(line) \in Nat
      /\ more[Len(line) + 1] = m
      /\ \A i \in 1 .. Len(line) : more[i] = line[i]
  BY <1>1
<1>. HIDE DEF more
<1>3. \A i \in 1 .. Len(more) : i \in 1 .. Len(line) \/ more[i] = m
  BY <1>2
<1>4. m.from <= sent
  OBVIOUS
<1>5. BlocksRight(more, written, n, sent)
  BY <1>2, <1>3, <1>4 DEF ToRecvInv, BlocksRight
<1>6. ASSUME NEW i \in 1 .. Len(more), NEW j \in 1 .. Len(more), i < j,
             more[i].t = "block", more[j].t = "block"
      PROVE  more[i].from <= more[j].from
  <2>1. i \in 1 .. Len(line)
    BY <1>2, <1>6
  <2>2. CASE j \in 1 .. Len(line)
    BY <1>2, <1>6, <2>1, <2>2 DEF ToRecvInv, BlocksInOrder
  <2>3. CASE more[j] = m
    BY <1>2, <1>6, <2>1, <2>3 DEF ToRecvInv, BlocksRight
  <2>. QED  BY <1>3, <2>2, <2>3
<1>7. BlocksInOrder(more)
  BY <1>6 DEF BlocksInOrder
<1>8. EotsRight(more, sent)
  BY <1>2, <1>3 DEF ToRecvInv, EotsRight
<1>. QED  BY <1>2, <1>5, <1>7, <1>8 DEF ToRecvInv, more

\* Damage takes a message away and puts noise in its place.
LEMMA DamageToRecv ==
    ASSUME NEW line, NEW written, NEW n, NEW sent, ToRecvInv(line, written, n, sent), line # <<>>
    PROVE  ToRecvInv([line EXCEPT ![1] = Noise], written, n, sent)
<1>. DEFINE bad == [line EXCEPT ![1] = Noise]
<1>1. Noise \in MsgType /\ Noise.t = "noise"
  BY DEF Noise, Control, MsgType
<1>2. line \in Seq(MsgType) /\ Len(line) \in Nat
  BY DEF ToRecvInv
<1>3. /\ bad \in Seq(MsgType) /\ Len(bad) = Len(line)
      /\ \A i \in 1 .. Len(line) : bad[i] = line[i] \/ bad[i] = Noise
  BY <1>1, <1>2
<1>. HIDE DEF bad
<1>4. BlocksRight(bad, written, n, sent)
  BY <1>1, <1>3 DEF ToRecvInv, BlocksRight
<1>5. BlocksInOrder(bad)
  BY <1>1, <1>3 DEF ToRecvInv, BlocksInOrder
<1>6. EotsRight(bad, sent)
  BY <1>1, <1>3 DEF ToRecvInv, EotsRight
<1>. QED  BY <1>3, <1>4, <1>5, <1>6 DEF ToRecvInv, bad

LEMMA DamageToSend ==
    ASSUME NEW line, NEW due, ToSendInv(line, due), line # <<>>
    PROVE  ToSendInv([line EXCEPT ![1] = Noise], due)
<1>. DEFINE bad == [line EXCEPT ![1] = Noise]
<1>1. Noise \in AnswerType /\ Noise.t = "noise"
  BY DEF Noise, Control, AnswerType
<1>2. line \in Seq(AnswerType) /\ Len(line) \in Nat
  BY DEF ToSendInv
<1>3. /\ bad \in Seq(AnswerType) /\ Len(bad) = Len(line)
      /\ \A i \in 1 .. Len(line) : bad[i] = line[i] \/ bad[i] = Noise
  BY <1>1, <1>2
<1>. HIDE DEF bad
<1>4. AcksRight(bad, due)
  BY <1>1, <1>3 DEF ToSendInv, AcksRight
<1>5. OneAck(bad)
  BY <1>1, <1>3 DEF ToSendInv, OneAck
<1>. QED  BY <1>3, <1>4, <1>5 DEF ToSendInv, bad

\* With more due, no less of the line is right.
LEMMA MoreDue ==
    ASSUME NEW line, NEW due, NEW also, ToSendInv(line, due), due => also
    PROVE  ToSendInv(line, also)
BY DEF ToSendInv, AcksRight

\* What the sender may read: after the ACK there is no other.
LEMMA AnswerRead ==
    ASSUME NEW line, NEW due, ToSendInv(line, due), NEW a \in Inputs(line)
    PROVE  /\ ToSendInv(After(line, a), due)
           /\ a.t = "ACK" => due /\ ToSendInv(After(line, a), FALSE)
<1>1. NoInput.t = "NOINP"
  BY DEF NoInput, Control
<1>2. CASE a = NoInput
  BY <1>1, <1>2 DEF After
<1>3. CASE a # NoInput
  <2>1. line # <<>> /\ a = line[1] /\ After(line, a) = Rest(line, 1)
    BY <1>3 DEF Inputs, After
  <2>2. line \in Seq(AnswerType)
    BY DEF ToSendInv
  <2>3. 1 \in 1 .. Len(line) /\ Len(line) \in Nat /\ 1 \in 0 .. Len(line)
    BY <2>1, <2>2
  <2>4. ToSendInv(Rest(line, 1), due)
    BY <2>3, RestToSend
  <2>5. ASSUME a.t = "ACK"
        PROVE  due /\ AcksRight(Rest(line, 1), FALSE)
    <3>1. due
      BY <2>1, <2>3, <2>5 DEF ToSendInv, AcksRight
    <3>2. \A i \in 1 .. Len(Rest(line, 1)) :
              i + 1 \in 1 .. Len(line) /\ Rest(line, 1)[i] = line[i + 1]
      BY <2>2, <2>3, RestOfLine
    <3>3. ASSUME NEW i \in 1 .. Len(Rest(line, 1))
          PROVE  Rest(line, 1)[i].t # "ACK"
      <4>1. i + 1 \in 1 .. Len(line) /\ 1 < i + 1 /\ Rest(line, 1)[i] = line[i + 1]
        BY <3>2, <2>3
      <4>. QED  BY <4>1, <2>1, <2>3, <2>5 DEF ToSendInv, OneAck
    <3>. QED  BY <3>1, <3>3 DEF AcksRight
  <2>. QED  BY <2>1, <2>4, <2>5 DEF ToSendInv
<1>. QED  BY <1>2, <1>3

\* What the receiver may read.
LEMMA MessageRead ==
    ASSUME NEW line, NEW written \in Nat, NEW n \in Nat, NEW sent \in Nat,
           ToRecvInv(line, written, n, sent),
           NEW m \in Inputs(line)
    PROVE  /\ ToRecvInv(After(line, m), written, n, sent)
           /\ m.t = "EOT" => sent = FileLen
           /\ m.t = "block" =>
                 /\ m.from \in Nat /\ m.from <= sent
                 /\ NextBlock(m, written, n) \/ LastBlock(m, written, n)
                 /\ NextBlock(m, written, n) /\ sent = written /\ n > 0 =>
                        ToRecvInv(After(line, m), EndAt(written), n + 1, sent)
<1>1. NoInput.t = "NOINP"
  BY DEF NoInput, Control
<1>2. CASE m = NoInput
  BY <1>1, <1>2 DEF After
<1>3. CASE m # NoInput
  <2>1. line # <<>> /\ m = line[1] /\ After(line, m) = Rest(line, 1)
    BY <1>3 DEF Inputs, After
  <2>2. line \in Seq(MsgType)
    BY DEF ToRecvInv
  <2>3. 1 \in 1 .. Len(line) /\ Len(line) \in Nat /\ 1 \in 0 .. Len(line)
    BY <2>1, <2>2
  <2>. DEFINE left == Rest(line, 1)
  <2>4. ToRecvInv(left, written, n, sent)
    BY <2>3, RestToRecv
  <2>5. m.t = "EOT" => sent = FileLen
    BY <2>1, <2>3 DEF ToRecvInv, EotsRight
  <2>6. m.t = "block" =>
            m.from <= sent /\ (NextBlock(m, written, n) \/ LastBlock(m, written, n))
    BY <2>1, <2>3 DEF ToRecvInv, BlocksRight
  <2>8. m.t = "block" => m.from \in Nat
    BY <2>1, <2>2, <2>3 DEF MsgType
  <2>7. ASSUME m.t = "block", NextBlock(m, written, n), sent = written, n > 0
        PROVE  ToRecvInv(left, EndAt(written), n + 1, sent)
    <3>1. /\ left \in Seq(MsgType)
          /\ \A i \in 1 .. Len(left) : i + 1 \in 1 .. Len(line) /\ left[i] = line[i + 1]
      BY <2>2, <2>3, RestOfLine
    <3>. HIDE DEF left
    <3>5. m.from = written /\ m.from < FileLen
      BY <2>7 DEF NextBlock
    <3>6. written < EndAt(written) /\ EndAt(written) \in Nat
      BY <3>5, EndFits
    <3>2. ASSUME NEW i \in 1 .. Len(left), left[i].t = "block"
          PROVE  left[i].from = written /\ left[i].num = n % Modulus
      <4>1. i + 1 \in 1 .. Len(line) /\ 1 < i + 1 /\ left[i] = line[i + 1]
        BY <3>1, <2>3
      <4>2. line[1].from <= line[i + 1].from
        BY <4>1, <2>1, <2>3, <2>7, <3>2 DEF ToRecvInv, BlocksInOrder
      <4>3. /\ line[i + 1].from <= sent
            /\ NextBlock(line[i + 1], written, n) \/ LastBlock(line[i + 1], written, n)
        BY <4>1, <3>2 DEF ToRecvInv, BlocksRight
      <4>4. line[1].from = written
        BY <2>1, <3>5
      <4>6. line[i + 1] \in MsgType /\ line[i + 1].t = "block"
        BY <2>2, <4>1, <3>2
      <4>7. line[i + 1].from \in Nat
        BY <4>6 DEF MsgType
      <4>8. ~LastBlock(line[i + 1], written, n)
        BY <4>2, <4>4, <4>7 DEF LastBlock
      <4>. QED  BY <4>1, <4>3, <4>8 DEF NextBlock
    <3>3. ASSUME NEW i \in 1 .. Len(left), left[i].t = "block"
          PROVE  left[i].from <= sent /\ LastBlock(left[i], EndAt(written), n + 1)
      <4>1. left[i].from = written /\ left[i].num = n % Modulus
        BY <3>2, <3>3
      <4>2. (n + 1) - 1 = n /\ n + 1 > 1
        BY <2>7
      <4>. QED  BY <4>1, <4>2, <3>6, <2>7 DEF LastBlock
    <3>4. BlocksRight(left, EndAt(written), n + 1, sent)
      BY <3>3 DEF BlocksRight
    <3>. QED  BY <2>4, <3>4 DEF ToRecvInv
  <2>. QED  BY <2>1, <2>4, <2>5, <2>6, <2>7, <2>8
<1>. QED  BY <1>2, <1>3

LEMMA FlushToRecv ==
    ASSUME NEW line, NEW written \in Nat, NEW n \in Nat, NEW sent \in Nat,
           ToRecvInv(line, written, n, sent),
           NEW left \in Flushed(line)
    PROVE  ToRecvInv(left, written, n, sent)
BY RestToRecv DEF Flushed

\* Control characters, by who sends them.
LEMMA Controls ==
    /\ \A t \in {"EOT", "CAN"} : Control(t) \in MsgType /\ Control(t).t = t
    /\ \A t \in {"NAK", "C", "CAN"} : Control(t) \in AnswerType /\ Control(t).t # "ACK"
    /\ \A num, crc : Request(num, crc) \in AnswerType /\ Request(num, crc).t # "ACK"
BY DEF Control, MsgType, AnswerType, Request

-----------------------------------------------------------------------------
(* The sender's steps.                                                     *)

LEMMA CopyTypes ==
    ASSUME CopyInv
    PROVE  /\ Len(Taken) \in Nat /\ s.off \in Nat /\ FileLen \in Nat
           /\ s.num \in Nat \ {0} /\ r.num \in Nat \ {0}
           /\ s \in SenderType /\ r \in ReceiverType
           /\ s.off <= Len(Taken) /\ Len(Taken) <= FileLen
           /\ Level \/ Ahead
<1>1. /\ FileLen \in Nat /\ s \in SenderType /\ s.num > 0 /\ Taken \in Seq(Nat)
      /\ Len(Taken) <= FileLen /\ (Level \/ Ahead) /\ r \in ReceiverType
  BY XmodemAssumption DEF CopyInv, SenderInv, FileInv, ReceiverInv
<1>2. s.off \in Nat /\ s.num \in Nat /\ Len(Taken) \in Nat /\ r.num \in Nat
  BY <1>1 DEF SenderType, ReceiverType
<1>3. s.off <= Len(Taken)
  BY <1>1, <1>2, EndFits DEF Level, Ahead
<1>4. r.num # 0
  BY <1>1, <1>2 DEF Level, Ahead
<1>. QED  BY <1>1, <1>2, <1>3, <1>4

\* With the file the receiver is ahead, or it is not.
LEMMA AheadOrNot ==
    ASSUME CopyInv
    PROVE  /\ Ahead => s.off < Len(Taken) /\ s.off < FileLen
           /\ ~Ahead => Len(Taken) = s.off
<1>. QED  BY CopyTypes, EndFits DEF Level, Ahead

\* The sender reads an ACK only when one is due.
LEMMA AckRead ==
    ASSUME CopyInv, NEW a \in Inputs(toSend), a.t = "ACK"
    PROVE  AckDue /\ ToSendInv(After(toSend, a), FALSE)
<1>1. ToSendInv(toSend, AckDue)
  BY DEF CopyInv
<1>. QED  BY <1>1, AnswerRead, Zenon

\* A step of the sender that has nothing acknowledged.
LEMMA SenderKeeps ==
    ASSUME CopyInv, UNCHANGED <<r, Taken>>, SenderInv(s'), s'.off = s.off, s'.num = s.num,
           s'.at = "done" => r.at = "done",
           ToRecvInv(toRecv', Len(Taken), r.num, s.off), ToSendInv(toSend', AckDue)
    PROVE  CopyInv'
<1>1. ReceiverInv(r, s.off)' /\ FileInv'
  BY DEF CopyInv, ReceiverInv, FileInv
<1>2. Ahead' = Ahead /\ Level' = Level /\ AckDue' = AckDue
  BY DEF AckDue, Ahead, Level
<1>3. ToSendInv(toSend', AckDue')
  BY <1>2
<1>. QED  BY <1>1, <1>2, <1>3 DEF CopyInv

LEMMA SenderGivingUp ==
    ASSUME CopyInv, SenderGivesUp, UNCHANGED <<r, Taken>>, ToSendInv(toSend', AckDue)
    PROVE  CopyInv'
<1>1. SenderInv(s') /\ s'.off = s.off /\ s'.num = s.num /\ s'.at = "failed"
  BY DEF SenderGivesUp, CopyInv, SenderInv, SenderType
<1>2. ToRecvInv(toRecv', Len(Taken), r.num, s.off)
  BY CopyTypes, AddToRecv, Controls DEF SenderGivesUp, CopyInv
<1>. QED  BY <1>1, <1>2, SenderKeeps

LEMMA GetModeKeeps ==
    ASSUME CopyInv, NEW a \in Inputs(toSend), GetMode(a)
    PROVE  CopyInv'
<1>1. ToSendInv(toSend', AckDue) /\ UNCHANGED <<r, Taken>>
  BY AnswerRead DEF Taken, GetMode, CopyInv
<1>2. CASE SenderGivesUp
  BY <1>1, <1>2, SenderGivingUp
<1>3. CASE /\ s' = [s EXCEPT !.at = Onward(0), !.errors = 0, !.crc = (a.t = "C")]
           /\ UNCHANGED toRecv
  <2>1. s.off = 0 /\ s.num = 1 /\ s.at = "mode"
    BY DEF Taken, GetMode, CopyInv, SenderInv
  <2>2. Onward(0) \in {"send", "eot"} /\ (Onward(0) = "send" <=> s.off < FileLen)
        /\ (Onward(0) = "eot" => s.off = FileLen)
    BY <2>1, CopyTypes DEF Onward
  <2>3. s' \in SenderType /\ s'.at = Onward(0) /\ s'.off = s.off
        /\ s'.size = s.size /\ s'.num = s.num
    BY <1>3, <2>2, CopyTypes DEF SenderType
  <2>4. SenderInv(s')
    BY <2>2, <2>3 DEF CopyInv, SenderInv
  <2>5. s'.at # "done"
    BY <2>2, <2>3
  <2>. QED  BY <1>1, <1>3, <2>3, <2>4, <2>5, SenderKeeps DEF CopyInv
<1>4. CASE s' = [s EXCEPT !.errors = @ + 1] /\ UNCHANGED toRecv
  <2>1. SenderInv(s') /\ s'.off = s.off /\ s'.num = s.num /\ s'.at = s.at
    BY <1>4 DEF CopyInv, SenderInv, SenderType
  <2>. QED  BY <1>1, <1>4, <2>1, SenderKeeps DEF CopyInv
<1>. QED  BY <1>2, <1>3, <1>4 DEF Taken, GetMode

LEMMA PutBlockKeeps ==
    ASSUME CopyInv, PutBlock
    PROVE  CopyInv'
<1>1. /\ s.off < FileLen /\ s.off \in Nat /\ s.num \in Nat
      /\ s.size = Large \/ (s.size = 1 /\ FileLen - s.off < Large)
  BY CopyTypes DEF Taken, PutBlock, CopyInv, SenderInv
<1>5. /\ BlockLen = LenAt(s.off) /\ BlockLen \in Nat
      /\ BlockLen = Large \/ (BlockLen = 1 /\ FileLen - s.off < Large)
  BY <1>1, XmodemAssumption DEF BlockLen, LenAt
<1>2. /\ Block \in MsgType /\ Block.t = "block" /\ Block.from = s.off
      /\ Block.len = LenAt(s.off) /\ Block.num = s.num % Modulus
  BY <1>1, <1>5, CopyTypes, XmodemAssumption DEF Block, MsgType, SenderType
<1>6. NextBlock(Block, Len(Taken), r.num) \/ LastBlock(Block, Len(Taken), r.num)
  <2>1. CASE Level
    BY <1>1, <1>2, <2>1 DEF Level, NextBlock
  <2>2. CASE Ahead
    <3>1. s.off < Len(Taken) /\ r.num > 1 /\ r.num - 1 = s.num
      BY <1>1, <2>2, CopyTypes, AheadOrNot DEF Ahead
    <3>. QED  BY <1>2, <3>1 DEF LastBlock
  <2>. QED  BY <2>1, <2>2, CopyTypes
<1>3. ToRecvInv(toRecv', Len(Taken), r.num, s.off)
  BY <1>2, <1>6, CopyTypes, AddBlock DEF Taken, PutBlock, CopyInv
<1>4. SenderInv(s') /\ s'.off = s.off /\ s'.num = s.num /\ s'.at = "ack"
  <2>1. s \in SenderType /\ s.num > 0
    BY DEF CopyInv, SenderInv
  <2>2. s' = [s EXCEPT !.at = "ack", !.tries = 0, !.size = BlockLen, !.len = BlockLen]
    BY DEF Taken, PutBlock
  <2>. HIDE DEF BlockLen
  <2>3. /\ s' \in SenderType /\ s'.at = "ack" /\ s'.off = s.off /\ s'.num = s.num
        /\ s'.size = BlockLen /\ s'.len = BlockLen
    BY <1>5, <2>1, <2>2 DEF SenderType
  <2>. QED  BY <1>1, <1>5, <2>1, <2>3 DEF SenderInv
<1>. QED  BY <1>3, <1>4, SenderKeeps DEF Taken, PutBlock, CopyInv

LEMMA PutEotKeeps ==
    ASSUME CopyInv, PutEot
    PROVE  CopyInv'
<1>1. s.off = FileLen
  BY DEF Taken, PutEot, CopyInv, SenderInv
<1>2. ToRecvInv(toRecv', Len(Taken), r.num, s.off)
  BY <1>1, CopyTypes, AddToRecv, Controls DEF Taken, PutEot, CopyInv
<1>3. ToSendInv(toSend', AckDue)
  BY RestToSend DEF Taken, PutEot, CopyInv
<1>4. SenderInv(s') /\ s'.off = s.off /\ s'.num = s.num /\ s'.at = "eotWait"
  BY <1>1 DEF Taken, PutEot, CopyInv, SenderInv, SenderType
<1>. QED  BY <1>2, <1>3, <1>4, SenderKeeps DEF Taken, PutEot

LEMMA GetEotAckKeeps ==
    ASSUME CopyInv, NEW a \in Inputs(toSend), GetEotAck(a)
    PROVE  CopyInv'
<1>1. ToSendInv(toSend', AckDue) /\ UNCHANGED <<r, Taken>>
  BY AnswerRead DEF Taken, GetEotAck, CopyInv
<1>2. s.off = FileLen
  BY DEF Taken, GetEotAck, CopyInv, SenderInv
<1>3. CASE SenderGivesUp
  BY <1>1, <1>3, SenderGivingUp
<1>4. CASE a.t = "ACK" /\ s' = [s EXCEPT !.at = "done"] /\ UNCHANGED toRecv
  <2>1. AckDue
    BY <1>4, AckRead
  <2>2. r.at = "done"
    BY <1>2, <2>1, CopyTypes, AheadOrNot DEF AckDue
  <2>3. SenderInv(s') /\ s'.off = s.off /\ s'.num = s.num
    BY <1>2, <1>4 DEF CopyInv, SenderInv, SenderType
  <2>. QED  BY <1>1, <1>4, <2>2, <2>3, SenderKeeps DEF CopyInv
<1>5. CASE s' = [s EXCEPT !.at = "eot", !.errors = @ + 1] /\ UNCHANGED toRecv
  <2>1. s' \in SenderType
    <3>1. s \in SenderType /\ s.errors + 1 \in Nat
      BY CopyTypes DEF SenderType
    <3>. QED  BY <1>5, <3>1 DEF SenderType
  <2>3. s'.at = "eot" /\ s'.off = s.off /\ s'.size = s.size /\ s'.num = s.num
    BY <1>5, CopyTypes DEF SenderType
  <2>2. SenderInv(s')
    BY <1>2, <2>1, <2>3 DEF CopyInv, SenderInv
  <2>. QED  BY <1>1, <1>5, <2>2, <2>3, SenderKeeps DEF CopyInv
<1>. QED  BY <1>3, <1>4, <1>5 DEF Taken, GetEotAck

\* The ACK of a block: the receiver has written it, and no EOT is under way.
LEMMA AcknowledgedKeeps ==
    ASSUME CopyInv, NEW a \in Inputs(toSend), s.at = "ack", a.t = "ACK",
           toSend' = After(toSend, a), Acknowledged, UNCHANGED <<toRecv, r, Taken>>
    PROVE  CopyInv'
<1>1. /\ s.off < FileLen /\ s.off + s.len = EndAt(s.off) /\ s.num > 0
      /\ s.size = Large \/ (s.size = 1 /\ FileLen - s.off < Large)
  BY DEF CopyInv, SenderInv, EndAt
<1>2. AckDue /\ ToSendInv(toSend', FALSE)
  BY AckRead
<1>3. ~r.eot /\ r.at # "done"
  BY <1>1, CopyTypes DEF CopyInv, ReceiverInv
<1>4. Len(Taken) = EndAt(s.off) /\ r.num = s.num + 1
  <2>1. Len(Taken) > s.off
    BY <1>2, <1>3 DEF AckDue
  <2>. QED  BY <2>1, CopyTypes, AheadOrNot DEF Ahead
<1>11. EndAt(s.off) \in Nat /\ s.off < EndAt(s.off) /\ EndAt(s.off) <= FileLen
  BY <1>1, CopyTypes, EndFits
<1>. DEFINE end == EndAt(s.off)
            at == Onward(end)
            errors == IF at = "eot" THEN 0 ELSE s.errors
<1>12. /\ at \in {"send", "eot"} /\ errors \in Nat /\ s.num + 1 \in Nat /\ end \in Nat
       /\ at = "send" => end < FileLen
       /\ at = "eot" => end = FileLen
  BY <1>11, CopyTypes DEF Onward, SenderType
<1>13. s' = [s EXCEPT !.at = at, !.num = s.num + 1, !.off = end, !.errors = errors]
  BY <1>1 DEF Acknowledged
<1>. HIDE DEF at, errors, end
<1>5. /\ s' \in SenderType /\ s'.off = end /\ s'.num = s.num + 1 /\ s'.at = at
      /\ s'.size = s.size
  BY <1>12, <1>13, CopyTypes DEF SenderType
<1>14. end = EndAt(s.off)
  BY DEF end
<1>6. SenderInv(s')
  <2>1. s'.size = Large \/ (s'.size = 1 /\ FileLen - s'.off < Large)
    BY <1>1, <1>5, <1>11, <1>14, CopyTypes, XmodemAssumption
  <2>. QED  BY <1>1, <1>5, <1>12, <2>1, CopyTypes DEF SenderInv
<1>7. ToRecvInv(toRecv', Len(Taken), r.num, end)
  <2>1. BlocksRight(toRecv, Len(Taken), r.num, end)
    <3>1. ASSUME NEW i \in 1 .. Len(toRecv), toRecv[i].t = "block"
          PROVE  /\ toRecv[i].from <= end
                 /\ \/ NextBlock(toRecv[i], Len(Taken), r.num)
                    \/ LastBlock(toRecv[i], Len(Taken), r.num)
      <4>1. /\ toRecv[i].from <= s.off
            /\ \/ NextBlock(toRecv[i], Len(Taken), r.num)
               \/ LastBlock(toRecv[i], Len(Taken), r.num)
        BY <3>1 DEF CopyInv, ToRecvInv, BlocksRight
      <4>2. toRecv[i] \in MsgType
        BY DEF CopyInv, ToRecvInv
      <4>3. toRecv[i].from \in Nat
        BY <3>1, <4>2 DEF MsgType
      <4>. QED  BY <4>1, <4>3, <1>11, <1>14, CopyTypes
    <3>. QED  BY <3>1 DEF BlocksRight
  <2>2. EotsRight(toRecv, end)
    BY <1>1, CopyTypes DEF CopyInv, ToRecvInv, EotsRight
  <2>. QED  BY <2>1, <2>2 DEF CopyInv, ToRecvInv
<1>8. ToSendInv(toSend', AckDue')
  BY <1>2, MoreDue
<1>9. ReceiverInv(r, s.off)'
  BY <1>3 DEF CopyInv, ReceiverInv
<1>10. FileInv' /\ Level'
  BY <1>4, <1>5, <1>14 DEF CopyInv, FileInv, Level
<1>15. ToRecvInv(toRecv', Len(Taken)', r.num', s.off')
  BY <1>5, <1>7
<1>16. s'.at # "done"
  BY <1>5, <1>12
<1>. QED  BY <1>6, <1>8, <1>9, <1>10, <1>15, <1>16 DEF CopyInv

LEMMA GetAckKeeps ==
    ASSUME CopyInv, KeepsSize', NEW a \in Inputs(toSend), GetAck(a)
    PROVE  CopyInv'
<1>1. ToSendInv(toSend', AckDue) /\ UNCHANGED <<r, Taken>>
  BY AnswerRead DEF Taken, GetAck, CopyInv
<1>2. CASE SenderGivesUp
  BY <1>1, <1>2, SenderGivingUp
<1>3. CASE a.t = "ACK" /\ Acknowledged /\ UNCHANGED toRecv
  BY <1>3, AcknowledgedKeeps DEF Taken, GetAck
<1>4. CASE s' = [s EXCEPT !.tries = @ + 1] /\ UNCHANGED toRecv
  <2>1. SenderInv(s') /\ s'.off = s.off /\ s'.num = s.num /\ s'.at = s.at
    BY <1>4 DEF CopyInv, SenderInv, SenderType
  <2>. QED  BY <1>1, <1>4, <2>1, SenderKeeps DEF CopyInv
<1>5. CASE SentAgain /\ UNCHANGED toRecv
  <2>1. s.off < FileLen
    BY DEF Taken, GetAck, CopyInv, SenderInv
  <2>. DEFINE size == IF s.errors + 1 = FallsBackAt /\ s.num = 1 THEN 1 ELSE s.size
  <2>5. s' = [s EXCEPT !.at = "send", !.errors = s.errors + 1, !.size = size]
    BY <1>5 DEF SentAgain
  <2>6. s \in SenderType /\ s.errors + 1 \in Nat /\ size \in Nat
    BY CopyTypes DEF SenderType
  <2>8. size = s.size \/ (size = 1 /\ s.num = 1 /\ s.errors + 1 = FallsBackAt)
    OBVIOUS
  <2>. HIDE DEF size
  <2>3. s' \in SenderType /\ s'.at = "send" /\ s'.off = s.off
        /\ s'.size = size /\ s'.num = s.num /\ s'.errors = s.errors + 1
    BY <2>5, <2>6 DEF SenderType
  <2>7. s'.size = Large \/ (s'.size = 1 /\ FileLen - s'.off < Large)
    <3>1. CASE size = s.size
      BY <2>3, <3>1 DEF CopyInv, SenderInv
    <3>2. CASE size = 1 /\ s.num = 1 /\ s.errors + 1 = FallsBackAt
      BY <2>3, <3>2, XmodemAssumption DEF KeepsSize
    <3>. QED  BY <2>8, <3>1, <3>2
  <2>4. SenderInv(s')
    BY <2>1, <2>3, <2>7 DEF CopyInv, SenderInv
  <2>. QED  BY <1>1, <1>5, <2>3, <2>4, SenderKeeps DEF CopyInv
<1>. QED  BY <1>2, <1>3, <1>4, <1>5 DEF Taken, GetAck

LEMMA SenderStepKeeps ==
    ASSUME CopyInv, KeepsSize', Sender
    PROVE  CopyInv'
<1>1. CASE SenderStarts
  <2>1. SenderInv(s') /\ s'.off = s.off /\ s'.num = s.num /\ s'.at = "mode"
    BY <1>1 DEF Taken, SenderStarts, CopyInv, SenderInv, SenderType
  <2>. QED  BY <1>1, <2>1, SenderKeeps DEF Taken, SenderStarts, CopyInv
<1>2. CASE TooManyErrors
  BY <1>2, SenderGivingUp DEF Taken, TooManyErrors, CopyInv
<1>. QED  BY <1>1, <1>2, PutBlockKeeps, PutEotKeeps, GetModeKeeps, GetAckKeeps, GetEotAckKeeps
          DEF Sender

-----------------------------------------------------------------------------
(* The receiver's steps.                                                   *)

\* A step of the receiver that writes nothing.
LEMMA ReceiverKeeps ==
    ASSUME CopyInv, UNCHANGED <<s, Taken>>, r' \in ReceiverType, r'.num = r.num,
           r'.eot \/ r'.at = "done" => s.off = FileLen,
           s.at = "done" => r'.at = "done",
           ToRecvInv(toRecv', Len(Taken), r.num, s.off), ToSendInv(toSend', AckDue')
    PROVE  CopyInv'
<1>1. ReceiverInv(r, s.off)' /\ FileInv' /\ (Level \/ Ahead)'
  BY DEF CopyInv, ReceiverInv, FileInv, Level, Ahead
<1>. QED  BY <1>1 DEF CopyInv

\* While the receiver reads, the sender cannot be done.
LEMMA Reading ==
    ASSUME CopyInv, r.at \in {"idle", "read", "write"}
    PROVE  s.at # "done" /\ (AckDue <=> Len(Taken) > s.off)
BY DEF CopyInv, AckDue

LEMMA StillDue ==
    ASSUME CopyInv, UNCHANGED <<s, Taken>>, r.at \in {"idle", "read", "write"}
    PROVE  ToSendInv(toSend, AckDue')
<1>1. AckDue => AckDue'
  BY Reading DEF AckDue
<1>2. ToSendInv(toSend, AckDue)
  BY DEF CopyInv
<1>. QED  BY <1>1, <1>2 DEF ToSendInv, AcksRight

LEMMA ReceiverStartsKeeps ==
    ASSUME CopyInv, ReceiverStarts
    PROVE  CopyInv'
<1>1. ToRecvInv(toRecv', Len(Taken), r.num, s.off)
  BY CopyTypes, FlushToRecv DEF Taken, ReceiverStarts, CopyInv
<1>2. ToSendInv(toSend', AckDue')
  BY StillDue, AddToSend, Controls DEF Taken, ReceiverStarts
<1>3. /\ r' \in ReceiverType /\ r'.num = r.num /\ r'.at = "read" /\ r'.eot = r.eot
  BY CopyTypes DEF Taken, ReceiverStarts, ReceiverType
<1>4. r.eot => s.off = FileLen
  BY DEF CopyInv, ReceiverInv
<1>. QED  BY <1>1, <1>2, <1>3, <1>4, Reading, ReceiverKeeps DEF Taken, ReceiverStarts

LEMMA SecondPart ==
    ASSUME NEW p \in Seq(Nat), NEW q \in Seq(Nat), NEW i \in Int, i - Len(p) \in 1 .. Len(q)
    PROVE  (p \o q)[i] = q[i - Len(p)]
OBVIOUS

\* The units of a block, written behind those before it.
LEMMA UnitsAdded ==
    ASSUME NEW q \in Seq(Nat), \A i \in 1 .. Len(q) : q[i] = i, NEW k \in Nat,
           NEW more, more = q \o [i \in 1 .. k |-> Len(q) + i]
    PROVE  /\ more \in Seq(Nat) /\ Len(more) = Len(q) + k
           /\ \A i \in 1 .. Len(more) : more[i] = i
<1>. DEFINE add == [i \in 1 .. k |-> Len(q) + i]
<1>1. add \in Seq(Nat) /\ Len(add) = k /\ Len(q) \in Nat
  OBVIOUS
<1>2. \A i \in 1 .. k : add[i] = Len(q) + i
  OBVIOUS
<1>0. more = q \o add
  OBVIOUS
<1>. HIDE DEF add
<1>3. more \in Seq(Nat) /\ Len(more) = Len(q) + k
  BY <1>0, <1>1
<1>4. ASSUME NEW i \in 1 .. Len(q) + k
      PROVE  more[i] = i
  <2>1. CASE i <= Len(q)
    BY <1>0, <1>1, <2>1
  <2>2. CASE i > Len(q)
    <3>1. i - Len(q) \in 1 .. k
      BY <1>1, <2>2
    <3>2. more[i] = add[i - Len(q)]
      <4>1. i \in Int /\ i - Len(q) \in 1 .. Len(add)
        BY <1>1, <3>1
      <4>2. (q \o add)[i] = add[i - Len(q)]
        BY <1>1, <4>1, SecondPart
      <4>. QED  BY <1>0, <4>2
    <3>. QED  BY <1>1, <1>2, <3>1, <3>2
  <2>. QED  BY <1>1, <2>1, <2>2
<1>. QED  BY <1>3, <1>4

LEMMA UnitsOfBlock ==
    ASSUME NEW from \in Nat, NEW k \in Nat \ {0}, NEW q, q = [i \in 1 .. k |-> from + i]
    PROVE  q \in Seq(Nat) /\ q # <<>>
<1>1. \A i \in 1 .. k : from + i \in Nat
  OBVIOUS
<1>2. q \in Seq(Nat) /\ Len(q) = k
  BY <1>1
<1>. QED  BY <1>2

\* With nothing in hand, the file has all that is acknowledged.
LEMMA HandWritten ==
    ASSUME HandInv, r.at \in {"idle", "read", "done"}
    PROVE  unwritten = <<>> /\ Taken = file
<1>1. unwritten = <<>> /\ file \in Seq(Nat)
  BY DEF HandInv
<1>. QED  BY <1>1 DEF Taken

\* The block that is accepted is the next one: the last one has another number.
LEMMA AcceptKeeps ==
    ASSUME CopyInv, HandInv, NEW m \in Inputs(toRecv), Accept(m)
    PROVE  /\ CopyInv'
           /\ Level /\ Len(Taken) < FileLen
           /\ unwritten' \in Seq(Nat) /\ unwritten' # <<>>
<1>1. /\ m.from \in Nat /\ m.from <= s.off
      /\ NextBlock(m, Len(Taken), r.num) \/ LastBlock(m, Len(Taken), r.num)
      /\ NextBlock(m, Len(Taken), r.num) /\ s.off = Len(Taken) =>
             ToRecvInv(toRecv', EndAt(Len(Taken)), r.num + 1, s.off)
  <2>1. m.t = "block" /\ toRecv' = After(toRecv, m)
    BY DEF Accept, Expected, Sound
  <2>2. ToRecvInv(toRecv, Len(Taken), r.num, s.off) /\ Len(Taken) \in Nat /\ s.off \in Nat
        /\ r.num \in Nat /\ r.num > 0
    BY CopyTypes DEF CopyInv
  <2>. QED  BY <2>1, <2>2, MessageRead
<1>2. m.num = r.num % Modulus
  BY DEF Accept, Expected
<1>3. ASSUME LastBlock(m, Len(Taken), r.num)
      PROVE  FALSE
  <2>1. r.num - 1 \in Nat /\ (r.num - 1) + 1 = r.num
    BY CopyTypes
  <2>2. (r.num - 1) % Modulus # r.num % Modulus
    BY <2>1, XmodemAssumption, NextNumber
  <2>. QED  BY <1>2, <1>3, <2>2 DEF LastBlock
<1>4. /\ NextBlock(m, Len(Taken), r.num) /\ m.from = Len(Taken) /\ Len(Taken) < FileLen
      /\ m.len = LenAt(Len(Taken)) /\ Len(Taken) = s.off
  <2>1. NextBlock(m, Len(Taken), r.num)
    BY <1>1, <1>3
  <2>2. m.from = Len(Taken) /\ Len(Taken) < FileLen /\ m.len = LenAt(Len(Taken))
    BY <2>1 DEF NextBlock
  <2>. QED  BY <1>1, <2>1, <2>2, CopyTypes
<1>. DEFINE end == EndAt(Len(Taken))
<1>16. /\ end \in Nat /\ Len(Taken) < end /\ end <= FileLen
       /\ m.len \in Nat \ {0} /\ end = Len(Taken) + m.len
  BY <1>4, CopyTypes, EndFits DEF EndAt
<1>. HIDE DEF end
<1>5. Taken \in Seq(Nat) /\ \A i \in 1 .. Len(Taken) : Taken[i] = i
  BY DEF CopyInv, FileInv
<1>19. Taken = file /\ file' = file /\ Taken' = file' \o unwritten'
  BY HandWritten DEF Accept, Taken
<1>7. /\ Taken' \in Seq(Nat) /\ Len(Taken') = end
      /\ \A i \in 1 .. Len(Taken') : Taken'[i] = i
  <2>1. Taken' = Taken \o [i \in 1 .. m.len |-> Len(Taken) + i]
    BY <1>4, <1>19 DEF Accept, Taken
  <2>2. m.len \in Nat
    BY <1>16
  <2>. QED  BY <1>5, <1>16, <2>1, <2>2, UnitsAdded
<1>6. unwritten' \in Seq(Nat) /\ unwritten' # <<>>
  <2>1. unwritten' = [i \in 1 .. m.len |-> m.from + i]
    BY DEF Accept
  <2>. QED  BY <1>1, <1>16, <2>1, UnitsOfBlock
<1>8. FileInv'
  BY <1>7, <1>16 DEF FileInv
<1>17. Level
  BY <1>4, CopyTypes, AheadOrNot
<1>9. /\ r' \in ReceiverType /\ r'.num = r.num + 1 /\ r'.at = "write" /\ r'.eot = FALSE
  <2>1. r \in ReceiverType /\ r.num + 1 \in Nat
    BY CopyTypes DEF ReceiverType
  <2>. QED  BY <2>1 DEF Accept, ReceiverType
<1>10. ReceiverInv(r, s.off)'
  BY <1>9 DEF ReceiverInv, Accept
<1>18. s' = s /\ Ahead'
  BY <1>4, <1>7, <1>9, <1>17 DEF Accept, Level, Ahead, end
<1>11. AckDue' /\ ToSendInv(toSend', TRUE)
  <2>1. ~AckDue
    BY <1>4, Reading, AheadOrNot, CopyTypes DEF Accept
  <2>2. ToSendInv(toSend, FALSE)
    BY <2>1 DEF CopyInv, ToSendInv, AcksRight
  <2>3. AckDue'
    BY <1>4, <1>7, <1>16, <1>18, CopyTypes DEF AckDue
  <2>. QED  BY <2>2, <2>3, AddAck DEF Accept
<1>12. ToSendInv(toSend', AckDue')
  BY <1>11, MoreDue
<1>13. ToRecvInv(toRecv', Len(Taken'), r'.num, s'.off)
  BY <1>1, <1>4, <1>7, <1>9, <1>18 DEF end
<1>14. s'.at # "done" /\ SenderInv(s')
  BY <1>18, Reading DEF Accept, CopyInv
<1>15. CopyInv'
  BY <1>8, <1>10, <1>12, <1>13, <1>14, <1>18 DEF CopyInv
<1>. QED  BY <1>4, <1>6, <1>15, <1>17

\* Writing it changes nothing of what is acknowledged.
LEMMA WriteKeeps ==
    ASSUME CopyInv, HandInv, Write
    PROVE  /\ CopyInv'
           /\ Len(file') \in Len(file) + 1 .. FileLen
           /\ file' = [i \in 1 .. Len(file') |-> i]
<1>1. /\ r.at = "write" /\ r' = [r EXCEPT !.at = "read"]
      /\ UNCHANGED <<toRecv, toSend, s>> /\ file' = Taken /\ unwritten' = <<>>
  BY DEF Write, Taken
<1>2. /\ file \in Seq(Nat) /\ unwritten \in Seq(Nat) /\ unwritten # <<>>
      /\ Taken \in Seq(Nat) /\ Len(Taken) <= FileLen
      /\ \A i \in 1 .. Len(Taken) : Taken[i] = i
  BY <1>1 DEF HandInv, CopyInv, FileInv
<1>3. Taken' = Taken
  <2>1. Taken' = Taken \o <<>>
    BY <1>1 DEF Taken
  <2>. QED  BY <1>2, <2>1
<1>4. r' \in ReceiverType /\ r'.num = r.num /\ r'.at = "read" /\ r'.eot = r.eot
  BY <1>1, CopyTypes DEF ReceiverType
<1>5. r.eot => s.off = FileLen
  BY DEF CopyInv, ReceiverInv
<1>6. ToRecvInv(toRecv', Len(Taken), r.num, s.off)
  BY <1>1 DEF CopyInv
<1>7. ToSendInv(toSend', AckDue')
  BY <1>1, <1>3, StillDue
<1>8. CopyInv'
  BY <1>1, <1>3, <1>4, <1>5, <1>6, <1>7, Reading, ReceiverKeeps
<1>9. Len(Taken) = Len(file) + Len(unwritten) /\ Len(unwritten) > 0 /\ Len(file) \in Nat
  BY <1>2 DEF Taken
<1>10. Taken = [i \in 1 .. Len(Taken) |-> i]
  <2>1. DOMAIN Taken = 1 .. Len(Taken) /\ Taken = [i \in DOMAIN Taken |-> Taken[i]]
    BY <1>2
  <2>. QED  BY <1>2, <2>1
<1>11. Len(Taken) \in Len(file) + 1 .. FileLen
  BY <1>2, <1>9, CopyTypes
<1>. QED  BY <1>1, <1>8, <1>10, <1>11

LEMMA WriteFailsKeeps ==
    ASSUME CopyInv, WriteFails
    PROVE  CopyInv'
<1>1. /\ r.at = "write" /\ r' = [r EXCEPT !.at = "failed"]
      /\ UNCHANGED <<toRecv, s, Taken>> /\ toSend' = Append(toSend, Control("CAN"))
  BY DEF WriteFails, Taken
<1>2. ToRecvInv(toRecv', Len(Taken), r.num, s.off)
  BY <1>1 DEF CopyInv
<1>3. r' \in ReceiverType /\ r'.num = r.num /\ r'.at = "failed" /\ r'.eot = r.eot
  BY <1>1, CopyTypes DEF ReceiverType
<1>4. ToSendInv(toSend, AckDue')
  BY <1>1, StillDue
<1>5. ToSendInv(toSend', AckDue')
  BY <1>1, <1>4, AddToSend, Controls
<1>6. r.eot => s.off = FileLen
  BY DEF CopyInv, ReceiverInv
<1>. QED  BY <1>1, <1>2, <1>3, <1>5, <1>6, Reading, ReceiverKeeps

LEMMA DiscardKeeps ==
    ASSUME CopyInv, NEW m \in Inputs(toRecv), Discard(m)
    PROVE  CopyInv'
<1>1. ToRecvInv(toRecv', Len(Taken), r.num, s.off)
  BY CopyTypes, MessageRead DEF Taken, Discard, CopyInv
<1>2. ToSendInv(toSend', AckDue')
  BY StillDue DEF Taken, Discard
<1>3. r' \in ReceiverType /\ r'.num = r.num /\ r'.at = "read" /\ r'.eot = FALSE
  <2>1. r \in ReceiverType /\ r.pass + 1 \in Nat
    BY CopyTypes DEF ReceiverType
  <2>. QED  BY <2>1 DEF Taken, Discard, ReceiverType
<1>. QED  BY <1>1, <1>2, <1>3, Reading, ReceiverKeeps DEF Taken, Discard

LEMMA RefuseEotKeeps ==
    ASSUME CopyInv, NEW m \in Inputs(toRecv), RefuseEot(m)
    PROVE  CopyInv'
<1>1. ToRecvInv(After(toRecv, m), Len(Taken), r.num, s.off) /\ s.off = FileLen
  BY CopyTypes, MessageRead DEF Taken, RefuseEot, CopyInv
<1>2. ToRecvInv(toRecv', Len(Taken), r.num, s.off)
  BY <1>1, CopyTypes, FlushToRecv DEF Taken, RefuseEot
<1>3. ToSendInv(toSend', AckDue')
  BY StillDue, AddToSend, Controls DEF Taken, RefuseEot
<1>4. r' \in ReceiverType /\ r'.num = r.num /\ r'.at = "read"
  <2>1. r \in ReceiverType /\ r.pass + 1 \in Nat
    BY CopyTypes DEF ReceiverType
  <2>. QED  BY <2>1 DEF Taken, RefuseEot, ReceiverType
<1>. QED  BY <1>1, <1>2, <1>3, <1>4, Reading, ReceiverKeeps DEF Taken, RefuseEot

\* At the end of the text every block is acknowledged, so the ACK is the only one.
LEMMA AcceptEotKeeps ==
    ASSUME CopyInv, NEW m \in Inputs(toRecv), AcceptEot(m)
    PROVE  CopyInv' /\ Len(Taken) = FileLen
<1>1. ToRecvInv(After(toRecv, m), Len(Taken), r.num, s.off)
  BY CopyTypes, MessageRead DEF CopyInv
<1>2. ToRecvInv(toRecv', Len(Taken), r.num, s.off)
  BY <1>1, CopyTypes, FlushToRecv DEF Taken, AcceptEot
<1>3. s.off = FileLen
  BY DEF Taken, AcceptEot, CopyInv, ReceiverInv
<1>4. Len(Taken) = s.off
  BY <1>3, CopyTypes
<1>5. r' \in ReceiverType /\ r'.num = r.num /\ r'.at = "done"
  BY CopyTypes DEF Taken, AcceptEot, ReceiverType
<1>6. AckDue'
  BY <1>5 DEF AckDue
<1>7. ToSendInv(toSend', TRUE)
  <2>1. ~AckDue
    BY <1>4, Reading, CopyTypes DEF Taken, AcceptEot
  <2>2. ToSendInv(toSend, FALSE)
    BY <2>1 DEF CopyInv, ToSendInv, AcksRight
  <2>. QED  BY <2>2, AddAck DEF Taken, AcceptEot
<1>8. ToSendInv(toSend', AckDue')
  BY <1>6, <1>7, MoreDue
<1>. QED  BY <1>2, <1>3, <1>4, <1>5, <1>8, Reading, ReceiverKeeps DEF Taken, AcceptEot

LEMMA CancelledKeeps ==
    ASSUME CopyInv, NEW m \in Inputs(toRecv), Cancelled(m)
    PROVE  CopyInv'
<1>1. ToRecvInv(toRecv', Len(Taken), r.num, s.off)
  BY CopyTypes, MessageRead DEF Taken, Cancelled, CopyInv
<1>2. ToSendInv(toSend', AckDue')
  BY StillDue DEF Taken, Cancelled
<1>3. r' \in ReceiverType /\ r'.num = r.num /\ r'.at = "failed" /\ r'.eot = r.eot
  BY CopyTypes DEF Taken, Cancelled, ReceiverType
<1>4. r.eot => s.off = FileLen
  BY DEF CopyInv, ReceiverInv
<1>. QED  BY <1>1, <1>2, <1>3, <1>4, Reading, ReceiverKeeps DEF Taken, Cancelled

\* The answers to what is no block: one or two, neither an ACK.
LEMMA Refusals ==
    ASSUME CopyInv, UNCHANGED <<s, Taken>>, r.at = "read", NEW m,
           NEW a \in AnswerType, a.t # "ACK",
           toSend' = toSend \o RefusedBefore(m) \o <<a>>
    PROVE  ToSendInv(toSend', AckDue')
<1>1. ToSendInv(toSend, AckDue')
  BY StillDue
<1>2. toSend \in Seq(AnswerType)
  BY <1>1 DEF ToSendInv
<1>3. CASE RefusedBefore(m) = <<>>
  <2>1. toSend' = Append(toSend, a)
    BY <1>2, <1>3
  <2>. QED  BY <1>1, <2>1, AddToSend
<1>4. CASE RefusedBefore(m) # <<>>
  <2>. DEFINE q == Request(r.num, r.crc)
  <2>1. RefusedBefore(m) = <<q>> /\ q \in AnswerType /\ q.t # "ACK"
    BY <1>4, Controls DEF RefusedBefore
  <2>. HIDE DEF q
  <2>2. toSend' = Append(Append(toSend, q), a)
    BY <1>2, <2>1
  <2>3. ToSendInv(Append(toSend, q), AckDue')
    BY <1>1, <2>1, AddToSend
  <2>. QED  BY <2>2, <2>3, AddToSend
<1>. QED  BY <1>3, <1>4

LEMMA AskAgainKeeps ==
    ASSUME CopyInv, NEW m \in Inputs(toRecv), AskAgain(m)
    PROVE  CopyInv'
<1>1. ToRecvInv(After(toRecv, m), Len(Taken), r.num, s.off)
  BY CopyTypes, MessageRead DEF CopyInv
<1>2. ToRecvInv(toRecv', Len(Taken), r.num, s.off)
  BY <1>1, CopyTypes, FlushToRecv DEF Taken, AskAgain
<1>. DEFINE crc == ModeAfter(r.errors + 1)
<1>4. r' \in ReceiverType /\ r'.num = r.num /\ r'.at = "read" /\ r'.eot = FALSE
  <2>1. r \in ReceiverType /\ r.errors + 1 \in Nat /\ crc \in BOOLEAN
    BY CopyTypes DEF ReceiverType, ModeAfter
  <2>. HIDE DEF crc
  <2>2. r' = [r EXCEPT !.errors = r.errors + 1, !.pass = 0, !.eot = FALSE, !.crc = crc]
    BY DEF Taken, AskAgain, crc
  <2>3. r.at = "read"
    BY DEF Taken, AskAgain
  <2>. QED  BY <2>1, <2>2, <2>3 DEF ReceiverType
<1>3. ToSendInv(toSend', AckDue')
  BY <1>4, Refusals, Controls DEF Taken, AskAgain
<1>. QED  BY <1>2, <1>3, <1>4, Reading, ReceiverKeeps DEF Taken, AskAgain

LEMMA ReceiverGivesUpKeeps ==
    ASSUME CopyInv, NEW m \in Inputs(toRecv), ReceiverGivesUp(m)
    PROVE  CopyInv'
<1>1. ToRecvInv(toRecv', Len(Taken), r.num, s.off)
  BY CopyTypes, MessageRead DEF Taken, CopyInv, ReceiverGivesUp
<1>3. r' \in ReceiverType /\ r'.num = r.num /\ r'.at = "failed" /\ r'.eot = r.eot
  BY CopyTypes DEF Taken, ReceiverGivesUp, ReceiverType
<1>2. ToSendInv(toSend', AckDue')
  BY <1>3, Refusals, Controls DEF Taken, ReceiverGivesUp
<1>4. r.eot => s.off = FileLen
  BY DEF CopyInv, ReceiverInv
<1>. QED  BY <1>1, <1>2, <1>3, <1>4, Reading, ReceiverKeeps DEF Taken, ReceiverGivesUp

LEMMA ReceiverStepKeeps ==
    ASSUME CopyInv, HandInv, Receiver
    PROVE  CopyInv'
BY ReceiverStartsKeeps, AcceptKeeps, WriteKeeps, WriteFailsKeeps, DiscardKeeps, RefuseEotKeeps, AcceptEotKeeps,
   CancelledKeeps, AskAgainKeeps, ReceiverGivesUpKeeps DEF Receiver

-----------------------------------------------------------------------------
(* The theorems.                                                           *)

LEMMA LineStepKeeps ==
    ASSUME CopyInv, Line
    PROVE  CopyInv'
<1>1. /\ UNCHANGED <<s, r, Taken>>
      /\ Level' = Level /\ Ahead' = Ahead /\ AckDue' = AckDue
  BY DEF Taken, Line, LoseBlock, DamageBlock, LoseAnswer, DamageAnswer, AckDue, Level, Ahead
<1>2. ToRecvInv(toRecv', Len(Taken), r.num, s.off)
  <2>1. CASE LoseBlock
    <3>1. 1 \in 0 .. Len(toRecv)
      BY <2>1 DEF Taken, LoseBlock, CopyInv, ToRecvInv
    <3>. QED  BY <2>1, <3>1, CopyTypes, RestToRecv DEF Taken, LoseBlock, CopyInv
  <2>2. CASE DamageBlock
    BY <2>2, DamageToRecv DEF Taken, DamageBlock, CopyInv
  <2>. QED  BY <2>1, <2>2 DEF Taken, Line, LoseAnswer, DamageAnswer, CopyInv
<1>3. ToSendInv(toSend', AckDue)
  <2>1. CASE LoseAnswer
    <3>1. 1 \in 0 .. Len(toSend)
      BY <2>1 DEF Taken, LoseAnswer, CopyInv, ToSendInv
    <3>. QED  BY <2>1, <3>1, RestToSend DEF Taken, LoseAnswer, CopyInv
  <2>2. CASE DamageAnswer
    BY <2>2, DamageToSend DEF Taken, DamageAnswer, CopyInv
  <2>. QED  BY <2>1, <2>2 DEF Taken, Line, LoseBlock, DamageBlock, CopyInv
<1>4. SenderInv(s') /\ ReceiverInv(r, s.off)' /\ FileInv' /\ (s.at = "done" => r.at = "done")
  BY <1>1 DEF CopyInv, ReceiverInv, FileInv
<1>. QED  BY <1>1, <1>2, <1>3, <1>4 DEF CopyInv

LEMMA CopyInit ==
    ASSUME Init
    PROVE  CopyInv
<1>1. s.off = 0 /\ s.num = 1 /\ SenderInv(s)
  BY XmodemAssumption DEF Taken, Init, SenderInv, SenderType
<1>2. r.at = "idle" /\ r.num = 1 /\ ReceiverInv(r, s.off)
  BY DEF Taken, Init, ReceiverInv, ReceiverType
<1>3. FileInv /\ Level
  BY <1>1, <1>2, XmodemAssumption DEF Taken, Init, FileInv, Level
<1>4. ToRecvInv(toRecv, Len(Taken), r.num, s.off) /\ ToSendInv(toSend, AckDue)
  BY DEF Taken, Init, ToRecvInv, BlocksRight, BlocksInOrder, EotsRight, ToSendInv, AcksRight, OneAck
<1>. QED  BY <1>1, <1>2, <1>3, <1>4 DEF Taken, CopyInv, Init

\* What the receiver has in hand it has while it writes, or has failed to.
LEMMA HandStep ==
    ASSUME CopyInv, HandInv, [Next]_vars
    PROVE  HandInv'
<1>1. r \in ReceiverType
  BY CopyTypes
<1>2. CASE \E m \in Inputs(toRecv) : Accept(m)
  <2>1. PICK m \in Inputs(toRecv) : Accept(m)
    BY <1>2
  <2>2. unwritten' \in Seq(Nat) /\ unwritten' # <<>>
    BY <2>1, AcceptKeeps
  <2>3. r'.at = "write" /\ file' = file
    BY <1>1, <2>1 DEF Accept, ReceiverType
  <2>. QED  BY <2>2, <2>3 DEF HandInv
<1>3. CASE Write
  <2>1. r'.at = "read" /\ file' = file \o unwritten /\ unwritten' = <<>>
    BY <1>1, <1>3 DEF Write, ReceiverType
  <2>2. file \o unwritten \in Seq(Nat)
    BY DEF HandInv
  <2>. QED  BY <2>1, <2>2 DEF HandInv
<1>4. CASE WriteFails
  <2>1. r'.at = "failed" /\ UNCHANGED <<file, unwritten>>
    BY <1>1, <1>4 DEF WriteFails, ReceiverType
  <2>. QED  BY <2>1 DEF HandInv
<1>5. CASE /\ UNCHANGED <<file, unwritten>>
           /\ r' = r \/ (r.at \in {"idle", "read"} /\ r'.at \in {"read", "done", "failed"})
  BY <1>5 DEF HandInv
<1>6. CASE Sender \/ Line \/ UNCHANGED vars
  <2>1. UNCHANGED <<r, file, unwritten>>
    BY <1>6 DEF Sender, SenderStarts, PutBlock, TooManyErrors, PutEot, GetMode, GetAck, GetEotAck,
         Line, LoseBlock, DamageBlock, LoseAnswer, DamageAnswer, vars
  <2>. QED  BY <2>1, <1>5
<1>7. CASE \/ ReceiverStarts
           \/ \E m \in Inputs(toRecv) :
                  \/ Discard(m) \/ RefuseEot(m) \/ AcceptEot(m) \/ Cancelled(m) \/ AskAgain(m)
                  \/ ReceiverGivesUp(m)
  <2>1. /\ UNCHANGED <<file, unwritten>> /\ r.at \in {"idle", "read"}
        /\ r'.at \in {"read", "done", "failed"}
    BY <1>1, <1>7 DEF ReceiverStarts, Discard, RefuseEot, AcceptEot, Cancelled, AskAgain,
         ReceiverGivesUp, ReceiverType
  <2>. QED  BY <2>1, <1>5
<1>. QED  BY <1>2, <1>3, <1>4, <1>6, <1>7 DEF Next, Receiver

LEMMA CopyStep ==
    ASSUME CopyInv, HandInv, KeepsSize', [Next]_vars
    PROVE  CopyInv' /\ HandInv'
<1>1. ASSUME UNCHANGED vars
      PROVE  CopyInv'
  BY <1>1 DEF Taken, vars, CopyInv, ReceiverInv, FileInv, AckDue, Level, Ahead
<1>2. CopyInv'
  BY <1>1, SenderStepKeeps, ReceiverStepKeeps, LineStepKeeps DEF Next
<1>. QED  BY <1>2, HandStep

LEMMA CopyInvariant == Spec /\ []KeepsSize => [](CopyInv /\ HandInv)
<1>1. Init => HandInv
  BY DEF Init, HandInv
<1>. QED  BY <1>1, CopyInit, CopyStep, PTL DEF Spec

\* As long as the sender does not take to small blocks for the sake of errors
\* (src/sbbs3/xmodem.c:578), the receiver's file is the beginning of the one that is
\* sent, and it has what the sender takes for acknowledged, but for a block that the
\* receiver is about to write or has failed to (src/sbbs3/sexyz.c:1302): no ACK is ever
\* taken for that of another block (xmodem_get_ack(), xmodem_get_block()).
THEOREM CopySafe == Spec /\ []KeepsSize => []CopyRight
<1>1. ASSUME CopyInv, HandInv
      PROVE  CopyRight
  <2>1. /\ file \in Seq(Nat) /\ unwritten \in Seq(Nat)
        /\ \A i \in 1 .. Len(Taken) : Taken[i] = i
    BY <1>1 DEF HandInv, CopyInv, FileInv
  <2>2. Len(Taken) = Len(file) + Len(unwritten) /\ Len(file) \in Nat /\ Len(unwritten) \in Nat
    BY <2>1 DEF Taken
  <2>3. \A i \in 1 .. Len(file) : Taken[i] = file[i]
    BY <2>1 DEF Taken
  <2>4. \A i \in 1 .. Len(file) : file[i] = i
    BY <2>1, <2>2, <2>3
  <2>5. s.off <= Len(Taken) /\ s.off \in Nat
    BY <1>1, CopyTypes
  <2>6. s.off > Len(file) => unwritten # <<>>
    BY <2>2, <2>5
  <2>7. s.off > Len(file) => r.at \in {"write", "failed"}
    BY <1>1, <2>6 DEF HandInv
  <2>. QED  BY <2>2, <2>4, <2>5, <2>7 DEF CopyRight
<1>. QED  BY <1>1, CopyInvariant, PTL

LEMMA SenderMaps ==
    ASSUME CopyInv, CopyInv', Sender
    PROVE  Copy!SenderEnds \/ UNCHANGED Copy!copyVars
<1>1. UNCHANGED <<r, file>> /\ ~SenderStopped
  BY DEF Sender, SenderStarts, PutBlock, TooManyErrors, PutEot, GetMode, GetAck, GetEotAck,
         SenderStopped
<1>2. s'.at = "done" => r.at = "done"
  BY <1>1 DEF CopyInv
<1>3. Outcome(s.at) = "busy" /\ Outcome(s'.at) \in {"busy", "ok", "failed"}
  BY <1>1 DEF SenderStopped, Outcome
<1>4. Outcome(s'.at) = "ok" => Outcome(r.at) = "ok"
  BY <1>2 DEF Outcome
<1>5. Outcome(r'.at) = Outcome(r.at) /\ file' = file
  BY <1>1
<1>. QED  BY <1>3, <1>4, <1>5 DEF Copy!SenderEnds, Copy!copyVars

LEMMA ReceiverMaps ==
    ASSUME CopyInv, HandInv, CopyInv', Receiver
    PROVE  Copy!Write \/ Copy!ReceiverEnds \/ UNCHANGED Copy!copyVars
<1>1. UNCHANGED s /\ ~ReceiverStopped
  BY DEF Receiver, ReceiverStarts, Accept, Write, WriteFails, Discard, RefuseEot, AcceptEot,
         Cancelled, AskAgain, ReceiverGivesUp, ReceiverStopped
<1>2. Outcome(r.at) = "busy" /\ Outcome(r'.at) \in {"busy", "ok", "failed"}
  BY <1>1 DEF ReceiverStopped, Outcome
<1>3. Outcome(s'.at) = Outcome(s.at)
  BY <1>1
<1>4. CASE Write
  <2>1. \E n \in Len(file) + 1 .. FileLen : file' = [i \in 1 .. n |-> i]
    BY <1>4, WriteKeeps
  <2>2. r'.at = "read"
    BY <1>4, CopyTypes DEF Write, ReceiverType
  <2>3. Outcome(r'.at) = "busy"
    BY <2>2 DEF Outcome
  <2>. QED  BY <1>2, <1>3, <2>1, <2>3 DEF Copy!Write
<1>5. CASE UNCHANGED file /\ r'.at # "done"
  <2>1. Outcome(r'.at) # "ok"
    BY <1>5 DEF Outcome
  <2>. QED  BY <1>2, <1>3, <1>5, <2>1 DEF Copy!ReceiverEnds, Copy!copyVars
<1>6. CASE \E m \in Inputs(toRecv) : AcceptEot(m)
  <2>1. PICK m \in Inputs(toRecv) : AcceptEot(m)
    BY <1>6
  <2>2. r.at = "read" /\ UNCHANGED file
    BY <2>1 DEF AcceptEot
  <2>3. Len(file) = FileLen
    BY <2>1, <2>2, AcceptEotKeeps, HandWritten
  <2>. QED  BY <1>2, <1>3, <2>2, <2>3 DEF Copy!ReceiverEnds, Copy!copyVars
<1>7. CASE \/ ReceiverStarts \/ WriteFails
           \/ \E m \in Inputs(toRecv) :
                  \/ Accept(m) \/ Discard(m) \/ RefuseEot(m) \/ Cancelled(m) \/ AskAgain(m)
                  \/ ReceiverGivesUp(m)
  <2>1. r \in ReceiverType
    BY CopyTypes
  <2>2. UNCHANGED file /\ r'.at # "done"
    BY <1>7, <2>1 DEF ReceiverStarts, WriteFails, Accept, Discard, RefuseEot, Cancelled, AskAgain,
         ReceiverGivesUp, ReceiverType
  <2>. QED  BY <1>5, <2>2
<1>. QED  BY <1>4, <1>6, <1>7 DEF Receiver

\* So long the transfer is a file copy: either side reports success for the whole
\* file only, the receiver before the sender.
THEOREM CopyImplements == Spec /\ []KeepsSize => IsFileCopy
<1>1. Init => Copy!Init
  BY DEF Init, Copy!Init, Outcome
<1>2. ASSUME CopyInv, HandInv, CopyInv', [Next]_vars
      PROVE  [Copy!Write \/ Copy!ReceiverEnds \/ Copy!SenderEnds]_Copy!copyVars
  <2>1. CASE Sender
    BY <1>2, <2>1, SenderMaps
  <2>2. CASE Receiver
    BY <1>2, <2>2, ReceiverMaps
  <2>3. CASE Line \/ UNCHANGED vars
    BY <2>3 DEF Line, LoseBlock, DamageBlock, LoseAnswer, DamageAnswer, vars, Copy!copyVars
  <2>. QED  BY <1>2, <2>1, <2>2, <2>3 DEF Next
<1>. QED  BY <1>1, <1>2, CopyInvariant, PTL DEF Spec, IsFileCopy, Copy!Spec

-----------------------------------------------------------------------------
(* What is on a line: its noise, its ACK, and what is asked on it.         *)

NoiseAt(line) == {i \in 1 .. Len(line) : line[i].t = "noise"}
Noises(line) == Cardinality(NoiseAt(line))

One(b) == IF b THEN 1 ELSE 0
HasAck(line) == \E i \in 1 .. Len(line) : line[i].t = "ACK"
Asked(line) == Len(line) - One(HasAck(line))

\* The noise on a line can be counted.
LEMMA NoisesFinite ==
    ASSUME NEW T, NEW line \in Seq(T)
    PROVE  /\ NoiseAt(line) \in SUBSET (1 .. Len(line))
           /\ IsFiniteSet(NoiseAt(line)) /\ Noises(line) \in Nat
<1>1. Len(line) \in Nat /\ Len(line) \in Int /\ 1 \in Int
  OBVIOUS
<1>2. IsFiniteSet(1 .. Len(line))
  BY <1>1, FS_Interval
<1>3. NoiseAt(line) \in SUBSET (1 .. Len(line))
  BY DEF NoiseAt
<1>4. IsFiniteSet(NoiseAt(line))
  BY <1>2, <1>3, FS_Subset
<1>. QED  BY <1>3, <1>4, FS_CardinalityType DEF Noises

\* A line has no more noise than one where its noise is found again.
LEMMA NoisesMoved ==
    ASSUME NEW T, NEW line \in Seq(T), NEW left \in Seq(T), NEW k \in Nat,
           \A i \in NoiseAt(left) : i + k \in NoiseAt(line)
    PROVE  /\ Noises(left) <= Noises(line)
           /\ (\E j \in NoiseAt(line) : j <= k) => Noises(left) < Noises(line)
<1>. DEFINE f == [i \in NoiseAt(left) |-> i + k]
<1>1. IsFiniteSet(NoiseAt(line)) /\ Noises(line) \in Nat /\ Noises(left) \in Nat
  BY NoisesFinite
<1>2. NoiseAt(left) \in SUBSET (1 .. Len(left)) /\ Len(left) \in Nat
  BY NoisesFinite
<1>3. \A i, j \in NoiseAt(left) : f[i] = f[j] => i = j
  BY <1>2
<1>4. f \in [NoiseAt(left) -> NoiseAt(line)]
  OBVIOUS
<1>5. f \in Injection(NoiseAt(left), NoiseAt(line))
  BY <1>3, <1>4 DEF Injection, IsInjective
<1>6. /\ Noises(left) <= Noises(line)
      /\ Noises(left) = Noises(line) <=> f \in Surjection(NoiseAt(left), NoiseAt(line))
  BY <1>1, <1>5, FS_Injection DEF Noises
<1>7. ASSUME NEW j \in NoiseAt(line), j <= k
      PROVE  Noises(left) < Noises(line)
  <2>1. \A i \in NoiseAt(left) : f[i] # j
    BY <1>2, <1>7
  <2>2. f \notin Surjection(NoiseAt(left), NoiseAt(line))
    BY <2>1, <1>7 DEF Surjection
  <2>. QED  BY <1>1, <1>6, <2>2
<1>. QED  BY <1>6, <1>7

LEMMA NoisesOfRest ==
    ASSUME NEW T, NEW line \in Seq(T), NEW k \in 0 .. Len(line)
    PROVE  /\ Noises(Rest(line, k)) <= Noises(line)
           /\ k > 0 /\ line[1].t = "noise" => Noises(Rest(line, k)) < Noises(line)
<1>. DEFINE left == Rest(line, k)
<1>1. /\ left \in Seq(T) /\ k \in Nat /\ Len(line) \in Nat
      /\ \A i \in 1 .. Len(left) : i + k \in 1 .. Len(line) /\ left[i] = line[i + k]
  BY RestOfLine
<1>. HIDE DEF left
<1>2. \A i \in NoiseAt(left) : i + k \in NoiseAt(line)
  BY <1>1 DEF NoiseAt
<1>3. k > 0 /\ line[1].t = "noise" => \E j \in NoiseAt(line) : j <= k
  BY <1>1 DEF NoiseAt
<1>. QED  BY <1>1, <1>2, <1>3, NoisesMoved DEF left

LEMMA NoisesOfMore ==
    ASSUME NEW T, NEW line \in Seq(T), NEW m \in T, m.t # "noise"
    PROVE  Noises(Append(line, m)) <= Noises(line)
<1>. DEFINE more == Append(line, m)
<1>1. /\ more \in Seq(T) /\ Len(more) = Len(line) + 1 /\ Len(line) \in Nat
      /\ more[Len(line) + 1] = m
      /\ \A i \in 1 .. Len(line) : more[i] = line[i]
  OBVIOUS
<1>. HIDE DEF more
<1>2. \A i \in NoiseAt(more) : i + 0 \in NoiseAt(line)
  BY <1>1 DEF NoiseAt
<1>. QED  BY <1>1, <1>2, NoisesMoved DEF more

LEMMA NoisesOfDamage ==
    ASSUME NEW T, NEW line \in Seq(T), line # <<>>, Noise \in T
    PROVE  Noises([line EXCEPT ![1] = Noise]) <= Noises(line) + 1
<1>. DEFINE bad == [line EXCEPT ![1] = Noise]
<1>1. bad \in Seq(T) /\ Len(bad) = Len(line) /\ \A i \in 1 .. Len(line) : i # 1 => bad[i] = line[i]
  OBVIOUS
<1>. HIDE DEF bad
<1>2. NoiseAt(bad) \in SUBSET (NoiseAt(line) \cup {1})
  BY <1>1 DEF NoiseAt
<1>3. IsFiniteSet(NoiseAt(line)) /\ Noises(line) \in Nat
  BY NoisesFinite
<1>4. /\ IsFiniteSet(NoiseAt(line) \cup {1})
      /\ Cardinality(NoiseAt(line) \cup {1}) <= Noises(line) + 1
  <2>1. /\ IsFiniteSet(NoiseAt(line) \cup {1})
        /\ Cardinality(NoiseAt(line) \cup {1}) =
              IF 1 \in NoiseAt(line) THEN Cardinality(NoiseAt(line)) ELSE Cardinality(NoiseAt(line)) + 1
    BY <1>3, FS_AddElement, Zenon
  <2>. QED  BY <1>3, <2>1 DEF Noises
<1>5. /\ Noises(bad) <= Cardinality(NoiseAt(line) \cup {1})
      /\ Noises(bad) \in Nat /\ Cardinality(NoiseAt(line) \cup {1}) \in Nat
  BY <1>1, <1>2, <1>4, FS_Subset, FS_CardinalityType, NoisesFinite DEF Noises
<1>. QED  BY <1>3, <1>4, <1>5 DEF bad

LEMMA NoisesOfNone ==
    ASSUME NEW line, line = <<>>
    PROVE  Noises(line) = 0
<1>1. NoiseAt(line) = {}
  BY DEF NoiseAt
<1>. QED  BY <1>1, FS_EmptySet DEF Noises

\* What has been asked of the sender: the messages to it without the ACK.
LEMMA AskedType ==
    ASSUME NEW T, NEW line \in Seq(T)
    PROVE  Asked(line) \in Nat /\ Asked(line) = Len(line) - One(HasAck(line))
<1>1. Len(line) \in Nat /\ HasAck(line) => Len(line) > 0
  BY DEF HasAck
<1>. QED  BY <1>1 DEF Asked, One

LEMMA AskedOfRest ==
    ASSUME NEW T, NEW line \in Seq(T), NEW k \in 0 .. Len(line),
           \A i \in 1 .. k : line[i].t # "ACK"
    PROVE  /\ HasAck(Rest(line, k)) = HasAck(line)
           /\ Len(Rest(line, k)) = Len(line) - k
           /\ Asked(Rest(line, k)) = Asked(line) - k
<1>. DEFINE left == Rest(line, k)
<1>1. /\ left \in Seq(T) /\ k \in Nat /\ Len(line) \in Nat
      /\ Len(left) = Len(line) - k
      /\ \A i \in 1 .. Len(left) : i + k \in 1 .. Len(line) /\ left[i] = line[i + k]
  BY RestOfLine
<1>. HIDE DEF left
<1>2. ASSUME NEW i \in 1 .. Len(line), line[i].t = "ACK"
      PROVE  HasAck(left)
  <2>1. i - k \in 1 .. Len(left) /\ (i - k) + k = i
    BY <1>1, <1>2
  <2>2. left[i - k] = line[i]
    BY <1>1, <2>1
  <2>. QED  BY <1>2, <2>1, <2>2 DEF HasAck
<1>3. HasAck(left) => HasAck(line)
  BY <1>1 DEF HasAck
<1>4. HasAck(line) => HasAck(left)
  BY <1>2 DEF HasAck
<1>5. One(HasAck(left)) = One(HasAck(line))
  BY <1>3, <1>4 DEF One
<1>6. One(HasAck(line)) \in {0, 1}
  BY DEF One
<1>7. Asked(left) = Asked(line) - k
  BY <1>1, <1>5, <1>6 DEF Asked
<1>8. HasAck(left) = HasAck(line)
  <2>1. HasAck(left) \in BOOLEAN /\ HasAck(line) \in BOOLEAN
    BY DEF HasAck
  <2>. QED  BY <1>3, <1>4, <2>1
<1>. QED  BY <1>1, <1>7, <1>8 DEF left

LEMMA AskedOfAck ==
    ASSUME NEW line \in Seq(AnswerType), line # <<>>, line[1].t = "ACK", OneAck(line)
    PROVE  /\ ~HasAck(Rest(line, 1)) /\ HasAck(line)
           /\ Len(Rest(line, 1)) = Len(line) - 1
           /\ Asked(Rest(line, 1)) = Asked(line)
<1>. DEFINE left == Rest(line, 1)
<1>1. 1 \in 0 .. Len(line) /\ 1 \in 1 .. Len(line)
  OBVIOUS
<1>2. /\ left \in Seq(AnswerType) /\ Len(line) \in Nat
      /\ Len(left) = Len(line) - 1
      /\ \A i \in 1 .. Len(left) : i + 1 \in 1 .. Len(line) /\ left[i] = line[i + 1]
  BY <1>1, RestOfLine
<1>. HIDE DEF left
<1>3. ~HasAck(left)
  <2>1. ASSUME NEW i \in 1 .. Len(left)
        PROVE  left[i].t # "ACK"
    <3>1. i + 1 \in 1 .. Len(line) /\ 1 < i + 1
      BY <1>2
    <3>2. line[i + 1].t # "ACK"
      BY <1>1, <3>1 DEF OneAck
    <3>. QED  BY <1>2, <3>2
  <2>. QED  BY <2>1 DEF HasAck
<1>4. HasAck(line)
  BY <1>1 DEF HasAck
<1>5. Asked(left) = Asked(line)
  BY <1>2, <1>3, <1>4 DEF Asked, One
<1>. QED  BY <1>2, <1>3, <1>4, <1>5 DEF left

LEMMA AskedOfMore ==
    ASSUME NEW T, NEW line \in Seq(T), NEW a \in T
    PROVE  /\ Len(Append(line, a)) = Len(line) + 1
           /\ HasAck(Append(line, a)) = (HasAck(line) \/ a.t = "ACK")
           /\ a.t # "ACK" => Asked(Append(line, a)) = Asked(line) + 1
           /\ a.t = "ACK" /\ ~HasAck(line) => Asked(Append(line, a)) = Asked(line)
<1>. DEFINE more == Append(line, a)
<1>1. /\ more \in Seq(T) /\ Len(more) = Len(line) + 1 /\ Len(line) \in Nat
      /\ more[Len(line) + 1] = a
      /\ \A i \in 1 .. Len(line) : more[i] = line[i]
  OBVIOUS
<1>. HIDE DEF more
<1>2. HasAck(more) => HasAck(line) \/ a.t = "ACK"
  BY <1>1 DEF HasAck
<1>3. HasAck(line) => HasAck(more)
  BY <1>1 DEF HasAck
<1>4. a.t = "ACK" => HasAck(more)
  BY <1>1 DEF HasAck
<1>5. HasAck(more) \in BOOLEAN /\ HasAck(line) \in BOOLEAN
  BY DEF HasAck
<1>6. a.t # "ACK" => Asked(more) = Asked(line) + 1
  BY <1>1, <1>2, <1>3 DEF Asked, One
<1>7. a.t = "ACK" /\ ~HasAck(line) => Asked(more) = Asked(line)
  BY <1>1, <1>4 DEF Asked, One
<1>. QED  BY <1>1, <1>2, <1>3, <1>4, <1>5, <1>6, <1>7 DEF more

LEMMA AskedOfDamage ==
    ASSUME NEW line \in Seq(AnswerType), line # <<>>, line[1].t # "ACK"
    PROVE  /\ Len([line EXCEPT ![1] = Noise]) = Len(line)
           /\ HasAck([line EXCEPT ![1] = Noise]) = HasAck(line)
           /\ Asked([line EXCEPT ![1] = Noise]) = Asked(line)
<1>. DEFINE bad == [line EXCEPT ![1] = Noise]
<1>1. /\ Len(bad) = Len(line) /\ 1 \in 1 .. Len(line) /\ bad[1] = Noise
      /\ \A i \in 1 .. Len(line) : i # 1 => bad[i] = line[i]
  OBVIOUS
<1>2. Noise.t = "noise"
  BY DEF Noise, Control
<1>. HIDE DEF bad
<1>3. HasAck(bad) = HasAck(line)
  BY <1>1, <1>2 DEF HasAck
<1>4. Asked(bad) = Asked(line)
  BY <1>1, <1>3 DEF Asked
<1>. QED  BY <1>1, <1>3, <1>4 DEF bad

-----------------------------------------------------------------------------
(* What trouble costs.                                                     *)

None(line, t) == \A i \in 1 .. Len(line) : line[i].t # t
OnlyNoise(line) == \A i \in 1 .. Len(line) : line[i].t = "noise"
OnlyOld(line, off) == \A i \in 1 .. Len(line) : line[i].t = "block" /\ line[i].from # off

\* Blocks have the sender's mode, and the text ends with the EOT.
OneMode(line, crc) == \A i \in 1 .. Len(line) : line[i].t = "block" => line[i].crc = crc
EotLast(line) ==
    \A i, j \in 1 .. Len(line) : i < j => ~(line[i].t = "EOT" /\ line[j].t = "block")

NoModeYet == s.at \in {"idle", "mode"}

\* Nothing has happened yet that a transfer may fail of.
Mild == ackVain = FALSE /\ 2 * trouble < MaxErrors
Calm == Mild /\ (NoModeYet \/ s.crc = r.crc)

\* Both sides will wait until the receiver's time is up.
Silent ==
    /\ r.at \in {"read", "write"} /\ s.at \in {"idle", "mode", "ack", "eotWait"}
    /\ OnlyNoise(toSend) /\ OnlyOld(toRecv, s.off)

TroubleType == trouble \in Nat /\ ackVain \in BOOLEAN

\* Before the sender knows the mode, the receiver has asked for its own only.
StartInv ==
    /\ NoModeYet => toRecv = <<>> /\ Taken = <<>> /\ ~r.eot /\ r.at # "done"
    /\ NoModeYet /\ r.crc => None(toSend, "NAK")

BlocksInv == OneMode(toRecv, s.crc) /\ EotLast(toRecv)

EotInv == r.eot => r.pass > 0 /\ None(toRecv, "block")

ModeInv == Mild /\ ~NoModeYet => (r.crc => s.crc)

GoesOn == Calm =>
    /\ s.at # "failed" /\ r.at # "failed"
    /\ None(toRecv, "CAN") /\ None(toSend, "CAN")
    /\ AckDue /\ s.at # "done" => HasAck(toSend)

\* The parts of the sums below.
RecvErrors == r.errors
SendErrors == s.errors
Passes == r.pass
Dirt == Noises(toRecv)
Blocks == Len(toRecv)
Answers == Len(toSend)
Asks == Asked(toSend)
Silence == One(Silent)
Unasked == One(r.at = "idle")
Refused == One(r.eot)
Unsent == One(s.at \in {"send", "eot"})
Unmoded == One(NoModeYet)

\* The receiver's errors, and those that are bound to come.
ErrorsInv == Calm => RecvErrors + Silence + Dirt <= trouble

\* All that is under way, and the passes spent on it: one of a kind goes round,
\* and each trouble may add one.
TokenInv == Calm =>
    Passes - Refused + Blocks + Answers + Unsent + Unasked + Silence <= trouble + 1

\* The sender's errors, and those that are bound to come: while the blocks are
\* sent, and when they have been.
TextInv == Calm /\ s.at \in {"idle", "mode", "send", "ack"} =>
    SendErrors + Asks + Silence + Dirt + Unasked <= trouble + Unmoded
EndInv == Calm /\ s.at \in {"eot", "eotWait"} =>
    SendErrors + Asks + 2 * (Silence + Dirt + Unasked) <= 2 * trouble + Refused

RecoverInv ==
    /\ TroubleType /\ StartInv /\ BlocksInv /\ EotInv /\ ModeInv /\ GoesOn
    /\ ErrorsInv /\ TokenInv /\ TextInv /\ EndInv

\* The invariant says what is to be shown.
LEMMA GoesOnRecovers ==
    ASSUME CopyInv, RecoverInv
    PROVE  Recovers
<1>1. MaxErrors \in Nat /\ trouble \in Nat /\ ackVain \in BOOLEAN
  BY XmodemAssumption DEF RecoverInv, TroubleType
<1>2. Mild \/ ackVain \/ 2 * trouble >= MaxErrors
  BY <1>1 DEF Mild
<1>3. Calm => s.at # "failed" /\ r.at # "failed"
  BY DEF RecoverInv, GoesOn
<1>. QED  BY <1>2, <1>3 DEF Calm, Recovers

LEMMA RecoverInit ==
    ASSUME CopyInv, Init
    PROVE  RecoverInv
<1>1. /\ toRecv = <<>> /\ toSend = <<>> /\ Taken = <<>> /\ trouble = 0 /\ ackVain = FALSE
      /\ s.at = "idle" /\ s.errors = 0 /\ s.off = 0
      /\ r.at = "idle" /\ r.errors = 0 /\ r.pass = 0 /\ r.eot = FALSE /\ r.num = 1
  BY DEF Taken, Init
<1>2. Noises(toRecv) = 0
  BY <1>1, NoisesOfNone
<1>3. ~Silent /\ Asked(toSend) = 0 /\ Len(toRecv) = 0 /\ Len(toSend) = 0
  BY <1>1 DEF Silent, Asked, HasAck, One
<1>4. TroubleType /\ EotInv /\ ModeInv
  BY <1>1 DEF TroubleType, EotInv, ModeInv, NoModeYet
<1>8. StartInv
  BY <1>1 DEF StartInv, None
<1>7. OneMode(toRecv, s.crc) /\ EotLast(toRecv)
  <2>1. 1 .. Len(toRecv) = {}
    BY <1>1
  <2>. QED  BY <2>1 DEF OneMode, EotLast
<1>5. GoesOn
  BY <1>1 DEF GoesOn, AckDue, None
<1>6. ErrorsInv /\ TokenInv /\ TextInv /\ EndInv
  BY <1>1, <1>2, <1>3 DEF ErrorsInv, TokenInv, TextInv, EndInv, One, NoModeYet,
         RecvErrors, SendErrors, Passes, Dirt, Blocks, Answers, Asks,
         Silence, Unasked, Refused, Unsent, Unmoded
<1>. QED  BY <1>4, <1>5, <1>6, <1>7, <1>8 DEF RecoverInv, BlocksInv

\* The counters are numbers.
LEMMA Counters ==
    ASSUME CopyInv
    PROVE  /\ r.errors \in Nat /\ r.pass \in Nat /\ s.errors \in Nat /\ MaxErrors \in Nat
           /\ Noises(toRecv) \in Nat /\ Len(toRecv) \in Nat
           /\ Len(toSend) \in Nat /\ Asked(toSend) \in Nat
           /\ r.eot \in BOOLEAN /\ r.crc \in BOOLEAN /\ s.crc \in BOOLEAN
           /\ toRecv \in Seq(MsgType) /\ toSend \in Seq(AnswerType)
<1>1. toRecv \in Seq(MsgType) /\ toSend \in Seq(AnswerType)
  BY DEF CopyInv, ToRecvInv, ToSendInv
<1>2. Noises(toRecv) \in Nat /\ Asked(toSend) \in Nat
  BY <1>1, NoisesFinite, AskedType
<1>. QED  BY <1>1, <1>2, CopyTypes, XmodemAssumption DEF SenderType, ReceiverType

LEMMA LessTrouble ==
    ASSUME NEW a \in Nat, NEW b \in Nat, NEW n \in Nat, a <= b, 2 * b < n
    PROVE  2 * a < n
OBVIOUS

LEMMA CountersNext ==
    ASSUME CopyInv'
    PROVE  /\ r'.errors \in Nat /\ r'.pass \in Nat /\ s'.errors \in Nat
           /\ Noises(toRecv') \in Nat /\ Len(toRecv') \in Nat
           /\ Len(toSend') \in Nat /\ Asked(toSend') \in Nat
           /\ r'.eot \in BOOLEAN /\ r'.crc \in BOOLEAN /\ s'.crc \in BOOLEAN
           /\ toRecv' \in Seq(MsgType) /\ toSend' \in Seq(AnswerType)
<1>1. toRecv' \in Seq(MsgType) /\ toSend' \in Seq(AnswerType)
  BY DEF CopyInv, ToRecvInv, ToSendInv
<1>2. Noises(toRecv') \in Nat /\ Asked(toSend') \in Nat
  BY <1>1, NoisesFinite, AskedType
<1>3. s' \in SenderType /\ r' \in ReceiverType
  BY DEF CopyInv, SenderInv, ReceiverInv
<1>. QED  BY <1>1, <1>2, <1>3 DEF SenderType, ReceiverType

\* The parts of the sums are numbers.
LEMMA Sums ==
    ASSUME CopyInv, RecoverInv
    PROVE  /\ trouble \in Nat /\ MaxErrors \in Nat
           /\ RecvErrors \in Nat /\ SendErrors \in Nat /\ Passes \in Nat
           /\ Dirt \in Nat /\ Blocks \in Nat /\ Answers \in Nat /\ Asks \in Nat
           /\ Silence \in {0, 1} /\ Unasked \in {0, 1} /\ Refused \in {0, 1}
           /\ Unsent \in {0, 1} /\ Unmoded \in {0, 1}
<1>1. trouble \in Nat
  BY DEF RecoverInv, TroubleType
<1>. QED  BY <1>1, Counters DEF RecvErrors, SendErrors, Passes, Dirt, Blocks, Answers, Asks,
         Silence, Unasked, Refused, Unsent, Unmoded, One

LEMMA SumsNext ==
    ASSUME CopyInv'
    PROVE  /\ RecvErrors' \in Nat /\ SendErrors' \in Nat /\ Passes' \in Nat
           /\ Dirt' \in Nat /\ Blocks' \in Nat /\ Answers' \in Nat /\ Asks' \in Nat
           /\ Silence' \in {0, 1} /\ Unasked' \in {0, 1} /\ Refused' \in {0, 1}
           /\ Unsent' \in {0, 1} /\ Unmoded' \in {0, 1}
BY CountersNext DEF RecvErrors, SendErrors, Passes, Dirt, Blocks, Answers, Asks,
         Silence, Unasked, Refused, Unsent, Unmoded, One

\* Calm does not come back.
LEMMA MildBefore ==
    ASSUME CopyInv, RecoverInv, trouble' \in Nat, trouble <= trouble',
           ackVain' = FALSE => ackVain = FALSE, Mild'
    PROVE  Mild
<1>1. trouble \in Nat /\ MaxErrors \in Nat
  BY Sums
<1>2. ackVain' = FALSE /\ 2 * trouble' < MaxErrors
  BY DEF Mild
<1>3. 2 * trouble < MaxErrors
  BY <1>1, <1>2, LessTrouble
<1>. QED  BY <1>2, <1>3 DEF Mild

LEMMA CalmBefore ==
    ASSUME CopyInv, RecoverInv, trouble' \in Nat, trouble <= trouble',
           ackVain' = FALSE => ackVain = FALSE,
           NoModeYet \/ (~NoModeYet' /\ s'.crc = s.crc), r'.crc = r.crc \/ r'.crc = FALSE,
           Calm'
    PROVE  Calm
<1>1. Mild /\ (NoModeYet' \/ s'.crc = r'.crc)
  BY MildBefore DEF Calm
<1>2. ASSUME ~NoModeYet
      PROVE  s.crc = r.crc
  <2>1. s.crc = r'.crc /\ (r.crc => s.crc)
    BY <1>1, <1>2 DEF RecoverInv, ModeInv
  <2>2. r.crc \in BOOLEAN /\ s.crc \in BOOLEAN
    BY Counters
  <2>. QED  BY <2>1, <2>2
<1>. QED  BY <1>1, <1>2 DEF Calm

-----------------------------------------------------------------------------
(* What a line has after it was read, damaged or added to.                 *)

LEMMA RestHas ==
    ASSUME NEW T, NEW line \in Seq(T), NEW k \in 0 .. Len(line), NEW left, left = Rest(line, k)
    PROVE  /\ left \in Seq(T) /\ Len(left) = Len(line) - k
           /\ \A t : None(line, t) => None(left, t)
           /\ \A crc : OneMode(line, crc) => OneMode(left, crc)
           /\ EotLast(line) => EotLast(left)
           /\ EotLast(line) /\ k > 0 /\ line[1].t = "EOT" => None(left, "block")
           /\ k = 1 /\ line[1].t = "noise" /\ OnlyNoise(left) => OnlyNoise(line)
           /\ \A off : k = 1 /\ line[1].t = "block" /\ line[1].from # off /\ OnlyOld(left, off)
                          => OnlyOld(line, off)
<1>1. /\ left \in Seq(T) /\ k \in Nat /\ Len(line) \in Nat
      /\ Len(left) = Len(line) - k
      /\ \A i \in 1 .. Len(left) : i + k \in 1 .. Len(line) /\ left[i] = line[i + k]
  BY RestOfLine
<1>2. \A t : None(line, t) => None(left, t)
  BY <1>1 DEF None
<1>3. \A crc : OneMode(line, crc) => OneMode(left, crc)
  BY <1>1 DEF OneMode
<1>4. EotLast(line) => EotLast(left)
  <2>1. SUFFICES ASSUME EotLast(line), NEW i \in 1 .. Len(left), NEW j \in 1 .. Len(left), i < j
                 PROVE  ~(left[i].t = "EOT" /\ left[j].t = "block")
    BY DEF EotLast
  <2>2. i + k < j + k
    BY <1>1, <2>1
  <2>3. i + k \in 1 .. Len(line) /\ j + k \in 1 .. Len(line)
        /\ left[i] = line[i + k] /\ left[j] = line[j + k]
    BY <1>1
  <2>. QED  BY <2>1, <2>2, <2>3 DEF EotLast
<1>5. ASSUME EotLast(line), k > 0, line[1].t = "EOT"
      PROVE  None(left, "block")
  <2>1. 1 \in 1 .. Len(line) /\ \A i \in 1 .. Len(left) : 1 < i + k
    BY <1>1, <1>5
  <2>. QED  BY <1>1, <1>5, <2>1 DEF EotLast, None
<1>6. ASSUME k = 1
      PROVE  \A i \in 1 .. Len(line) : i = 1 \/ (i - 1 \in 1 .. Len(left) /\ left[i - 1] = line[i])
  BY <1>1, <1>6
<1>7. k = 1 /\ line[1].t = "noise" /\ OnlyNoise(left) => OnlyNoise(line)
  BY <1>6 DEF OnlyNoise
<1>8. \A off : k = 1 /\ line[1].t = "block" /\ line[1].from # off /\ OnlyOld(left, off)
                  => OnlyOld(line, off)
  BY <1>6 DEF OnlyOld
<1>. QED  BY <1>1, <1>2, <1>3, <1>4, <1>5, <1>7, <1>8

LEMMA MoreHas ==
    ASSUME NEW T, NEW line \in Seq(T), NEW m \in T, NEW more, more = Append(line, m)
    PROVE  /\ more \in Seq(T) /\ Len(more) = Len(line) + 1
           /\ \A t : None(line, t) /\ m.t # t => None(more, t)
           /\ \A crc : OneMode(line, crc) /\ (m.t = "block" => m.crc = crc) => OneMode(more, crc)
           /\ EotLast(line) /\ (m.t = "block" => None(line, "EOT")) => EotLast(more)
           /\ m.t # "noise" => ~OnlyNoise(more)
           /\ \A off : (m.t = "block" => m.from = off) => ~OnlyOld(more, off)
<1>1. /\ more \in Seq(T) /\ Len(more) = Len(line) + 1 /\ Len(line) \in Nat
      /\ more[Len(line) + 1] = m /\ Len(line) + 1 \in 1 .. Len(more)
      /\ \A i \in 1 .. Len(line) : more[i] = line[i]
  OBVIOUS
<1>2. \A i \in 1 .. Len(more) : i \in 1 .. Len(line) \/ more[i] = m
  BY <1>1
<1>3. \A t : None(line, t) /\ m.t # t => None(more, t)
  BY <1>1, <1>2 DEF None
<1>4. \A crc : OneMode(line, crc) /\ (m.t = "block" => m.crc = crc) => OneMode(more, crc)
  BY <1>1, <1>2 DEF OneMode
<1>5. EotLast(line) /\ (m.t = "block" => None(line, "EOT")) => EotLast(more)
  <2>1. \A i, j \in 1 .. Len(more) : i < j => i \in 1 .. Len(line)
    BY <1>1
  <2>. QED  BY <1>1, <1>2, <2>1 DEF EotLast, None
<1>6. m.t # "noise" => ~OnlyNoise(more)
  BY <1>1 DEF OnlyNoise
<1>7. \A off : (m.t = "block" => m.from = off) => ~OnlyOld(more, off)
  BY <1>1 DEF OnlyOld
<1>. QED  BY <1>1, <1>3, <1>4, <1>5, <1>6, <1>7

LEMMA DamageHas ==
    ASSUME NEW T, NEW line \in Seq(T), line # <<>>, Noise \in T,
           NEW bad, bad = [line EXCEPT ![1] = Noise]
    PROVE  /\ bad \in Seq(T) /\ Len(bad) = Len(line)
           /\ \A t : None(line, t) /\ t # "noise" => None(bad, t)
           /\ \A crc : OneMode(line, crc) => OneMode(bad, crc)
           /\ EotLast(line) => EotLast(bad)
           /\ \A off : ~OnlyOld(bad, off)
<1>1. /\ bad \in Seq(T) /\ Len(bad) = Len(line) /\ bad[1] = Noise /\ 1 \in 1 .. Len(bad)
      /\ \A i \in 1 .. Len(line) : i # 1 => bad[i] = line[i]
  OBVIOUS
<1>2. Noise.t = "noise"
  BY DEF Noise, Control
<1>3. \A i \in 1 .. Len(bad) : bad[i].t = "noise" \/ bad[i] = line[i]
  BY <1>1, <1>2
<1>4. \A t : None(line, t) /\ t # "noise" => None(bad, t)
  BY <1>1, <1>3 DEF None
<1>5. \A crc : OneMode(line, crc) => OneMode(bad, crc)
  BY <1>1, <1>3 DEF OneMode
<1>6. EotLast(line) => EotLast(bad)
  BY <1>1, <1>3 DEF EotLast
<1>7. \A off : ~OnlyOld(bad, off)
  BY <1>1, <1>2 DEF OnlyOld
<1>. QED  BY <1>1, <1>4, <1>5, <1>6, <1>7

\* What the receiver reads and then flushes is a first part of the line.
LEMMA ReadAndFlushed ==
    ASSUME NEW T, NEW line \in Seq(T), NEW m \in Inputs(line), NEW left,
           left = After(line, m) \/ left \in Flushed(After(line, m))
    PROVE  \E k \in 0 .. Len(line) :
               /\ left = Rest(line, k)
               /\ m # NoInput => k > 0 /\ line # <<>> /\ m = line[1]
<1>1. Len(line) \in Nat /\ line = Rest(line, 0) /\ 0 \in 0 .. Len(line)
  BY DEF Rest
<1>2. CASE m = NoInput
  BY <1>1, <1>2 DEF After, Flushed
<1>3. CASE m # NoInput
  <2>1. line # <<>> /\ m = line[1]
    BY <1>3 DEF Inputs
  <2>2. 1 \in 0 .. Len(line) /\ After(line, m) = Rest(line, 1)
    BY <1>3, <2>1 DEF After
  <2>3. ASSUME NEW j \in 0 .. Len(Rest(line, 1))
        PROVE  Rest(Rest(line, 1), j) = Rest(line, j + 1) /\ j + 1 \in 0 .. Len(line)
    BY <2>2 DEF Rest
  <2>4. CASE left = After(line, m)
    BY <1>3, <2>1, <2>2, <2>4
  <2>5. CASE left \in Flushed(After(line, m))
    <3>1. PICK j \in 0 .. Len(Rest(line, 1)) : left = Rest(Rest(line, 1), j)
      BY <2>2, <2>5 DEF Flushed
    <3>2. j + 1 \in 0 .. Len(line) /\ left = Rest(line, j + 1) /\ j + 1 > 0
      BY <2>3, <3>1
    <3>. QED  BY <1>3, <2>1, <3>2
  <2>. QED  BY <2>4, <2>5
<1>. QED  BY <1>2, <1>3

-----------------------------------------------------------------------------
(* The line's steps: each trouble is paid for.                             *)

\* The parts in the order in which they are needed.
LEMMA RecoverParts ==
    ASSUME RecoverInv
    PROVE  /\ trouble \in Nat /\ ackVain \in BOOLEAN
           /\ StartInv /\ OneMode(toRecv, s.crc) /\ EotLast(toRecv) /\ EotInv /\ ModeInv
           /\ GoesOn /\ ErrorsInv /\ TokenInv /\ TextInv /\ EndInv
BY DEF RecoverInv, TroubleType, BlocksInv

LEMMA TroubleKeeps ==
    ASSUME CopyInv, RecoverInv, UNCHANGED <<s, r, Taken>>,
           trouble' = trouble + 1, ackVain' \in BOOLEAN, ackVain' = FALSE => ackVain = FALSE,
           toRecv = <<>> => toRecv' = <<>>,
           \A t : None(toRecv, t) /\ t # "noise" => None(toRecv', t),
           \A crc : OneMode(toRecv, crc) => OneMode(toRecv', crc),
           EotLast(toRecv) => EotLast(toRecv'),
           \A t : None(toSend, t) /\ t # "noise" => None(toSend', t),
           ackVain' = FALSE /\ HasAck(toSend) => HasAck(toSend')
    PROVE  /\ TroubleType' /\ StartInv' /\ BlocksInv' /\ EotInv' /\ ModeInv' /\ GoesOn'
           /\ Calm' => Calm /\ ackVain' = FALSE
<1>1. trouble \in Nat /\ trouble' \in Nat /\ MaxErrors \in Nat /\ trouble <= trouble'
  BY RecoverParts, Counters
<1>2. NoModeYet' = NoModeYet /\ AckDue' = AckDue
  BY DEF NoModeYet, AckDue
<1>3. TroubleType'
  BY <1>1 DEF TroubleType
<1>4. StartInv'
  BY <1>2, RecoverParts DEF StartInv
<1>5. BlocksInv' /\ EotInv'
  BY RecoverParts DEF BlocksInv, EotInv
<1>6. Mild' => Mild /\ ackVain' = FALSE
  BY <1>1, MildBefore DEF Mild
<1>7. ModeInv'
  BY <1>2, <1>6, RecoverParts DEF ModeInv
<1>8. Calm' => Calm /\ ackVain' = FALSE
  BY <1>2, <1>6 DEF Calm
<1>9. GoesOn'
  BY <1>2, <1>8, RecoverParts DEF GoesOn
<1>. QED  BY <1>3, <1>4, <1>5, <1>7, <1>8, <1>9

\* One more trouble pays for one more noise, or one more silence.
LEMMA TroublePaid ==
    ASSUME CopyInv, CopyInv', RecoverInv, UNCHANGED <<s, r>>, Calm' => Calm,
           trouble' = trouble + 1, Calm' => Asks' <= Asks,
           Blocks' <= Blocks, Answers' <= Answers, Dirt' + Silence' <= Dirt + Silence + 1
    PROVE  ErrorsInv' /\ TokenInv' /\ TextInv' /\ EndInv'
<1>1. /\ RecvErrors' = RecvErrors /\ SendErrors' = SendErrors /\ Passes' = Passes
      /\ Unasked' = Unasked /\ Refused' = Refused /\ Unsent' = Unsent /\ Unmoded' = Unmoded
  BY DEF RecvErrors, SendErrors, Passes, Unasked, Refused, Unsent, Unmoded, NoModeYet
<1>2. ErrorsInv /\ TokenInv /\ TextInv /\ EndInv
  BY RecoverParts
<1>3. ErrorsInv'
  BY <1>1, <1>2, Sums, SumsNext DEF ErrorsInv
<1>4. TokenInv'
  BY <1>1, <1>2, Sums, SumsNext DEF TokenInv
<1>5. TextInv'
  BY <1>1, <1>2, Sums, SumsNext DEF TextInv
<1>6. EndInv'
  BY <1>1, <1>2, Sums, SumsNext DEF EndInv
<1>. QED  BY <1>3, <1>4, <1>5, <1>6

\* What the line does wrong adds one message's worth of errors at most.
LEMMA LineRecovers ==
    ASSUME CopyInv, CopyInv', RecoverInv, Line
    PROVE  RecoverInv'
<1>1. /\ UNCHANGED <<s, r, Taken>> /\ trouble' = trouble + 1
      /\ LoseBlock \/ DamageBlock \/ LoseAnswer \/ DamageAnswer
  BY DEF Taken, Line, LoseBlock, DamageBlock, LoseAnswer, DamageAnswer, Trouble
<1>2. /\ toRecv \in Seq(MsgType) /\ toSend \in Seq(AnswerType) /\ ackVain \in BOOLEAN
      /\ Noise \in MsgType /\ Noise \in AnswerType /\ Noise.t = "noise"
  BY Counters, RecoverParts DEF Noise, Control, MsgType, AnswerType
<1>. DEFINE Tame == /\ ackVain' \in BOOLEAN
                    /\ ackVain' = FALSE => ackVain = FALSE
                    /\ toRecv = <<>> => toRecv' = <<>>
                    /\ \A t : None(toRecv, t) /\ t # "noise" => None(toRecv', t)
                    /\ \A crc : OneMode(toRecv, crc) => OneMode(toRecv', crc)
                    /\ EotLast(toRecv) => EotLast(toRecv')
                    /\ \A t : None(toSend, t) /\ t # "noise" => None(toSend', t)
                    /\ ackVain' = FALSE /\ HasAck(toSend) => HasAck(toSend')
            Paid == /\ ackVain' = FALSE => Asks' <= Asks
                    /\ Blocks' <= Blocks /\ Answers' <= Answers
                    /\ Dirt' + Silence' <= Dirt + Silence + 1
<1>. HIDE DEF Tame, Paid
<1>4. ASSUME LoseBlock
      PROVE  Tame /\ Paid
  <2>1. /\ toRecv # <<>> /\ toRecv' = Rest(toRecv, 1) /\ 1 \in 0 .. Len(toRecv)
        /\ toSend' = toSend /\ ackVain' = ackVain
    BY <1>2, <1>4 DEF Taken, LoseBlock
  <2>2. Tame
    BY <1>2, <2>1, RestHas DEF Tame
  <2>3. Dirt' <= Dirt /\ Blocks' <= Blocks
    BY <1>2, <2>1, RestHas, NoisesOfRest DEF Dirt, Blocks
  <2>4. Asks' = Asks /\ Answers' = Answers
    BY <2>1 DEF Asks, Answers
  <2>5. Paid
    BY <2>3, <2>4, Sums, SumsNext DEF Paid
  <2>. QED  BY <2>2, <2>5
<1>5. ASSUME DamageBlock
      PROVE  Tame /\ Paid
  <2>1. /\ toRecv # <<>> /\ toRecv' = [toRecv EXCEPT ![1] = Noise]
        /\ toSend' = toSend /\ ackVain' = ackVain
    BY <1>5 DEF Taken, DamageBlock
  <2>2. Tame
    BY <1>2, <2>1, DamageHas DEF Tame
  <2>3. Dirt' <= Dirt + 1 /\ Blocks' <= Blocks
    <3>1. Len(toRecv') = Len(toRecv)
      BY <1>2, <2>1
    <3>2. Noises(toRecv') <= Noises(toRecv) + 1
      BY <1>2, <2>1, NoisesOfDamage
    <3>. QED  BY <3>1, <3>2, <1>2 DEF Dirt, Blocks
  <2>4. Asks' = Asks /\ Answers' = Answers
    BY <2>1 DEF Asks, Answers
  <2>8. 1 \in 1 .. Len(toRecv') /\ toRecv'[1].t = "noise"
    BY <1>2, <2>1
  <2>5. ~Silent'
    BY <2>8 DEF Silent, OnlyOld
  <2>6. Silence' = 0
    BY <2>5 DEF Silence, One
  <2>7. Paid
    BY <2>3, <2>4, <2>6, Sums, SumsNext DEF Paid
  <2>. QED  BY <2>2, <2>7
<1>6. ASSUME LoseAnswer
      PROVE  Tame /\ Paid
  <2>1. /\ toSend # <<>> /\ toSend' = Rest(toSend, 1) /\ 1 \in 0 .. Len(toSend)
        /\ toRecv' = toRecv /\ ackVain' = (ackVain \/ toSend[1].t = "ACK")
    BY <1>2, <1>6 DEF Taken, LoseAnswer
  <2>2. ackVain' \in BOOLEAN /\ (ackVain' = FALSE => ackVain = FALSE /\ toSend[1].t # "ACK")
    BY <1>2, <2>1
  <2>3. ackVain' = FALSE => \A i \in 1 .. 1 : toSend[i].t # "ACK"
    BY <2>2
  <2>4. ackVain' = FALSE => HasAck(toSend') = HasAck(toSend) /\ Asked(toSend') = Asked(toSend) - 1
    BY <1>2, <2>1, <2>3, AskedOfRest
  <2>5. Tame
    BY <1>2, <2>1, <2>2, <2>4, RestHas DEF Tame
  <2>6. /\ Dirt' = Dirt /\ Blocks' = Blocks
        /\ Answers' = Answers - 1
        /\ ackVain' = FALSE => Asks' = Asks - 1
    BY <1>2, <2>1, <2>4, RestHas DEF Dirt, Blocks, Answers, Asks
  <2>7. Paid
    BY <2>6, Sums, SumsNext DEF Paid
  <2>. QED  BY <2>5, <2>7
<1>7. ASSUME DamageAnswer
      PROVE  Tame /\ Paid
  <2>1. /\ toSend # <<>> /\ toSend' = [toSend EXCEPT ![1] = Noise]
        /\ toRecv' = toRecv
    BY <1>7 DEF Taken, DamageAnswer
  <2>2. ackVain' \in BOOLEAN /\ (ackVain' = FALSE => ackVain = FALSE /\ toSend[1].t # "ACK")
    BY <1>2, <1>7 DEF Taken, DamageAnswer
  <2>3. ackVain' = FALSE => HasAck(toSend') = HasAck(toSend) /\ Asked(toSend') = Asked(toSend)
    BY <1>2, <2>1, <2>2, AskedOfDamage
  <2>4. Tame
    BY <1>2, <2>1, <2>2, <2>3, DamageHas DEF Tame
  <2>7. Len(toSend') = Len(toSend)
    BY <1>2, <2>1
  <2>5. /\ Dirt' = Dirt /\ Blocks' = Blocks
        /\ Answers' = Answers
        /\ ackVain' = FALSE => Asks' = Asks
    BY <2>1, <2>3, <2>7 DEF Dirt, Blocks, Answers, Asks
  <2>6. Paid
    BY <2>5, Sums, SumsNext DEF Paid
  <2>. QED  BY <2>4, <2>6
<1>8. Tame /\ Paid
  BY <1>1, <1>4, <1>5, <1>6, <1>7
<1>9. /\ TroubleType' /\ StartInv' /\ BlocksInv' /\ EotInv' /\ ModeInv' /\ GoesOn'
      /\ Calm' => Calm /\ ackVain' = FALSE
  BY <1>1, <1>8, TroubleKeeps DEF Tame
<1>10. ErrorsInv' /\ TokenInv' /\ TextInv' /\ EndInv'
  BY <1>1, <1>8, <1>9, TroublePaid DEF Paid
<1>. QED  BY <1>9, <1>10 DEF RecoverInv

-----------------------------------------------------------------------------
(* The sender's steps: its errors are paid for.                            *)

LEMMA ClockOn ==
    ASSUME RecoverInv, NEW m, NEW due, Clock(m, due)
    PROVE  /\ trouble' \in Nat /\ trouble <= trouble'
           /\ m = NoInput /\ ~due => trouble' = trouble + 1
           /\ m # NoInput => trouble' = trouble
<1>1. trouble \in Nat
  BY RecoverParts
<1>. QED  BY <1>1 DEF Clock, Trouble

\* What the sender hears, while all goes well: nothing, its ACK, or a message that
\* was asked of it.
LEMMA Heard ==
    ASSUME CopyInv, CopyInv', RecoverInv, Calm, s.at # "done",
           NEW a \in Inputs(toSend), Clock(a, SenderAlone), toSend' = After(toSend, a)
    PROVE  /\ a.t # "CAN" /\ None(toSend', "CAN")
           /\ \/ /\ a = NoInput /\ a.t = "NOINP" /\ trouble' = trouble + 1
                 /\ toSend' = toSend /\ Asks' = Asks /\ Answers' = Answers
              \/ /\ a # NoInput /\ a.t = "ACK" /\ trouble' = trouble
                 /\ HasAck(toSend) /\ ~HasAck(toSend') /\ Asks' = Asks /\ Answers' = Answers - 1
              \/ /\ a # NoInput /\ a.t \in {"NAK", "C", "noise"} /\ trouble' = trouble
                 /\ HasAck(toSend') = HasAck(toSend)
                 /\ Asks' = Asks - 1 /\ Answers' = Answers - 1
                 /\ a.t = "noise" /\ OnlyNoise(toSend') => OnlyNoise(toSend)
<1>1. /\ toSend \in Seq(AnswerType) /\ OneAck(toSend)
      /\ None(toSend, "CAN") /\ r.at # "failed" /\ (AckDue => HasAck(toSend))
  BY Counters, RecoverParts DEF CopyInv, ToSendInv, GoesOn
<1>2. CASE a = NoInput
  <2>1. a.t = "NOINP" /\ toSend' = toSend
    BY <1>2 DEF NoInput, Control, After
  <2>2. ~SenderAlone
    <3>1. ASSUME toSend = <<>>, r.at = "done"
          PROVE  FALSE
      <4>1. HasAck(toSend)
        BY <1>1, <3>1 DEF AckDue
      <4>. QED  BY <3>1, <4>1 DEF HasAck
    <3>. QED  BY <1>1, <3>1 DEF SenderAlone, ReceiverStopped
  <2>3. trouble' = trouble + 1
    BY <1>2, <2>2, ClockOn
  <2>4. Asks' = Asks /\ Answers' = Answers
    BY <2>1 DEF Asks, Answers
  <2>. QED  BY <1>1, <1>2, <2>1, <2>3, <2>4
<1>3. CASE a # NoInput
  <2>1. toSend # <<>> /\ a = toSend[1] /\ toSend' = Rest(toSend, 1) /\ 1 \in 0 .. Len(toSend)
        /\ 1 \in 1 .. Len(toSend)
    BY <1>1, <1>3 DEF Inputs, After
  <2>2. trouble' = trouble
    BY <1>3, ClockOn
  <2>3. a.t \in {"ACK", "NAK", "C", "noise"}
    <3>1. toSend[1] \in AnswerType /\ toSend[1].t # "CAN"
      BY <1>1, <2>1 DEF None
    <3>. QED  BY <2>1, <3>1 DEF AnswerType
  <2>4. None(toSend', "CAN")
    BY <1>1, <2>1, RestHas
  <2>5. CASE a.t = "ACK"
    <3>1. /\ HasAck(toSend) /\ ~HasAck(toSend')
          /\ Len(toSend') = Len(toSend) - 1 /\ Asked(toSend') = Asked(toSend)
      BY <1>1, <2>1, <2>5, AskedOfAck
    <3>. QED  BY <1>3, <2>2, <2>3, <2>4, <2>5, <3>1 DEF Asks, Answers
  <2>6. CASE a.t # "ACK"
    <3>1. \A i \in 1 .. 1 : toSend[i].t # "ACK"
      BY <2>1, <2>6
    <3>2. /\ HasAck(toSend') = HasAck(toSend)
          /\ Len(toSend') = Len(toSend) - 1 /\ Asked(toSend') = Asked(toSend) - 1
      BY <1>1, <2>1, <3>1, AskedOfRest
    <3>3. a.t = "noise" /\ OnlyNoise(toSend') => OnlyNoise(toSend)
      BY <1>1, <2>1, RestHas
    <3>. QED  BY <1>3, <2>2, <2>3, <2>4, <2>6, <3>2, <3>3 DEF Asks, Answers
  <2>. QED  BY <2>5, <2>6
<1>. QED  BY <1>2, <1>3

\* The parts that do not count, after a step of the sender.
LEMMA SenderShape ==
    ASSUME CopyInv, CopyInv', RecoverInv, UNCHANGED <<r, Taken>>,
           trouble' \in Nat, trouble <= trouble',
           ackVain' \in BOOLEAN, ackVain' = FALSE => ackVain = FALSE,
           NoModeYet' => /\ NoModeYet /\ toRecv' = toRecv
                         /\ None(toSend, "NAK") => None(toSend', "NAK"),
           ~NoModeYet => s'.crc = s.crc,
           NoModeYet /\ ~NoModeYet' /\ Mild' => (r.crc => s'.crc),
           OneMode(toRecv', s'.crc), EotLast(toRecv'),
           r.eot /\ None(toRecv, "block") => None(toRecv', "block")
    PROVE  /\ TroubleType' /\ StartInv' /\ BlocksInv' /\ EotInv' /\ ModeInv'
           /\ Mild' => Mild
           /\ Calm' => Calm
<1>1. TroubleType' /\ BlocksInv'
  BY DEF TroubleType, BlocksInv
<1>2. StartInv'
  BY RecoverParts DEF StartInv
<1>3. EotInv'
  BY RecoverParts DEF EotInv
<1>4. Mild' => Mild
  BY MildBefore
<1>5. ModeInv'
  BY <1>4, RecoverParts DEF ModeInv
<1>6. NoModeYet \/ (~NoModeYet' /\ s'.crc = s.crc)
  OBVIOUS
<1>7. Calm' => Calm
  BY <1>6, CalmBefore
<1>. QED  BY <1>1, <1>2, <1>3, <1>4, <1>5, <1>7

LEMMA SenderFailing ==
    ASSUME CopyInv, CopyInv', RecoverInv, SenderGivesUp, UNCHANGED <<r, Taken>>,
           trouble' \in Nat, trouble <= trouble', UNCHANGED ackVain,
           ~Mild' \/ (~NoModeYet /\ ~Calm)
    PROVE  RecoverInv'
<1>1. s'.at = "failed" /\ s'.crc = s.crc /\ toRecv' = Append(toRecv, Control("CAN"))
  BY CopyTypes DEF SenderGivesUp, SenderType
<1>2. ~NoModeYet'
  BY <1>1 DEF NoModeYet
<1>3. Control("CAN") \in MsgType /\ Control("CAN").t = "CAN"
  BY Controls
<1>4. /\ OneMode(toRecv', s'.crc) /\ EotLast(toRecv')
      /\ None(toRecv, "block") => None(toRecv', "block")
  <2>1. toRecv \in Seq(MsgType) /\ OneMode(toRecv, s.crc) /\ EotLast(toRecv)
    BY Counters, RecoverParts
  <2>2. OneMode(toRecv', s.crc) /\ EotLast(toRecv')
    BY <1>1, <1>3, <2>1, MoreHas
  <2>3. None(toRecv, "block") => None(toRecv', "block")
    BY <1>1, <1>3, <2>1, MoreHas
  <2>. QED  BY <1>1, <2>2, <2>3
<1>5. ackVain' \in BOOLEAN
  BY RecoverParts
<1>6. NoModeYet => ~Mild'
  OBVIOUS
<1>7. /\ TroubleType' /\ StartInv' /\ BlocksInv' /\ EotInv' /\ ModeInv'
      /\ Mild' => Mild
      /\ Calm' => Calm
  BY <1>1, <1>2, <1>4, <1>5, <1>6, SenderShape
<1>8. ~Calm'
  BY <1>7 DEF Calm
<1>9. GoesOn' /\ ErrorsInv' /\ TokenInv' /\ TextInv' /\ EndInv'
  BY <1>8 DEF GoesOn, ErrorsInv, TokenInv, TextInv, EndInv
<1>. QED  BY <1>7, <1>9 DEF RecoverInv

\* What a step of the sender leaves as it was.
LEMMA ReceiverSame ==
    ASSUME UNCHANGED r
    PROVE  RecvErrors' = RecvErrors /\ Passes' = Passes /\ Unasked' = Unasked /\ Refused' = Refused
BY DEF RecvErrors, Passes, Unasked, Refused

LEMMA SenderStartsRecovers ==
    ASSUME CopyInv, CopyInv', RecoverInv, SenderStarts
    PROVE  RecoverInv'
<1>1. /\ s.at = "idle" /\ s'.at = "mode" /\ s'.crc = s.crc /\ s'.errors = s.errors /\ s'.off = s.off
      /\ UNCHANGED <<toRecv, toSend, r, Taken, trouble, ackVain>>
  BY CopyTypes DEF Taken, SenderStarts, SenderType
<1>2. NoModeYet /\ NoModeYet' /\ AckDue' = AckDue /\ Silent' = Silent
  BY <1>1 DEF NoModeYet, AckDue, Silent
<1>3. trouble' \in Nat /\ trouble <= trouble' /\ ackVain' \in BOOLEAN
  BY <1>1, RecoverParts
<1>4. /\ TroubleType' /\ StartInv' /\ BlocksInv' /\ EotInv' /\ ModeInv'
      /\ Calm' => Calm
  BY <1>1, <1>2, <1>3, RecoverParts, SenderShape
<1>5. GoesOn'
  BY <1>1, <1>2, <1>4, RecoverParts DEF GoesOn
<1>6. /\ SendErrors' = SendErrors /\ Dirt' = Dirt /\ Blocks' = Blocks /\ Answers' = Answers
      /\ Asks' = Asks /\ Silence' = Silence /\ Unsent' = Unsent /\ Unmoded' = Unmoded
  BY <1>1, <1>2 DEF SendErrors, Dirt, Blocks, Answers, Asks, Silence, Unsent, Unmoded, One
<1>7. ErrorsInv' /\ TokenInv' /\ TextInv' /\ EndInv'
  <2>1. ErrorsInv'
    BY <1>1, <1>4, <1>6, ReceiverSame, RecoverParts DEF ErrorsInv
  <2>2. TokenInv'
    BY <1>1, <1>4, <1>6, ReceiverSame, RecoverParts DEF TokenInv
  <2>3. TextInv'
    BY <1>1, <1>4, <1>6, ReceiverSame, RecoverParts DEF TextInv
  <2>4. EndInv'
    BY <1>1 DEF EndInv
  <2>. QED  BY <2>1, <2>2, <2>3, <2>4
<1>. QED  BY <1>4, <1>5, <1>7 DEF RecoverInv

\* Before the mode is known nothing is acknowledged.
LEMMA NothingDue ==
    ASSUME CopyInv, RecoverInv, NoModeYet
    PROVE  ~AckDue /\ toRecv = <<>> /\ r.num = 1
<1>1. Taken = <<>> /\ r.at # "done" /\ toRecv = <<>>
  BY RecoverParts DEF StartInv
<1>2. s.off = 0 /\ s.num = 1 /\ Len(Taken) = 0
  BY <1>1 DEF CopyInv, SenderInv, NoModeYet
<1>3. r.num = 1
  BY <1>2, CopyTypes, AheadOrNot DEF Level
<1>. QED  BY <1>1, <1>2, <1>3 DEF AckDue

LEMMA GetModeFails ==
    ASSUME CopyInv, CopyInv', RecoverInv, NEW a \in Inputs(toSend), GetMode(a),
           a.t = "CAN" \/ s.errors = MaxErrors, a.t \notin {"C", "NAK"}, SenderGivesUp
    PROVE  RecoverInv'
<1>1. /\ s.at = "mode" /\ NoModeYet /\ Clock(a, SenderAlone) /\ toSend' = After(toSend, a)
      /\ UNCHANGED <<r, Taken, ackVain>>
  BY DEF Taken, GetMode, NoModeYet
<1>2. trouble' \in Nat /\ trouble <= trouble'
  BY <1>1, ClockOn
<1>3. ASSUME Mild'
      PROVE  FALSE
  <2>1. Mild /\ 2 * trouble' < MaxErrors
    BY <1>1, <1>2, <1>3, MildBefore DEF Mild
  <2>2. Calm
    BY <1>1, <2>1 DEF Calm
  <2>3. s.at # "done"
    BY <1>1
  <2>4. a.t # "CAN" /\ a.t # "ACK"
    BY <1>1, <2>2, <2>3, Heard, AckRead, NothingDue
  <2>5. trouble' = trouble + 1 \/ (trouble' = trouble /\ Asks' = Asks - 1)
    BY <1>1, <2>2, <2>3, <2>4, Heard
  <2>6. SendErrors = MaxErrors
    BY <2>4 DEF SendErrors
  <2>7. SendErrors + Asks + Silence + Dirt + Unasked <= trouble + 1
    BY <1>1, <2>2, RecoverParts DEF TextInv, Unmoded, One
  <2>. QED  BY <2>1, <2>5, <2>6, <2>7, Sums, SumsNext
<1>. QED  BY <1>1, <1>2, <1>3, SenderFailing

LEMMA ModeFound ==
    ASSUME CopyInv, CopyInv', RecoverInv, NEW a \in Inputs(toSend), GetMode(a),
           a.t \in {"C", "NAK"}, UNCHANGED toRecv,
           s' = [s EXCEPT !.at = Onward(0), !.errors = 0, !.crc = (a.t = "C")]
    PROVE  RecoverInv'
<1>1. /\ s.at = "mode" /\ NoModeYet /\ Clock(a, SenderAlone) /\ toSend' = After(toSend, a)
      /\ UNCHANGED <<r, Taken, ackVain>>
  BY DEF Taken, GetMode, NoModeYet
<1>2. /\ s'.at \in {"send", "eot"} /\ s'.errors = 0 /\ s'.crc = (a.t = "C") /\ s'.off = s.off
  BY CopyTypes DEF SenderType, Onward
<1>3. /\ trouble' \in Nat /\ trouble <= trouble' /\ ackVain' \in BOOLEAN
      /\ ~NoModeYet' /\ ~AckDue' /\ toRecv' = <<>> /\ ~Silent'
  BY <1>1, <1>2, ClockOn, NothingDue, RecoverParts DEF NoModeYet, AckDue, Silent
<1>4. r.crc => s'.crc
  <2>1. a = toSend[1] /\ 1 \in 1 .. Len(toSend)
    BY Counters DEF Inputs, NoInput, Control
  <2>2. r.crc => a.t # "NAK"
    BY <1>1, <2>1, RecoverParts DEF StartInv, None
  <2>. QED  BY <1>2, <2>2
<1>5. OneMode(toRecv', s'.crc) /\ EotLast(toRecv') /\ None(toRecv', "block")
  BY <1>3 DEF OneMode, EotLast, None
<1>6. /\ TroubleType' /\ StartInv' /\ BlocksInv' /\ EotInv' /\ ModeInv'
      /\ Calm' => Calm
  BY <1>1, <1>3, <1>4, <1>5, SenderShape
<1>7. Calm' => /\ None(toSend', "CAN") /\ Asks' = Asks - 1 /\ Answers' = Answers - 1
               /\ trouble' = trouble
  <2>1. a.t \notin {"ACK", "noise", "NOINP"} /\ s.at # "done"
    BY <1>1
  <2>. QED  BY <1>1, <1>6, <2>1, Heard
<1>8. GoesOn'
  <2>1. None(toRecv', "CAN")
    BY <1>3 DEF None
  <2>. QED  BY <1>1, <1>2, <1>3, <1>6, <1>7, <2>1, RecoverParts DEF GoesOn
<1>9. /\ Dirt' = Dirt /\ Blocks' = Blocks /\ SendErrors' = 0
      /\ Silence' = 0 /\ Unsent' = 1 /\ Unsent = 0 /\ Unmoded' = 0 /\ Unmoded = 1
  BY <1>1, <1>2, <1>3 DEF Dirt, Blocks, SendErrors, Silence, Unsent, Unmoded, One
<1>10. Dirt = 0
  BY NothingDue, NoisesOfNone, <1>1 DEF Dirt
<1>11. Calm => SendErrors + Asks + Silence + Dirt + Unasked <= trouble + Unmoded
  BY <1>1, RecoverParts DEF TextInv
<1>12. ErrorsInv'
  BY <1>6, <1>7, <1>9, ReceiverSame, <1>1, RecoverParts, Sums DEF ErrorsInv
<1>13. TokenInv'
  BY <1>6, <1>7, <1>9, ReceiverSame, <1>1, RecoverParts, Sums DEF TokenInv
<1>14. TextInv'
  BY <1>6, <1>7, <1>9, <1>11, ReceiverSame, <1>1, Sums DEF TextInv
<1>15. EndInv'
  BY <1>6, <1>7, <1>9, <1>10, <1>11, ReceiverSame, <1>1, Sums, SumsNext DEF EndInv
<1>. QED  BY <1>6, <1>8, <1>12, <1>13, <1>14, <1>15 DEF RecoverInv

LEMMA ModeAwaited ==
    ASSUME CopyInv, CopyInv', RecoverInv, NEW a \in Inputs(toSend), GetMode(a),
           a.t \notin {"C", "NAK", "CAN"}, UNCHANGED toRecv,
           s' = [s EXCEPT !.errors = @ + 1]
    PROVE  RecoverInv'
<1>1. /\ s.at = "mode" /\ NoModeYet /\ Clock(a, SenderAlone) /\ toSend' = After(toSend, a)
      /\ UNCHANGED <<r, Taken, ackVain>>
  BY DEF Taken, GetMode, NoModeYet
<1>2. s'.at = "mode" /\ s'.errors = s.errors + 1 /\ s'.crc = s.crc /\ s'.off = s.off
  BY <1>1, CopyTypes DEF SenderType
<1>3. /\ trouble' \in Nat /\ trouble <= trouble' /\ ackVain' \in BOOLEAN
      /\ NoModeYet' /\ ~AckDue' /\ toRecv' = <<>>
  BY <1>1, <1>2, ClockOn, NothingDue, RecoverParts DEF NoModeYet, AckDue
<1>4. None(toSend, "NAK") => None(toSend', "NAK")
  <2>1. CASE a = NoInput
    BY <1>1, <2>1 DEF After
  <2>2. CASE a # NoInput
    <3>1. toSend' = Rest(toSend, 1) /\ 1 \in 0 .. Len(toSend)
      BY <1>1, <2>2, Counters DEF Inputs, After
    <3>. QED  BY <3>1, Counters, RestHas
  <2>. QED  BY <2>1, <2>2
<1>5. OneMode(toRecv', s'.crc) /\ EotLast(toRecv') /\ None(toRecv', "block")
  BY <1>3 DEF OneMode, EotLast, None
<1>6. /\ TroubleType' /\ StartInv' /\ BlocksInv' /\ EotInv' /\ ModeInv'
      /\ Calm' => Calm
  BY <1>1, <1>3, <1>4, <1>5, SenderShape
<1>7. a.t # "ACK"
  BY <1>1, AckRead, NothingDue
<1>8. Calm' => /\ None(toSend', "CAN")
               /\ \/ /\ trouble' = trouble + 1 /\ Silence' = Silence
                     /\ Asks' = Asks /\ Answers' = Answers
                  \/ /\ trouble' = trouble /\ Silence' <= Silence
                     /\ Asks' = Asks - 1 /\ Answers' = Answers - 1
  <2>1. SUFFICES ASSUME Calm'
                 PROVE  /\ None(toSend', "CAN")
                        /\ \/ /\ trouble' = trouble + 1 /\ Silence' = Silence
                              /\ Asks' = Asks /\ Answers' = Answers
                           \/ /\ trouble' = trouble /\ Silence' <= Silence
                              /\ Asks' = Asks - 1 /\ Answers' = Answers - 1
    OBVIOUS
  <2>2. Calm /\ s.at # "done"
    BY <1>1, <1>6, <2>1
  <2>3. /\ None(toSend', "CAN")
        /\ \/ /\ trouble' = trouble + 1 /\ toSend' = toSend
              /\ Asks' = Asks /\ Answers' = Answers
           \/ /\ trouble' = trouble /\ (OnlyNoise(toSend') => OnlyNoise(toSend))
              /\ Asks' = Asks - 1 /\ Answers' = Answers - 1
    BY <1>1, <1>7, <2>2, Heard
  <2>4. toSend' = toSend => Silence' = Silence
    BY <1>1, <1>2 DEF Silence, Silent
  <2>5. (OnlyNoise(toSend') => OnlyNoise(toSend)) => Silence' <= Silence
    BY <1>1, <1>2 DEF Silence, Silent, One
  <2>. QED  BY <2>3, <2>4, <2>5
<1>9. GoesOn'
  <2>1. None(toRecv', "CAN")
    BY <1>3 DEF None
  <2>. QED  BY <1>1, <1>2, <1>3, <1>6, <1>8, <2>1, RecoverParts DEF GoesOn
<1>10. /\ Dirt' = Dirt /\ Blocks' = Blocks /\ SendErrors' = SendErrors + 1
       /\ Unsent' = Unsent /\ Unmoded' = Unmoded
  BY <1>1, <1>2, <1>3 DEF Dirt, Blocks, SendErrors, Unsent, Unmoded, One
<1>11. Calm => SendErrors + Asks + Silence + Dirt + Unasked <= trouble + Unmoded
  BY <1>1, RecoverParts DEF TextInv
<1>12. ErrorsInv'
  BY <1>6, <1>8, <1>10, ReceiverSame, <1>1, RecoverParts, Sums, SumsNext DEF ErrorsInv
<1>13. TokenInv'
  BY <1>6, <1>8, <1>10, ReceiverSame, <1>1, RecoverParts, Sums, SumsNext DEF TokenInv
<1>14. TextInv'
  BY <1>6, <1>8, <1>10, <1>11, ReceiverSame, <1>1, Sums, SumsNext DEF TextInv
<1>15. EndInv'
  BY <1>2 DEF EndInv
<1>. QED  BY <1>6, <1>9, <1>12, <1>13, <1>14, <1>15 DEF RecoverInv

LEMMA GetModeRecovers ==
    ASSUME CopyInv, CopyInv', RecoverInv, NEW a \in Inputs(toSend), GetMode(a)
    PROVE  RecoverInv'
<1>1. CASE /\ a.t \in {"C", "NAK"} /\ UNCHANGED toRecv
           /\ s' = [s EXCEPT !.at = Onward(0), !.errors = 0, !.crc = (a.t = "C")]
  BY <1>1, ModeFound
<1>2. CASE a.t \notin {"C", "NAK", "CAN"} /\ UNCHANGED toRecv /\ s' = [s EXCEPT !.errors = @ + 1]
  BY <1>2, ModeAwaited
<1>3. CASE a.t \notin {"C", "NAK"} /\ (a.t = "CAN" \/ s.errors = MaxErrors) /\ SenderGivesUp
  BY <1>3, GetModeFails
<1>. QED  BY <1>1, <1>2, <1>3 DEF Taken, GetMode

\* A sender that has not come too far into its errors goes on.
LEMMA TooManyErrorsRecovers ==
    ASSUME CopyInv, CopyInv', RecoverInv, TooManyErrors
    PROVE  RecoverInv'
<1>1. /\ s.at \in {"send", "eot"} /\ s.errors > MaxErrors /\ SenderGivesUp
      /\ UNCHANGED <<toSend, r, Taken, trouble, ackVain>>
  BY DEF Taken, TooManyErrors
<1>2. SendErrors > MaxErrors /\ ~NoModeYet
  BY <1>1 DEF SendErrors, NoModeYet
<1>3. trouble' \in Nat /\ trouble <= trouble'
  BY <1>1, Sums
<1>4. ASSUME Calm
      PROVE  FALSE
  <2>1. 2 * trouble < MaxErrors
    BY <1>4 DEF Calm, Mild
  <2>2. CASE s.at = "send"
    <3>1. SendErrors + Asks + Silence + Dirt + Unasked <= trouble
      <4>1. Unmoded = 0
        BY <1>2 DEF Unmoded, One
      <4>. QED  BY <1>4, <2>2, <4>1, RecoverParts, Sums DEF TextInv
    <3>. QED  BY <1>2, <2>1, <3>1, Sums
  <2>3. CASE s.at = "eot"
    <3>1. SendErrors + Asks + 2 * (Silence + Dirt + Unasked) <= 2 * trouble + Refused
      BY <1>4, <2>3, RecoverParts DEF EndInv
    <3>. QED  BY <1>2, <2>1, <3>1, Sums
  <2>. QED  BY <1>1, <2>2, <2>3
<1>. QED  BY <1>1, <1>2, <1>3, <1>4, SenderFailing

LEMMA PutBlockRecovers ==
    ASSUME CopyInv, CopyInv', RecoverInv, PutBlock
    PROVE  RecoverInv'
<1>1. /\ s.at = "send" /\ toRecv' = Append(toRecv, Block)
      /\ UNCHANGED <<toSend, r, Taken, trouble, ackVain>>
  BY DEF Taken, PutBlock
<1>2. s'.at = "ack" /\ s'.errors = s.errors /\ s'.crc = s.crc /\ s'.off = s.off
  BY CopyTypes DEF Taken, PutBlock, SenderType
<1>3. s.off < FileLen /\ BlockLen \in Nat
  BY <1>1, CopyTypes, XmodemAssumption DEF CopyInv, SenderInv, SenderType, BlockLen
<1>4. /\ Block \in MsgType /\ Block.t = "block" /\ Block.from = s.off /\ Block.crc = s.crc
  BY <1>3, CopyTypes, XmodemAssumption DEF Block, MsgType, SenderType
<1>5. None(toRecv, "EOT") /\ ~r.eot
  BY <1>3, CopyTypes DEF CopyInv, ToRecvInv, EotsRight, ReceiverInv, None
<1>6. /\ OneMode(toRecv', s'.crc) /\ EotLast(toRecv') /\ ~OnlyOld(toRecv', s.off)
      /\ None(toRecv, "CAN") => None(toRecv', "CAN")
      /\ Len(toRecv') = Len(toRecv) + 1
  <2>1. toRecv \in Seq(MsgType) /\ OneMode(toRecv, s.crc) /\ EotLast(toRecv)
    BY Counters, RecoverParts
  <2>2. OneMode(toRecv', s.crc) /\ EotLast(toRecv')
    BY <1>1, <1>4, <1>5, <2>1, MoreHas
  <2>3. ~OnlyOld(toRecv', s.off) /\ Len(toRecv') = Len(toRecv) + 1
    BY <1>1, <1>4, <2>1, MoreHas
  <2>4. None(toRecv, "CAN") => None(toRecv', "CAN")
    BY <1>1, <1>4, <2>1, MoreHas
  <2>. QED  BY <1>2, <2>2, <2>3, <2>4
<1>7. Noises(toRecv') <= Noises(toRecv)
  BY <1>1, <1>4, Counters, NoisesOfMore
<1>8. /\ trouble' \in Nat /\ trouble <= trouble' /\ ackVain' \in BOOLEAN
      /\ ~NoModeYet /\ ~NoModeYet' /\ AckDue' = AckDue /\ ~Silent'
  BY <1>1, <1>2, <1>6, RecoverParts DEF NoModeYet, AckDue, Silent
<1>9. /\ TroubleType' /\ StartInv' /\ BlocksInv' /\ EotInv' /\ ModeInv'
      /\ Calm' => Calm
  BY <1>1, <1>2, <1>5, <1>6, <1>8, SenderShape
<1>10. GoesOn'
  BY <1>1, <1>2, <1>6, <1>8, <1>9, RecoverParts DEF GoesOn
<1>11. /\ Dirt' <= Dirt /\ Blocks' = Blocks + 1 /\ SendErrors' = SendErrors
       /\ Asks' = Asks /\ Answers' = Answers
       /\ Silence' = 0 /\ Unsent' = 0 /\ Unsent = 1 /\ Unmoded' = 0 /\ Unmoded = 0
  BY <1>1, <1>2, <1>6, <1>7, <1>8
  DEF Dirt, Blocks, SendErrors, Asks, Answers, Silence, Unsent, Unmoded, One
<1>16. trouble' = trouble /\ r' = r
  BY <1>1
<1>17. ErrorsInv /\ TokenInv /\ TextInv
  BY RecoverParts
<1>18. /\ RecvErrors' = RecvErrors /\ Passes' = Passes /\ Unasked' = Unasked /\ Refused' = Refused
       /\ Calm' => Calm
  BY <1>9, <1>16, ReceiverSame
<1>19. Calm /\ s.at = "send" =>
           SendErrors + Asks + Silence + Dirt + Unasked <= trouble + Unmoded
  BY <1>17 DEF TextInv
<1>12. ErrorsInv'
  BY <1>11, <1>16, <1>17, <1>18, Sums, SumsNext DEF ErrorsInv
<1>13. TokenInv'
  BY <1>11, <1>16, <1>17, <1>18, Sums, SumsNext DEF TokenInv
<1>20. s.at = "send" /\ trouble' = trouble
  BY <1>1
<1>14. TextInv'
  BY <1>11, <1>18, <1>19, <1>20, Sums, SumsNext DEF TextInv
<1>15. EndInv'
  BY <1>2 DEF EndInv
<1>. QED  BY <1>9, <1>10, <1>12, <1>13, <1>14, <1>15 DEF RecoverInv

LEMMA PutEotRecovers ==
    ASSUME CopyInv, CopyInv', RecoverInv, PutEot
    PROVE  RecoverInv'
<1>1. /\ s.at = "eot" /\ toRecv' = Append(toRecv, Control("EOT"))
      /\ UNCHANGED <<r, Taken, trouble>>
  BY DEF Taken, PutEot
<1>2. s'.at = "eotWait" /\ s'.errors = s.errors /\ s'.crc = s.crc /\ s'.off = s.off
  BY CopyTypes DEF Taken, PutEot, SenderType
<1>3. /\ ackVain' \in BOOLEAN
      /\ ackVain' = FALSE => ackVain = FALSE
      /\ ackVain' = FALSE => HasAck(toSend') = HasAck(toSend) /\ Asks' <= Asks /\ Answers' <= Answers
      /\ None(toSend, "CAN") => None(toSend', "CAN")
  <2>1. PICK k \in 0 .. Len(toSend) :
            /\ toSend' = Rest(toSend, k)
            /\ ackVain' = (ackVain \/ \E i \in 1 .. k : toSend[i].t = "ACK")
    BY DEF Taken, PutEot
  <2>2. /\ ackVain' \in BOOLEAN
        /\ ackVain' = FALSE => ackVain = FALSE /\ \A i \in 1 .. k : toSend[i].t # "ACK"
    BY <2>1, RecoverParts
  <2>3. ackVain' = FALSE =>
            /\ HasAck(toSend') = HasAck(toSend)
            /\ Len(toSend') = Len(toSend) - k /\ Asked(toSend') = Asked(toSend) - k
    BY <2>1, <2>2, Counters, AskedOfRest
  <2>4. None(toSend, "CAN") => None(toSend', "CAN")
    BY <2>1, Counters, RestHas
  <2>5. k \in Nat /\ Len(toSend) \in Nat /\ Asked(toSend) \in Nat
    BY Counters
  <2>6. ackVain' = FALSE => Asks' <= Asks /\ Answers' <= Answers
    BY <2>3, <2>5 DEF Asks, Answers
  <2>. QED  BY <2>2, <2>3, <2>4, <2>6
<1>5. Control("EOT") \in MsgType /\ Control("EOT").t = "EOT"
  BY Controls
<1>6. /\ OneMode(toRecv', s'.crc) /\ EotLast(toRecv') /\ ~OnlyOld(toRecv', s.off)
      /\ None(toRecv, "CAN") => None(toRecv', "CAN")
      /\ None(toRecv, "block") => None(toRecv', "block")
      /\ Len(toRecv') = Len(toRecv) + 1
  <2>1. toRecv \in Seq(MsgType) /\ OneMode(toRecv, s.crc) /\ EotLast(toRecv)
    BY Counters, RecoverParts
  <2>2. OneMode(toRecv', s.crc) /\ EotLast(toRecv')
    BY <1>1, <1>5, <2>1, MoreHas
  <2>3. ~OnlyOld(toRecv', s.off) /\ Len(toRecv') = Len(toRecv) + 1
    BY <1>1, <1>5, <2>1, MoreHas
  <2>4. /\ None(toRecv, "CAN") => None(toRecv', "CAN")
        /\ None(toRecv, "block") => None(toRecv', "block")
    BY <1>1, <1>5, <2>1, MoreHas
  <2>. QED  BY <1>2, <2>2, <2>3, <2>4
<1>7. Noises(toRecv') <= Noises(toRecv)
  BY <1>1, <1>5, Counters, NoisesOfMore
<1>8. /\ trouble' \in Nat /\ trouble <= trouble'
      /\ ~NoModeYet /\ ~NoModeYet' /\ AckDue' = AckDue /\ ~Silent'
  BY <1>1, <1>2, <1>6, RecoverParts DEF NoModeYet, AckDue, Silent
<1>9. /\ TroubleType' /\ StartInv' /\ BlocksInv' /\ EotInv' /\ ModeInv'
      /\ Calm' => Calm
  BY <1>1, <1>2, <1>3, <1>6, <1>8, SenderShape
<1>10. Calm' => ackVain' = FALSE
  BY DEF Calm, Mild
<1>13. GoesOn'
  BY <1>1, <1>2, <1>3, <1>6, <1>8, <1>9, <1>10, RecoverParts DEF GoesOn
<1>14. Calm' => Asks' <= Asks /\ Answers' <= Answers
  BY <1>3, <1>10
<1>15. /\ Dirt' <= Dirt /\ Blocks' = Blocks + 1 /\ SendErrors' = SendErrors
       /\ Silence' = 0 /\ Unsent' = 0 /\ Unsent = 1 /\ Unmoded' = 0 /\ Unmoded = 0
  BY <1>1, <1>2, <1>6, <1>7, <1>8
  DEF Dirt, Blocks, SendErrors, Silence, Unsent, Unmoded, One
<1>20. trouble' = trouble /\ r' = r
  BY <1>1
<1>22. /\ RecvErrors' = RecvErrors /\ Passes' = Passes /\ Unasked' = Unasked /\ Refused' = Refused
       /\ Calm' => Calm
  BY <1>9, <1>20, ReceiverSame
<1>21. ErrorsInv /\ TokenInv
       /\ (Calm => SendErrors + Asks + 2 * (Silence + Dirt + Unasked) <= 2 * trouble + Refused)
  BY <1>1, RecoverParts DEF EndInv
<1>16. ErrorsInv'
  BY <1>15, <1>20, <1>21, <1>22, Sums, SumsNext DEF ErrorsInv
<1>17. TokenInv'
  BY <1>14, <1>15, <1>20, <1>21, <1>22, Sums, SumsNext DEF TokenInv
<1>18. TextInv'
  BY <1>2 DEF TextInv
<1>19. EndInv'
  BY <1>14, <1>15, <1>20, <1>21, <1>22, Sums, SumsNext DEF EndInv
<1>. QED  BY <1>9, <1>13, <1>16, <1>17, <1>18, <1>19 DEF RecoverInv

\* What a step of the sender that leaves the line to the receiver alone, and knows
\* the mode, keeps.
LEMMA SenderReads ==
    ASSUME CopyInv, CopyInv', RecoverInv, ~NoModeYet, ~NoModeYet', s.at # "done",
           NEW a \in Inputs(toSend), Clock(a, SenderAlone), toSend' = After(toSend, a),
           UNCHANGED <<toRecv, r, Taken, ackVain>>, s'.crc = s.crc
    PROVE  /\ TroubleType' /\ StartInv' /\ BlocksInv' /\ EotInv' /\ ModeInv'
           /\ Calm' => Calm
           /\ Dirt' = Dirt /\ Blocks' = Blocks /\ Unmoded = 0 /\ Unmoded' = 0
           /\ RecvErrors' = RecvErrors /\ Passes' = Passes /\ Unasked' = Unasked /\ Refused' = Refused
           /\ Calm' => /\ a.t # "CAN" /\ None(toRecv', "CAN") /\ None(toSend', "CAN")
                       /\ r'.at # "failed"
           /\ Calm' /\ a.t = "ACK" =>
                  trouble' = trouble /\ Asks' = Asks /\ Answers' = Answers - 1
           /\ Calm' /\ a.t # "ACK" =>
                  /\ HasAck(toSend) => HasAck(toSend')
                  /\ \/ trouble' = trouble + 1 /\ Asks' = Asks /\ Answers' = Answers
                     \/ trouble' = trouble /\ Asks' = Asks - 1 /\ Answers' = Answers - 1
           /\ Calm' /\ a = NoInput => toSend' = toSend /\ trouble' = trouble + 1
<1>1. trouble' \in Nat /\ trouble <= trouble' /\ ackVain' \in BOOLEAN
  BY ClockOn, RecoverParts
<1>2. OneMode(toRecv', s'.crc) /\ EotLast(toRecv')
  BY RecoverParts
<1>3. /\ TroubleType' /\ StartInv' /\ BlocksInv' /\ EotInv' /\ ModeInv'
      /\ Calm' => Calm
  BY <1>1, <1>2, SenderShape
<1>4. Dirt' = Dirt /\ Blocks' = Blocks /\ Unmoded = 0 /\ Unmoded' = 0
  BY DEF Dirt, Blocks, Unmoded, One
<1>5. RecvErrors' = RecvErrors /\ Passes' = Passes /\ Unasked' = Unasked /\ Refused' = Refused
  BY ReceiverSame
<1>6. Calm => None(toRecv, "CAN") /\ r.at # "failed"
  BY RecoverParts DEF GoesOn
<1>7. ASSUME Calm'
      PROVE  /\ a.t # "CAN" /\ None(toRecv', "CAN") /\ None(toSend', "CAN") /\ r'.at # "failed"
             /\ a.t = "ACK" => trouble' = trouble /\ Asks' = Asks /\ Answers' = Answers - 1
             /\ a.t # "ACK" =>
                    /\ HasAck(toSend) => HasAck(toSend')
                    /\ \/ trouble' = trouble + 1 /\ Asks' = Asks /\ Answers' = Answers
                       \/ trouble' = trouble /\ Asks' = Asks - 1 /\ Answers' = Answers - 1
             /\ a = NoInput => toSend' = toSend /\ trouble' = trouble + 1
  <2>1. Calm
    BY <1>3, <1>7
  <2>2. NoInput.t = "NOINP"
    BY DEF NoInput, Control
  <2>3. /\ a.t # "CAN" /\ None(toSend', "CAN")
        /\ \/ /\ a = NoInput /\ a.t = "NOINP" /\ trouble' = trouble + 1
              /\ toSend' = toSend /\ Asks' = Asks /\ Answers' = Answers
           \/ /\ a # NoInput /\ a.t = "ACK" /\ trouble' = trouble
              /\ Asks' = Asks /\ Answers' = Answers - 1
           \/ /\ a # NoInput /\ a.t \in {"NAK", "C", "noise"} /\ trouble' = trouble
              /\ HasAck(toSend') = HasAck(toSend)
              /\ Asks' = Asks - 1 /\ Answers' = Answers - 1
    BY <2>1, Heard, Zenon
  <2>. QED  BY <1>6, <2>1, <2>2, <2>3
<1>. QED  BY <1>3, <1>4, <1>5, <1>7

LEMMA AckRecovers ==
    ASSUME CopyInv, CopyInv', RecoverInv, NEW a \in Inputs(toSend), GetAck(a),
           a.t = "ACK", Acknowledged, UNCHANGED toRecv
    PROVE  RecoverInv'
<1>1. /\ s.at = "ack" /\ ~NoModeYet /\ s.at # "done"
      /\ Clock(a, SenderAlone) /\ toSend' = After(toSend, a)
      /\ UNCHANGED <<toRecv, r, Taken, ackVain>>
  BY DEF Taken, GetAck, NoModeYet
<1>2. s.off < FileLen /\ s.off + s.len = EndAt(s.off)
  BY <1>1, CopyTypes DEF CopyInv, SenderInv, EndAt
<1>3. /\ s'.at \in {"send", "eot"} /\ s'.crc = s.crc /\ s'.off = EndAt(s.off)
      /\ s'.errors = IF s'.at = "eot" THEN 0 ELSE s.errors
  <2>. DEFINE end == EndAt(s.off)
  <2>1. s' = [s EXCEPT !.at = Onward(end), !.num = s.num + 1, !.off = end,
                       !.errors = IF Onward(end) = "eot" THEN 0 ELSE s.errors]
    BY <1>2 DEF Acknowledged
  <2>2. Onward(end) \in {"send", "eot"}
    BY DEF Onward
  <2>. HIDE DEF end
  <2>3. s'.off = end /\ s'.at = Onward(end) /\ s'.crc = s.crc
        /\ s'.errors = IF Onward(end) = "eot" THEN 0 ELSE s.errors
    BY <2>1, CopyTypes DEF SenderType
  <2>. QED  BY <2>2, <2>3 DEF end
<1>4. ~NoModeYet' /\ ~Silent'
  BY <1>3 DEF NoModeYet, Silent
<1>5. AckDue /\ r.at # "done"
  <2>1. AckDue
    BY AckRead
  <2>2. r.at = "done" => s.off = FileLen
    BY DEF CopyInv, ReceiverInv
  <2>. QED  BY <1>2, <2>1, <2>2, CopyTypes
<1>6. ~AckDue'
  <2>1. Len(Taken) > s.off
    BY <1>5 DEF AckDue
  <2>2. Len(Taken) = EndAt(s.off)
    BY <2>1, CopyTypes, AheadOrNot DEF Ahead
  <2>. QED  BY <1>1, <1>3, <1>5, <2>2, CopyTypes DEF AckDue
<1>7. /\ TroubleType' /\ StartInv' /\ BlocksInv' /\ EotInv' /\ ModeInv'
      /\ Calm' => Calm
      /\ Dirt' = Dirt /\ Blocks' = Blocks /\ Unmoded = 0 /\ Unmoded' = 0
      /\ RecvErrors' = RecvErrors /\ Passes' = Passes /\ Unasked' = Unasked /\ Refused' = Refused
      /\ Calm' => None(toRecv', "CAN") /\ None(toSend', "CAN") /\ r'.at # "failed"
      /\ Calm' => trouble' = trouble /\ Asks' = Asks /\ Answers' = Answers - 1
  BY <1>1, <1>3, <1>4, SenderReads
<1>8. GoesOn'
  BY <1>3, <1>6, <1>7 DEF GoesOn
<1>9. /\ SendErrors' = IF s'.at = "eot" THEN 0 ELSE SendErrors
      /\ Silence' = 0 /\ Unsent' = 1 /\ Unsent = 0
  BY <1>1, <1>3, <1>4 DEF SendErrors, Silence, Unsent, One
<1>10. /\ ErrorsInv /\ TokenInv
       /\ Calm => SendErrors + Asks + Silence + Dirt + Unasked <= trouble + Unmoded
  BY <1>1, RecoverParts DEF TextInv
<1>11. ErrorsInv'
  BY <1>7, <1>9, <1>10, Sums, SumsNext DEF ErrorsInv
<1>12. TokenInv'
  BY <1>7, <1>9, <1>10, Sums, SumsNext DEF TokenInv
<1>13. TextInv'
  <2>1. s'.at = "eot" \/ SendErrors' = SendErrors
    BY <1>9
  <2>. QED  BY <1>7, <1>9, <1>10, <2>1, Sums, SumsNext DEF TextInv
<1>14. EndInv'
  <2>1. s'.at = "send" \/ SendErrors' = 0
    BY <1>3, <1>9
  <2>. QED  BY <1>7, <1>9, <1>10, <2>1, Sums, SumsNext DEF EndInv
<1>. QED  BY <1>7, <1>8, <1>11, <1>12, <1>13, <1>14 DEF RecoverInv

LEMMA AnotherTryRecovers ==
    ASSUME CopyInv, CopyInv', RecoverInv, GetAck(NoInput), UNCHANGED toRecv,
           s' = [s EXCEPT !.tries = @ + 1]
    PROVE  RecoverInv'
<1>1. /\ s.at = "ack" /\ ~NoModeYet /\ s.at # "done" /\ NoInput \in Inputs(toSend)
      /\ Clock(NoInput, SenderAlone) /\ toSend' = After(toSend, NoInput)
      /\ UNCHANGED <<toRecv, r, Taken, ackVain>>
  BY DEF Taken, GetAck, NoModeYet, Inputs
<1>2. s'.at = "ack" /\ s'.crc = s.crc /\ s'.off = s.off /\ s'.errors = s.errors
  BY <1>1, CopyTypes DEF SenderType
<1>3. ~NoModeYet' /\ AckDue' = AckDue /\ toSend' = toSend
  BY <1>1, <1>2 DEF NoModeYet, AckDue, After
<1>4. /\ TroubleType' /\ StartInv' /\ BlocksInv' /\ EotInv' /\ ModeInv'
      /\ Calm' => Calm
      /\ Dirt' = Dirt /\ Blocks' = Blocks /\ Unmoded = 0 /\ Unmoded' = 0
      /\ RecvErrors' = RecvErrors /\ Passes' = Passes /\ Unasked' = Unasked /\ Refused' = Refused
      /\ Calm' => None(toRecv', "CAN") /\ None(toSend', "CAN") /\ r'.at # "failed"
      /\ Calm' => trouble' = trouble + 1
  BY <1>1, <1>2, <1>3, SenderReads
<1>5. GoesOn'
  BY <1>1, <1>2, <1>3, <1>4, RecoverParts DEF GoesOn
<1>6. /\ SendErrors' = SendErrors /\ Asks' = Asks /\ Answers' = Answers
      /\ Silence' = Silence /\ Unsent' = Unsent
  BY <1>1, <1>2, <1>3 DEF SendErrors, Asks, Answers, Silence, Silent, Unsent
<1>7. /\ ErrorsInv /\ TokenInv
      /\ Calm => SendErrors + Asks + Silence + Dirt + Unasked <= trouble + Unmoded
  BY <1>1, RecoverParts DEF TextInv
<1>8. ErrorsInv'
  BY <1>4, <1>6, <1>7, Sums, SumsNext DEF ErrorsInv
<1>9. TokenInv'
  BY <1>4, <1>6, <1>7, Sums, SumsNext DEF TokenInv
<1>10. TextInv'
  BY <1>4, <1>6, <1>7, Sums, SumsNext DEF TextInv
<1>11. EndInv'
  BY <1>2 DEF EndInv
<1>. QED  BY <1>4, <1>5, <1>8, <1>9, <1>10, <1>11 DEF RecoverInv

LEMMA SentAgainRecovers ==
    ASSUME CopyInv, CopyInv', RecoverInv, NEW a \in Inputs(toSend), GetAck(a),
           a.t \notin {"ACK", "CAN"}, SentAgain, UNCHANGED toRecv
    PROVE  RecoverInv'
<1>1. /\ s.at = "ack" /\ ~NoModeYet /\ s.at # "done"
      /\ Clock(a, SenderAlone) /\ toSend' = After(toSend, a)
      /\ UNCHANGED <<toRecv, r, Taken, ackVain>>
  BY DEF Taken, GetAck, NoModeYet
<1>2. s'.at = "send" /\ s'.crc = s.crc /\ s'.off = s.off /\ s'.errors = s.errors + 1
  BY CopyTypes DEF SentAgain, SenderType
<1>3. ~NoModeYet' /\ AckDue' = AckDue /\ ~Silent'
  BY <1>1, <1>2 DEF NoModeYet, AckDue, Silent
<1>4. /\ TroubleType' /\ StartInv' /\ BlocksInv' /\ EotInv' /\ ModeInv'
      /\ Calm' => Calm
      /\ Dirt' = Dirt /\ Blocks' = Blocks /\ Unmoded = 0 /\ Unmoded' = 0
      /\ RecvErrors' = RecvErrors /\ Passes' = Passes /\ Unasked' = Unasked /\ Refused' = Refused
      /\ Calm' => None(toRecv', "CAN") /\ None(toSend', "CAN") /\ r'.at # "failed"
      /\ Calm' => /\ HasAck(toSend) => HasAck(toSend')
                  /\ \/ trouble' = trouble + 1 /\ Asks' = Asks /\ Answers' = Answers
                     \/ trouble' = trouble /\ Asks' = Asks - 1 /\ Answers' = Answers - 1
  BY <1>1, <1>2, <1>3, SenderReads
<1>5. GoesOn'
  BY <1>1, <1>2, <1>3, <1>4, RecoverParts DEF GoesOn
<1>6. SendErrors' = SendErrors + 1 /\ Silence' = 0 /\ Unsent' = 1 /\ Unsent = 0
  BY <1>1, <1>2, <1>3 DEF SendErrors, Silence, Unsent, One
<1>7. /\ ErrorsInv /\ TokenInv
      /\ Calm => SendErrors + Asks + Silence + Dirt + Unasked <= trouble + Unmoded
  BY <1>1, RecoverParts DEF TextInv
<1>8. ErrorsInv'
  BY <1>4, <1>6, <1>7, Sums, SumsNext DEF ErrorsInv
<1>9. TokenInv'
  BY <1>4, <1>6, <1>7, Sums, SumsNext DEF TokenInv
<1>10. TextInv'
  BY <1>4, <1>6, <1>7, Sums, SumsNext DEF TextInv
<1>11. EndInv'
  BY <1>2 DEF EndInv
<1>. QED  BY <1>4, <1>5, <1>8, <1>9, <1>10, <1>11 DEF RecoverInv

\* A CAN that is read was sent when all was not calm.
LEMMA CancelRead ==
    ASSUME CopyInv, CopyInv', RecoverInv, ~NoModeYet, s.at # "done",
           NEW a \in Inputs(toSend), Clock(a, SenderAlone), toSend' = After(toSend, a),
           a.t = "CAN", SenderGivesUp, UNCHANGED <<r, Taken, ackVain>>
    PROVE  RecoverInv'
<1>1. trouble' \in Nat /\ trouble <= trouble'
  BY ClockOn
<1>2. ~Calm
  BY Heard
<1>. QED  BY <1>1, <1>2, SenderFailing

LEMMA GetAckRecovers ==
    ASSUME CopyInv, CopyInv', RecoverInv, NEW a \in Inputs(toSend), GetAck(a)
    PROVE  RecoverInv'
<1>1. CASE a.t = "ACK" /\ Acknowledged /\ UNCHANGED toRecv
  BY <1>1, AckRecovers
<1>2. CASE a.t = "CAN" /\ SenderGivesUp
  BY <1>2, CancelRead DEF Taken, GetAck, NoModeYet
<1>3. CASE a = NoInput /\ s' = [s EXCEPT !.tries = @ + 1] /\ UNCHANGED toRecv
  BY <1>3, AnotherTryRecovers
<1>4. CASE a.t \notin {"ACK", "CAN"} /\ SentAgain /\ UNCHANGED toRecv
  BY <1>4, SentAgainRecovers
<1>. QED  BY <1>1, <1>2, <1>3, <1>4 DEF Taken, GetAck

LEMMA EotAcknowledged ==
    ASSUME CopyInv, CopyInv', RecoverInv, NEW a \in Inputs(toSend), GetEotAck(a),
           a.t = "ACK", s' = [s EXCEPT !.at = "done"], UNCHANGED toRecv
    PROVE  RecoverInv'
<1>1. /\ s.at = "eotWait" /\ ~NoModeYet /\ s.at # "done"
      /\ Clock(a, SenderAlone) /\ toSend' = After(toSend, a)
      /\ UNCHANGED <<toRecv, r, Taken, ackVain>>
  BY DEF Taken, GetEotAck, NoModeYet
<1>2. s'.at = "done" /\ s'.crc = s.crc
  BY CopyTypes DEF SenderType
<1>3. ~NoModeYet' /\ ~Silent'
  BY <1>2 DEF NoModeYet, Silent
<1>4. /\ TroubleType' /\ StartInv' /\ BlocksInv' /\ EotInv' /\ ModeInv'
      /\ Calm' => Calm
      /\ Dirt' = Dirt /\ Blocks' = Blocks /\ Unmoded = 0 /\ Unmoded' = 0
      /\ RecvErrors' = RecvErrors /\ Passes' = Passes /\ Unasked' = Unasked /\ Refused' = Refused
      /\ Calm' => None(toRecv', "CAN") /\ None(toSend', "CAN") /\ r'.at # "failed"
      /\ Calm' => trouble' = trouble /\ Asks' = Asks /\ Answers' = Answers - 1
  BY <1>1, <1>2, <1>3, SenderReads
<1>5. GoesOn'
  BY <1>2, <1>4 DEF GoesOn
<1>6. Silence' = 0 /\ Unsent' = 0 /\ Unsent = 0
  BY <1>1, <1>2, <1>3 DEF Silence, Unsent, One
<1>7. ErrorsInv /\ TokenInv
  BY RecoverParts
<1>8. ErrorsInv'
  BY <1>4, <1>6, <1>7, Sums, SumsNext DEF ErrorsInv
<1>9. TokenInv'
  BY <1>4, <1>6, <1>7, Sums, SumsNext DEF TokenInv
<1>10. TextInv' /\ EndInv'
  BY <1>2 DEF TextInv, EndInv
<1>. QED  BY <1>4, <1>5, <1>8, <1>9, <1>10 DEF RecoverInv

LEMMA EotRepeated ==
    ASSUME CopyInv, CopyInv', RecoverInv, NEW a \in Inputs(toSend), GetEotAck(a),
           a.t # "ACK", s' = [s EXCEPT !.at = "eot", !.errors = @ + 1], UNCHANGED toRecv
    PROVE  RecoverInv'
<1>1. /\ s.at = "eotWait" /\ ~NoModeYet /\ s.at # "done"
      /\ Clock(a, SenderAlone) /\ toSend' = After(toSend, a)
      /\ UNCHANGED <<toRecv, r, Taken, ackVain>>
  BY DEF Taken, GetEotAck, NoModeYet
<1>2. s'.at = "eot" /\ s'.crc = s.crc /\ s'.off = s.off /\ s'.errors = s.errors + 1
  BY CopyTypes DEF SenderType
<1>3. ~NoModeYet' /\ AckDue' = AckDue /\ ~Silent'
  BY <1>1, <1>2 DEF NoModeYet, AckDue, Silent
<1>4. /\ TroubleType' /\ StartInv' /\ BlocksInv' /\ EotInv' /\ ModeInv'
      /\ Calm' => Calm
      /\ Dirt' = Dirt /\ Blocks' = Blocks /\ Unmoded = 0 /\ Unmoded' = 0
      /\ RecvErrors' = RecvErrors /\ Passes' = Passes /\ Unasked' = Unasked /\ Refused' = Refused
      /\ Calm' => None(toRecv', "CAN") /\ None(toSend', "CAN") /\ r'.at # "failed"
      /\ Calm' => /\ HasAck(toSend) => HasAck(toSend')
                  /\ \/ trouble' = trouble + 1 /\ Asks' = Asks /\ Answers' = Answers
                     \/ trouble' = trouble /\ Asks' = Asks - 1 /\ Answers' = Answers - 1
  BY <1>1, <1>2, <1>3, SenderReads
<1>5. GoesOn'
  BY <1>1, <1>2, <1>3, <1>4, RecoverParts DEF GoesOn
<1>6. SendErrors' = SendErrors + 1 /\ Silence' = 0 /\ Unsent' = 1 /\ Unsent = 0
  BY <1>1, <1>2, <1>3 DEF SendErrors, Silence, Unsent, One
<1>7. /\ ErrorsInv /\ TokenInv
      /\ Calm => SendErrors + Asks + 2 * (Silence + Dirt + Unasked) <= 2 * trouble + Refused
  BY <1>1, RecoverParts DEF EndInv
<1>8. ErrorsInv'
  BY <1>4, <1>6, <1>7, Sums, SumsNext DEF ErrorsInv
<1>9. TokenInv'
  BY <1>4, <1>6, <1>7, Sums, SumsNext DEF TokenInv
<1>10. TextInv'
  BY <1>2 DEF TextInv
<1>11. EndInv'
  BY <1>4, <1>6, <1>7, Sums, SumsNext DEF EndInv
<1>. QED  BY <1>4, <1>5, <1>8, <1>9, <1>10, <1>11 DEF RecoverInv

LEMMA SenderRecovers ==
    ASSUME CopyInv, CopyInv', RecoverInv, Sender
    PROVE  RecoverInv'
<1>1. ASSUME NEW a \in Inputs(toSend), GetEotAck(a)
      PROVE  RecoverInv'
  <2>1. CASE a.t = "ACK" /\ s' = [s EXCEPT !.at = "done"] /\ UNCHANGED toRecv
    BY <1>1, <2>1, EotAcknowledged
  <2>2. CASE a.t # "ACK" /\ s' = [s EXCEPT !.at = "eot", !.errors = @ + 1] /\ UNCHANGED toRecv
    BY <1>1, <2>2, EotRepeated
  <2>3. CASE a.t = "CAN" /\ SenderGivesUp
    BY <1>1, <2>3, CancelRead DEF Taken, GetEotAck, NoModeYet
  <2>. QED  BY <1>1, <2>1, <2>2, <2>3 DEF Taken, GetEotAck
<1>. QED  BY <1>1, SenderStartsRecovers, PutBlockRecovers, TooManyErrorsRecovers, PutEotRecovers,
              GetModeRecovers, GetAckRecovers DEF Sender

-----------------------------------------------------------------------------
(* The receiver's steps: its errors are paid for.                          *)

LEMMA ReceiverShape ==
    ASSUME CopyInv, CopyInv', RecoverInv, UNCHANGED <<s, ackVain>>,
           trouble' \in Nat, trouble <= trouble', r'.crc = r.crc \/ r'.crc = FALSE,
           toRecv = <<>> => toRecv' = <<>>,
           NoModeYet => Taken' = <<>> /\ ~r'.eot /\ r'.at # "done",
           NoModeYet /\ r'.crc => None(toSend', "NAK"),
           OneMode(toRecv, s.crc) => OneMode(toRecv', s.crc),
           EotLast(toRecv) => EotLast(toRecv'),
           r'.eot => r'.pass > 0 /\ None(toRecv', "block")
    PROVE  /\ TroubleType' /\ StartInv' /\ BlocksInv' /\ EotInv' /\ ModeInv'
           /\ Mild' => Mild
           /\ Calm' => Calm
           /\ SendErrors' = SendErrors /\ Unsent' = Unsent /\ Unmoded' = Unmoded
<1>1. NoModeYet' = NoModeYet
  BY DEF NoModeYet
<1>2. TroubleType'
  BY RecoverParts DEF TroubleType
<1>3. BlocksInv'
  BY RecoverParts DEF BlocksInv
<1>4. StartInv'
  BY <1>1, RecoverParts DEF StartInv
<1>5. EotInv'
  BY DEF EotInv
<1>6. Mild' => Mild
  BY MildBefore
<1>7. ModeInv'
  <2>1. Mild /\ ~NoModeYet => (r.crc => s.crc)
    BY RecoverParts DEF ModeInv
  <2>2. r.crc \in BOOLEAN /\ s.crc \in BOOLEAN /\ r'.crc \in BOOLEAN /\ s'.crc = s.crc
    BY Counters, CountersNext
  <2>. QED  BY <1>1, <1>6, <2>1, <2>2 DEF ModeInv
<1>8. NoModeYet \/ (~NoModeYet' /\ s'.crc = s.crc)
  BY <1>1
<1>9. Calm' => Calm
  BY <1>8, CalmBefore
<1>10. SendErrors' = SendErrors /\ Unsent' = Unsent /\ Unmoded' = Unmoded
  BY <1>1 DEF SendErrors, Unsent, Unmoded
<1>. QED  BY <1>2, <1>3, <1>4, <1>5, <1>6, <1>7, <1>9, <1>10

\* The line after the receiver has read from it, and flushed it or not.
LEMMA ReadLine ==
    ASSUME CopyInv, RecoverInv, NEW m \in Inputs(toRecv),
           toRecv' = After(toRecv, m) \/ toRecv' \in Flushed(After(toRecv, m))
    PROVE  /\ toRecv = <<>> => toRecv' = <<>>
           /\ OneMode(toRecv', s.crc) /\ EotLast(toRecv')
           /\ None(toRecv, "CAN") => None(toRecv', "CAN")
           /\ None(toRecv, "block") => None(toRecv', "block")
           /\ Dirt' <= Dirt /\ Blocks' <= Blocks
           /\ m # NoInput => toRecv # <<>> /\ m = toRecv[1] /\ m \in MsgType /\ Blocks' <= Blocks - 1
           /\ m # NoInput /\ m.t = "noise" => Dirt' < Dirt
           /\ m.t = "EOT" => None(toRecv', "block")
<1>1. toRecv \in Seq(MsgType) /\ OneMode(toRecv, s.crc) /\ EotLast(toRecv)
  BY Counters, RecoverParts
<1>2. PICK k \in 0 .. Len(toRecv) :
          /\ toRecv' = Rest(toRecv, k)
          /\ m # NoInput => k > 0 /\ toRecv # <<>> /\ m = toRecv[1]
  BY <1>1, ReadAndFlushed
<1>3. /\ OneMode(toRecv', s.crc) /\ EotLast(toRecv')
      /\ None(toRecv, "CAN") => None(toRecv', "CAN")
      /\ None(toRecv, "block") => None(toRecv', "block")
  BY <1>1, <1>2, RestHas
<1>4. Len(toRecv') = Len(toRecv) - k /\ toRecv' \in Seq(MsgType)
  BY <1>1, <1>2, RestHas
<1>5. toRecv = <<>> => toRecv' = <<>>
  BY <1>1, <1>2, <1>4
<1>6. m # NoInput => toRecv[1] \in MsgType
  BY <1>1, <1>2
<1>7. Blocks' <= Blocks /\ (m # NoInput => Blocks' <= Blocks - 1)
  <2>1. k \in Nat /\ Len(toRecv) \in Nat
    BY <1>1
  <2>. QED  BY <1>2, <1>4, <2>1 DEF Blocks
<1>8. Dirt' <= Dirt /\ (m # NoInput /\ m.t = "noise" => Dirt' < Dirt)
  BY <1>1, <1>2, NoisesOfRest DEF Dirt
<1>9. m.t = "EOT" => m # NoInput
  BY DEF NoInput, Control
<1>10. m.t = "EOT" => None(toRecv', "block")
  BY <1>1, <1>2, <1>9, RestHas
<1>. QED  BY <1>2, <1>3, <1>5, <1>6, <1>7, <1>8, <1>10

\* A receiver that hears nothing, while all goes well: somebody was late, or both
\* sides waited.
LEMMA Waited ==
    ASSUME CopyInv, RecoverInv, Calm, r.at = "read", Clock(NoInput, ReceiverAlone)
    PROVE  trouble' = trouble + 1 \/ (trouble' = trouble /\ Silence = 1)
<1>1. CASE ~ReceiverAlone
  BY <1>1, ClockOn
<1>2. CASE ReceiverAlone
  <2>1. s.at \notin {"done", "failed"}
    BY RecoverParts DEF CopyInv, GoesOn
  <2>2. toRecv = <<>> /\ toSend = <<>> /\ s.at \in {"mode", "ack", "eotWait"}
    BY <1>2, <2>1 DEF ReceiverAlone, SenderStopped
  <2>3. Silent
    BY <2>2 DEF Silent, OnlyNoise, OnlyOld
  <2>4. trouble' = trouble
    BY <1>2 DEF Clock
  <2>. QED  BY <2>3, <2>4 DEF Silence, One
<1>. QED  BY <1>1, <1>2

\* A block that the receiver reads, while all goes well, is the next one or the last.
LEMMA BlockRead ==
    ASSUME CopyInv, RecoverInv, Calm, NEW m \in Inputs(toRecv), m.t = "block"
    PROVE  /\ ~NoModeYet /\ ~r.eot /\ Sound(m)
           /\ ~Expected(m) => Repeated(m) /\ m.from < Len(Taken)
<1>1. m # NoInput /\ m = toRecv[1] /\ 1 \in 1 .. Len(toRecv)
  BY Counters DEF Inputs, NoInput, Control
<1>2. ~NoModeYet
  BY <1>1, NothingDue
<1>3. ~r.eot
  BY <1>1, RecoverParts DEF EotInv, None
<1>4. Sound(m)
  BY <1>1, <1>2, RecoverParts DEF OneMode, Calm, Sound
<1>5. NextBlock(m, Len(Taken), r.num) \/ LastBlock(m, Len(Taken), r.num)
  BY MessageRead, CopyTypes DEF CopyInv
<1>6. ASSUME ~Expected(m)
      PROVE  Repeated(m) /\ m.from < Len(Taken)
  <2>1. ~NextBlock(m, Len(Taken), r.num)
    BY <1>4, <1>6 DEF Expected, NextBlock
  <2>. QED  BY <1>4, <1>5, <2>1 DEF LastBlock, Repeated
<1>. QED  BY <1>2, <1>3, <1>4, <1>6

LEMMA AskingAgain ==
    ASSUME CopyInv, NEW a \in AnswerType, a.t \in {"C", "NAK"}, toSend' = Append(toSend, a)
    PROVE  /\ Asks' = Asks + 1 /\ Answers' = Answers + 1
           /\ HasAck(toSend) => HasAck(toSend')
           /\ None(toSend, "CAN") => None(toSend', "CAN")
           /\ None(toSend, "NAK") /\ a.t = "C" => None(toSend', "NAK")
           /\ ~OnlyNoise(toSend')
<1>1. toSend \in Seq(AnswerType) /\ a.t # "ACK" /\ a.t # "noise" /\ a.t # "CAN"
  BY Counters
<1>2. /\ HasAck(toSend') = (HasAck(toSend) \/ a.t = "ACK")
      /\ Asked(toSend') = Asked(toSend) + 1 /\ Len(toSend') = Len(toSend) + 1
  BY <1>1, AskedOfMore
<1>3. /\ None(toSend, "CAN") => None(toSend', "CAN")
      /\ None(toSend, "NAK") /\ a.t = "C" => None(toSend', "NAK")
      /\ ~OnlyNoise(toSend')
  BY <1>1, MoreHas
<1>. QED  BY <1>2, <1>3 DEF Asks, Answers

LEMMA Acknowledging ==
    ASSUME CopyInv, toSend' = Append(toSend, Control("ACK")), ~AckDue
    PROVE  /\ Asks' = Asks /\ Answers' = Answers + 1
           /\ HasAck(toSend')
           /\ None(toSend, "CAN") => None(toSend', "CAN")
           /\ ~OnlyNoise(toSend')
<1>1. toSend \in Seq(AnswerType) /\ Control("ACK") \in AnswerType /\ Control("ACK").t = "ACK"
  BY Counters DEF Control, AnswerType
<1>2. ~HasAck(toSend)
  BY DEF CopyInv, ToSendInv, AcksRight, HasAck
<1>3. /\ HasAck(toSend') = (HasAck(toSend) \/ Control("ACK").t = "ACK")
      /\ Asked(toSend') = Asked(toSend) /\ Len(toSend') = Len(toSend) + 1
  BY <1>1, <1>2, AskedOfMore
<1>4. /\ None(toSend, "CAN") => None(toSend', "CAN")
      /\ ~OnlyNoise(toSend')
  BY <1>1, MoreHas
<1>. QED  BY <1>1, <1>3, <1>4 DEF Asks, Answers

LEMMA ReceiverStartsRecovers ==
    ASSUME CopyInv, CopyInv', RecoverInv, ReceiverStarts
    PROVE  RecoverInv'
<1>1. /\ r.at = "idle" /\ toRecv' \in Flushed(toRecv)
      /\ toSend' = Append(toSend, Request(r.num, r.crc))
      /\ UNCHANGED <<s, Taken, trouble, ackVain>>
  BY DEF Taken, ReceiverStarts
<1>2. /\ r'.at = "read" /\ r'.num = r.num /\ r'.errors = r.errors /\ r'.pass = r.pass
      /\ r'.eot = r.eot /\ r'.crc = r.crc
  BY CopyTypes DEF Taken, ReceiverStarts, ReceiverType
<1>3. NoInput \in Inputs(toRecv) /\ After(toRecv, NoInput) = toRecv
  BY DEF Inputs, After
<1>4. /\ toRecv = <<>> => toRecv' = <<>>
      /\ OneMode(toRecv', s.crc) /\ EotLast(toRecv')
      /\ None(toRecv, "CAN") => None(toRecv', "CAN")
      /\ None(toRecv, "block") => None(toRecv', "block")
      /\ Dirt' <= Dirt /\ Blocks' <= Blocks
  BY <1>1, <1>3, ReadLine
<1>5. Request(r.num, r.crc) \in AnswerType /\ Request(r.num, r.crc).t \in {"C", "NAK"}
  BY Controls DEF Request, Control
<1>6. NoModeYet /\ r.crc => Request(r.num, r.crc).t = "C"
  BY NothingDue DEF Request, Control
<1>7. /\ Asks' = Asks + 1 /\ Answers' = Answers + 1
      /\ HasAck(toSend) => HasAck(toSend')
      /\ None(toSend, "CAN") => None(toSend', "CAN")
      /\ None(toSend, "NAK") /\ Request(r.num, r.crc).t = "C" => None(toSend', "NAK")
      /\ ~OnlyNoise(toSend')
  BY <1>1, <1>5, AskingAgain
<1>8. /\ trouble' \in Nat /\ trouble <= trouble' /\ r'.crc = r.crc
      /\ NoModeYet => Taken' = <<>> /\ ~r'.eot /\ r'.at # "done"
      /\ NoModeYet /\ r'.crc => None(toSend', "NAK")
      /\ r'.eot => r'.pass > 0 /\ None(toRecv', "block")
  BY <1>1, <1>2, <1>4, <1>6, <1>7, RecoverParts DEF StartInv, EotInv
<1>9. /\ TroubleType' /\ StartInv' /\ BlocksInv' /\ EotInv' /\ ModeInv'
      /\ Calm' => Calm
      /\ SendErrors' = SendErrors /\ Unsent' = Unsent /\ Unmoded' = Unmoded
  BY <1>1, <1>4, <1>8, ReceiverShape
<1>10. AckDue' = AckDue /\ ~Silent'
  BY <1>1, <1>2, <1>7 DEF AckDue, Silent
<1>11. GoesOn'
  BY <1>1, <1>2, <1>4, <1>7, <1>9, <1>10, RecoverParts DEF GoesOn
<1>12. /\ RecvErrors' = RecvErrors /\ Passes' = Passes /\ Refused' = Refused
       /\ Silence' = 0 /\ Unasked' = 0 /\ Unasked = 1
  BY <1>1, <1>2, <1>10 DEF RecvErrors, Passes, Refused, Silence, Unasked, One
<1>13. trouble' = trouble /\ s' = s
  BY <1>1
<1>14. ErrorsInv /\ TokenInv /\ TextInv /\ EndInv
  BY RecoverParts
<1>19. /\ Dirt' <= Dirt /\ Blocks' <= Blocks /\ Asks' = Asks + 1 /\ Answers' = Answers + 1
       /\ SendErrors' = SendErrors /\ Unsent' = Unsent /\ Unmoded' = Unmoded
       /\ Calm' => Calm
  BY <1>4, <1>7, <1>9
<1>15. ErrorsInv'
  BY <1>12, <1>13, <1>14, <1>19, Sums, SumsNext DEF ErrorsInv
<1>16. TokenInv'
  BY <1>12, <1>13, <1>14, <1>19, Sums, SumsNext DEF TokenInv
<1>17. TextInv'
  BY <1>12, <1>13, <1>14, <1>19, Sums, SumsNext DEF TextInv
<1>18. EndInv'
  BY <1>12, <1>13, <1>14, <1>19, Sums, SumsNext DEF EndInv
<1>. QED  BY <1>9, <1>11, <1>15, <1>16, <1>17, <1>18 DEF RecoverInv

\* A block is accepted: its token is the ACK's.
LEMMA AcceptRecovers ==
    ASSUME CopyInv, HandInv, CopyInv', RecoverInv, NEW m \in Inputs(toRecv), Accept(m)
    PROVE  RecoverInv'
<1>1. /\ r.at = "read" /\ m.t = "block" /\ toRecv' = After(toRecv, m)
      /\ toSend' = Append(toSend, Control("ACK"))
      /\ UNCHANGED <<s, trouble, ackVain>>
  BY DEF Accept, Expected, Sound
<1>2. /\ r'.at = "write" /\ r'.errors = r.errors /\ r'.pass = 0 /\ r'.eot = FALSE /\ r'.crc = r.crc
  BY CopyTypes DEF Accept, ReceiverType
<1>3. m # NoInput /\ m = toRecv[1] /\ 1 \in 1 .. Len(toRecv)
  BY <1>1, Counters DEF Inputs, NoInput, Control
<1>4. /\ toRecv = <<>> => toRecv' = <<>>
      /\ OneMode(toRecv', s.crc) /\ EotLast(toRecv')
      /\ None(toRecv, "CAN") => None(toRecv', "CAN")
      /\ Dirt' <= Dirt /\ Blocks' <= Blocks - 1
  BY <1>1, <1>3, ReadLine
<1>5. ~NoModeYet /\ ~r.eot
  BY <1>1, <1>3, RecoverParts, NothingDue DEF EotInv, None
<1>6. Len(Taken) = s.off /\ Len(Taken) < FileLen
  BY AcceptKeeps DEF Level
<1>7. ~AckDue
  BY <1>1, <1>6, CopyTypes DEF AckDue
<1>8. /\ Asks' = Asks /\ Answers' = Answers + 1
      /\ HasAck(toSend')
      /\ None(toSend, "CAN") => None(toSend', "CAN")
      /\ ~OnlyNoise(toSend')
  BY <1>1, <1>7, Acknowledging
<1>9. trouble' \in Nat /\ trouble <= trouble' /\ r'.crc = r.crc /\ ~r'.eot
  BY <1>1, <1>2, RecoverParts
<1>10. /\ TroubleType' /\ StartInv' /\ BlocksInv' /\ EotInv' /\ ModeInv'
       /\ Calm' => Calm
       /\ SendErrors' = SendErrors /\ Unsent' = Unsent /\ Unmoded' = Unmoded
  BY <1>1, <1>4, <1>5, <1>9, ReceiverShape
<1>11. GoesOn'
  BY <1>1, <1>2, <1>4, <1>8, <1>10, RecoverParts DEF GoesOn
<1>12. /\ RecvErrors' = RecvErrors /\ Passes' = 0 /\ Refused' = 0 /\ Refused = 0
       /\ Silence' = 0 /\ Unasked' = 0 /\ Unasked = 0
  BY <1>1, <1>2, <1>5, <1>8 DEF RecvErrors, Passes, Refused, Silence, Silent, Unasked, One
<1>13. trouble' = trouble /\ s' = s
  BY <1>1
<1>14. ErrorsInv /\ TokenInv /\ TextInv
  BY RecoverParts
<1>19. /\ Dirt' <= Dirt /\ Blocks' <= Blocks - 1 /\ Asks' = Asks /\ Answers' = Answers + 1
       /\ SendErrors' = SendErrors /\ Unsent' = Unsent /\ Unmoded' = Unmoded
       /\ Calm' => Calm
  BY <1>4, <1>8, <1>10
<1>15. ErrorsInv'
  BY <1>12, <1>13, <1>14, <1>19, Sums, SumsNext DEF ErrorsInv
<1>16. TokenInv'
  BY <1>12, <1>13, <1>14, <1>19, Sums, SumsNext DEF TokenInv
<1>17. TextInv'
  BY <1>12, <1>13, <1>14, <1>19, Sums, SumsNext DEF TextInv
<1>18. EndInv'
  <2>1. s.off # FileLen
    BY <1>6, CopyTypes
  <2>2. s'.at \notin {"eot", "eotWait"}
    BY <1>13, <2>1 DEF CopyInv, SenderInv
  <2>. QED  BY <2>2 DEF EndInv
<1>. QED  BY <1>10, <1>11, <1>15, <1>16, <1>17, <1>18 DEF RecoverInv

\* It is written.
LEMMA WriteRecovers ==
    ASSUME CopyInv, HandInv, RecoverInv, Write
    PROVE  RecoverInv'
<1>1. /\ r.at = "write" /\ UNCHANGED <<toRecv, toSend, s, trouble, ackVain>>
      /\ file' = Taken /\ unwritten' = <<>>
  BY DEF Write, Taken
<1>2. /\ r'.at = "read" /\ r'.errors = r.errors /\ r'.pass = r.pass /\ r'.eot = r.eot
      /\ r'.crc = r.crc
  BY CopyTypes DEF Write, ReceiverType
<1>3. Taken' = Taken
  <2>1. Taken' = Taken \o <<>> /\ Taken \in Seq(Nat)
    BY <1>1 DEF Taken, HandInv
  <2>. QED  BY <2>1
<1>4. /\ NoModeYet' = NoModeYet /\ AckDue' = AckDue /\ Calm' = Calm /\ Mild' = Mild
      /\ Silent' = Silent /\ Dirt' = Dirt /\ Asks' = Asks
  BY <1>1, <1>2, <1>3 DEF NoModeYet, AckDue, Calm, Mild, Silent, Dirt, Asks
<1>5. /\ RecvErrors' = RecvErrors /\ SendErrors' = SendErrors /\ Passes' = Passes
      /\ Blocks' = Blocks /\ Answers' = Answers /\ Silence' = Silence /\ Unasked' = Unasked
      /\ Refused' = Refused /\ Unsent' = Unsent /\ Unmoded' = Unmoded
  BY <1>1, <1>2, <1>4 DEF RecvErrors, SendErrors, Passes, Blocks, Answers, Silence, Unasked,
     Refused, Unsent, Unmoded
<1>6. TroubleType' /\ StartInv' /\ BlocksInv' /\ EotInv' /\ ModeInv' /\ GoesOn'
  BY <1>1, <1>2, <1>3, <1>4, RecoverParts
  DEF TroubleType, StartInv, BlocksInv, EotInv, ModeInv, GoesOn
<1>7. ErrorsInv' /\ TokenInv' /\ TextInv' /\ EndInv'
  BY <1>1, <1>4, <1>5, RecoverParts DEF ErrorsInv, TokenInv, TextInv, EndInv
<1>. QED  BY <1>6, <1>7 DEF RecoverInv

\* It is not: its ACK was in vain.
LEMMA WriteFailsRecovers ==
    ASSUME CopyInv, CopyInv', RecoverInv, WriteFails
    PROVE  RecoverInv'
<1>1. /\ r.at = "write" /\ UNCHANGED <<toRecv, s, trouble, Taken>> /\ ackVain' = TRUE
      /\ toSend' = Append(toSend, Control("CAN"))
  BY DEF WriteFails, Taken
<1>2. /\ r'.at = "failed" /\ r'.pass = r.pass /\ r'.eot = r.eot /\ r'.crc = r.crc
  BY CopyTypes DEF WriteFails, ReceiverType
<1>3. ~Mild' /\ ~Calm' /\ NoModeYet' = NoModeYet
  BY <1>1 DEF Mild, Calm, NoModeYet
<1>4. NoModeYet /\ r.crc => None(toSend', "NAK")
  <2>1. toSend \in Seq(AnswerType) /\ Control("CAN") \in AnswerType /\ Control("CAN").t = "CAN"
    BY Counters DEF Control, AnswerType
  <2>2. NoModeYet /\ r.crc => None(toSend, "NAK")
    BY RecoverParts DEF StartInv
  <2>. QED  BY <1>1, <2>1, <2>2, MoreHas
<1>5. TroubleType' /\ StartInv' /\ BlocksInv' /\ EotInv'
  BY <1>1, <1>2, <1>3, <1>4, RecoverParts DEF TroubleType, StartInv, BlocksInv, EotInv
<1>6. ModeInv' /\ GoesOn' /\ ErrorsInv' /\ TokenInv' /\ TextInv' /\ EndInv'
  BY <1>3 DEF ModeInv, GoesOn, ErrorsInv, TokenInv, TextInv, EndInv
<1>. QED  BY <1>5, <1>6 DEF RecoverInv

\* The last block comes again and is discarded: its token is the pass.
LEMMA DiscardRecovers ==
    ASSUME CopyInv, CopyInv', RecoverInv, NEW m \in Inputs(toRecv), Discard(m)
    PROVE  RecoverInv'
<1>1. /\ r.at = "read" /\ m.t = "block" /\ ~Expected(m) /\ toRecv' = After(toRecv, m)
      /\ UNCHANGED <<toSend, s, Taken, trouble, ackVain>>
  BY DEF Taken, Discard, Repeated, Sound
<1>2. /\ r'.at = "read" /\ r'.errors = r.errors /\ r'.pass = r.pass + 1 /\ r'.eot = FALSE
      /\ r'.crc = r.crc
  BY CopyTypes DEF Taken, Discard, ReceiverType
<1>3. m # NoInput /\ m = toRecv[1] /\ 1 \in 1 .. Len(toRecv)
  BY <1>1, Counters DEF Inputs, NoInput, Control
<1>4. /\ toRecv = <<>> => toRecv' = <<>>
      /\ OneMode(toRecv', s.crc) /\ EotLast(toRecv')
      /\ None(toRecv, "CAN") => None(toRecv', "CAN")
      /\ Dirt' <= Dirt /\ Blocks' <= Blocks - 1
  BY <1>1, <1>3, ReadLine
<1>5. ~NoModeYet /\ ~r.eot
  BY <1>1, <1>3, RecoverParts, NothingDue DEF EotInv, None
<1>6. trouble' \in Nat /\ trouble <= trouble' /\ r'.crc = r.crc /\ ~r'.eot
  BY <1>1, <1>2, RecoverParts
<1>7. /\ TroubleType' /\ StartInv' /\ BlocksInv' /\ EotInv' /\ ModeInv'
      /\ Calm' => Calm
      /\ SendErrors' = SendErrors /\ Unsent' = Unsent /\ Unmoded' = Unmoded
  BY <1>1, <1>4, <1>5, <1>6, ReceiverShape
<1>8. AckDue' = AckDue
  BY <1>1, <1>2 DEF AckDue
<1>9. GoesOn'
  BY <1>1, <1>2, <1>4, <1>7, <1>8, RecoverParts DEF GoesOn
<1>10. Calm /\ Silent' => Silent
  <2>1. SUFFICES ASSUME Calm, Silent'
                 PROVE  Silent
    OBVIOUS
  <2>2. /\ s.at \in {"idle", "mode", "ack", "eotWait"} /\ OnlyNoise(toSend)
        /\ OnlyOld(toRecv', s.off)
    BY <1>1, <2>1 DEF Silent
  <2>3. m.from < Len(Taken)
    BY <1>1, <2>1, BlockRead
  <2>4. m.from # s.off
    <3>1. ASSUME m.from = s.off
          PROVE  FALSE
      <4>1. Len(Taken) > s.off
        BY <2>3, <3>1, CopyTypes
      <4>2. HasAck(toSend)
        BY <2>1, <2>2, <4>1, RecoverParts DEF GoesOn, AckDue
      <4>. QED  BY <2>2, <4>2 DEF HasAck, OnlyNoise
    <3>. QED  BY <3>1
  <2>5. toRecv' = Rest(toRecv, 1) /\ 1 \in 0 .. Len(toRecv)
    BY <1>1, <1>3 DEF After
  <2>6. OnlyOld(toRecv, s.off)
    BY <1>1, <1>3, <2>2, <2>4, <2>5, Counters, RestHas
  <2>. QED  BY <1>1, <2>2, <2>6 DEF Silent
<1>11. /\ RecvErrors' = RecvErrors /\ Passes' = Passes + 1 /\ Refused' = 0 /\ Refused = 0
       /\ Unasked' = 0 /\ Unasked = 0 /\ Asks' = Asks /\ Answers' = Answers
       /\ Calm => Silence' <= Silence
  BY <1>1, <1>2, <1>5, <1>10
  DEF RecvErrors, Passes, Refused, Unasked, Asks, Answers, Silence, One
<1>12. trouble' = trouble
  BY <1>1
<1>13. /\ Dirt' <= Dirt /\ Blocks' <= Blocks - 1
       /\ SendErrors' = SendErrors /\ Unsent' = Unsent /\ Unmoded' = Unmoded
       /\ Calm' => Calm
  BY <1>4, <1>7
<1>14. ErrorsInv /\ TokenInv /\ TextInv /\ EndInv
  BY RecoverParts
<1>15. ErrorsInv'
  BY <1>11, <1>12, <1>13, <1>14, Sums, SumsNext DEF ErrorsInv
<1>16. TokenInv'
  BY <1>11, <1>12, <1>13, <1>14, Sums, SumsNext DEF TokenInv
<1>17. TextInv'
  <2>1. s'.at = s.at
    BY <1>1
  <2>. QED  BY <1>11, <1>12, <1>13, <1>14, <2>1, Sums, SumsNext DEF TextInv
<1>18. EndInv'
  <2>1. s'.at = s.at
    BY <1>1
  <2>. QED  BY <1>11, <1>12, <1>13, <1>14, <2>1, Sums, SumsNext DEF EndInv
<1>. QED  BY <1>7, <1>9, <1>15, <1>16, <1>17, <1>18 DEF RecoverInv

\* The first EOT is refused: its token is the request, and the pass is not counted.
LEMMA RefuseEotRecovers ==
    ASSUME CopyInv, CopyInv', RecoverInv, NEW m \in Inputs(toRecv), RefuseEot(m)
    PROVE  RecoverInv'
<1>1. /\ r.at = "read" /\ m.t = "EOT" /\ ~r.eot /\ toRecv' \in Flushed(After(toRecv, m))
      /\ toSend' = Append(toSend, Request(r.num, r.crc))
      /\ UNCHANGED <<s, Taken, trouble, ackVain>>
  BY DEF Taken, RefuseEot
<1>2. /\ r'.at = "read" /\ r'.errors = r.errors /\ r'.pass = r.pass + 1 /\ r'.eot = TRUE
      /\ r'.crc = r.crc
  BY CopyTypes DEF Taken, RefuseEot, ReceiverType
<1>3. m # NoInput
  BY <1>1 DEF NoInput, Control
<1>4. /\ toRecv # <<>>
      /\ OneMode(toRecv', s.crc) /\ EotLast(toRecv')
      /\ None(toRecv, "CAN") => None(toRecv', "CAN")
      /\ Dirt' <= Dirt /\ Blocks' <= Blocks - 1
      /\ None(toRecv', "block")
  BY <1>1, <1>3, ReadLine
<1>5. ~NoModeYet
  BY <1>4, NothingDue
<1>6. Request(r.num, r.crc) \in AnswerType /\ Request(r.num, r.crc).t \in {"C", "NAK"}
  BY Controls DEF Request, Control
<1>7. /\ Asks' = Asks + 1 /\ Answers' = Answers + 1
      /\ HasAck(toSend) => HasAck(toSend')
      /\ None(toSend, "CAN") => None(toSend', "CAN")
      /\ ~OnlyNoise(toSend')
  BY <1>1, <1>6, AskingAgain
<1>8. /\ trouble' \in Nat /\ trouble <= trouble' /\ r'.crc = r.crc
      /\ r'.eot => r'.pass > 0 /\ None(toRecv', "block")
  <2>1. r.pass \in Nat
    BY Counters
  <2>. QED  BY <1>1, <1>2, <1>4, <2>1, RecoverParts
<1>9. /\ TroubleType' /\ StartInv' /\ BlocksInv' /\ EotInv' /\ ModeInv'
      /\ Calm' => Calm
      /\ SendErrors' = SendErrors /\ Unsent' = Unsent /\ Unmoded' = Unmoded
  BY <1>1, <1>4, <1>5, <1>8, ReceiverShape
<1>10. AckDue' = AckDue /\ ~Silent'
  BY <1>1, <1>2, <1>7 DEF AckDue, Silent
<1>11. GoesOn'
  BY <1>1, <1>2, <1>4, <1>7, <1>9, <1>10, RecoverParts DEF GoesOn
<1>12. /\ RecvErrors' = RecvErrors /\ Passes' = Passes + 1 /\ Refused' = 1 /\ Refused = 0
       /\ Silence' = 0 /\ Unasked' = 0 /\ Unasked = 0
  BY <1>1, <1>2, <1>10 DEF RecvErrors, Passes, Refused, Silence, Unasked, One
<1>13. trouble' = trouble /\ s'.at = s.at
  BY <1>1
<1>14. /\ Dirt' <= Dirt /\ Blocks' <= Blocks - 1 /\ Asks' = Asks + 1 /\ Answers' = Answers + 1
       /\ SendErrors' = SendErrors /\ Unsent' = Unsent /\ Unmoded' = Unmoded
       /\ Calm' => Calm
  BY <1>4, <1>7, <1>9
<1>15. ErrorsInv /\ TokenInv /\ EndInv
  BY RecoverParts
<1>16. ErrorsInv'
  BY <1>12, <1>13, <1>14, <1>15, Sums, SumsNext DEF ErrorsInv
<1>17. TokenInv'
  BY <1>12, <1>13, <1>14, <1>15, Sums, SumsNext DEF TokenInv
<1>18. TextInv'
  <2>1. s.off = FileLen
    BY <1>1, CopyTypes, MessageRead DEF CopyInv
  <2>2. s'.at \notin {"idle", "mode", "send", "ack"}
    BY <1>5, <1>13, <2>1, CopyTypes DEF CopyInv, SenderInv, NoModeYet
  <2>. QED  BY <2>2 DEF TextInv
<1>19. EndInv'
  BY <1>12, <1>13, <1>14, <1>15, Sums, SumsNext DEF EndInv
<1>. QED  BY <1>9, <1>11, <1>16, <1>17, <1>18, <1>19 DEF RecoverInv

\* The end is acknowledged: the ACK's token is the EOT's, or the time-out's.
LEMMA AcceptEotRecovers ==
    ASSUME CopyInv, CopyInv', RecoverInv, NEW m \in Inputs(toRecv), AcceptEot(m)
    PROVE  RecoverInv'
<1>1. /\ r.at = "read" /\ r.eot /\ (m.t = "EOT" \/ m = NoInput) /\ Clock(m, ReceiverAlone)
      /\ toRecv' \in Flushed(After(toRecv, m))
      /\ toSend' = Append(toSend, Control("ACK"))
      /\ UNCHANGED <<s, Taken, ackVain>>
  BY DEF Taken, AcceptEot
<1>2. /\ r'.at = "done" /\ r'.errors = r.errors /\ r'.pass = r.pass /\ r'.eot = r.eot
      /\ r'.crc = r.crc
  BY CopyTypes DEF Taken, AcceptEot, ReceiverType
<1>3. /\ toRecv = <<>> => toRecv' = <<>>
      /\ OneMode(toRecv', s.crc) /\ EotLast(toRecv')
      /\ None(toRecv, "CAN") => None(toRecv', "CAN")
      /\ None(toRecv, "block") => None(toRecv', "block")
      /\ Dirt' <= Dirt /\ Blocks' <= Blocks
      /\ m # NoInput => Blocks' <= Blocks - 1
  BY <1>1, ReadLine
<1>4. ~NoModeYet
  BY <1>1, RecoverParts DEF StartInv
<1>5. s.off = FileLen /\ Len(Taken) = s.off
  <2>1. s.off = FileLen
    BY <1>1 DEF CopyInv, ReceiverInv
  <2>. QED  BY <2>1, CopyTypes
<1>6. ~AckDue
  BY <1>1, <1>5, CopyTypes DEF AckDue
<1>7. /\ Asks' = Asks /\ Answers' = Answers + 1
      /\ HasAck(toSend')
      /\ None(toSend, "CAN") => None(toSend', "CAN")
  BY <1>1, <1>6, Acknowledging
<1>8. /\ trouble' \in Nat /\ trouble <= trouble' /\ r'.crc = r.crc
      /\ m # NoInput => trouble' = trouble
      /\ r'.eot => r'.pass > 0 /\ None(toRecv', "block")
  BY <1>1, <1>2, <1>3, ClockOn, RecoverParts DEF EotInv
<1>9. /\ TroubleType' /\ StartInv' /\ BlocksInv' /\ EotInv' /\ ModeInv'
      /\ Calm' => Calm
      /\ SendErrors' = SendErrors /\ Unsent' = Unsent /\ Unmoded' = Unmoded
  BY <1>1, <1>3, <1>4, <1>8, ReceiverShape
<1>10. GoesOn'
  BY <1>1, <1>2, <1>3, <1>7, <1>9, RecoverParts DEF GoesOn
<1>11. Calm => \/ trouble' = trouble /\ Blocks' <= Blocks - 1
               \/ trouble' = trouble + 1 /\ Blocks' <= Blocks
               \/ trouble' = trouble /\ Blocks' <= Blocks /\ Silence = 1
  <2>1. CASE m # NoInput
    BY <1>3, <1>8, <2>1
  <2>2. CASE m = NoInput
    BY <1>1, <1>3, <2>2, Waited
  <2>. QED  BY <2>1, <2>2
<1>12. /\ RecvErrors' = RecvErrors /\ Passes' = Passes /\ Refused' = Refused
       /\ Silence' = 0 /\ Unasked' = 0 /\ Unasked = 0
  BY <1>1, <1>2 DEF RecvErrors, Passes, Refused, Silence, Silent, Unasked, One
<1>13. /\ Dirt' <= Dirt /\ Asks' = Asks /\ Answers' = Answers + 1
       /\ SendErrors' = SendErrors /\ Unsent' = Unsent /\ Unmoded' = Unmoded
       /\ Calm' => Calm
       /\ trouble' \in Nat /\ trouble <= trouble' /\ s'.at = s.at
  BY <1>1, <1>3, <1>7, <1>8, <1>9
<1>14. ErrorsInv /\ TokenInv /\ EndInv
  BY RecoverParts
<1>15. ErrorsInv'
  BY <1>12, <1>13, <1>14, Sums, SumsNext DEF ErrorsInv
<1>16. TokenInv'
  BY <1>11, <1>12, <1>13, <1>14, Sums, SumsNext DEF TokenInv
<1>17. TextInv'
  <2>1. s'.at \notin {"idle", "mode", "send", "ack"}
    BY <1>4, <1>5, <1>13, CopyTypes DEF CopyInv, SenderInv, NoModeYet
  <2>. QED  BY <2>1 DEF TextInv
<1>18. EndInv'
  BY <1>12, <1>13, <1>14, Sums, SumsNext DEF EndInv
<1>. QED  BY <1>9, <1>10, <1>15, <1>16, <1>17, <1>18 DEF RecoverInv

\* The CAN was sent when all was not calm.
LEMMA CancelledRecovers ==
    ASSUME CopyInv, CopyInv', RecoverInv, NEW m \in Inputs(toRecv), Cancelled(m)
    PROVE  RecoverInv'
<1>1. /\ m.t = "CAN" /\ toRecv' = After(toRecv, m)
      /\ UNCHANGED <<toSend, s, Taken, trouble, ackVain>>
  BY DEF Taken, Cancelled
<1>2. r'.at = "failed" /\ r'.pass = r.pass /\ r'.eot = r.eot /\ r'.crc = r.crc
  BY CopyTypes DEF Taken, Cancelled, ReceiverType
<1>3. m # NoInput /\ m = toRecv[1] /\ 1 \in 1 .. Len(toRecv)
  BY <1>1, Counters DEF Inputs, NoInput, Control
<1>4. /\ toRecv # <<>> /\ OneMode(toRecv', s.crc) /\ EotLast(toRecv')
      /\ None(toRecv, "block") => None(toRecv', "block")
  BY <1>1, <1>3, ReadLine
<1>5. ~NoModeYet
  BY <1>4, NothingDue
<1>6. /\ trouble' \in Nat /\ trouble <= trouble'
      /\ r'.eot => r'.pass > 0 /\ None(toRecv', "block")
  BY <1>1, <1>2, <1>4, RecoverParts DEF EotInv
<1>7. /\ TroubleType' /\ StartInv' /\ BlocksInv' /\ EotInv' /\ ModeInv'
      /\ Calm' => Calm
  BY <1>1, <1>2, <1>4, <1>5, <1>6, ReceiverShape
<1>8. ~Calm
  BY <1>1, <1>3, RecoverParts DEF GoesOn, None
<1>9. GoesOn' /\ ErrorsInv' /\ TokenInv' /\ TextInv' /\ EndInv'
  BY <1>7, <1>8 DEF GoesOn, ErrorsInv, TokenInv, TextInv, EndInv
<1>. QED  BY <1>7, <1>9 DEF RecoverInv

\* While all goes well no message finds the passes spent.
LEMMA PassLeft ==
    ASSUME CopyInv, RecoverInv, Calm, toRecv # <<>>, ~r.eot
    PROVE  r.pass # MaxErrors
<1>1. Passes - Refused + Blocks + Answers + Unsent + Unasked + Silence <= trouble + 1
  BY RecoverParts DEF TokenInv
<1>2. Refused = 0 /\ Blocks # 0 /\ 2 * trouble < MaxErrors
  <2>1. Len(toRecv) # 0
    BY Counters
  <2>. QED  BY <2>1 DEF Refused, Blocks, One, Calm, Mild
<1>3. Passes # MaxErrors
  BY <1>1, <1>2, Sums
<1>. QED  BY <1>3 DEF Passes

\* So what is no block is noise or silence.
LEMMA NoBlockRead ==
    ASSUME CopyInv, RecoverInv, Calm, NEW m \in Inputs(toRecv), NoBlock(m)
    PROVE  \/ m # NoInput /\ m.t = "noise"
           \/ m = NoInput /\ m.t = "NOINP" /\ ~r.eot
<1>1. NoInput.t = "NOINP"
  BY DEF NoInput, Control
<1>2. m # NoInput => toRecv # <<>>
  BY DEF Inputs
<1>3. ASSUME m.t = "block", ~Expected(m), Repeated(m) => r.pass = MaxErrors
      PROVE  FALSE
  <2>1. Repeated(m) /\ ~r.eot
    BY <1>3, BlockRead
  <2>. QED  BY <1>1, <1>2, <1>3, <2>1, PassLeft
<1>4. ~(m.t = "EOT" /\ ~r.eot /\ r.pass = MaxErrors)
  BY <1>1, <1>2, PassLeft
<1>. QED  BY <1>1, <1>3, <1>4 DEF NoBlock

\* The receiver asks again: the error and the request are paid for by the noise, the
\* time-out, or the silence that was bound to end so.
LEMMA AskAgainRecovers ==
    ASSUME CopyInv, CopyInv', RecoverInv, NEW m \in Inputs(toRecv), AskAgain(m)
    PROVE  RecoverInv'
<1>. DEFINE crc == ModeAfter(r.errors + 1)
            q == Request(r.num, crc)
<1>1. /\ r.at = "read" /\ NoBlock(m) /\ Clock(m, ReceiverAlone)
      /\ toRecv' \in Flushed(After(toRecv, m))
      /\ toSend' = toSend \o RefusedBefore(m) \o <<q>>
      /\ UNCHANGED <<s, Taken, ackVain>>
  BY DEF Taken, AskAgain
<1>2. /\ q \in AnswerType /\ q.t \in {"C", "NAK"}
      /\ crc = r.crc \/ crc = FALSE
      /\ r.num = 1 /\ crc => q.t = "C"
  BY Controls, Counters DEF Request, Control, ModeAfter
<1>3. /\ r'.at = "read" /\ r'.errors = r.errors + 1 /\ r'.pass = 0 /\ r'.eot = FALSE
      /\ r'.crc = crc
  <2>. HIDE DEF crc
  <2>1. r' = [r EXCEPT !.errors = r.errors + 1, !.pass = 0, !.eot = FALSE, !.crc = crc]
    BY DEF Taken, AskAgain, crc
  <2>. QED  BY <1>1, <2>1, CopyTypes DEF ReceiverType
<1>. HIDE DEF crc, q
<1>4. /\ toRecv = <<>> => toRecv' = <<>>
      /\ OneMode(toRecv', s.crc) /\ EotLast(toRecv')
      /\ None(toRecv, "CAN") => None(toRecv', "CAN")
      /\ Dirt' <= Dirt /\ Blocks' <= Blocks
      /\ m # NoInput => Blocks' <= Blocks - 1
      /\ m # NoInput /\ m.t = "noise" => Dirt' < Dirt
  BY <1>1, ReadLine
<1>5. ASSUME m.t # "EOT"
      PROVE  /\ Asks' = Asks + 1 /\ Answers' = Answers + 1
             /\ HasAck(toSend) => HasAck(toSend')
             /\ None(toSend, "CAN") => None(toSend', "CAN")
             /\ None(toSend, "NAK") /\ q.t = "C" => None(toSend', "NAK")
             /\ ~OnlyNoise(toSend')
  <2>1. RefusedBefore(m) = <<>> /\ toSend \in Seq(AnswerType)
    BY <1>5, Counters DEF RefusedBefore
  <2>2. toSend' = Append(toSend, q)
    BY <1>1, <1>2, <2>1
  <2>. QED  BY <1>2, <2>2, AskingAgain
<1>6. NoModeYet => m.t # "EOT" /\ r.num = 1 /\ Taken' = <<>>
  <2>1. NoModeYet => toRecv = <<>> /\ Taken = <<>>
    BY RecoverParts DEF StartInv
  <2>2. toRecv = <<>> => m.t = "NOINP"
    BY DEF Inputs, NoInput, Control
  <2>3. NoModeYet => r.num = 1
    BY NothingDue
  <2>. QED  BY <1>1, <2>1, <2>2, <2>3
<1>7. NoModeYet /\ r'.crc => None(toSend', "NAK")
  <2>1. NoModeYet /\ r.crc => None(toSend, "NAK")
    BY RecoverParts DEF StartInv
  <2>. QED  BY <1>2, <1>3, <1>5, <1>6, <2>1
<1>8. trouble' \in Nat /\ trouble <= trouble' /\ (m # NoInput => trouble' = trouble)
  BY <1>1, ClockOn
<1>9. /\ TroubleType' /\ StartInv' /\ BlocksInv' /\ EotInv' /\ ModeInv'
      /\ Calm' => Calm
      /\ SendErrors' = SendErrors /\ Unsent' = Unsent /\ Unmoded' = Unmoded
  BY <1>1, <1>2, <1>3, <1>4, <1>6, <1>7, <1>8, ReceiverShape
<1>10. Calm => m.t # "EOT"
  BY NoBlockRead, <1>1
<1>11. AckDue' = AckDue
  BY <1>1, <1>3 DEF AckDue
<1>12. GoesOn'
  BY <1>1, <1>3, <1>4, <1>5, <1>9, <1>10, <1>11, RecoverParts DEF GoesOn
<1>13. Calm => \/ trouble' = trouble /\ Blocks' <= Blocks - 1 /\ Dirt' < Dirt
               \/ trouble' = trouble + 1 /\ Blocks' <= Blocks /\ Dirt' <= Dirt /\ Refused = 0
               \/ /\ trouble' = trouble /\ Blocks' <= Blocks /\ Dirt' <= Dirt /\ Refused = 0
                  /\ Silence = 1
  <2>1. SUFFICES ASSUME Calm
                 PROVE  \/ trouble' = trouble /\ Blocks' <= Blocks - 1 /\ Dirt' < Dirt
                        \/ /\ trouble' = trouble + 1 /\ Blocks' <= Blocks /\ Dirt' <= Dirt
                           /\ Refused = 0
                        \/ /\ trouble' = trouble /\ Blocks' <= Blocks /\ Dirt' <= Dirt
                           /\ Refused = 0 /\ Silence = 1
    OBVIOUS
  <2>2. CASE m # NoInput /\ m.t = "noise"
    BY <1>4, <1>8, <2>2
  <2>3. CASE m = NoInput /\ ~r.eot
    <3>1. Refused = 0
      BY <2>3 DEF Refused, One
    <3>2. trouble' = trouble + 1 \/ (trouble' = trouble /\ Silence = 1)
      BY <1>1, <2>1, <2>3, Waited
    <3>. QED  BY <1>4, <3>1, <3>2
  <2>. QED  BY <1>1, <2>1, <2>2, <2>3, NoBlockRead
<1>14. Refused <= Passes
  <2>1. r.eot => r.pass > 0
    BY RecoverParts DEF EotInv
  <2>2. r.pass \in Nat
    BY Counters
  <2>. QED  BY <2>1, <2>2 DEF Refused, Passes, One
<1>15. /\ RecvErrors' = RecvErrors + 1 /\ Passes' = 0 /\ Refused' = 0
       /\ Unasked' = 0 /\ Unasked = 0
  BY <1>1, <1>3 DEF RecvErrors, Passes, Refused, Unasked, One
<1>16. Calm => Asks' = Asks + 1 /\ Answers' = Answers + 1 /\ Silence' = 0
  BY <1>5, <1>10 DEF Silence, Silent, One
<1>17. /\ SendErrors' = SendErrors /\ Unsent' = Unsent /\ Unmoded' = Unmoded
       /\ Calm' => Calm
       /\ trouble' \in Nat /\ s'.at = s.at
  BY <1>1, <1>8, <1>9
<1>18. ErrorsInv /\ TokenInv /\ TextInv /\ EndInv
  BY RecoverParts
<1>19. ErrorsInv'
  BY <1>13, <1>15, <1>16, <1>17, <1>18, Sums, SumsNext DEF ErrorsInv
<1>20. TokenInv'
  BY <1>13, <1>14, <1>15, <1>16, <1>17, <1>18, Sums, SumsNext DEF TokenInv
<1>21. TextInv'
  BY <1>13, <1>15, <1>16, <1>17, <1>18, Sums, SumsNext DEF TextInv
<1>22. EndInv'
  BY <1>13, <1>15, <1>16, <1>17, <1>18, Sums, SumsNext DEF EndInv
<1>. QED  BY <1>9, <1>12, <1>19, <1>20, <1>21, <1>22 DEF RecoverInv

\* A receiver that has not come too far into its errors goes on.
LEMMA ReceiverGivesUpRecovers ==
    ASSUME CopyInv, CopyInv', RecoverInv, NEW m \in Inputs(toRecv), ReceiverGivesUp(m)
    PROVE  RecoverInv'
<1>1. /\ r.at = "read" /\ r.errors = MaxErrors /\ Clock(m, ReceiverAlone)
      /\ toRecv' = After(toRecv, m)
      /\ toSend' = toSend \o RefusedBefore(m) \o <<Control("CAN")>>
      /\ UNCHANGED <<s, Taken, ackVain>>
  BY DEF Taken, ReceiverGivesUp
<1>2. r'.at = "failed" /\ r'.pass = r.pass /\ r'.eot = r.eot /\ r'.crc = r.crc
  BY CopyTypes DEF Taken, ReceiverGivesUp, ReceiverType
<1>3. /\ toRecv = <<>> => toRecv' = <<>>
      /\ OneMode(toRecv', s.crc) /\ EotLast(toRecv')
      /\ None(toRecv, "block") => None(toRecv', "block")
  BY <1>1, ReadLine
<1>4. NoModeYet => Taken' = <<>> /\ ~r'.eot /\ r'.at # "done"
  BY <1>1, <1>2, RecoverParts DEF StartInv
<1>5. NoModeYet /\ r'.crc => None(toSend', "NAK")
  <2>1. SUFFICES ASSUME NoModeYet, r.crc
                 PROVE  None(toSend', "NAK")
    BY <1>2
  <2>2. toRecv = <<>> /\ None(toSend, "NAK")
    BY <2>1, RecoverParts DEF StartInv
  <2>3. RefusedBefore(m) = <<>>
    BY <2>2 DEF Inputs, NoInput, Control, RefusedBefore
  <2>4. toSend \in Seq(AnswerType) /\ Control("CAN") \in AnswerType /\ Control("CAN").t = "CAN"
    BY Counters DEF Control, AnswerType
  <2>5. toSend' = Append(toSend, Control("CAN"))
    BY <1>1, <2>3, <2>4
  <2>. QED  BY <2>2, <2>4, <2>5, MoreHas
<1>6. /\ trouble' \in Nat /\ trouble <= trouble'
      /\ r'.eot => r'.pass > 0 /\ None(toRecv', "block")
  BY <1>1, <1>2, <1>3, ClockOn, RecoverParts DEF EotInv
<1>7. /\ TroubleType' /\ StartInv' /\ BlocksInv' /\ EotInv' /\ ModeInv'
      /\ Calm' => Calm
  BY <1>1, <1>2, <1>3, <1>4, <1>5, <1>6, ReceiverShape
<1>8. ~Calm
  <2>1. SUFFICES ASSUME Calm
                 PROVE  FALSE
    OBVIOUS
  <2>2. RecvErrors + Silence + Dirt <= trouble /\ RecvErrors = MaxErrors
    BY <1>1, <2>1, RecoverParts DEF ErrorsInv, RecvErrors
  <2>3. 2 * trouble < MaxErrors
    BY <2>1 DEF Calm, Mild
  <2>. QED  BY <2>2, <2>3, Sums
<1>9. GoesOn' /\ ErrorsInv' /\ TokenInv' /\ TextInv' /\ EndInv'
  BY <1>7, <1>8 DEF GoesOn, ErrorsInv, TokenInv, TextInv, EndInv
<1>. QED  BY <1>7, <1>9 DEF RecoverInv

LEMMA ReceiverRecovers ==
    ASSUME CopyInv, HandInv, CopyInv', RecoverInv, Receiver
    PROVE  RecoverInv'
BY ReceiverStartsRecovers, AcceptRecovers, WriteRecovers, WriteFailsRecovers, DiscardRecovers, RefuseEotRecovers, AcceptEotRecovers,
   CancelledRecovers, AskAgainRecovers, ReceiverGivesUpRecovers DEF Receiver

-----------------------------------------------------------------------------
(* The last theorem: trouble makes a transfer fail only for a reason.      *)

\* Every step keeps the invariant.
LEMMA RecoverStep ==
    ASSUME CopyInv, HandInv, CopyInv', RecoverInv, [Next]_vars
    PROVE  RecoverInv'
<1>1. CASE UNCHANGED vars
  <2>1. UNCHANGED <<toRecv, toSend, s, r, Taken, trouble, ackVain>>
    BY <1>1 DEF Taken, vars
  <2>2. /\ NoModeYet' = NoModeYet /\ AckDue' = AckDue /\ Calm' = Calm /\ Mild' = Mild
        /\ Silent' = Silent /\ Dirt' = Dirt /\ Asks' = Asks
    BY <2>1 DEF NoModeYet, AckDue, Calm, Mild, Silent, Dirt, Asks
  <2>3. /\ RecvErrors' = RecvErrors /\ SendErrors' = SendErrors /\ Passes' = Passes
        /\ Blocks' = Blocks /\ Answers' = Answers /\ Silence' = Silence /\ Unasked' = Unasked
        /\ Refused' = Refused /\ Unsent' = Unsent /\ Unmoded' = Unmoded
    BY <2>1, <2>2 DEF RecvErrors, SendErrors, Passes, Blocks, Answers, Silence, Unasked, Refused,
         Unsent, Unmoded
  <2>4. TroubleType' /\ StartInv' /\ BlocksInv' /\ EotInv' /\ ModeInv' /\ GoesOn'
    BY <2>1, <2>2, RecoverParts
    DEF TroubleType, StartInv, BlocksInv, EotInv, ModeInv, GoesOn
  <2>5. ErrorsInv' /\ TokenInv' /\ TextInv' /\ EndInv'
    BY <2>1, <2>2, <2>3, RecoverParts DEF ErrorsInv, TokenInv, TextInv, EndInv
  <2>. QED  BY <2>4, <2>5 DEF RecoverInv
<1>. QED  BY <1>1, SenderRecovers, ReceiverRecovers, LineRecovers DEF Next

LEMMA RecoverInvariant == Spec /\ []KeepsSize => [](CopyInv /\ HandInv /\ RecoverInv)
<1>1. Init => CopyInv /\ RecoverInv
  BY CopyInit, RecoverInit
<1>2. CopyInv /\ HandInv /\ RecoverInv /\ KeepsSize' /\ [Next]_vars => RecoverInv'
  BY CopyStep, RecoverStep
<1>. QED  BY <1>1, <1>2, CopyInvariant, PTL DEF Spec

\* So long, and however many errors are allowed: a side fails only if an ACK was in
\* vain (lost, thrown away, or given for a block that could not be written), if the
\* sides took different modes, or if at least half as much went wrong as errors are
\* allowed.
THEOREM TroubleRecovered == Spec /\ []KeepsSize => []Recovers
<1>1. CopyInv /\ RecoverInv => Recovers
  BY GoesOnRecovers
<1>. QED  BY <1>1, RecoverInvariant, PTL

\* With small blocks only there is nothing to take to, and all of it holds in every
\* transfer.
THEOREM SmallBlocks ==
    ASSUME Large = 1
    PROVE  Spec => []CopyRight /\ IsFileCopy /\ []Recovers
<1>1. KeepsSize
  BY DEF KeepsSize
<1>2. []KeepsSize
  BY <1>1, PTL
<1>3. Spec => []CopyRight
  BY <1>2, CopySafe, PTL
<1>4. Spec => IsFileCopy
  BY <1>2, CopyImplements, PTL
<1>5. Spec => []Recovers
  BY <1>2, TroubleRecovered, PTL
<1>. QED  BY <1>3, <1>4, <1>5
=============================================================================
