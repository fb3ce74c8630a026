--------------------------- MODULE WebOutputProofs ---------------------------
(* Proofs about WebOutput: whatever the two threads do, the bytes of a        *)
(* session reach the client in order, each framed as its part of the response *)
(* wants, and a drained buffer has nothing under way.  First, the buffer of    *)
(* RingBuf, with its places around the end of the memory, holds a sequence: a *)
(* write that fits appends to it, a read takes from its beginning.            *)
EXTENDS WebOutput, TLAPS, Integers

IsRing(r, S) == r \in [head : Place, tail : Place, slot : [Place -> S]]

\* The place of the i-th byte of a buffer whose first is at tail.
PlaceOf(tail, i) == IF tail + i - 1 > Size THEN tail + i - 2 - Size ELSE tail + i - 1

\* What the buffer holds.
Held(r) == ReadBytes(r, RingBufFull(r))

\* The fill level is never more than the size.
LEMMA FullInRange ==
    ASSUME NEW S, NEW r, IsRing(r, S)
    PROVE  /\ RingBufFull(r) \in 0 .. Size
           /\ RingBufFree(r) \in 0 .. Size
           /\ RingBufFree(r) = Size - RingBufFull(r)
BY SizeAssumption DEF IsRing, Place, RingBufFull, RingBufFree

\* The bytes a buffer holds lie in places of their own.
LEMMA PlacesOf ==
    ASSUME NEW tail \in Place, NEW i \in 1 .. Size
    PROVE  /\ PlaceOf(tail, i) \in Place
           /\ \A j \in 1 .. Size : PlaceOf(tail, i) = PlaceOf(tail, j) => i = j
BY SizeAssumption DEF Place, PlaceOf

\* What the buffer holds is a sequence as long as the fill level says.
LEMMA HeldIsSequence ==
    ASSUME NEW S, NEW r, IsRing(r, S)
    PROVE  /\ Held(r) \in Seq(S)
           /\ Len(Held(r)) = RingBufFull(r)
           /\ \A i \in 1 .. RingBufFull(r) : Held(r)[i] = r.slot[PlaceOf(r.tail, i)]
<1>1. RingBufFull(r) \in 0 .. Size
  BY FullInRange
<1>2. r.tail \in Place /\ r.slot \in [Place -> S]
  BY DEF IsRing
<1>3. \A i \in 1 .. RingBufFull(r) : PlaceOf(r.tail, i) \in Place
  BY <1>1, <1>2, PlacesOf, SizeAssumption
<1>4. Held(r) = [i \in 1 .. RingBufFull(r) |-> r.slot[PlaceOf(r.tail, i)]]
  BY <1>1, SizeAssumption DEF Held, ReadBytes, Taken, PlaceOf
<1>. QED  BY <1>1, <1>2, <1>3, <1>4, SizeAssumption

\* A new buffer holds nothing.
LEMMA InitHoldsNothing ==
    ASSUME NEW S, NEW garbage \in S
    PROVE  IsRing(RingBufInit(garbage), S) /\ RingBufFull(RingBufInit(garbage)) = 0
BY SizeAssumption DEF RingBufInit, IsRing, RingBufFull, Place

\* Going on around the end: both pointers step from place to place.
LEMMA AdvanceInRange ==
    ASSUME NEW place \in Place, NEW cnt \in 0 .. Size
    PROVE  /\ Advance(place, cnt) \in Place
           /\ Advance(place, cnt) = IF place + cnt > Size THEN place + cnt - Size - 1
                                    ELSE place + cnt
BY SizeAssumption DEF Place, Advance, First

\* The fill level of pointers, and what becomes of it when one goes on.
Level(head, tail) == IF head >= tail THEN head - tail ELSE Size - (tail - (head + 1))
Onward(place, cnt) ==
    IF place + cnt > Size THEN place + cnt - Size - 1 ELSE place + cnt

LEMMA LevelWritten ==
    ASSUME NEW head \in 0 .. Size, NEW tail \in 0 .. Size, NEW cnt \in 0 .. Size,
           cnt + Level(head, tail) <= Size
    PROVE  Level(Onward(head, cnt), tail) = Level(head, tail) + cnt
BY SizeAssumption DEF Level, Onward

LEMMA LevelRead ==
    ASSUME NEW head \in 0 .. Size, NEW tail \in 0 .. Size,
           NEW cnt \in 0 .. Level(head, tail)
    PROVE  Level(head, Onward(tail, cnt)) = Level(head, tail) - cnt
BY SizeAssumption DEF Level, Onward

\* The places written to are not those of the bytes that are there ...
LEMMA PlacesKept ==
    ASSUME NEW head \in 0 .. Size, NEW tail \in 0 .. Size, NEW cnt \in 0 .. Size,
           cnt + Level(head, tail) <= Size,
           NEW i \in 1 .. Level(head, tail)
    PROVE  LET p == PlaceOf(tail, i)
           IN  /\ ~(p < cnt - First(head, cnt))
               /\ p \notin head .. head + First(head, cnt) - 1
BY SizeAssumption DEF Level, First, PlaceOf

\* ... but those behind them.
LEMMA PlacesFilled ==
    ASSUME NEW head \in 0 .. Size, NEW tail \in 0 .. Size, NEW cnt \in 0 .. Size,
           cnt + Level(head, tail) <= Size,
           NEW i \in 1 .. cnt
    PROVE  LET p == PlaceOf(tail, Level(head, tail) + i)
           IN  IF i <= First(head, cnt)
               THEN /\ ~(p < cnt - First(head, cnt))
                    /\ p \in head .. head + First(head, cnt) - 1
                    /\ p - head + 1 = i
               ELSE p < cnt - First(head, cnt) /\ First(head, cnt) + p + 1 = i
BY SizeAssumption DEF Level, First, PlaceOf

\* What a place that is written to gets is one of the bytes to write.
LEMMA PlaceGets ==
    ASSUME NEW head \in 0 .. Size, NEW cnt \in 0 .. Size, NEW p \in 0 .. Size
    PROVE  /\ p < cnt - First(head, cnt) => First(head, cnt) + p + 1 \in 1 .. cnt
           /\ p \in head .. head + First(head, cnt) - 1 => p - head + 1 \in 1 .. cnt
BY SizeAssumption DEF First

\* Where the bytes that are written go: behind those that are there.
LEMMA WrittenAt ==
    ASSUME NEW S, NEW r, IsRing(r, S), NEW src \in Seq(S), Len(src) <= RingBufFree(r)
    PROVE  LET w == RingBufWrite(r, src)
           IN  /\ IsRing(w, S)
               /\ w.tail = r.tail
               /\ RingBufFull(w) = RingBufFull(r) + Len(src)
               /\ \A i \in 1 .. RingBufFull(r) :
                      w.slot[PlaceOf(r.tail, i)] = r.slot[PlaceOf(r.tail, i)]
               /\ \A i \in 1 .. Len(src) :
                      w.slot[PlaceOf(r.tail, RingBufFull(r) + i)] = src[i]
<1>. DEFINE w == RingBufWrite(r, src)
            cnt == Len(src)
            first == First(r.head, cnt)
            full == RingBufFull(r)
<1>1. /\ cnt \in 0 .. Size /\ full \in 0 .. Size /\ cnt + full <= Size
      /\ r.head \in Place /\ r.tail \in Place /\ r.slot \in [Place -> S]
  <2>1. cnt \in Nat
    OBVIOUS
  <2>2. /\ full \in 0 .. Size /\ RingBufFree(r) = Size - full
        /\ r.head \in Place /\ r.tail \in Place /\ r.slot \in [Place -> S]
    BY FullInRange DEF IsRing
  <2>. HIDE DEF cnt, full
  <2>3. cnt <= Size - full
    BY <2>2 DEF cnt
  <2>. QED  BY <2>1, <2>2, <2>3, SizeAssumption
<1>2. /\ first \in 0 .. cnt
      /\ first = IF Size - r.head + 1 >= cnt THEN cnt ELSE Size - r.head + 1
  BY <1>1, SizeAssumption DEF First, Place
<1>3. /\ w.tail = r.tail /\ w.head = Advance(r.head, cnt)
      /\ w.slot = [p \in Place |-> IF p < cnt - first THEN src[first + p + 1]
                                   ELSE IF p \in r.head .. r.head + first - 1
                                        THEN src[p - r.head + 1]
                                   ELSE r.slot[p]]
  BY DEF RingBufWrite
<1>4. w.head \in Place /\ w.head = Onward(r.head, cnt)
  BY <1>1, <1>3, AdvanceInRange DEF Onward
<1>5. full = Level(r.head, r.tail)
  BY DEF RingBufFull, Level
<1>6. RingBufFull(w) = full + cnt
  <2>1. RingBufFull(w) = Level(w.head, w.tail)
    BY DEF RingBufFull, Level
  <2>. HIDE DEF w, cnt, first, full
  <2>. QED  BY <1>1, <1>3, <1>4, <1>5, <2>1, LevelWritten DEF Place
<1>7. w.slot \in [Place -> S]
  <2>1. ASSUME NEW p \in Place PROVE w.slot[p] \in S
    <3>1. CASE p < cnt - first
      <4>1. first + p + 1 \in 1 .. cnt
        BY <3>1, <1>1, PlaceGets DEF Place
      <4>2. w.slot[p] = src[first + p + 1]
        BY <3>1, <1>3
      <4>3. \A i \in 1 .. cnt : src[i] \in S
        OBVIOUS
      <4>. QED  BY <4>1, <4>2, <4>3
    <3>2. CASE ~(p < cnt - first) /\ p \in r.head .. r.head + first - 1
      <4>1. p - r.head + 1 \in 1 .. cnt
        BY <3>2, <1>1, PlaceGets DEF Place
      <4>2. w.slot[p] = src[p - r.head + 1]
        BY <3>2, <1>3
      <4>3. \A i \in 1 .. cnt : src[i] \in S
        OBVIOUS
      <4>. QED  BY <4>1, <4>2, <4>3
    <3>3. CASE ~(p < cnt - first) /\ p \notin r.head .. r.head + first - 1
      BY <3>3, <1>1, <1>3
    <3>. QED  BY <3>1, <3>2, <3>3
  <2>. QED  BY <1>3, <2>1
<1>8. IsRing(w, S)
  BY <1>1, <1>3, <1>4, <1>7 DEF IsRing, RingBufWrite
<1>9. ASSUME NEW i \in 1 .. full
      PROVE  w.slot[PlaceOf(r.tail, i)] = r.slot[PlaceOf(r.tail, i)]
  <2>. DEFINE p == PlaceOf(r.tail, i)
  <2>1. p \in Place
    BY <1>1, PlacesOf, SizeAssumption
  <2>2. ~(p < cnt - first) /\ p \notin r.head .. r.head + first - 1
    <3>. HIDE DEF cnt, full
    <3>. QED  BY <1>1, <1>5, PlacesKept DEF Place
  <2>. HIDE DEF p, w, cnt, first
  <2>3. w.slot[p] = r.slot[p]
    BY <1>3, <2>1, <2>2
  <2>. QED  BY <2>3 DEF p
<1>10. ASSUME NEW i \in 1 .. cnt
       PROVE  w.slot[PlaceOf(r.tail, full + i)] = src[i]
  <2>. DEFINE p == PlaceOf(r.tail, full + i)
  <2>1. p \in Place
    <3>1. full + i \in 1 .. Size
      BY <1>1, SizeAssumption
    <3>. QED  BY <3>1, <1>1, PlacesOf
  <2>2. IF i <= first
        THEN /\ ~(p < cnt - first) /\ p \in r.head .. r.head + first - 1
             /\ p - r.head + 1 = i
        ELSE p < cnt - first /\ first + p + 1 = i
    <3>. HIDE DEF cnt, full
    <3>. QED  BY <1>1, <1>5, PlacesFilled DEF Place
  <2>. HIDE DEF p, w, cnt, first
  <2>3. w.slot[p] = src[i]
    BY <1>3, <2>1, <2>2
  <2>. QED  BY <2>3 DEF p
<1>. QED  BY <1>3, <1>6, <1>8, <1>9, <1>10

\* RingBufWrite() appends, if its caller has checked that there is room.
THEOREM WriteAppends ==
    ASSUME NEW S, NEW r, IsRing(r, S), NEW src \in Seq(S), Len(src) <= RingBufFree(r)
    PROVE  /\ IsRing(RingBufWrite(r, src), S)
           /\ Held(RingBufWrite(r, src)) = Held(r) \o src
<1>. DEFINE w == RingBufWrite(r, src)
<1>1. /\ IsRing(w, S)
      /\ w.tail = r.tail
      /\ RingBufFull(w) = RingBufFull(r) + Len(src)
      /\ \A i \in 1 .. RingBufFull(r) :
             w.slot[PlaceOf(r.tail, i)] = r.slot[PlaceOf(r.tail, i)]
      /\ \A i \in 1 .. Len(src) :
             w.slot[PlaceOf(r.tail, RingBufFull(r) + i)] = src[i]
  BY WrittenAt
<1>. HIDE DEF w
<1>2. /\ Held(r) \in Seq(S) /\ Len(Held(r)) = RingBufFull(r)
      /\ \A i \in 1 .. RingBufFull(r) : Held(r)[i] = r.slot[PlaceOf(r.tail, i)]
  BY HeldIsSequence
<1>3. /\ Held(w) \in Seq(S) /\ Len(Held(w)) = RingBufFull(w)
      /\ \A i \in 1 .. RingBufFull(w) : Held(w)[i] = w.slot[PlaceOf(w.tail, i)]
  BY <1>1, HeldIsSequence
<1>4. RingBufFull(r) \in Nat /\ Len(src) \in Nat
  BY FullInRange, SizeAssumption
<1>5. ASSUME NEW i \in 1 .. RingBufFull(w)
      PROVE  Held(w)[i] = (Held(r) \o src)[i]
  <2>1. Len(Held(r) \o src) = RingBufFull(r) + Len(src)
    BY <1>2
  <2>2. CASE i \in 1 .. RingBufFull(r)
    <3>1. (Held(r) \o src)[i] = Held(r)[i]
      BY <1>2, <1>4, <2>2
    <3>. QED  BY <1>1, <1>2, <1>3, <2>2, <3>1
  <2>3. CASE ~(i \in 1 .. RingBufFull(r))
    <3>. DEFINE j == i - RingBufFull(r)
    <3>1. j \in 1 .. Len(src) /\ i = RingBufFull(r) + j
      BY <1>1, <1>4, <2>3
    <3>. HIDE DEF j
    <3>2. Held(w)[i] = src[j]
      BY <1>1, <1>3, <3>1
    <3>3. (Held(r) \o src)[i] = src[j]
      BY <1>2, <1>4, <3>1
    <3>. QED  BY <3>2, <3>3
  <2>. QED  BY <2>2, <2>3
<1>6. Held(r) \o src \in Seq(S) /\ Len(Held(r) \o src) = RingBufFull(w)
  BY <1>1, <1>2, <1>4
<1>7. Held(w) = Held(r) \o src
  BY <1>3, <1>5, <1>6
<1>. QED  BY <1>1, <1>7 DEF w

\* RingBufRead() copies the first bytes, as many as are wanted and there, and
\* leaves the others as they were.
THEOREM ReadTakes ==
    ASSUME NEW S, NEW r, IsRing(r, S), NEW cnt \in Nat
    PROVE  LET k == Taken(r, cnt)
           IN  /\ k \in 0 .. RingBufFull(r)
               /\ ReadBytes(r, cnt) = SubSeq(Held(r), 1, k)
               /\ IsRing(RingBufRead(r, cnt), S)
               /\ RingBufFull(RingBufRead(r, cnt)) = RingBufFull(r) - k
               /\ Held(RingBufRead(r, cnt)) = SubSeq(Held(r), k + 1, RingBufFull(r))
<1>. DEFINE k == Taken(r, cnt)
            q == RingBufRead(r, cnt)
            full == RingBufFull(r)
<1>1. full \in 0 .. Size /\ k \in 0 .. full /\ k \in 0 .. Size
  BY FullInRange, SizeAssumption DEF Taken
<1>2. /\ r.head \in Place /\ r.tail \in Place /\ r.slot \in [Place -> S]
      /\ q.head = r.head /\ q.slot = r.slot /\ q.tail = Advance(r.tail, k)
  BY DEF IsRing, RingBufRead
<1>3. q.tail \in Place /\ q.tail = Onward(r.tail, k)
  BY <1>1, <1>2, AdvanceInRange DEF Onward
<1>4. IsRing(q, S)
  BY <1>2, <1>3 DEF IsRing, RingBufRead
<1>5. full = Level(r.head, r.tail)
  BY DEF RingBufFull, Level
<1>6. RingBufFull(q) = full - k
  <2>1. RingBufFull(q) = Level(q.head, q.tail)
    BY DEF RingBufFull, Level
  <2>. HIDE DEF q, k, full
  <2>. QED  BY <1>1, <1>2, <1>3, <1>5, <2>1, LevelRead DEF Place
<1>7. /\ Held(r) \in Seq(S) /\ Len(Held(r)) = full
      /\ \A i \in 1 .. full : Held(r)[i] = r.slot[PlaceOf(r.tail, i)]
  BY HeldIsSequence
<1>8. /\ Held(q) \in Seq(S) /\ Len(Held(q)) = RingBufFull(q)
      /\ \A i \in 1 .. RingBufFull(q) : Held(q)[i] = q.slot[PlaceOf(q.tail, i)]
  BY <1>4, HeldIsSequence
<1>9. ReadBytes(r, cnt) = [i \in 1 .. k |-> r.slot[PlaceOf(r.tail, i)]]
  BY DEF ReadBytes, PlaceOf
<1>. HIDE DEF q, k, full
<1>10. ReadBytes(r, cnt) = SubSeq(Held(r), 1, k)
  BY <1>1, <1>7, <1>9, SizeAssumption
<1>11. ASSUME NEW i \in 1 .. full - k
       PROVE  PlaceOf(q.tail, i) = PlaceOf(r.tail, k + i)
  BY <1>1, <1>2, <1>3, SizeAssumption DEF PlaceOf, Place, Onward
<1>12. ASSUME NEW i \in 1 .. full - k
       PROVE  Held(q)[i] = Held(r)[k + i]
  <2>1. k + i \in 1 .. full
    BY <1>1, SizeAssumption
  <2>. QED  BY <1>2, <1>6, <1>7, <1>8, <1>11, <2>1
<1>13. Held(q) = SubSeq(Held(r), k + 1, full)
  BY <1>1, <1>6, <1>7, <1>8, <1>12, SizeAssumption
<1>. QED  BY <1>1, <1>4, <1>6, <1>10, <1>13 DEF q, k, full

-----------------------------------------------------------------------------
(* The two threads.                                                        *)

Byte == [n : Nat, chunk : BOOLEAN]
WireByte == [n : Nat, chunk : BOOLEAN, framed : BOOLEAN]
ReqType == [chunked : BOOLEAN, content : BOOLEAN, keep : BOOLEAN, left : Nat]

TypeInv ==
    /\ IsRing(ring, Byte)
    /\ open \in BOOLEAN /\ write_chunked \in BOOLEAN /\ initialized \in BOOLEAN
    /\ chunked \in BOOLEAN /\ failed \in BOOLEAN
    /\ req \in ReqType
    /\ todo \in Seq(Byte) /\ hand \in Seq(Byte) /\ wire \in Seq(WireByte)
    /\ made \in Nat /\ avail \in Nat

Writing == {"write", "room"}
Draining == {"drain", "drain ready", "drain lock"}

\* Where the session thread goes on after a call, and what its calls may rely on.
StageInv ==
    /\ spc \in Writing => cont \in {"headers", "body", "finish", "last"}
    /\ spc \in Draining => cont \in {"frame", "trailer", "finish", "close"}
    /\ todo # <<>> => spc \in Writing
    /\ spc = "room" => todo # <<>> /\ room \in 1 .. RingBufFree(ring)

\* The output thread, its mutex, and what it has in hand.
OutputInv ==
    /\ mutex = "output" <=> opc \in {"read", "send"}
    /\ initialized <=> opc \notin {"start", "done"}
    /\ opc \in {"exit", "done"} => ~open
    /\ ~open => \/ spc \in {"finish", "close", "wait", "done"}
                \/ spc = "drain" /\ cont = "close"
    /\ ~open => ~req.keep \/ spc \in {"wait", "done"}
    /\ opc \in {"hold", "frame", "lock", "read"} => RingBufFull(ring) > 0
    /\ opc \in {"frame", "lock", "read"} => avail > 0
    /\ opc = "send" <=> hand # <<>>

\* What drain_outbuf() has found out stays so until the session thread writes.
DrainInv ==
    /\ spc \in {"drain ready", "drain lock"} => RingBufFull(ring) = 0
    /\ spc \in {"frame", "trailer", "close"} /\ open => RingBufFull(ring) = 0 /\ hand = <<>>
    /\ spc = "drain lock" => initialized

\* The bytes of s want to be framed as c.
Want(s, c) == \A i \in 1 .. Len(s) : s[i].chunk = c

\* The framing that is set is that of every byte under way, and the output thread
\* has read it.
FramingInv ==
    /\ \/ spc \in {"start", "idle", "headers", "frame", "finish", "last", "close"}
       \/ spc \in Writing /\ cont # "body"
       \/ spc \in Draining /\ cont # "trailer"
       => ~write_chunked
    /\ spc = "body" \/ (spc \in Writing /\ cont = "body") => write_chunked = req.chunked
    /\ opc \in {"lock", "read", "send"} => chunked = write_chunked
WantInv ==
    /\ Want(todo, write_chunked) /\ Want(Held(ring), write_chunked)
    /\ Want(hand, write_chunked)

\* The bytes of s have the numbers after from.
Numbered(s, from) == \A i \in 1 .. Len(s) : s[i].n = from + i

\* What is sent, in hand, in the buffer and to be written are the bytes that were
\* made, in their order; none is missing while no send has failed.
UnderWay == Len(hand) + RingBufFull(ring) + Len(todo)
StreamInv ==
    /\ Numbered(wire, 0)
    /\ Numbered(hand, made - UnderWay)
    /\ Numbered(Held(ring), made - RingBufFull(ring) - Len(todo))
    /\ Numbered(todo, made - Len(todo))
    /\ Len(wire) + UnderWay <= made
    /\ ~failed => Len(wire) + UnderWay = made

ControlInv == StageInv /\ OutputInv /\ DrainInv /\ FramingInv
WebInv == TypeInv /\ ControlInv /\ WantInv /\ StreamInv /\ RightFraming

-----------------------------------------------------------------------------
(* What the steps do to the data.                                            *)

\* The buffer's fill level is a number.
LEMMA Levels ==
    ASSUME TypeInv
    PROVE  /\ RingBufFull(ring) \in Nat /\ RingBufFree(ring) \in Nat
           /\ Len(todo) \in Nat /\ Len(hand) \in Nat /\ Len(wire) \in Nat
           /\ Held(ring) \in Seq(Byte) /\ Len(Held(ring)) = RingBufFull(ring)
<1>1. IsRing(ring, Byte)
  BY DEF TypeInv
<1>2. RingBufFull(ring) \in 0 .. Size /\ RingBufFree(ring) \in 0 .. Size
  BY <1>1, FullInRange
<1>3. Held(ring) \in Seq(Byte) /\ Len(Held(ring)) = RingBufFull(ring)
  BY <1>1, HeldIsSequence
<1>. QED  BY <1>2, <1>3, SizeAssumption DEF TypeInv

\* The room that was found is still there: the bytes are appended.
LEMMA RoomIsUsed ==
    ASSUME TypeInv, StageInv, UseRoom
    PROVE  \E k \in 1 .. Len(todo) :
               /\ IsRing(ring', Byte)
               /\ Held(ring') = Held(ring) \o SubSeq(todo, 1, k)
               /\ RingBufFull(ring') = RingBufFull(ring) + k
               /\ todo' = SubSeq(todo, k + 1, Len(todo))
<1>. DEFINE k == IF room > Len(todo) THEN Len(todo) ELSE room
<1>1. /\ spc = "room" /\ ring' = RingBufWrite(ring, SubSeq(todo, 1, k))
      /\ todo' = SubSeq(todo, k + 1, Len(todo))
  BY DEF UseRoom
<1>2. IsRing(ring, Byte) /\ todo \in Seq(Byte)
  BY DEF TypeInv
<1>3. RingBufFree(ring) \in Nat /\ Len(todo) \in Nat \ {0} /\ room \in 1 .. RingBufFree(ring)
  BY <1>1, <1>2, Levels DEF StageInv
<1>4. k \in 1 .. Len(todo) /\ k <= RingBufFree(ring)
  BY <1>3
<1>. HIDE DEF k
<1>5. SubSeq(todo, 1, k) \in Seq(Byte) /\ Len(SubSeq(todo, 1, k)) = k
  BY <1>2, <1>4
<1>6. /\ IsRing(ring', Byte)
      /\ Held(ring') = Held(ring) \o SubSeq(todo, 1, k)
  BY <1>1, <1>2, <1>4, <1>5, WriteAppends
<1>7. RingBufFull(ring') = RingBufFull(ring) + k
  BY <1>1, <1>2, <1>4, <1>5, WrittenAt
<1>. QED  BY <1>1, <1>4, <1>6, <1>7

\* The output thread finds bytes in the buffer and takes the first of them.
LEMMA BytesAreTaken ==
    ASSUME TypeInv, OutputInv, ReadBuffer
    PROVE  \E k \in 1 .. RingBufFull(ring) :
               /\ IsRing(ring', Byte)
               /\ hand' = SubSeq(Held(ring), 1, k) /\ Len(hand') = k
               /\ Held(ring') = SubSeq(Held(ring), k + 1, RingBufFull(ring))
               /\ RingBufFull(ring') = RingBufFull(ring) - k
               /\ RingBufFree(ring') = RingBufFree(ring) + k
<1>. DEFINE k == Taken(ring, avail)
<1>1. /\ IsRing(ring, Byte) /\ avail \in Nat /\ avail > 0
      /\ RingBufFull(ring) \in Nat /\ RingBufFull(ring) > 0
  BY Levels DEF TypeInv, OutputInv, ReadBuffer
<1>2. k \in 1 .. RingBufFull(ring)
  BY <1>1 DEF Taken
<1>3. /\ hand' = SubSeq(Held(ring), 1, k)
      /\ IsRing(ring', Byte)
      /\ RingBufFull(ring') = RingBufFull(ring) - k
      /\ Held(ring') = SubSeq(Held(ring), k + 1, RingBufFull(ring))
  BY <1>1, ReadTakes DEF ReadBuffer
<1>. HIDE DEF k
<1>4. RingBufFree(ring') = RingBufFree(ring) + k
  <2>1. /\ RingBufFree(ring') = Size - RingBufFull(ring')
        /\ RingBufFree(ring) = Size - RingBufFull(ring)
    BY <1>1, <1>3, FullInRange
  <2>. QED  BY <1>1, <1>2, <1>3, <2>1, SizeAssumption
<1>5. Len(hand') = k
  BY <1>1, <1>2, <1>3, Levels
<1>. QED  BY <1>2, <1>3, <1>4, <1>5

\* At least a byte may be sent at once.
LEMMA SomeAtOnce == Mss \in Nat \ {0}
BY SizeAssumption, HighWaterAssumption DEF Mss

-----------------------------------------------------------------------------
(* The places of the threads, the mutex and the framing.                     *)

\* Steps of the session thread that leave the buffer and the framing alone.
LEMMA SessionControl ==
    ASSUME TypeInv, ControlInv,
           \/ Admit \/ HeadersWritten \/ WriteBody \/ CloseRequest \/ LastHeaders
           \/ FinishRequest \/ CloseSocket \/ Dispose \/ AllWritten
           \/ DrainClosed \/ DrainReady \/ DrainLock
    PROVE  ControlInv'
<1>. USE DEF ControlInv, StageInv, OutputInv, DrainInv, FramingInv, Writing, Draining,
             shared, output
<1>1. CASE Admit
  BY <1>1 DEF Admit
<1>2. CASE HeadersWritten
  BY <1>2 DEF HeadersWritten, Drain
<1>3. CASE WriteBody
  BY <1>3 DEF WriteBody, WriteBuf
<1>4. CASE CloseRequest
  BY <1>4 DEF CloseRequest, Drain
<1>5. CASE LastHeaders
  BY <1>5 DEF LastHeaders, Drain
<1>6. CASE FinishRequest
  BY <1>6 DEF FinishRequest, Drain
<1>7. CASE CloseSocket
  BY <1>7 DEF CloseSocket
<1>8. CASE Dispose
  BY <1>8 DEF Dispose
<1>9. CASE AllWritten
  BY <1>9 DEF AllWritten
<1>10. CASE DrainReady
  BY <1>10 DEF DrainReady
<1>11. CASE DrainLock
  BY <1>11 DEF DrainLock
<1>12. CASE DrainClosed
  BY <1>12 DEF DrainClosed
<1>. QED  BY <1>1, <1>2, <1>3, <1>4, <1>5, <1>6, <1>7, <1>8, <1>9, <1>10, <1>11, <1>12

\* Steps that set the framing: nothing is under way that wants another.
LEMMA FramingControl ==
    ASSUME TypeInv, ControlInv,
           \/ \E ch, content, keep \in BOOLEAN : BeginRequest(ch, content, keep)
           \/ EndSession \/ ReadFails \/ SetFraming \/ Trailer
    PROVE  ControlInv'
<1>. USE DEF ControlInv, Writing, Draining, output
<1>0. write_chunked \in BOOLEAN /\ req.chunked \in BOOLEAN
  BY DEF TypeInv, ReqType
<1>1. ASSUME NEW ch \in BOOLEAN, NEW content \in BOOLEAN, NEW keep \in BOOLEAN,
             BeginRequest(ch, content, keep)
      PROVE  ControlInv'
  <2>1. StageInv'
    BY <1>1 DEF BeginRequest, WriteBuf, StageInv
  <2>2. OutputInv'
    BY <1>1 DEF BeginRequest, WriteBuf, StageInv, OutputInv
  <2>3. DrainInv'
    BY <1>1 DEF BeginRequest, WriteBuf, DrainInv
  <2>4. FramingInv'
    BY <1>0, <1>1 DEF BeginRequest, WriteBuf, FramingInv
  <2>. QED  BY <2>1, <2>2, <2>3, <2>4
<1>2. CASE EndSession
  <2>1. StageInv'
    BY <1>2 DEF EndSession, Drain, StageInv
  <2>2. OutputInv'
    BY <1>2 DEF EndSession, Drain, StageInv, OutputInv
  <2>3. DrainInv'
    BY <1>2 DEF EndSession, Drain, DrainInv
  <2>4. FramingInv'
    BY <1>0, <1>2 DEF EndSession, Drain, FramingInv
  <2>. QED  BY <2>1, <2>2, <2>3, <2>4
<1>3. CASE SetFraming
  <2>1. StageInv'
    BY <1>3 DEF SetFraming, StageInv
  <2>2. OutputInv'
    BY <1>3 DEF SetFraming, StageInv, OutputInv
  <2>3. DrainInv'
    BY <1>3 DEF SetFraming, DrainInv
  <2>4. FramingInv'
    BY <1>0, <1>3 DEF SetFraming, OutputInv, DrainInv, FramingInv
  <2>. QED  BY <2>1, <2>2, <2>3, <2>4
<1>4. CASE Trailer
  <2>1. StageInv'
    BY <1>4 DEF Trailer, WriteBuf, StageInv
  <2>2. OutputInv'
    BY <1>4 DEF Trailer, WriteBuf, StageInv, OutputInv
  <2>3. DrainInv'
    BY <1>4 DEF Trailer, WriteBuf, DrainInv
  <2>4. opc \notin {"lock", "read", "send"}
    BY <1>4 DEF Trailer, OutputInv, DrainInv
  <2>5. ~write_chunked' /\ spc' # "body" /\ ~(spc' \in Writing /\ cont' = "body")
    BY <1>4 DEF Trailer, WriteBuf
  <2>6. FramingInv'
    BY <1>4, <2>4, <2>5 DEF Trailer, FramingInv
  <2>. QED  BY <2>1, <2>2, <2>3, <2>6
<1>5. CASE ReadFails
  <2>1. StageInv'
    BY <1>5 DEF ReadFails, StageInv
  <2>2. OutputInv'
    BY <1>5 DEF ReadFails, NoRequest, OutputInv
  <2>3. DrainInv'
    BY <1>5 DEF ReadFails, DrainInv
  <2>4. FramingInv'
    BY <1>0, <1>5 DEF ReadFails, FramingInv
  <2>. QED  BY <2>1, <2>2, <2>3, <2>4
<1>. QED  BY <1>1, <1>2, <1>3, <1>4, <1>5

\* Steps that look at the buffer or fill it.
LEMMA BufferControl ==
    ASSUME TypeInv, ControlInv, FindRoom \/ UseRoom \/ DrainEmpty
    PROVE  ControlInv'
<1>. USE DEF ControlInv, Writing, Draining, output
<1>1. CASE FindRoom
  <2>1. StageInv'
    BY <1>1, Levels DEF FindRoom, shared, StageInv
  <2>2. OutputInv'
    BY <1>1, Levels DEF FindRoom, shared, StageInv, OutputInv
  <2>3. DrainInv'
    BY <1>1, Levels DEF FindRoom, shared, OutputInv, DrainInv
  <2>4. FramingInv'
    BY <1>1, Levels DEF FindRoom, shared, OutputInv, FramingInv
  <2>. QED  BY <2>1, <2>2, <2>3, <2>4
<1>2. CASE UseRoom
  <2>1. PICK k \in 1 .. Len(todo) : /\ RingBufFull(ring') = RingBufFull(ring) + k
                                    /\ todo' = SubSeq(todo, k + 1, Len(todo))
    BY <1>2, RoomIsUsed
  <2>2. RingBufFull(ring') > 0
    BY <2>1, Levels
  <2>3. StageInv'
    BY <1>2, <2>2 DEF UseRoom, StageInv
  <2>4. OutputInv'
    BY <1>2, <2>2 DEF UseRoom, StageInv, OutputInv
  <2>5. DrainInv'
    BY <1>2, <2>2 DEF UseRoom, OutputInv, DrainInv
  <2>6. FramingInv'
    BY <1>2, <2>2 DEF UseRoom, OutputInv, FramingInv
  <2>. QED  BY <2>3, <2>4, <2>5, <2>6
<1>3. CASE DrainEmpty
  <2>1. StageInv'
    BY <1>3 DEF DrainEmpty, shared, StageInv
  <2>2. OutputInv'
    BY <1>3 DEF DrainEmpty, shared, StageInv, OutputInv
  <2>3. DrainInv'
    BY <1>3 DEF DrainEmpty, shared, OutputInv, DrainInv
  <2>4. FramingInv'
    BY <1>3 DEF DrainEmpty, shared, OutputInv, FramingInv
  <2>. QED  BY <2>1, <2>2, <2>3, <2>4
<1>. QED  BY <1>1, <1>2, <1>3

\* Steps of the output thread.
LEMMA OutputControl ==
    ASSUME TypeInv, ControlInv, Output
    PROVE  ControlInv'
<1>. USE DEF ControlInv, StageInv, OutputInv, DrainInv, FramingInv, Writing, Draining,
             shared, session
<1>0. write_chunked \in BOOLEAN /\ chunked \in BOOLEAN /\ avail \in Nat
  BY DEF TypeInv
<1>1. CASE OutputStart
  BY <1>1 DEF OutputStart
<1>2. CASE SocketClosed
  BY <1>2 DEF SocketClosed
<1>3. CASE SomethingToSend
  BY <1>3 DEF SomethingToSend
<1>4. CASE HoldEnds
  BY <1>4 DEF HoldEnds
<1>5. CASE ReadFraming
  <2>1. Mss \in Nat \ {0}
    BY SomeAtOnce
  <2>2. avail > 0
    BY <1>5 DEF ReadFraming
  <2>3. avail' > 0
    <3>1. avail' = IF avail > Mss THEN Mss ELSE avail
      BY <1>5 DEF ReadFraming
    <3>. HIDE DEF ControlInv, StageInv, OutputInv, DrainInv, FramingInv
    <3>. QED  BY <1>0, <2>1, <2>2, <3>1
  <2>. QED  BY <1>5, <2>3 DEF ReadFraming
<1>6. CASE LockOutput
  BY <1>6 DEF LockOutput
<1>7. CASE ReadBuffer
  <2>1. PICK k \in 1 .. RingBufFull(ring) :
            /\ Len(hand') = k
            /\ RingBufFree(ring') = RingBufFree(ring) + k
    BY <1>7, BytesAreTaken
  <2>2. hand' # <<>>
    <3>. HIDE DEF ControlInv, StageInv, OutputInv, DrainInv, FramingInv
    <3>1. RingBufFull(ring) \in Nat
      BY Levels
    <3>. QED  BY <2>1, <3>1
  <2>3. RingBufFull(ring) > 0
    BY <1>7 DEF ReadBuffer
  <2>4. spc = "room" => room \in 1 .. RingBufFree(ring')
    <3>1. spc = "room" => room \in 1 .. RingBufFree(ring)
      OBVIOUS
    <3>. HIDE DEF ControlInv, StageInv, OutputInv, DrainInv, FramingInv
    <3>2. RingBufFree(ring) \in Nat /\ RingBufFull(ring) \in Nat
      BY Levels
    <3>. QED  BY <2>1, <3>1, <3>2
  <2>5. RingBufFull(ring) # 0
    <3>. HIDE DEF ControlInv, StageInv, OutputInv, DrainInv, FramingInv
    <3>. QED  BY <2>3
  <2>. HIDE DEF StageInv, OutputInv, DrainInv, FramingInv
  <2>6. StageInv'
    BY <1>7, <2>4 DEF ReadBuffer, StageInv
  <2>7. OutputInv'
    BY <1>7, <2>2 DEF ReadBuffer, OutputInv
  <2>8. DrainInv'
    BY <1>7, <2>5 DEF ReadBuffer, DrainInv
  <2>9. FramingInv'
    BY <1>7 DEF ReadBuffer, FramingInv
  <2>. QED  BY <2>6, <2>7, <2>8, <2>9
<1>8. CASE Send
  BY <1>8 DEF Send
<1>9. CASE OutputEnds
  BY <1>9 DEF OutputEnds
<1>. QED  BY <1>1, <1>2, <1>3, <1>4, <1>5, <1>6, <1>7, <1>8, <1>9 DEF Output

LEMMA ControlKept ==
    ASSUME TypeInv, ControlInv, [Next]_vars
    PROVE  ControlInv'
<1>1. CASE UNCHANGED vars
  <2>. USE DEF ControlInv, vars, shared, session, output
  <2>1. StageInv' /\ DrainInv'
    BY <1>1 DEF StageInv, DrainInv
  <2>2. OutputInv'
    BY <1>1 DEF OutputInv
  <2>3. FramingInv'
    BY <1>1 DEF FramingInv
  <2>. QED  BY <2>1, <2>2, <2>3
<1>. QED  BY <1>1, SessionControl, FramingControl, BufferControl, OutputControl
          DEF Next, Session

-----------------------------------------------------------------------------
(* The bytes.                                                                *)

\* The variables that hold bytes.
bytes == <<ring, todo, hand, wire, made, failed>>

\* Pieces of a sequence of numbered bytes, all of one framing.
LEMMA PieceOf ==
    ASSUME NEW q \in Seq(Byte), NEW a \in 1 .. Len(q) + 1, NEW b \in a - 1 .. Len(q),
           NEW from \in Int, Numbered(q, from), NEW c, Want(q, c)
    PROVE  LET piece == SubSeq(q, a, b)
           IN  /\ piece \in Seq(Byte) /\ Len(piece) = b - a + 1
               /\ Numbered(piece, from + (a - 1)) /\ Want(piece, c)
<1>. DEFINE piece == SubSeq(q, a, b)
<1>1. /\ piece \in Seq(Byte) /\ Len(piece) = b - a + 1
      /\ \A i \in 1 .. Len(piece) : piece[i] = q[a + i - 1]
  <2>1. \A i \in a .. b : q[i] \in Byte
    OBVIOUS
  <2>. QED  BY <2>1
<1>2. \A i \in 1 .. Len(piece) : a + i - 1 \in 1 .. Len(q)
  BY <1>1
<1>. HIDE DEF piece
<1>3. ASSUME NEW i \in 1 .. Len(piece)
      PROVE  piece[i].n = from + (a - 1) + i /\ piece[i].chunk = c
  <2>1. piece[i] = q[a + i - 1] /\ a + i - 1 \in 1 .. Len(q)
    BY <1>1, <1>2
  <2>2. q[a + i - 1].n = from + (a + i - 1) /\ q[a + i - 1].chunk = c
    BY <2>1 DEF Numbered, Want
  <2>3. from + (a + i - 1) = from + (a - 1) + i
    OBVIOUS
  <2>. QED  BY <2>1, <2>2, <2>3
<1>. QED  BY <1>1, <1>3 DEF Numbered, Want, piece

\* Two of them, one after the other.
LEMMA Joined ==
    ASSUME NEW q \in Seq(Byte), NEW p \in Seq(Byte), NEW from \in Int,
           Numbered(q, from), Numbered(p, from + Len(q)), NEW c, Want(q, c), Want(p, c)
    PROVE  /\ q \o p \in Seq(Byte) /\ Len(q \o p) = Len(q) + Len(p)
           /\ Numbered(q \o p, from) /\ Want(q \o p, c)
<1>1. q \o p \in Seq(Byte) /\ Len(q \o p) = Len(q) + Len(p)
  OBVIOUS
<1>2. ASSUME NEW i \in 1 .. Len(q \o p)
      PROVE  (q \o p)[i].n = from + i /\ (q \o p)[i].chunk = c
  <2>1. CASE i \in 1 .. Len(q)
    <3>1. (q \o p)[i] = q[i]
      BY <2>1
    <3>. QED  BY <2>1, <3>1 DEF Numbered, Want
  <2>2. CASE i \notin 1 .. Len(q)
    <3>. DEFINE j == i - Len(q)
    <3>1. j \in 1 .. Len(p) /\ i = Len(q) + j
      BY <1>1, <2>2
    <3>2. (q \o p)[i] = p[j]
      BY <1>1, <2>2
    <3>. HIDE DEF j
    <3>3. p[j].n = from + Len(q) + j /\ p[j].chunk = c
      BY <3>1 DEF Numbered, Want
    <3>4. from + Len(q) + j = from + i
      BY <3>1
    <3>. QED  BY <3>2, <3>3, <3>4
  <2>. QED  BY <2>1, <2>2
<1>. QED  BY <1>1, <1>2 DEF Numbered, Want
\* What a call of writebuf() is given.
LEMMA NewBytes ==
    ASSUME NEW k \in Nat, NEW c \in BOOLEAN, NEW from \in Nat
    PROVE  LET s == [i \in 1 .. k |-> [n |-> from + i, chunk |-> c]]
           IN  s \in Seq(Byte) /\ Len(s) = k /\ Numbered(s, from) /\ Want(s, c)
<1>. DEFINE s == [i \in 1 .. k |-> [n |-> from + i, chunk |-> c]]
<1>1. \A i \in 1 .. k : [n |-> from + i, chunk |-> c] \in Byte
  BY DEF Byte
<1>2. s \in Seq(Byte) /\ Len(s) = k
  BY <1>1
<1>3. \A i \in 1 .. k : s[i].n = from + i /\ s[i].chunk = c
  OBVIOUS
<1>. HIDE DEF s
<1>4. Numbered(s, from) /\ Want(s, c)
  BY <1>2, <1>3 DEF Numbered, Want
<1>. QED  BY <1>2, <1>4 DEF s

\* What a send puts on the wire, after what is there.
LEMMA Sent ==
    ASSUME wire \in Seq(WireByte), chunked \in BOOLEAN, Numbered(wire, 0), RightFraming,
           NEW s \in Seq(Byte), Numbered(s, Len(wire)), Want(s, chunked)
    PROVE  LET w == wire \o Framed(s)
           IN  /\ w \in Seq(WireByte) /\ Len(w) = Len(wire) + Len(s)
               /\ Numbered(w, 0)
               /\ \A i \in 1 .. Len(w) : w[i].framed = w[i].chunk
<1>. DEFINE f == Framed(s)
            w == wire \o f
<1>1. f = [i \in 1 .. Len(s) |-> [n |-> s[i].n, chunk |-> s[i].chunk, framed |-> chunked]]
  BY DEF Framed
<1>2. \A i \in 1 .. Len(s) :
          [n |-> s[i].n, chunk |-> s[i].chunk, framed |-> chunked] \in WireByte
  <2>1. \A i \in 1 .. Len(s) : s[i] \in Byte
    OBVIOUS
  <2>. QED  BY <2>1 DEF Byte, WireByte
<1>3. f \in Seq(WireByte) /\ Len(f) = Len(s)
  BY <1>1, <1>2
<1>4. \A i \in 1 .. Len(f) :
          f[i].n = Len(wire) + i /\ f[i].chunk = chunked /\ f[i].framed = chunked
  BY <1>1, <1>3 DEF Numbered, Want
<1>. HIDE DEF f
<1>5. w \in Seq(WireByte) /\ Len(w) = Len(wire) + Len(s)
  BY <1>3
<1>6. ASSUME NEW i \in 1 .. Len(w)
      PROVE  w[i].n = 0 + i /\ w[i].framed = w[i].chunk
  <2>1. CASE i \in 1 .. Len(wire)
    <3>1. w[i] = wire[i]
      BY <1>3, <2>1
    <3>2. wire[i].n = 0 + i /\ wire[i].framed = wire[i].chunk
      BY <2>1 DEF Numbered, RightFraming
    <3>. QED  BY <3>1, <3>2
  <2>2. CASE i \notin 1 .. Len(wire)
    <3>. DEFINE j == i - Len(wire)
    <3>1. j \in 1 .. Len(f) /\ i = Len(wire) + j
      BY <1>3, <1>5, <2>2
    <3>2. w[i] = f[j]
      BY <1>3, <1>5, <2>2
    <3>. HIDE DEF j, w
    <3>. QED  BY <1>4, <3>1, <3>2
  <2>. QED  BY <2>1, <2>2
<1>. HIDE DEF w
<1>7. Numbered(w, 0)
  BY <1>6 DEF Numbered
<1>. QED  BY <1>5, <1>6, <1>7 DEF f, w

\* A step that moves no byte, and sets no framing while one is under way.
LEMMA DataStill ==
    ASSUME TypeInv, WantInv, StreamInv, RightFraming, UNCHANGED bytes,
           \/ write_chunked' = write_chunked
           \/ todo = <<>> /\ hand = <<>> /\ RingBufFull(ring) = 0
    PROVE  WantInv' /\ StreamInv' /\ RightFraming'
<1>1. StreamInv' /\ RightFraming'
  BY DEF StreamInv, RightFraming, UnderWay, Numbered, Held, bytes
<1>2. CASE write_chunked' = write_chunked
  BY <1>1, <1>2 DEF WantInv, bytes
<1>3. CASE todo = <<>> /\ hand = <<>> /\ RingBufFull(ring) = 0
  <2>1. Len(Held(ring)) = 0 /\ Len(todo) = 0 /\ Len(hand) = 0
    BY <1>3, Levels
  <2>. QED  BY <1>1, <2>1 DEF WantInv, Want, bytes
<1>. QED  BY <1>2, <1>3

\* New bytes are numbered after all that were made before.
LEMMA DataMade ==
    ASSUME TypeInv, WantInv, StreamInv, RightFraming, todo = <<>>,
           NEW k \in Nat, NEW c \in BOOLEAN, NEW stage, WriteBuf(k, c, stage),
           UNCHANGED <<ring, hand, wire, failed>>, write_chunked' = c,
           \/ write_chunked' = write_chunked
           \/ hand = <<>> /\ RingBufFull(ring) = 0
    PROVE  /\ todo' \in Seq(Byte) /\ made' \in Nat
           /\ made' - Len(todo') = made - Len(todo)
           /\ WantInv' /\ StreamInv' /\ RightFraming'
<1>1. /\ todo' \in Seq(Byte) /\ Len(todo') = k
      /\ Numbered(todo', made) /\ Want(todo', c) /\ made' = made + k /\ made \in Nat
  <2>1. /\ todo' = [i \in 1 .. k |-> [n |-> made + i, chunk |-> c]]
        /\ made' = made + k /\ made \in Nat
    BY DEF WriteBuf, TypeInv
  <2>. QED  BY <2>1, NewBytes
<1>2. Len(todo) = 0
  OBVIOUS
<1>3. /\ made' - Len(todo') = made
      /\ made' - RingBufFull(ring) - Len(todo') = made - RingBufFull(ring) - Len(todo)
      /\ UnderWay' = UnderWay + k
      /\ made' - UnderWay' = made - UnderWay
      /\ Len(wire) + UnderWay' <= made' <=> Len(wire) + UnderWay <= made
      /\ Len(wire) + UnderWay' = made' <=> Len(wire) + UnderWay = made
  <2>. DEFINE t == Len(todo')
              h == Len(hand)
              f == RingBufFull(ring)
              w == Len(wire)
  <2>1. t = k /\ h \in Nat /\ f \in Nat /\ w \in Nat /\ made \in Nat /\ made' = made + k
    BY <1>1, Levels
  <2>2. UnderWay = h + f + 0 /\ UnderWay' = h + f + t
    BY <1>2 DEF UnderWay
  <2>. HIDE DEF t, h, f, w
  <2>3. /\ made' - t = made /\ made' - f - t = made - f - 0
        /\ UnderWay' = UnderWay + k
        /\ made' - UnderWay' = made - UnderWay
        /\ w + UnderWay' <= made' <=> w + UnderWay <= made
        /\ w + UnderWay' = made' <=> w + UnderWay = made
    BY <2>1, <2>2
  <2>. QED  BY <1>2, <2>3 DEF t, f, w
<1>4. StreamInv'
  <2>1. Numbered(wire', 0) /\ Numbered(hand', made' - UnderWay')
    BY <1>3 DEF StreamInv
  <2>2. /\ Numbered(Held(ring'), made' - RingBufFull(ring') - Len(todo'))
        /\ Numbered(todo', made' - Len(todo'))
    BY <1>1, <1>3 DEF StreamInv
  <2>3. Len(wire') + UnderWay' <= made' /\ (~failed' => Len(wire') + UnderWay' = made')
    BY <1>3 DEF StreamInv
  <2>. QED  BY <2>1, <2>2, <2>3 DEF StreamInv
<1>5. WantInv'
  <2>1. CASE write_chunked' = write_chunked
    BY <1>1, <2>1 DEF WantInv
  <2>2. CASE hand = <<>> /\ RingBufFull(ring) = 0
    <3>1. Len(Held(ring)) = 0 /\ Len(hand) = 0
      BY <2>2, Levels
    <3>. QED  BY <1>1, <3>1 DEF WantInv, Want
  <2>. QED  BY <2>1, <2>2
<1>6. RightFraming'
  BY DEF RightFraming
<1>7. made' - Len(todo') = made - Len(todo)
  BY <1>1, <1>2, <1>3
<1>. QED  BY <1>1, <1>4, <1>5, <1>6, <1>7
\* writebuf(): bytes move from what is to be written to the end of the buffer.
LEMMA DataWritten ==
    ASSUME TypeInv, StageInv, WantInv, StreamInv, RightFraming, UseRoom
    PROVE  WantInv' /\ StreamInv' /\ RightFraming'
<1>1. PICK k \in 1 .. Len(todo) :
          /\ IsRing(ring', Byte)
          /\ Held(ring') = Held(ring) \o SubSeq(todo, 1, k)
          /\ RingBufFull(ring') = RingBufFull(ring) + k
          /\ todo' = SubSeq(todo, k + 1, Len(todo))
  BY RoomIsUsed
<1>. DEFINE from == made - Len(todo)
            piece == SubSeq(todo, 1, k)
<1>2. /\ todo \in Seq(Byte) /\ Len(todo) \in Nat /\ from \in Int
      /\ Numbered(todo, from) /\ Want(todo, write_chunked)
  BY Levels DEF TypeInv, StreamInv, WantInv
<1>3. /\ piece \in Seq(Byte) /\ Len(piece) = k
      /\ Numbered(piece, from) /\ Want(piece, write_chunked)
  <2>1. 1 \in 1 .. Len(todo) + 1 /\ k \in 0 .. Len(todo)
    BY <1>2
  <2>2. k - 1 + 1 = k /\ from + (1 - 1) = from /\ 1 - 1 = 0
    BY <1>2
  <2>. HIDE DEF from
  <2>. QED  BY <1>2, <2>1, <2>2, PieceOf
<1>4. /\ Len(todo') = Len(todo) - k
      /\ Numbered(todo', from + k) /\ Want(todo', write_chunked)
  <2>. DEFINE a == k + 1
  <2>1. /\ a \in 1 .. Len(todo) + 1 /\ Len(todo) \in a - 1 .. Len(todo)
        /\ Len(todo) - a + 1 = Len(todo) - k /\ a - 1 = k
    BY <1>2
  <2>2. todo' = SubSeq(todo, a, Len(todo))
    BY <1>1
  <2>. HIDE DEF from, a
  <2>3. /\ Len(todo') = Len(todo) - a + 1
        /\ Numbered(todo', from + (a - 1)) /\ Want(todo', write_chunked)
    BY <1>2, <2>1, <2>2, PieceOf
  <2>. QED  BY <2>1, <2>3
<1>5. Numbered(Held(ring'), from - RingBufFull(ring)) /\ Want(Held(ring'), write_chunked)
  <2>1. /\ Held(ring) \in Seq(Byte) /\ Len(Held(ring)) = RingBufFull(ring)
        /\ RingBufFull(ring) \in Nat
    BY Levels
  <2>2. made - RingBufFull(ring) - Len(todo) = from - RingBufFull(ring)
    BY <1>2, <2>1 DEF TypeInv
  <2>3. /\ Numbered(Held(ring), from - RingBufFull(ring))
        /\ Want(Held(ring), write_chunked)
    BY <2>2 DEF StreamInv, WantInv
  <2>4. from - RingBufFull(ring) + Len(Held(ring)) = from /\ from - RingBufFull(ring) \in Int
    BY <1>2, <2>1
  <2>. HIDE DEF from, piece
  <2>5. Numbered(Held(ring) \o piece, from - RingBufFull(ring))
    BY <1>3, <2>1, <2>3, <2>4, Joined
  <2>6. Want(Held(ring) \o piece, write_chunked)
    BY <1>3, <2>1, <2>3, <2>4, Joined
  <2>. QED  BY <1>1, <2>5, <2>6 DEF piece
<1>6. /\ made - Len(todo') = from + k
      /\ made - RingBufFull(ring') - Len(todo') = from - RingBufFull(ring)
      /\ RingBufFull(ring') + Len(todo') = RingBufFull(ring) + Len(todo)
  <2>1. made \in Nat /\ RingBufFull(ring) \in Nat
    BY Levels DEF TypeInv
  <2>2. RingBufFull(ring') = RingBufFull(ring) + k /\ Len(todo') = Len(todo) - k
    BY <1>1, <1>4
  <2>3. Len(todo) \in Nat
    BY <1>2
  <2>. QED  BY <2>1, <2>2, <2>3
<1>7. made' = made /\ UNCHANGED <<hand, wire, failed, write_chunked>>
  BY DEF UseRoom, output
<1>8. UnderWay' = UnderWay
  <2>1. Len(hand) \in Nat /\ RingBufFull(ring) \in Nat
    BY Levels
  <2>2. RingBufFull(ring') \in Nat /\ Len(todo') \in Nat
    BY <1>1, <1>2, <1>4, <2>1
  <2>. QED  BY <1>2, <1>6, <1>7, <2>1, <2>2 DEF UnderWay
<1>. HIDE DEF from
<1>. QED  BY <1>4, <1>5, <1>6, <1>7, <1>8 DEF WantInv, StreamInv, RightFraming

\* The output thread: bytes move from the beginning of the buffer to its hand.
LEMMA DataRead ==
    ASSUME TypeInv, OutputInv, WantInv, StreamInv, RightFraming, ReadBuffer
    PROVE  WantInv' /\ StreamInv' /\ RightFraming' /\ hand' \in Seq(Byte)
<1>. DEFINE full == RingBufFull(ring)
            from == made - full - Len(todo)
            held == Held(ring)
<1>1. PICK k \in 1 .. full :
          /\ IsRing(ring', Byte)
          /\ hand' = SubSeq(held, 1, k)
          /\ Held(ring') = SubSeq(held, k + 1, full)
          /\ RingBufFull(ring') = full - k
  BY BytesAreTaken
<1>2. /\ held \in Seq(Byte) /\ Len(held) = full /\ full \in Nat /\ from \in Int
      /\ Len(todo) \in Nat /\ made \in Nat
      /\ Numbered(held, from) /\ Want(held, write_chunked)
  BY Levels DEF TypeInv, StreamInv, WantInv
<1>3. Len(hand) = 0
  BY DEF OutputInv, ReadBuffer
<1>4. made' = made /\ UNCHANGED <<todo, wire, failed, write_chunked>>
  BY DEF ReadBuffer, session
<1>. HIDE DEF held, full
<1>5. /\ hand' \in Seq(Byte) /\ Len(hand') = k
      /\ Numbered(hand', from) /\ Want(hand', write_chunked)
  <2>1. 1 \in 1 .. Len(held) + 1 /\ k \in 1 - 1 .. Len(held)
    BY <1>2
  <2>2. k - 1 + 1 = k /\ from + (1 - 1) = from
    BY <1>2
  <2>. HIDE DEF from
  <2>. QED  BY <1>1, <1>2, <2>1, <2>2, PieceOf
<1>6. Numbered(Held(ring'), from + k) /\ Want(Held(ring'), write_chunked)
  <2>. DEFINE a == k + 1
  <2>1. a \in 1 .. Len(held) + 1 /\ full \in a - 1 .. Len(held) /\ a - 1 = k
    BY <1>2
  <2>2. Held(ring') = SubSeq(held, a, full)
    BY <1>1
  <2>. HIDE DEF from, a
  <2>3. Numbered(Held(ring'), from + (a - 1)) /\ Want(Held(ring'), write_chunked)
    BY <1>2, <2>1, <2>2, PieceOf
  <2>. QED  BY <2>1, <2>3
<1>7. /\ Len(hand') + RingBufFull(ring') = Len(hand) + full
      /\ made - (full - k) - Len(todo) = from + k
      /\ made - (Len(hand) + full + Len(todo)) = from
  BY <1>1, <1>2, <1>3, <1>5
<1>8. UnderWay' = UnderWay
  BY <1>4, <1>7 DEF UnderWay, full
<1>9. made - UnderWay = from
  BY <1>7 DEF UnderWay, full
<1>. HIDE DEF from
<1>10. StreamInv'
  <2>1. Numbered(hand', made' - UnderWay')
    BY <1>4, <1>5, <1>8, <1>9
  <2>2. Numbered(Held(ring'), made' - RingBufFull(ring') - Len(todo'))
    BY <1>1, <1>4, <1>6, <1>7
  <2>. QED  BY <1>4, <1>8, <2>1, <2>2 DEF StreamInv
<1>. QED  BY <1>4, <1>5, <1>6, <1>10 DEF WantInv, RightFraming

\* The output thread: bytes move from its hand to the wire, or are lost.
LEMMA DataSent ==
    ASSUME TypeInv, OutputInv, FramingInv, WantInv, StreamInv, RightFraming, Send
    PROVE  /\ WantInv' /\ StreamInv' /\ RightFraming'
           /\ wire' \in Seq(WireByte) /\ Len(wire') >= Len(wire)
<1>1. /\ hand' = <<>> /\ UNCHANGED <<ring, todo, made, write_chunked>>
      /\ chunked = write_chunked /\ opc = "send"
  BY DEF Send, session, FramingInv
<1>2. /\ wire \in Seq(WireByte) /\ hand \in Seq(Byte) /\ chunked \in BOOLEAN /\ made \in Nat
      /\ RingBufFull(ring) \in Nat /\ Len(todo) \in Nat /\ Len(hand) \in Nat /\ Len(wire) \in Nat
  BY Levels DEF TypeInv
<1>3. /\ UnderWay \in Nat /\ UnderWay' \in Nat
      /\ Len(hand') = 0 /\ UnderWay' = UnderWay - Len(hand)
      /\ made - UnderWay = made - RingBufFull(ring) - Len(todo) - Len(hand)
  BY <1>1, <1>2 DEF UnderWay
<1>4. WantInv'
  BY <1>1, <1>3 DEF WantInv, Want
<1>5. /\ Numbered(hand', made' - UnderWay')
      /\ Numbered(Held(ring'), made' - RingBufFull(ring') - Len(todo'))
      /\ Numbered(todo', made' - Len(todo'))
  BY <1>1, <1>3 DEF StreamInv, Numbered
<1>6. CASE failed' = TRUE /\ UNCHANGED wire
  <2>1. Len(wire) + UnderWay' <= made
    BY <1>2, <1>3 DEF StreamInv
  <2>. QED  BY <1>1, <1>2, <1>4, <1>5, <1>6, <2>1 DEF StreamInv, RightFraming
<1>7. ASSUME NEW k \in 0 .. Len(hand), ~failed, wire' = wire \o Framed(SubSeq(hand, 1, k)),
             failed' \/ k = Len(hand)
      PROVE  /\ StreamInv' /\ RightFraming'
             /\ wire' \in Seq(WireByte) /\ Len(wire') >= Len(wire)
  <2>. DEFINE s == SubSeq(hand, 1, k)
  <2>1. Len(wire) + UnderWay = made /\ made - UnderWay = Len(wire)
    BY <1>2, <1>3, <1>7 DEF StreamInv
  <2>2. Numbered(hand, Len(wire)) /\ Want(hand, chunked)
    BY <1>1, <2>1 DEF StreamInv, WantInv
  <2>3. s \in Seq(Byte) /\ Len(s) = k /\ Numbered(s, Len(wire)) /\ Want(s, chunked)
    <3>1. 1 \in 1 .. Len(hand) + 1 /\ k \in 1 - 1 .. Len(hand)
      BY <1>2
    <3>2. k - 1 + 1 = k /\ Len(wire) + (1 - 1) = Len(wire) /\ Len(wire) \in Int
      BY <1>2
    <3>. QED  BY <1>2, <2>2, <3>1, <3>2, PieceOf
  <2>. HIDE DEF s
  <2>4. /\ wire' \in Seq(WireByte) /\ Len(wire') = Len(wire) + k /\ Numbered(wire', 0)
        /\ \A i \in 1 .. Len(wire') : wire'[i].framed = wire'[i].chunk
    <3>1. Numbered(wire, 0)
      BY DEF StreamInv
    <3>2. wire' = wire \o Framed(s)
      BY <1>7 DEF s
    <3>. QED  BY <1>2, <2>3, <3>1, <3>2, Sent
  <2>5. Len(wire') + UnderWay' <= made /\ (k = Len(hand) => Len(wire') + UnderWay' = made)
    <3>1. Len(wire') = Len(wire) + k /\ UnderWay' = UnderWay - Len(hand)
      BY <1>3, <2>4
    <3>2. /\ Len(wire) \in Nat /\ Len(hand) \in Nat /\ UnderWay \in Nat
          /\ Len(wire) + UnderWay = made
      BY <1>2, <1>3, <2>1
    <3>. QED  BY <3>1, <3>2
  <2>6. StreamInv'
    BY <1>1, <1>5, <1>7, <2>4, <2>5 DEF StreamInv
  <2>7. Len(wire') >= Len(wire)
    BY <1>2, <2>4
  <2>. QED  BY <2>4, <2>6, <2>7 DEF RightFraming
<1>8. CASE ~failed /\ wire' = wire \o Framed(hand) /\ UNCHANGED failed
  <2>1. SubSeq(hand, 1, Len(hand)) = hand /\ Len(hand) \in 0 .. Len(hand)
    BY <1>2
  <2>. QED  BY <1>4, <1>7, <1>8, <2>1
<1>9. CASE ~failed /\ failed' = TRUE
           /\ \E k \in 0 .. Len(hand) - 1 : wire' = wire \o Framed(SubSeq(hand, 1, k))
  <2>1. PICK k \in 0 .. Len(hand) - 1 : wire' = wire \o Framed(SubSeq(hand, 1, k))
    BY <1>9
  <2>2. k \in 0 .. Len(hand)
    BY <1>2
  <2>. QED  BY <1>4, <1>7, <1>9, <2>1, <2>2
<1>. QED  BY <1>6, <1>8, <1>9 DEF Send
-----------------------------------------------------------------------------
(* Every step keeps the types and the bytes in order.                        *)

DataInv == WantInv /\ StreamInv /\ RightFraming

\* Steps that move no byte and leave the framing alone.
LEMMA StillSteps ==
    ASSUME TypeInv,
           \/ Admit \/ HeadersWritten \/ CloseRequest \/ LastHeaders \/ FinishRequest
           \/ CloseSocket \/ Dispose \/ FindRoom \/ AllWritten \/ DrainClosed \/ DrainEmpty
           \/ DrainReady \/ DrainLock \/ OutputStart \/ SocketClosed
           \/ SomethingToSend \/ HoldEnds \/ ReadFraming \/ LockOutput \/ OutputEnds
    PROVE  TypeInv' /\ UNCHANGED <<bytes, write_chunked>>
<1>. USE DEF TypeInv, bytes, shared, session, output
<1>1. CASE Admit
  BY <1>1 DEF Admit
<1>2. CASE HeadersWritten
  BY <1>2 DEF HeadersWritten, Drain
<1>3. CASE CloseRequest
  BY <1>3 DEF CloseRequest, Drain
<1>4. CASE LastHeaders
  BY <1>4 DEF LastHeaders, Drain
<1>5. CASE FinishRequest
  BY <1>5 DEF FinishRequest, Drain
<1>6. CASE CloseSocket
  BY <1>6 DEF CloseSocket
<1>7. CASE Dispose
  BY <1>7 DEF Dispose
<1>8. CASE FindRoom
  BY <1>8 DEF FindRoom
<1>9. CASE AllWritten
  BY <1>9 DEF AllWritten
<1>10. CASE DrainEmpty
  BY <1>10 DEF DrainEmpty
<1>11. CASE DrainReady
  BY <1>11 DEF DrainReady
<1>12. CASE DrainLock
  BY <1>12 DEF DrainLock
<1>13. CASE OutputStart
  BY <1>13 DEF OutputStart
<1>14. CASE SocketClosed
  BY <1>14 DEF SocketClosed
<1>15. CASE SomethingToSend
  BY <1>15, Levels DEF SomethingToSend
<1>16. CASE HoldEnds
  BY <1>16, Levels DEF HoldEnds
<1>17. CASE ReadFraming
  BY <1>17, SomeAtOnce DEF ReadFraming
<1>18. CASE LockOutput
  BY <1>18 DEF LockOutput
<1>19. CASE OutputEnds
  BY <1>19 DEF OutputEnds
<1>20. CASE DrainClosed
  BY <1>20 DEF DrainClosed
<1>. QED  BY <1>1, <1>2, <1>3, <1>4, <1>5, <1>6, <1>7, <1>8, <1>9, <1>10, <1>11, <1>12,
          <1>13, <1>14, <1>15, <1>16, <1>17, <1>18, <1>19, <1>20

\* Steps of the session thread that set the framing, or make bytes.
LEMMA MakingSteps ==
    ASSUME TypeInv, ControlInv, DataInv,
           \/ \E ch, content, keep \in BOOLEAN : BeginRequest(ch, content, keep)
           \/ EndSession \/ ReadFails \/ SetFraming \/ WriteBody \/ Trailer
    PROVE  /\ TypeInv' /\ DataInv'
           /\ made' - Len(todo') = made - Len(todo) /\ wire' = wire
<1>. USE DEF ControlInv, DataInv
<1>0. req.chunked \in BOOLEAN /\ write_chunked \in BOOLEAN
  BY DEF TypeInv, ReqType
<1>1. ASSUME NEW ch \in BOOLEAN, NEW content \in BOOLEAN, NEW keep \in BOOLEAN,
             BeginRequest(ch, content, keep)
      PROVE  /\ TypeInv' /\ DataInv'
             /\ made' - Len(todo') = made - Len(todo) /\ wire' = wire
  <2>1. PICK k \in 1 .. MaxPiece : WriteBuf(k, FALSE, "headers")
    BY <1>1 DEF BeginRequest
  <2>2. k \in Nat
    BY BoundAssumption
  <2>3. UNCHANGED <<ring, hand, wire, failed, open, initialized, chunked, avail>>
    BY <1>1 DEF BeginRequest, output
  <2>4. todo = <<>> /\ write_chunked = FALSE /\ write_chunked' = FALSE
    BY <1>0, <1>1 DEF BeginRequest, StageInv, FramingInv, Writing
  <2>5. /\ todo' \in Seq(Byte) /\ made' \in Nat /\ DataInv'
        /\ made' - Len(todo') = made - Len(todo)
    BY <2>1, <2>2, <2>3, <2>4, DataMade
  <2>6. req' \in ReqType
    BY <1>1, BoundAssumption DEF BeginRequest, ReqType
  <2>. QED  BY <2>3, <2>4, <2>5, <2>6 DEF TypeInv
<1>2. CASE EndSession
  <2>1. UNCHANGED bytes /\ write_chunked' = write_chunked
    BY <1>0, <1>2 DEF EndSession, FramingInv, bytes, output
  <2>2. DataInv'
    BY <2>1, DataStill
  <2>. QED  BY <1>2, <2>1, <2>2 DEF EndSession, TypeInv, bytes, output
<1>3. CASE SetFraming
  <2>1. UNCHANGED bytes /\ todo = <<>> /\ hand = <<>> /\ RingBufFull(ring) = 0
    BY <1>3 DEF SetFraming, StageInv, OutputInv, DrainInv, Writing, bytes, output
  <2>2. DataInv'
    BY <2>1, DataStill
  <2>. QED  BY <1>0, <1>3, <2>1, <2>2 DEF SetFraming, TypeInv, bytes, output
<1>4. CASE WriteBody
  <2>1. PICK k \in 1 .. MaxPiece :
            /\ k <= req.left
            /\ req' = [req EXCEPT !.left = req.left - k]
            /\ WriteBuf(k, req.chunked, "body")
    BY <1>4 DEF WriteBody
  <2>2. k \in Nat
    BY BoundAssumption
  <2>3. /\ UNCHANGED <<ring, hand, wire, failed, open, initialized, chunked, avail>>
        /\ write_chunked' = write_chunked
    BY <1>4 DEF WriteBody, shared, output
  <2>4. todo = <<>> /\ write_chunked = req.chunked
    BY <1>4 DEF WriteBody, StageInv, FramingInv, Writing
  <2>5. /\ todo' \in Seq(Byte) /\ made' \in Nat /\ DataInv'
        /\ made' - Len(todo') = made - Len(todo)
    BY <1>0, <2>1, <2>2, <2>3, <2>4, DataMade
  <2>6. req' \in ReqType
    <3>1. req.left \in Nat /\ req \in ReqType
      BY DEF TypeInv, ReqType
    <3>2. req.left - k \in Nat
      BY <2>1, <2>2, <3>1
    <3>. QED  BY <2>1, <3>1, <3>2 DEF ReqType
  <2>. QED  BY <2>3, <2>5, <2>6 DEF TypeInv
<1>5. CASE Trailer
  <2>1. /\ todo = <<>> /\ hand = <<>> /\ RingBufFull(ring) = 0
        /\ write_chunked' = FALSE
        /\ UNCHANGED <<ring, hand, wire, failed, open, initialized, chunked, avail, req>>
    BY <1>5 DEF Trailer, StageInv, OutputInv, DrainInv, Writing, output
  <2>2. /\ todo' \in Seq(Byte) /\ made' \in Nat /\ DataInv'
        /\ made' - Len(todo') = made - Len(todo)
    <3>1. PICK after \in {"finish", "last"} :
              IF req.content THEN WriteBuf(1, FALSE, after)
              ELSE spc' = after /\ UNCHANGED <<cont, todo, made>>
      BY <1>5 DEF Trailer
    <3>2. CASE req.content
      <4>1. WriteBuf(1, FALSE, after)
        BY <3>1, <3>2
      <4>. QED  BY <2>1, <4>1, DataMade
    <3>3. CASE ~req.content
      <4>1. UNCHANGED bytes
        BY <2>1, <3>1, <3>3 DEF bytes
      <4>2. DataInv'
        BY <2>1, <4>1, DataStill
      <4>. QED  BY <4>1, <4>2 DEF bytes, TypeInv
    <3>. QED  BY <3>2, <3>3
  <2>. QED  BY <2>1, <2>2 DEF TypeInv
<1>6. CASE ReadFails
  <2>1. UNCHANGED bytes /\ write_chunked' = write_chunked
    BY <1>0, <1>6 DEF ReadFails, FramingInv, bytes, output
  <2>2. DataInv'
    BY <2>1, DataStill
  <2>3. req' \in ReqType
    BY <1>6 DEF ReadFails, NoRequest, ReqType
  <2>. QED  BY <1>6, <2>1, <2>2, <2>3 DEF ReadFails, TypeInv, bytes, output
<1>. QED  BY <1>1, <1>2, <1>3, <1>4, <1>5, <1>6

\* Steps that move bytes.
LEMMA MovingSteps ==
    ASSUME TypeInv, ControlInv, DataInv, UseRoom \/ ReadBuffer \/ Send
    PROVE  TypeInv' /\ DataInv'
<1>. USE DEF ControlInv, DataInv
<1>1. CASE UseRoom
  <2>1. DataInv'
    BY <1>1, DataWritten
  <2>2. IsRing(ring', Byte) /\ todo' \in Seq(Byte)
    <3>1. PICK k \in 1 .. Len(todo) :
              IsRing(ring', Byte) /\ todo' = SubSeq(todo, k + 1, Len(todo))
      BY <1>1, RoomIsUsed
    <3>2. todo \in Seq(Byte)
      BY DEF TypeInv
    <3>. QED  BY <3>1, <3>2
  <2>. QED  BY <1>1, <2>1, <2>2 DEF UseRoom, TypeInv, output
<1>2. CASE ReadBuffer
  <2>1. DataInv' /\ hand' \in Seq(Byte)
    BY <1>2, DataRead
  <2>2. IsRing(ring', Byte)
    BY <1>2, BytesAreTaken
  <2>. QED  BY <1>2, <2>1, <2>2 DEF ReadBuffer, TypeInv, session
<1>3. CASE Send
  <2>1. DataInv' /\ wire' \in Seq(WireByte)
    BY <1>3, DataSent
  <2>2. hand' \in Seq(Byte) /\ failed' \in BOOLEAN
    <3>1. hand' = <<>> /\ (failed' = failed \/ failed' = TRUE)
      BY <1>3 DEF Send
    <3>2. failed \in BOOLEAN /\ <<>> \in Seq(Byte)
      BY DEF TypeInv
    <3>. QED  BY <3>1, <3>2
  <2>. QED  BY <1>3, <2>1, <2>2 DEF Send, TypeInv, session
<1>. QED  BY <1>1, <1>2, <1>3

\* The invariant is inductive.
LEMMA WebInvKept ==
    ASSUME WebInv, [Next]_vars
    PROVE  WebInv'
<1>1. ControlInv'
  BY ControlKept DEF WebInv
<1>2. TypeInv /\ ControlInv /\ DataInv
  BY DEF WebInv, DataInv
<1>3. TypeInv' /\ DataInv'
  <2>1. CASE UNCHANGED vars
    <3>1. UNCHANGED bytes /\ write_chunked' = write_chunked
      BY <2>1 DEF vars, shared, session, output, bytes
    <3>2. DataInv'
      BY <1>2, <3>1, DataStill DEF DataInv
    <3>3. TypeInv'
      BY <1>2, <2>1 DEF vars, shared, session, output, TypeInv
    <3>. QED  BY <3>2, <3>3
  <2>2. CASE Session
    <3>1. CASE \/ \E ch, content, keep \in BOOLEAN : BeginRequest(ch, content, keep)
               \/ EndSession \/ ReadFails \/ SetFraming \/ WriteBody \/ Trailer
      BY <1>2, <3>1, MakingSteps
    <3>2. CASE UseRoom
      BY <1>2, <3>2, MovingSteps
    <3>3. CASE \/ Admit \/ HeadersWritten \/ CloseRequest \/ LastHeaders
               \/ FinishRequest \/ CloseSocket \/ Dispose \/ FindRoom \/ AllWritten
               \/ DrainClosed \/ DrainEmpty \/ DrainReady \/ DrainLock
      <4>1. TypeInv' /\ UNCHANGED bytes /\ write_chunked' = write_chunked
        BY <1>2, <3>3, StillSteps
      <4>. QED  BY <1>2, <4>1, DataStill DEF DataInv
    <3>. QED  BY <2>2, <3>1, <3>2, <3>3 DEF Session
  <2>3. CASE Output
    <3>1. CASE ReadBuffer \/ Send
      BY <1>2, <3>1, MovingSteps
    <3>2. CASE \/ OutputStart \/ SocketClosed \/ SomethingToSend \/ HoldEnds
               \/ ReadFraming \/ LockOutput \/ OutputEnds
      <4>1. TypeInv' /\ UNCHANGED bytes /\ write_chunked' = write_chunked
        BY <1>2, <3>2, StillSteps
      <4>. QED  BY <1>2, <4>1, DataStill DEF DataInv
    <3>. QED  BY <2>3, <3>1, <3>2 DEF Output
  <2>. QED  BY <2>1, <2>2, <2>3 DEF Next
<1>. QED  BY <1>1, <1>3 DEF WebInv, DataInv

LEMMA WebInvInit == Init => WebInv
<1>. SUFFICES ASSUME Init PROVE WebInv
  OBVIOUS
<1>1. IsRing(ring, Byte) /\ RingBufFull(ring) = 0
  <2>1. [n |-> 0, chunk |-> FALSE] \in Byte
    BY DEF Byte
  <2>. QED  BY <2>1, InitHoldsNothing DEF Init
<1>2. TypeInv
  <2>1. req \in ReqType
    BY DEF Init, NoRequest, ReqType
  <2>2. todo \in Seq(Byte) /\ hand \in Seq(Byte) /\ wire \in Seq(WireByte)
    BY DEF Init
  <2>. QED  BY <1>1, <2>1, <2>2 DEF Init, TypeInv
<1>3. ControlInv
  BY <1>1 DEF Init, ControlInv, StageInv, OutputInv, DrainInv, FramingInv, Writing, Draining
<1>4. Len(Held(ring)) = 0 /\ Len(todo) = 0 /\ Len(hand) = 0 /\ Len(wire) = 0
      /\ UnderWay = 0 /\ made = 0
  BY <1>1, <1>2, Levels DEF Init, UnderWay
<1>5. DataInv
  BY <1>4 DEF DataInv, WantInv, Want, StreamInv, Numbered, RightFraming
<1>. QED  BY <1>2, <1>3, <1>5 DEF WebInv, DataInv

-----------------------------------------------------------------------------
(* The theorems.                                                             *)

LEMMA WebInvariant == Spec => []WebInv
<1>. QED  BY WebInvInit, WebInvKept, PTL DEF Spec

\* What drain_outbuf() promises follows from where its bytes can be.
LEMMA InvDrained == WebInv => Drained
<1>. SUFFICES ASSUME WebInv, spc \in {"frame", "trailer", "close"}, open
              PROVE  /\ RingBufFull(ring) = 0 /\ hand = <<>>
                     /\ failed \/ Len(wire) = made
  BY DEF Drained
<1>1. RingBufFull(ring) = 0 /\ hand = <<>> /\ todo = <<>>
  BY DEF WebInv, ControlInv, DrainInv, StageInv, Writing
<1>2. UnderWay = 0 /\ Len(wire) \in Nat /\ made \in Nat
  BY <1>1, Levels DEF WebInv, TypeInv, UnderWay
<1>3. ~failed => Len(wire) + UnderWay = made
  BY DEF WebInv, StreamInv
<1>. QED  BY <1>1, <1>2, <1>3

\* A byte is framed as its part of the response wants, although the output thread
\* reads write_chunked before it locks the mutex and reads the buffer.
THEOREM FramingSafe == Spec => []RightFraming
<1>1. WebInv => RightFraming
  BY DEF WebInv
<1>. QED  BY <1>1, WebInvariant, PTL

\* When drain_outbuf() returns and no failed read has closed the socket nothing is
\* under way, whatever the output thread did between the three things it looks at
\* one after the other.
THEOREM DrainSafe == Spec => []Drained
<1>. QED  BY InvDrained, WebInvariant, PTL

\* The output thread sends no empty chunk, which would end the response: what it
\* saw in the buffer nobody else takes out.
THEOREM ChunksSafe == Spec => []NoEmptyChunk
<1>1. WebInv => NoEmptyChunk
  BY DEF WebInv, ControlInv, OutputInv, NoEmptyChunk
<1>. QED  BY <1>1, WebInvariant, PTL

\* drain_outbuf() never locks a mutex that is not there.
THEOREM MutexSafe == Spec => []MutexExists
<1>1. WebInv => MutexExists
  BY DEF WebInv, ControlInv, DrainInv, MutexExists
<1>. QED  BY <1>1, WebInvariant, PTL

-----------------------------------------------------------------------------
(* The stream: WebOutput implements ByteStream.                              *)

accepted == made - Len(todo)
delivered == [i \in DOMAIN wire |-> wire[i].n]

\* What the client got are the first bytes of the stream.
InTurn ==
    /\ Len(wire) \in Nat /\ accepted \in Nat /\ Len(wire) <= accepted
    /\ delivered = [i \in 1 .. Len(wire) |-> i] /\ Len(delivered) = Len(wire)

LEMMA DeliveredInTurn == WebInv => InTurn
<1>. SUFFICES ASSUME WebInv PROVE InTurn
  OBVIOUS
<1>1. /\ Len(wire) \in Nat /\ Len(hand) \in Nat /\ Len(todo) \in Nat
      /\ RingBufFull(ring) \in Nat /\ made \in Nat
      /\ wire \in Seq(WireByte)
  BY Levels DEF WebInv, TypeInv
<1>2. accepted \in Nat /\ Len(wire) <= accepted
  <2>1. Len(wire) + (Len(hand) + RingBufFull(ring) + Len(todo)) <= made
    BY DEF WebInv, StreamInv, UnderWay
  <2>. QED  BY <1>1, <2>1 DEF accepted
<1>3. delivered = [i \in 1 .. Len(wire) |-> i]
  <2>1. DOMAIN wire = 1 .. Len(wire)
    BY <1>1
  <2>2. \A i \in 1 .. Len(wire) : wire[i].n = 0 + i
    BY DEF WebInv, StreamInv, Numbered
  <2>3. \A i \in 1 .. Len(wire) : wire[i].n = i
    BY <2>2
  <2>. QED  BY <2>1, <2>3 DEF delivered
<1>. QED  BY <1>1, <1>2, <1>3 DEF InTurn

\* A step moves at most one end of the stream, and only forwards.
LEMMA StreamGrows ==
    ASSUME WebInv, [Next]_vars
    PROVE  \/ accepted' = accepted
           \/ accepted' > accepted /\ wire' = wire
<1>1. TypeInv /\ ControlInv /\ DataInv
  BY DEF WebInv, DataInv
<1>2. CASE UNCHANGED <<made, todo>>
  BY <1>2 DEF accepted
<1>3. CASE \/ \E ch, content, keep \in BOOLEAN : BeginRequest(ch, content, keep)
           \/ EndSession \/ ReadFails \/ SetFraming \/ WriteBody \/ Trailer
  BY <1>1, <1>3, MakingSteps DEF accepted
<1>4. CASE UseRoom
  <2>1. PICK k \in 1 .. Len(todo) : todo' = SubSeq(todo, k + 1, Len(todo))
    BY <1>1, <1>4, RoomIsUsed DEF ControlInv
  <2>2. todo \in Seq(Byte) /\ Len(todo) \in Nat /\ made \in Nat
    BY <1>1, Levels DEF TypeInv
  <2>3. Len(todo') = Len(todo) - k
    BY <2>1, <2>2
  <2>4. made' = made /\ wire' = wire
    BY <1>4 DEF UseRoom, output
  <2>5. made - (Len(todo) - k) > made - Len(todo)
    BY <2>2
  <2>. QED  BY <2>3, <2>4, <2>5 DEF accepted
<1>5. CASE ReadBuffer \/ Send
  BY <1>2, <1>5 DEF ReadBuffer, Send, session
<1>6. CASE \/ Admit \/ HeadersWritten \/ CloseRequest \/ LastHeaders \/ FinishRequest
           \/ CloseSocket \/ Dispose \/ FindRoom \/ AllWritten \/ DrainClosed \/ DrainEmpty
           \/ DrainReady \/ DrainLock \/ OutputStart \/ SocketClosed
           \/ SomethingToSend \/ HoldEnds \/ ReadFraming \/ LockOutput \/ OutputEnds
  BY <1>1, <1>2, <1>6, StillSteps DEF bytes
<1>7. CASE UNCHANGED vars
  BY <1>2, <1>7 DEF vars, session
<1>. QED  BY <1>3, <1>4, <1>5, <1>6, <1>7 DEF Next, Session, Output

\* What the client has got it keeps, and bytes are sent and made in different steps.
LEMMA WireGrows ==
    ASSUME WebInv, [Next]_vars
    PROVE  wire' = wire \/ (Len(wire') >= Len(wire) /\ accepted' = accepted)
<1>1. TypeInv /\ ControlInv /\ DataInv
  BY DEF WebInv, DataInv
<1>2. CASE Send
  <2>1. Len(wire') >= Len(wire)
    BY <1>1, <1>2, DataSent DEF ControlInv, DataInv
  <2>. QED  BY <1>2, <2>1 DEF Send, session, accepted
<1>3. CASE \/ \E ch, content, keep \in BOOLEAN : BeginRequest(ch, content, keep)
           \/ EndSession \/ ReadFails \/ SetFraming \/ WriteBody \/ Trailer
  BY <1>1, <1>3, MakingSteps
<1>4. CASE UseRoom \/ ReadBuffer
  BY <1>4 DEF UseRoom, ReadBuffer, output
<1>5. CASE \/ Admit \/ HeadersWritten \/ CloseRequest \/ LastHeaders \/ FinishRequest
           \/ CloseSocket \/ Dispose \/ FindRoom \/ AllWritten \/ DrainClosed \/ DrainEmpty
           \/ DrainReady \/ DrainLock \/ OutputStart \/ SocketClosed
           \/ SomethingToSend \/ HoldEnds \/ ReadFraming \/ LockOutput \/ OutputEnds
  BY <1>1, <1>5, StillSteps DEF bytes
<1>6. CASE UNCHANGED vars
  BY <1>6 DEF vars, output
<1>. QED  BY <1>2, <1>3, <1>4, <1>5, <1>6 DEF Next, Session, Output

LEMMA InitIsStream == Init => Stream!Init
<1>. SUFFICES ASSUME Init PROVE accepted = 0 /\ delivered = <<>>
  BY DEF Stream!Init, accepted, delivered
<1>1. made = 0 /\ Len(todo) = 0 /\ wire = <<>>
  BY DEF Init
<1>. QED  BY <1>1 DEF accepted, delivered

\* Every step is a step of the stream or leaves it alone.
LEMMA StepIsStream ==
    ASSUME WebInv, InTurn, InTurn', [Next]_vars
    PROVE  [Stream!Next]_<<accepted, delivered>>
<1>1. /\ Len(wire) \in Nat /\ accepted \in Nat
      /\ delivered = [i \in 1 .. Len(wire) |-> i] /\ Len(delivered) = Len(wire)
  BY DEF InTurn
<1>2. /\ Len(wire') \in Nat /\ accepted' \in Nat /\ Len(wire') <= accepted'
      /\ delivered' = [i \in 1 .. Len(wire') |-> i]
  BY DEF InTurn
<1>3. wire' = wire => delivered' = delivered
  BY DEF delivered
<1>4. CASE wire' = wire
  <2>1. CASE accepted' = accepted
    BY <1>3, <1>4, <2>1
  <2>2. CASE accepted' # accepted
    <3>1. Stream!Accept
      BY <1>2, <1>3, <1>4, <2>2, StreamGrows DEF Stream!Accept, accepted, delivered
    <3>. QED  BY <3>1 DEF Stream!Next
  <2>. QED  BY <2>1, <2>2
<1>5. CASE wire' # wire
  <2>1. Len(wire') >= Len(wire) /\ accepted' = accepted
    BY <1>5, WireGrows
  <2>2. CASE Len(wire') = Len(wire)
    BY <1>1, <1>2, <2>1, <2>2
  <2>3. CASE Len(wire') # Len(wire)
    <3>1. Len(wire') \in Len(delivered) + 1 .. accepted
      BY <1>1, <1>2, <2>1, <2>3
    <3>2. Stream!Deliver
      BY <1>2, <2>1, <3>1 DEF Stream!Deliver, accepted, delivered
    <3>. QED  BY <3>2 DEF Stream!Next
  <2>. QED  BY <2>2, <2>3
<1>. QED  BY <1>4, <1>5

\* The client gets the bytes in the order they were written, none twice and none
\* out of turn, whatever the two threads do to the ring buffer between them.
THEOREM StreamInOrder == Spec => InOrder
<1>1. Init => Stream!Init
  BY InitIsStream
<1>2. WebInv /\ InTurn /\ InTurn' /\ [Next]_vars
      => [Stream!Next]_<<made - Len(todo), [i \in DOMAIN wire |-> wire[i].n]>>
  BY StepIsStream DEF accepted, delivered
<1>. QED  BY <1>1, <1>2, WebInvariant, DeliveredInTurn, PTL DEF Spec, InOrder, Stream!Spec
=============================================================================
