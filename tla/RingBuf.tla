------------------------------ MODULE RingBuf ------------------------------
(***************************************************************************)
(* The ring buffer of src/sbbs3/ringbuf.c, as operators on its value.      *)
(*                                                                         *)
(* A buffer of size Size has Size + 1 places, 0 .. Size: the code may write *)
(* at pEnd.  head and tail are pHead and pTail as offsets from pStart; the *)
(* buffer is empty when they are equal, so one place stays unused.  Each   *)
(* function runs with the buffer's mutex locked and is one step.  The      *)
(* semaphores and the event only wake threads that would wake up by        *)
(* themselves a little later, and are left to the modules of those threads. *)
(***************************************************************************)
EXTENDS Naturals, Sequences

CONSTANT Size  \* the size given to RingBufInit()

ASSUME SizeAssumption == Size \in Nat \ {0}

Place == 0 .. Size

\* RingBufInit(); what the places hold then does not matter.
RingBufInit(garbage) ==
    [head |-> 0, tail |-> 0, slot |-> [p \in Place |-> garbage]]

\* RINGBUF_FILL_LEVEL, RingBufFull() and RingBufFree().
RingBufFull(r) ==
    IF r.head >= r.tail THEN r.head - r.tail ELSE Size - (r.tail - (r.head + 1))

\* Mutant: the place that stays unused is taken for free.
RingBufFreeOneMore(r) == Size + 1 - RingBufFull(r)

RingBufFree(r) == Size - RingBufFull(r)

\* How many of cnt bytes fit between a place and pEnd, and where those after
\* the last one go.
First(place, cnt) == IF Size - place + 1 >= cnt THEN cnt ELSE Size - place + 1

Advance(place, cnt) ==
    LET end == IF cnt > First(place, cnt) THEN cnt - First(place, cnt) ELSE place + cnt
    IN  IF end > Size THEN 0 ELSE end

\* RingBufWrite(): the caller has checked that there is room.
RingBufWrite(r, src) ==
    LET cnt    == Len(src)
        first  == First(r.head, cnt)
        remain == cnt - first
    IN  [head |-> Advance(r.head, cnt),
         tail |-> r.tail,
         slot |-> [p \in Place |->
                     IF p < remain THEN src[first + p + 1]
                     ELSE IF p \in r.head .. r.head + first - 1 THEN src[p - r.head + 1]
                     ELSE r.slot[p]]]

\* RingBufRead(): what it copies to dst, and the buffer without it.
Taken(r, cnt) == IF RingBufFull(r) < cnt THEN RingBufFull(r) ELSE cnt

ReadBytes(r, cnt) ==
    [i \in 1 .. Taken(r, cnt) |->
        r.slot[IF r.tail + i - 1 > Size THEN r.tail + i - 2 - Size ELSE r.tail + i - 1]]

RingBufRead(r, cnt) == [r EXCEPT !.tail = Advance(r.tail, Taken(r, cnt))]
=============================================================================
