--------------------------- MODULE SmbThreadProofs ---------------------------
(* Proofs about SmbThread.  TypesRight and SearchSafe rest on the order of      *)
(* the index, SearchShrinks on where a search looks (NarrowInv); LinksLeadRight *)
(* and IdsFindMessages on ThreadInv, which relates the links, the hashes and    *)
(* the header a reader holds, until fixsmb renumbers; ThreadsShown on ShownInv, *)
(* which lasts while nothing hurts the links; LinksLeadOn on LinkInv and, if    *)
(* the base may be renumbered, on the slots of the header file the headers lie  *)
(* in.                                                                          *)
EXTENDS SmbThread, TLAPS, Functions, WellFoundedInduction, FiniteSetTheorems,
        SequenceTheorems

\* The links of header h, when it has number n.
Ascends(n, h) == \A m \in {h.first, h.next} : m # 0 => m > n

HeadersInv ==
    /\ lastMsg \in Nat
    /\ Existing \subseteq 1 .. lastMsg
    /\ \A n \in Existing : hdrs[n] \in HeaderType /\ Ascends(n, hdrs[n])

\* The header a reader may write back later has links of the same kind.
ReaderInv ==
    /\ "at" \in DOMAIN reader
    /\ reader.at = "loaded" =>
           /\ reader.num \in Nat
           /\ reader.hdr \in HeaderType /\ Ascends(reader.num, reader.hdr)

LinkInv == HeadersInv /\ ReaderInv

-----------------------------------------------------------------------------
\* The number a post is linked to is a number, whatever the hash file says.
LEMMA OriginalIsNumber ==
    ASSUME HeadersInv, NEW back \in Nat, NEW ref
    PROVE  Original(back, ref) \in Nat
<1>1. Existing \subseteq Nat
  BY DEF HeadersInv
<1>. QED  BY <1>1 DEF Original

\* Every non-empty set of naturals has a least element.
LEMMA LeastNatural ==
    ASSUME NEW S \in SUBSET Nat, S # {}
    PROVE  \E x \in S : \A y \in S : x <= y
<1>. DEFINE R == OpToRel(<, Nat)
<1>1. \E x \in S : \A y \in S : ~(<<y, x>> \in R)
  BY NatLessThanWellFounded, WFMin, Zenon
<1>2. \A x, y \in Nat : y < x => <<y, x>> \in R
  BY DEF OpToRel
<1>. HIDE DEF R
<1>3. PICK x \in S : \A y \in S : ~(<<y, x>> \in R)
  BY <1>1
<1>4. \A y \in S : ~(y < x)
  BY <1>2, <1>3
<1>. QED  BY <1>3, <1>4

\* A free run of blocks that is found begins at a block.
LEMMA FirstFreeIsBlock ==
    ASSUME NEW n \in HdrBlocks, FreeRuns(n) # {}
    PROVE  FirstFree(n) \in Nat /\ FirstFree(n) \in FreeRuns(n)
<1>1. FreeRuns(n) \in SUBSET Nat
  BY ThreadAssumption DEF FreeRuns
<1>2. \E b \in FreeRuns(n) : \A c \in FreeRuns(n) : b <= c
  BY <1>1, LeastNatural
<1>3. FirstFree(n) \in FreeRuns(n)
  BY <1>2 DEF FirstFree
<1>. QED  BY <1>1, <1>3

\* smb_updatethread(): every header keeps its links or gets one to the number
\* the new message is going to have, which no header has.
LEMMA RelinkedHeader ==
    ASSUME HeadersInv, NEW orig, NEW busy, NEW k \in Existing
    PROVE  LET h == Relinked(orig, lastMsg + 1, busy)[k]
           IN  h \in HeaderType /\ Ascends(k, h)
<1>. DEFINE num == lastMsg + 1
<1>1. hdrs[k] \in HeaderType /\ Ascends(k, hdrs[k])
  BY DEF HeadersInv
<1>2. k \in Nat /\ num \in Nat /\ num > k /\ num # 0
  BY DEF HeadersInv
<1>3. LET h == [hdrs[k] EXCEPT !.first = num]
      IN  h \in HeaderType /\ h.first = num /\ h.next = hdrs[k].next
  BY <1>1, <1>2 DEF HeaderType
<1>4. LET h == [hdrs[k] EXCEPT !.next = num]
      IN  h \in HeaderType /\ h.next = num /\ h.first = hdrs[k].first
  BY <1>1, <1>2 DEF HeaderType
<1>5. Relinked(orig, num, busy)[k] \in
          {hdrs[k], [hdrs[k] EXCEPT !.first = num], [hdrs[k] EXCEPT !.next = num]}
  BY DEF Relinked, Linked
<1>. HIDE DEF num
<1>6. CASE Relinked(orig, num, busy)[k] = hdrs[k]
  BY <1>1, <1>6 DEF num
<1>7. CASE Relinked(orig, num, busy)[k] = [hdrs[k] EXCEPT !.first = num]
  BY <1>1, <1>2, <1>3, <1>7 DEF Ascends, num
<1>8. CASE Relinked(orig, num, busy)[k] = [hdrs[k] EXCEPT !.next = num]
  BY <1>1, <1>2, <1>4, <1>8 DEF Ascends, num
<1>. QED  BY <1>5, <1>6, <1>7, <1>8

LEMMA RelinkedDomain ==
    ASSUME NEW orig, NEW num, NEW busy
    PROVE  DOMAIN Relinked(orig, num, busy) = Existing
BY DEF Relinked, Linked, Existing

-----------------------------------------------------------------------------
\* One fact for each kind of step.
LEMMA PostKeeps ==
    ASSUME LinkInv, NEW i \in Ids, NEW back \in Nat, NEW ref, NEW busy, NEW n \in HdrBlocks,
           Post(i, back, ref, busy, n)
    PROVE  LinkInv'
<1>. DEFINE orig == Original(back, ref)
            num  == lastMsg + 1
            old  == Relinked(orig, num, busy)
            new  == NewHeader(i, orig, num, busy, n)
<1>1. /\ hdrs' = [k \in Existing \cup {num} |-> IF k = num THEN new ELSE old[k]]
      /\ lastMsg' = num /\ reader' = reader /\ FreeRuns(n) # {}
  BY DEF Post
<1>2. orig \in Nat /\ num \in Nat /\ num \notin Existing /\ Existing \subseteq 1 .. lastMsg
      /\ lastMsg \in Nat
  BY OriginalIsNumber DEF LinkInv, HeadersInv
<1>3. new \in HeaderType /\ Ascends(num, new)
  <2>1. orig \in Existing => hdrs[orig].tid \in Nat
    BY DEF LinkInv, HeadersInv, HeaderType
  <2>2. (IF CanLink(orig, busy) THEN hdrs[orig].tid ELSE num) \in Nat
    BY <2>1, <1>2 DEF CanLink
  <2>3. FirstFree(n) \in Nat
    BY <1>1, FirstFreeIsBlock
  <2>. HIDE DEF orig, num
  <2>. QED  BY <1>2, <2>2, <2>3 DEF NewHeader, HeaderType, Ascends
<1>4. \A k \in Existing : old[k] \in HeaderType /\ Ascends(k, old[k])
  BY RelinkedHeader DEF LinkInv
<1>. HIDE DEF orig, old, new
<1>5. Existing' = Existing \cup {num}
  BY <1>1 DEF Existing
<1>6. \A k \in Existing' : hdrs'[k] \in HeaderType /\ Ascends(k, hdrs'[k])
  BY <1>1, <1>3, <1>4, <1>5
<1>7. Existing' \subseteq 1 .. lastMsg' /\ lastMsg' \in Nat
  BY <1>1, <1>2, <1>5
<1>8. HeadersInv'
  BY <1>6, <1>7 DEF HeadersInv
<1>. QED  BY <1>1, <1>8 DEF LinkInv, ReaderInv, Ascends

LEMMA PostFailsKeeps ==
    ASSUME LinkInv, NEW i, NEW back, NEW ref, PostFails(i, back, ref)
    PROVE  LinkInv'
<1>. DEFINE old == Relinked(Original(back, ref), lastMsg + 1, {})
<1>1. hdrs' = old /\ lastMsg' = lastMsg /\ reader' = reader
  BY DEF PostFails
<1>2. \A k \in Existing : old[k] \in HeaderType /\ Ascends(k, old[k])
  BY RelinkedHeader DEF LinkInv
<1>3. DOMAIN old = Existing
  BY RelinkedDomain
<1>. HIDE DEF old
<1>4. Existing' = Existing
  BY <1>1, <1>3 DEF Existing
<1>5. HeadersInv'
  BY <1>1, <1>2, <1>4 DEF LinkInv, HeadersInv, Ascends
<1>. QED  BY <1>1, <1>5 DEF LinkInv, ReaderInv, Ascends

LEMMA PurgeKeeps ==
    ASSUME LinkInv, NEW gone, NEW dropped, Purge(gone, dropped)
    PROVE  LinkInv'
<1>1. /\ hdrs' = [n \in Existing \ gone |-> hdrs[n]]
      /\ lastMsg' = lastMsg
  BY DEF Purge
<1>2. Existing' = Existing \ gone
  BY <1>1 DEF Existing
<1>3. HeadersInv'
  BY <1>1, <1>2 DEF LinkInv, HeadersInv, Ascends
<1>4. reader' = reader \/ (reader.at = "search" /\ reader' = [reader EXCEPT !.due = FALSE])
  BY DEF Purge, Disturbed
<1>5. "at" \in DOMAIN reader' /\ (reader'.at = "loaded" => reader' = reader)
  BY <1>4 DEF LinkInv, ReaderInv
<1>. QED  BY <1>3, <1>5 DEF LinkInv, ReaderInv, Ascends

LEMMA WriteCommentKeeps ==
    ASSUME LinkInv, WriteComment
    PROVE  LinkInv'
<1>. DEFINE h == [reader.hdr EXCEPT !.blk = hdrs[reader.num].blk]
<1>1. /\ reader.at = "loaded" /\ reader.num \in Existing
      /\ hdrs' = [hdrs EXCEPT ![reader.num] = h]
      /\ reader' = Idle /\ lastMsg' = lastMsg
  BY DEF WriteComment
<1>2. /\ reader.hdr \in HeaderType /\ Ascends(reader.num, reader.hdr)
      /\ hdrs[reader.num] \in HeaderType
  BY <1>1 DEF LinkInv, ReaderInv, HeadersInv
<1>3. h \in HeaderType /\ h.first = reader.hdr.first /\ h.next = reader.hdr.next
  BY <1>2 DEF HeaderType
<1>. HIDE DEF h
<1>4. Ascends(reader.num, h)
  BY <1>2, <1>3 DEF Ascends
<1>5. Existing' = Existing
  BY <1>1 DEF Existing
<1>6. \A k \in Existing : hdrs'[k] = IF k = reader.num THEN h ELSE hdrs[k]
  BY <1>1 DEF Existing
<1>7. \A k \in Existing' : hdrs'[k] \in HeaderType /\ Ascends(k, hdrs'[k])
  BY <1>3, <1>4, <1>5, <1>6 DEF LinkInv, HeadersInv
<1>8. HeadersInv'
  BY <1>1, <1>5, <1>7 DEF LinkInv, HeadersInv, Ascends
<1>. QED  BY <1>1, <1>8 DEF LinkInv, ReaderInv, Idle

\* Steps that leave the headers alone, and load none that they do not hold.
LEMMA HeadersAlone ==
    ASSUME LinkInv, UNCHANGED <<hdrs, lastMsg>>,
           "at" \in DOMAIN reader',
           reader'.at = "loaded" =>
               \/ reader' = reader
               \/ reader'.num \in Existing /\ reader'.hdr = hdrs[reader'.num]
    PROVE  LinkInv'
<1>1. Existing' = Existing
  BY DEF Existing
<1>2. HeadersInv'
  BY <1>1 DEF LinkInv, HeadersInv, Ascends
<1>3. \A n \in Existing : n \in Nat /\ hdrs[n] \in HeaderType /\ Ascends(n, hdrs[n])
  BY DEF LinkInv, HeadersInv
<1>. QED  BY <1>2, <1>3 DEF LinkInv, ReaderInv, Ascends

\* A reader that writes nothing loads only headers that are there.
LEMMA ReadingSteps ==
    ASSUME "at" \in DOMAIN reader,
           (\E n \in 1 .. lastMsg : SearchStart(n)) \/ Search \/ LoadHeader \/ CloseMessage
    PROVE  /\ UNCHANGED <<hdrs, index, lastMsg, hashes, keep, hurt>>
           /\ "at" \in DOMAIN reader'
           /\ reader'.at = "loaded" =>
                  reader'.num \in Existing /\ reader'.hdr = hdrs[reader'.num]
<1>1. ASSUME NEW n \in 1 .. lastMsg, SearchStart(n)
      PROVE  /\ UNCHANGED <<hdrs, index, lastMsg, hashes, keep, hurt>>
             /\ "at" \in DOMAIN reader' /\ reader'.at # "loaded"
  BY <1>1 DEF SearchStart, baseVars
<1>2. CASE Search
  <2>1. UNCHANGED <<hdrs, index, lastMsg, hashes, keep, hurt>> /\ reader.at = "search"
    BY <1>2, Zenon
    DEF Search, SearchFails, LowerHalf, UpperHalf, SearchFinds, Searching, baseVars
  <2>2. "at" \in DOMAIN reader' /\ reader'.at # "loaded"
    <3>1. CASE SearchFails
      BY <3>1 DEF SearchFails, Idle
    <3>2. CASE LowerHalf
      BY <2>1, <3>2 DEF LowerHalf
    <3>3. CASE UpperHalf
      BY <2>1, <3>3 DEF UpperHalf
    <3>4. CASE SearchFinds
      BY <3>4 DEF SearchFinds
    <3>. QED  BY <1>2, <3>1, <3>2, <3>3, <3>4 DEF Search
  <2>. QED  BY <2>1, <2>2
<1>3. CASE LoadHeader
  <2>. DEFINE k == CHOOSE m \in Existing : hdrs[m].blk = reader.blk
  <2>1. UNCHANGED <<hdrs, index, lastMsg, hashes, keep, hurt>>
    BY <1>3 DEF LoadHeader, baseVars
  <2>2. CASE \E m \in Existing : hdrs[m].blk = reader.blk
    <3>1. k \in Existing
      BY <2>2
    <3>2. reader' = [at |-> "loaded", num |-> k, hdr |-> hdrs[k]]
      BY <1>3, <2>2 DEF LoadHeader
    <3>. HIDE DEF k
    <3>. QED  BY <2>1, <3>1, <3>2
  <2>3. CASE ~ \E m \in Existing : hdrs[m].blk = reader.blk
    BY <1>3, <2>1, <2>3 DEF LoadHeader, Idle
  <2>. QED  BY <2>2, <2>3
<1>4. CASE CloseMessage
  BY <1>4 DEF CloseMessage, Idle, baseVars
<1>. QED  BY <1>1, <1>2, <1>3, <1>4

LEMMA ReaderKeeps ==
    ASSUME LinkInv, Reader
    PROVE  LinkInv'
<1>1. CASE (\E n \in 1 .. lastMsg : SearchStart(n)) \/ Search \/ LoadHeader \/ CloseMessage
  BY <1>1, ReadingSteps, HeadersAlone DEF LinkInv, ReaderInv
<1>2. CASE WriteComment
  BY <1>2, WriteCommentKeeps
<1>. QED  BY <1>1, <1>2 DEF Reader

-----------------------------------------------------------------------------
LEMMA InitLinks == Init => LinkInv
<1>. SUFFICES ASSUME Init PROVE LinkInv
  OBVIOUS
<1>1. Existing = {} /\ lastMsg = 0 /\ reader.at = "idle" /\ "at" \in DOMAIN reader
  BY DEF Init, Existing, Idle
<1>. QED  BY <1>1 DEF LinkInv, HeadersInv, ReaderInv

\* Whoever steps, posts that fail, purges and late writers included, keeps the
\* invariant; fixsmb -renumber would not.
LEMMA NextLinks ==
    ASSUME LinkInv, [Next]_vars, ~FixRenumber
    PROVE  LinkInv'
<1>1. ASSUME AddMessage PROVE LinkInv'
  <2>1. PICK i \in ChosenIds, r \in Referred :
            \/ \E busy \in Busy, n \in HdrBlocks : Post(i, r[1], r[2], busy, n)
            \/ PostFails(i, r[1], r[2])
    BY <1>1 DEF AddMessage
  <2>2. i \in Ids
    BY DEF ChosenIds
  <2>3. r[1] \in Nat
    BY DEF Referred, LinkInv, HeadersInv
  <2>. QED  BY <2>1, <2>2, <2>3, PostKeeps, PostFailsKeeps
<1>2. ASSUME NEW gone, NEW dropped, Purge(gone, dropped) PROVE LinkInv'
  BY <1>2, PurgeKeeps
<1>3. ASSUME WriteIndex \/ \E dropped : PurgeNothing(dropped) PROVE LinkInv'
  BY <1>3, HeadersAlone DEF WriteIndex, PurgeNothing, LinkInv, ReaderInv
<1>4. ASSUME Reader PROVE LinkInv'
  BY <1>4, ReaderKeeps
<1>5. ASSUME UNCHANGED vars PROVE LinkInv'
  BY <1>5, HeadersAlone DEF vars, baseVars, LinkInv, ReaderInv
<1>. QED  BY <1>1, <1>2, <1>3, <1>4, <1>5 DEF Next

-----------------------------------------------------------------------------
(* What LastReply() finds.                                                   *)

\* Induction, for a set of numbers.
LEMMA Induct ==
    ASSUME NEW N \in Nat, NEW P, 0 \in P, \A j \in 0 .. N - 1 : j \in P => j + 1 \in P
    PROVE  \A j \in 0 .. N : j \in P
<1>. DEFINE bad == {j \in 0 .. N : j \notin P}
<1>1. ASSUME bad # {} PROVE FALSE
  <2>1. bad \in SUBSET Nat
    OBVIOUS
  <2>2. PICK j \in bad : \A k \in bad : j <= k
    BY <1>1, <2>1, LeastNatural
  <2>3. j \in 0 .. N /\ j \notin P /\ j # 0
    BY <2>2
  <2>4. j - 1 \in 0 .. N - 1 /\ j - 1 + 1 = j
    BY <2>3
  <2>5. j - 1 \in P
    BY <2>2, <2>3, <2>4
  <2>. QED  BY <2>3, <2>4, <2>5
<1>. QED  BY <1>1

\* The body of the loop: f is what it does from later replies on.
ReplyFrom(busy, f, k) ==
    IF k \notin Existing \/ k \in busy THEN 0
    ELSE IF hdrs[k].next \in {0, k} THEN k
    ELSE IF hdrs[k].next > k THEN f[hdrs[k].next]
    ELSE 0

\* The loop ends at a header, because it goes on to higher numbers only: there is
\* a function that does what the body says.
LEMMA RepliesEnd ==
    ASSUME HeadersInv, NEW busy
    PROVE  \E f \in [Nat -> Nat] : \A k \in Nat : f[k] = ReplyFrom(busy, f, k)
<1>. DEFINE N == lastMsg + 1
            P == {j \in 0 .. N : \E f \in [Nat -> Nat] :
                     \A k \in Nat : k >= N - j => f[k] = ReplyFrom(busy, f, k)}
<1>1. N \in Nat /\ \A k \in Nat : k >= N => k \notin Existing
  BY DEF HeadersInv
<1>2. \A k \in Existing : hdrs[k].next \in Nat /\ k \in Nat
  BY DEF HeadersInv, HeaderType
<1>. HIDE DEF N
<1>3. 0 \in P
  <2>. DEFINE f == [k \in Nat |-> 0]
  <2>1. f \in [Nat -> Nat] /\ \A k \in Nat : k >= N => f[k] = ReplyFrom(busy, f, k)
    BY <1>1 DEF ReplyFrom
  <2>2. N - 0 = N /\ 0 \in 0 .. N
    BY <1>1
  <2>. HIDE DEF f
  <2>. QED  BY <2>1, <2>2
<1>4. ASSUME NEW j \in 0 .. N - 1, j \in P PROVE j + 1 \in P
  <2>1. PICK f \in [Nat -> Nat] : \A k \in Nat : k >= N - j => f[k] = ReplyFrom(busy, f, k)
    BY <1>4
  <2>. DEFINE m == N - (j + 1)
              h == [f EXCEPT ![m] = ReplyFrom(busy, f, m)]
  <2>2. m \in Nat /\ \A k \in Nat : k >= m => k = m \/ k >= N - j
    BY <1>1
  <2>3. ReplyFrom(busy, f, m) \in Nat
    BY <1>2, <2>2 DEF ReplyFrom
  <2>. HIDE DEF m
  <2>4. h \in [Nat -> Nat] /\ h[m] = ReplyFrom(busy, f, m)
        /\ \A k \in Nat : k # m => h[k] = f[k]
    BY <2>2, <2>3
  <2>. HIDE DEF h
  <2>5. ASSUME NEW k \in Nat, k >= m PROVE ReplyFrom(busy, h, k) = ReplyFrom(busy, f, k)
    <3>1. CASE k \in Existing /\ hdrs[k].next > k
      <4>1. hdrs[k].next \in Nat /\ hdrs[k].next # m
        BY <1>2, <2>2, <2>5, <3>1
      <4>. QED  BY <2>4, <4>1 DEF ReplyFrom
    <3>2. CASE ~(k \in Existing /\ hdrs[k].next > k)
      BY <3>2 DEF ReplyFrom
    <3>. QED  BY <3>1, <3>2
  <2>6. ASSUME NEW k \in Nat, k >= m PROVE h[k] = ReplyFrom(busy, h, k)
    BY <2>1, <2>2, <2>4, <2>5, <2>6
  <2>7. \A k \in Nat : k >= N - (j + 1) => h[k] = ReplyFrom(busy, h, k)
    BY <2>6 DEF m
  <2>8. j + 1 \in 0 .. N
    BY <1>1
  <2>. QED  BY <2>4, <2>7, <2>8
<1>. HIDE DEF P
<1>5. N \in P
  <2>1. \A j \in 0 .. N - 1 : j \in P => j + 1 \in P
    BY <1>4
  <2>2. \A j \in 0 .. N : j \in P
    BY <1>1, <1>3, <2>1, Induct
  <2>. QED  BY <1>1, <2>2
<1>6. PICK f \in [Nat -> Nat] : \A k \in Nat : k >= N - N => f[k] = ReplyFrom(busy, f, k)
  BY <1>5 DEF P
<1>. QED  BY <1>1, <1>6

\* The function of the definition is one.
LEMMA LastReplyIs ==
    ASSUME HeadersInv, NEW busy
    PROVE  \E f : /\ \A k \in Nat : f[k] = ReplyFrom(busy, f, k)
                  /\ \A m \in Nat : LastReply(busy, m) = f[m]
<1>. DEFINE D(f) == [k \in Nat |-> ReplyFrom(busy, f, k)]
            c == CHOOSE f : f = D(f)
<1>1. PICK f \in [Nat -> Nat] : \A k \in Nat : f[k] = ReplyFrom(busy, f, k)
  BY RepliesEnd
<1>2. f = D(f)
  BY <1>1
<1>3. c = D(c)
  BY <1>2
<1>4. \A m \in Nat : LastReply(busy, m) = c[m]
  BY DEF LastReply, ReplyFrom
<1>. HIDE DEF c
<1>. QED  BY <1>3, <1>4
\* All replies of a chain reply to one message; the last one, if it is found, does.
ChainsReply ==
    \A n \in Existing : hdrs[n].next \in Existing => hdrs[hdrs[n].next].back = hdrs[n].back

LEMMA LastReplyBack ==
    ASSUME HeadersInv, ChainsReply, NEW busy, NEW m \in Nat, LastReply(busy, m) # 0
    PROVE  /\ m \in Existing /\ LastReply(busy, m) \in Existing
           /\ hdrs[LastReply(busy, m)].back = hdrs[m].back
<1>1. PICK f : /\ \A k \in Nat : f[k] = ReplyFrom(busy, f, k)
               /\ \A k \in Nat : LastReply(busy, k) = f[k]
  BY LastReplyIs
<1>. DEFINE good(k) == f[k] \in Existing /\ hdrs[f[k]].back = hdrs[k].back
            bad == {k \in Existing : f[k] # 0 /\ ~good(k)}
<1>2. ASSUME bad # {} PROVE FALSE
  <2>. DEFINE S == {lastMsg - k : k \in bad}
  <2>1. /\ bad \subseteq 1 .. lastMsg /\ lastMsg \in Nat /\ bad \subseteq Existing
        /\ \A k \in Existing : hdrs[k].next \in Nat
    BY DEF HeadersInv, HeaderType
  <2>2. S \in SUBSET Nat /\ S # {}
    BY <1>2, <2>1
  <2>3. PICK x \in S : \A y \in S : x <= y
    BY <2>2, LeastNatural
  <2>4. PICK k \in bad : \A j \in bad : j <= k
    <3>1. PICK k \in bad : x = lastMsg - k
      OBVIOUS
    <3>2. \A j \in bad : lastMsg - k <= lastMsg - j
      BY <2>3, <3>1
    <3>3. \A j \in bad : j \in Nat /\ k \in Nat
      BY <2>1
    <3>. HIDE DEF bad, S
    <3>4. \A j \in bad : j <= k
      BY <2>1, <3>2, <3>3
    <3>. QED  BY <3>4
  <2>5. k \in Existing /\ k \in Nat /\ k # 0 /\ f[k] # 0 /\ ~good(k)
    BY <2>1
  <2>6. f[k] = ReplyFrom(busy, f, k)
    BY <1>1, <2>5
  <2>7. f[k] # k
    BY <2>5
  <2>8. hdrs[k].next > k /\ f[k] = f[hdrs[k].next] /\ hdrs[k].next \in Nat
    BY <2>1, <2>5, <2>6, <2>7 DEF ReplyFrom
  <2>. DEFINE n == hdrs[k].next
  <2>9. n \in Existing
    <3>1. f[n] = ReplyFrom(busy, f, n)
      BY <1>1, <2>8
    <3>. QED  BY <2>5, <2>8, <3>1 DEF ReplyFrom
  <2>10. ~good(n)
    BY <2>5, <2>8, <2>9 DEF ChainsReply
  <2>11. n \in bad /\ n > k
    BY <2>5, <2>8, <2>9, <2>10
  <2>12. k \in Nat /\ n \in Nat
    BY <2>5, <2>8
  <2>. HIDE DEF bad, n
  <2>. QED  BY <2>4, <2>11, <2>12
<1>3. m \in Existing
  <2>1. f[m] = ReplyFrom(busy, f, m)
    BY <1>1
  <2>. QED  BY <1>1, <2>1 DEF ReplyFrom
<1>4. f[m] # 0 /\ m \notin bad
  BY <1>1, <1>2
<1>5. good(m)
  BY <1>3, <1>4
<1>. QED  BY <1>1, <1>3, <1>5

-----------------------------------------------------------------------------
(* The invariant of ids and links: it lasts until fixsmb renumbers the base. *)

Sound == Intact({"renumbered"})
NoneFailed == Intact({"failed"})

HashType == [id : Ids, num : Nat \ {0}]

\* An id that is hashed was hashed once, not with the number of an older message
\* than one that has it; until maint() trims the file each message's id is hashed
\* with its number.  If no post has failed, the records have the last numbers one
\* after the other, MaxHashes at least, and a header the id of its number.
HashInv ==
    /\ hashes \in Seq(HashType)
    /\ \A j, k \in 1 .. Len(hashes) : hashes[j].id = hashes[k].id => j = k
    /\ \A n \in Existing : \A k \in 1 .. Len(hashes) :
           hashes[k].id = hdrs[n].id => hashes[k].num >= n
    /\ Intact({"trimmed"}) => \A n \in Existing : \E k \in 1 .. Len(hashes) :
           hashes[k].id = hdrs[n].id /\ hashes[k].num = n
    /\ NoneFailed =>
           /\ \A k \in 1 .. Len(hashes) :
                  /\ hashes[k].num = lastMsg - (Len(hashes) - k)
                  /\ hashes[k].num \in Existing => hdrs[hashes[k].num].id = hashes[k].id
           /\ Len(hashes) >= lastMsg \/ Len(hashes) >= MaxHashes

\* A header that was read long before is still of the message of its number.
LoadedInv == reader.at = "loaded" =>
    /\ reader.num \in 1 .. lastMsg
    /\ reader.num \in Existing =>
           /\ hdrs[reader.num].id = reader.hdr.id
           /\ hdrs[reader.num].back = reader.hdr.back

\* The links of header h, when it has number n.
RightLinks(n, h) ==
    /\ h.first <= lastMsg /\ h.next <= lastMsg
    /\ h.first \in Existing => hdrs[h.first].back = n
    /\ h.next \in Existing => hdrs[h.next].back = h.back
LinksInv == NoneFailed =>
    /\ \A n \in Existing : RightLinks(n, hdrs[n])
    /\ reader.at = "loaded" => RightLinks(reader.num, reader.hdr)

ThreadInv == Sound => LinkInv /\ HashInv /\ LoadedInv /\ LinksInv
\* smb_updatethread() changes one link, of the original or of its last reply.
LEMMA RelinkedChange ==
    ASSUME HeadersInv, NEW orig, NEW busy, NEW k \in Existing
    PROVE  LET h == Relinked(orig, lastMsg + 1, busy)[k]
           IN  /\ h.id = hdrs[k].id /\ h.back = hdrs[k].back
               /\ h.first = hdrs[k].first \/ (h.first = lastMsg + 1 /\ k = orig)
               /\ \/ h.next = hdrs[k].next
                  \/ /\ h.next = lastMsg + 1 /\ orig \in Existing
                     /\ hdrs[orig].first # 0 /\ k = LastReply(busy, hdrs[orig].first)
<1>. DEFINE num == lastMsg + 1
            h == Relinked(orig, num, busy)[k]
<1>1. hdrs[k] \in HeaderType
  BY DEF HeadersInv
<1>2. CASE h = hdrs[k]
  BY <1>2
<1>3. CASE k = orig /\ h = [hdrs[k] EXCEPT !.first = num]
  <2>. HIDE DEF num
  <2>1. LET g == [hdrs[k] EXCEPT !.first = num]
        IN  g.id = hdrs[k].id /\ g.back = hdrs[k].back /\ g.next = hdrs[k].next /\ g.first = num
    BY <1>1 DEF HeaderType
  <2>. QED  BY <1>3, <2>1 DEF num
<1>4. CASE /\ orig \in Existing /\ hdrs[orig].first # 0 /\ k = LastReply(busy, hdrs[orig].first)
           /\ h = [hdrs[k] EXCEPT !.next = num]
  <2>. HIDE DEF num
  <2>1. LET g == [hdrs[k] EXCEPT !.next = num]
        IN  g.id = hdrs[k].id /\ g.back = hdrs[k].back /\ g.first = hdrs[k].first /\ g.next = num
    BY <1>1 DEF HeaderType
  <2>. QED  BY <1>4, <2>1 DEF num
<1>. QED  BY <1>2, <1>3, <1>4 DEF Relinked, Linked, CanLink

\* smb_addhashes(): a new id is hashed with the number the message is to have.
IdHashed(i) ==
    /\ hashes' = Append(hashes, [id |-> i, num |-> lastMsg + 1]) /\ ~Hashed(i)
    /\ \A k \in Existing' : \/ k \in Existing /\ hdrs'[k].id = hdrs[k].id
                            \/ k = lastMsg + 1 /\ hdrs'[k].id = i
    /\ NoneFailed' => NoneFailed /\ lastMsg' = lastMsg + 1
    /\ Intact({"trimmed"})' => Intact({"trimmed"})

LEMMA IdsHashed ==
    ASSUME HeadersInv, HashInv, NEW i \in Ids, IdHashed(i)
    PROVE  HashInv'
<1>. DEFINE num == lastMsg + 1
            rec == [id |-> i, num |-> num]
<1>1. /\ hashes' = Append(hashes, rec)
      /\ \A k \in DOMAIN hashes : hashes[k].id # i
  BY DEF IdHashed, Hashed, HashesOf
<1>2. /\ lastMsg \in Nat /\ num \in Nat \ {0} /\ num > lastMsg
      /\ \A k \in Existing : k <= lastMsg /\ k # num
  BY DEF HeadersInv
<1>3. \A k \in Existing' : \/ k \in Existing /\ hdrs'[k].id = hdrs[k].id
                           \/ k = num /\ hdrs'[k].id = i
  BY DEF IdHashed
<1>4. /\ hashes \in Seq(HashType)
      /\ rec \in HashType /\ rec.id = i /\ rec.num = num
  BY <1>2 DEF HashInv, HashType
<1>. DEFINE L == Len(hashes)
<1>. HIDE DEF rec, num
<1>5. /\ hashes' \in Seq(HashType) /\ L \in Nat /\ Len(hashes') = L + 1
      /\ \A k \in 1 .. L : hashes'[k] = hashes[k] /\ hashes[k].id # i
      /\ hashes'[L + 1] = rec
      /\ \A k \in 1 .. L + 1 : k \in 1 .. L \/ k = L + 1
  BY <1>1, <1>4
<1>. HIDE DEF L
<1>6. \A j, k \in 1 .. L + 1 : hashes'[j].id = hashes'[k].id => j = k
  <2>1. \A j, k \in 1 .. L : hashes[j].id = hashes[k].id => j = k
    BY DEF HashInv, L
  <2>. QED  BY <1>4, <1>5, <2>1
<1>7. ASSUME Intact({"trimmed"})'
      PROVE  \A m \in Existing' : \E k \in 1 .. L + 1 :
                 hashes'[k].id = hdrs'[m].id /\ hashes'[k].num = m
  <2>1. L + 1 \in 1 .. L + 1 /\ \A k \in 1 .. L : k \in 1 .. L + 1
    BY <1>5
  <2>2. \A m \in Existing : \E k \in 1 .. L : hashes[k].id = hdrs[m].id /\ hashes[k].num = m
    BY <1>7 DEF HashInv, L, IdHashed
  <2>3. ASSUME NEW m \in Existing, hdrs'[m].id = hdrs[m].id
        PROVE  \E k \in 1 .. L + 1 : hashes'[k].id = hdrs'[m].id /\ hashes'[k].num = m
    <3>1. PICK k \in 1 .. L : hashes[k].id = hdrs[m].id /\ hashes[k].num = m
      BY <2>2
    <3>2. k \in 1 .. L + 1 /\ hashes'[k] = hashes[k]
      BY <1>5, <2>1
    <3>. QED  BY <2>3, <3>1, <3>2
  <2>4. hashes'[L + 1].id = i /\ hashes'[L + 1].num = num
    BY <1>4, <1>5
  <2>5. ASSUME NEW m, m = num, hdrs'[m].id = i
        PROVE  \E k \in 1 .. L + 1 : hashes'[k].id = hdrs'[m].id /\ hashes'[k].num = m
    BY <2>1, <2>4, <2>5
  <2>. QED  BY <1>3, <2>3, <2>5
<1>8. ASSUME NEW m \in Existing', NEW k \in 1 .. L + 1, hashes'[k].id = hdrs'[m].id
      PROVE  hashes'[k].num >= m
  <2>1. CASE k \in 1 .. L
    <3>1. m \in Existing /\ hashes[k].id = hdrs[m].id
      BY <1>3, <1>5, <1>8, <2>1
    <3>2. hashes[k].num >= m
      BY <2>1, <3>1 DEF HashInv, L
    <3>. QED  BY <1>5, <2>1, <3>2
  <2>2. CASE k = L + 1
    <3>1. m = num \/ m \in Existing
      BY <1>3
    <3>2. \A j \in Existing : j \in Nat /\ j <= num
      BY <1>2 DEF HeadersInv
    <3>. QED  BY <1>2, <1>4, <1>5, <2>2, <3>1, <3>2
  <2>. QED  BY <1>5, <2>1, <2>2
<1>9. ASSUME NoneFailed', NEW k \in 1 .. L + 1
       PROVE  /\ hashes'[k].num = lastMsg' - (L + 1 - k)
              /\ hashes'[k].num \in Existing' => hdrs'[hashes'[k].num].id = hashes'[k].id
  <2>1. NoneFailed /\ lastMsg' = num /\ num = lastMsg + 1
    BY <1>9 DEF num, IdHashed
  <2>2. CASE k \in 1 .. L
    <3>0. hashes[k].num \in Nat
      <4>1. hashes[k] \in HashType
        BY <2>2, <1>4 DEF L
      <4>. QED  BY <4>1 DEF HashType
    <3>1. /\ hashes[k].num = lastMsg - (L - k)
          /\ hashes[k].num \in Existing => hdrs[hashes[k].num].id = hashes[k].id
      BY <2>1, <2>2 DEF HashInv, L
    <3>2. hashes[k].num = lastMsg' - (L + 1 - k) /\ hashes[k].num # num
      BY <1>2, <1>5, <2>1, <2>2, <3>1
    <3>. QED  BY <1>3, <1>5, <2>2, <3>1, <3>2
  <2>3. CASE k = L + 1
    BY <1>2, <1>3, <1>4, <1>5, <2>1, <2>3
  <2>. QED  BY <1>5, <2>2, <2>3
<1>10. ASSUME NoneFailed' PROVE L + 1 >= lastMsg' \/ L + 1 >= MaxHashes
  <2>1. (L >= lastMsg \/ L >= MaxHashes) /\ lastMsg' = lastMsg + 1
    BY <1>10 DEF HashInv, L, IdHashed
  <2>. QED  BY <1>2, <1>5, <2>1, ThreadAssumption
<1>. QED  BY <1>5, <1>6, <1>7, <1>8, <1>9, <1>10 DEF HashInv

\* maint() keeps the end of the hash file.
LEMMA HashesKept ==
    ASSUME HashInv, lastMsg \in Nat, NEW dropped, HashesTrimmed(dropped),
           TrimHarm(dropped) \subseteq hurt', hurt \subseteq hurt', lastMsg' = lastMsg,
           Existing' \subseteq Existing, \A k \in Existing' : hdrs'[k] = hdrs[k]
    PROVE  HashInv'
<1>. DEFINE L == Len(hashes)
            M == Len(hashes')
<1>1. hashes \in Seq(HashType) /\ L \in Nat /\ dropped \in 0 .. L
      /\ hashes' = SubSeq(hashes, dropped + 1, L)
  BY DEF HashInv, HashesTrimmed
<1>2. /\ hashes' \in Seq(HashType) /\ M = L - dropped
      /\ \A k \in 1 .. M : hashes'[k] = hashes[k + dropped] /\ k + dropped \in 1 .. L
  <2>1. dropped + 1 \in 1 .. L + 1 /\ L \in dropped .. L
    BY <1>1
  <2>2. /\ SubSeq(hashes, dropped + 1, L) \in Seq(HashType)
        /\ Len(SubSeq(hashes, dropped + 1, L)) = IF dropped + 1 <= L THEN L - (dropped + 1) + 1 ELSE 0
        /\ \A i \in 1 .. L - (dropped + 1) + 1 :
               SubSeq(hashes, dropped + 1, L)[i] = hashes[dropped + 1 + i - 1]
    BY <1>1, <2>1, SubSeqProperties
  <2>. HIDE DEF L
  <2>3. M = L - dropped
    BY <1>1, <2>2
  <2>4. \A k \in 1 .. L - dropped : hashes'[k] = hashes[k + dropped] /\ k + dropped \in 1 .. L
    BY <1>1, <2>2
  <2>. QED  BY <1>1, <2>2, <2>3, <2>4
<1>3. /\ Intact({"trimmed"})' => Intact({"trimmed"}) /\ dropped = 0
      /\ NoneFailed' => NoneFailed
  BY DEF TrimHarm, Intact, NoneFailed
<1>4. dropped = 0 \/ M >= MaxHashes
  BY <1>1, <1>2, ThreadAssumption DEF HashesTrimmed
<1>. HIDE DEF L, M
<1>5. \A j, k \in 1 .. M : hashes'[j].id = hashes'[k].id => j = k
  <2>1. \A j, k \in 1 .. L : hashes[j].id = hashes[k].id => j = k
    BY DEF HashInv, L
  <2>2. ASSUME NEW j \in 1 .. M, NEW k \in 1 .. M, hashes'[j].id = hashes'[k].id
        PROVE  j = k
    <3>1. j + dropped = k + dropped
      BY <1>2, <2>1, <2>2
    <3>. QED  BY <3>1, <1>1
  <2>. QED  BY <2>2
<1>6. \A n \in Existing' : \A k \in 1 .. M : hashes'[k].id = hdrs'[n].id => hashes'[k].num >= n
  BY <1>2 DEF HashInv, L
<1>7. ASSUME Intact({"trimmed"})'
      PROVE  \A n \in Existing' : \E k \in 1 .. M : hashes'[k].id = hdrs'[n].id /\ hashes'[k].num = n
  <2>1. \A n \in Existing : \E k \in 1 .. L : hashes[k].id = hdrs[n].id /\ hashes[k].num = n
    BY <1>3, <1>7 DEF HashInv, L
  <2>2. M = L /\ \A k \in 1 .. M : hashes'[k] = hashes[k]
    BY <1>1, <1>2, <1>3, <1>7
  <2>. QED  BY <2>1, <2>2
<1>8. ASSUME NoneFailed', NEW k \in 1 .. M
      PROVE  /\ hashes'[k].num = lastMsg' - (M - k)
             /\ hashes'[k].num \in Existing' => hdrs'[hashes'[k].num].id = hashes'[k].id
  <2>1. /\ hashes[k + dropped].num = lastMsg - (L - (k + dropped))
        /\ hashes[k + dropped].num \in Existing =>
               hdrs[hashes[k + dropped].num].id = hashes[k + dropped].id
    BY <1>2, <1>3, <1>8 DEF HashInv, L
  <2>2. L - (k + dropped) = M - k
    BY <1>1, <1>2
  <2>. QED  BY <1>2, <1>8, <2>1, <2>2
<1>9. ASSUME NoneFailed' PROVE M >= lastMsg' \/ M >= MaxHashes
  <2>1. L >= lastMsg \/ L >= MaxHashes
    BY <1>3, <1>9 DEF HashInv, L
  <2>. QED  BY <1>1, <1>2, <1>4, <2>1, ThreadAssumption
<1>. QED  BY <1>2, <1>5, <1>6, <1>7, <1>8, <1>9 DEF HashInv, M

LEMMA PostLinks ==
    ASSUME LinkInv, LoadedInv, LinksInv, NEW i \in Ids, NEW back \in Nat, NEW ref,
           NEW busy, NEW n, Post(i, back, ref, busy, n)
    PROVE  LoadedInv' /\ LinksInv'
<1>. DEFINE orig == Original(back, ref)
            num == lastMsg + 1
            old == Relinked(orig, num, busy)
<1>1. /\ hdrs' = [k \in Existing \cup {num} |->
                     IF k = num THEN NewHeader(i, orig, num, busy, n) ELSE old[k]]
      /\ lastMsg' = num /\ reader' = reader
  BY DEF Post
<1>2. /\ HeadersInv /\ lastMsg \in Nat /\ num \in Nat \ {0} /\ num \notin Existing
      /\ Existing \subseteq 1 .. lastMsg /\ num > lastMsg /\ orig \in Nat
  BY OriginalIsNumber DEF LinkInv, HeadersInv
<1>3. Existing' = Existing \cup {num}
  BY <1>1 DEF Existing
<1>4. \A k \in Existing : hdrs'[k] = old[k] /\ old[k].id = hdrs[k].id /\ old[k].back = hdrs[k].back
  BY <1>1, <1>2, RelinkedChange
<1>5. LET h == hdrs'[num] IN h.back = orig /\ h.first = 0 /\ h.next = 0
  BY <1>1 DEF NewHeader
<1>6. LoadedInv'
  <2>. HIDE DEF orig, num, old
  <2>. SUFFICES ASSUME reader.at = "loaded"
                PROVE  /\ reader.num \in 1 .. num
                       /\ reader.num \in Existing' =>
                              /\ hdrs'[reader.num].id = reader.hdr.id
                              /\ hdrs'[reader.num].back = reader.hdr.back
    BY <1>1 DEF LoadedInv
  <2>1. reader.num \in 1 .. lastMsg
    BY DEF LoadedInv
  <2>2. reader.num \in 1 .. num /\ reader.num # num
    BY <1>2, <2>1
  <2>. QED  BY <1>3, <1>4, <2>2 DEF LoadedInv
<1>. HIDE DEF orig, num, old
<1>7. ASSUME NoneFailed' PROVE NoneFailed
  BY <1>7 DEF NoneFailed, Intact, Post
<1>8. \A k \in Existing' : k <= lastMsg => k \in Existing /\ hdrs'[k].back = hdrs[k].back
  BY <1>2, <1>3, <1>4
<1>9. \A k \in Existing : hdrs[k].first \in Nat /\ hdrs[k].next \in Nat /\ k \in Nat /\ k # 0
  <2>1. \A h \in HeaderType : h.first \in Nat /\ h.next \in Nat
    BY DEF HeaderType
  <2>2. \A k \in Existing : hdrs[k] \in HeaderType
    BY DEF LinkInv, HeadersInv
  <2>3. \A k \in Existing : k \in Nat /\ k # 0
    BY <1>2
  <2>. QED  BY <2>1, <2>2, <2>3
<1>10. ASSUME NoneFailed', NEW k \in Existing' PROVE RightLinks(k, hdrs[k])'
  <2>0. NoneFailed /\ num \in Existing' /\ hdrs'[num].back = orig /\ lastMsg' = num
    BY <1>1, <1>3, <1>5, <1>7, <1>10
  <2>1. CASE k = num
    <3>1. 0 \notin Existing'
      BY <1>2, <1>3, <1>9
    <3>. QED  BY <1>2, <1>5, <2>0, <2>1, <3>1 DEF RightLinks
  <2>2. CASE k \in Existing
    <3>. DEFINE g == hdrs[k]
                h == old[k]
    <3>1. hdrs'[k] = h /\ h.back = g.back
      BY <1>4, <2>2
    <3>2. RightLinks(k, g) /\ g.first \in Nat /\ g.next \in Nat
      BY <1>9, <2>0, <2>2 DEF LinksInv
    <3>3. g.first <= num /\ g.next <= num /\ num <= num
      BY <1>2, <3>2 DEF RightLinks
    <3>4. /\ g.first \in Existing' => hdrs'[g.first].back = k
          /\ g.next \in Existing' => hdrs'[g.next].back = g.back
      BY <1>8, <3>2 DEF RightLinks
    <3>5. /\ h.first = g.first \/ (h.first = num /\ k = orig)
          /\ \/ h.next = g.next
             \/ /\ h.next = num /\ orig \in Existing
                /\ hdrs[orig].first # 0 /\ k = LastReply(busy, hdrs[orig].first)
      BY <1>2, <2>2, RelinkedChange DEF old, num
    <3>6. h.next = num /\ k = LastReply(busy, hdrs[orig].first) /\ orig \in Existing
          => g.back = orig
      <4>1. ChainsReply /\ \A m \in Existing : RightLinks(m, hdrs[m])
        BY <2>0 DEF LinksInv, ChainsReply, RightLinks
      <4>2. SUFFICES ASSUME k = LastReply(busy, hdrs[orig].first), orig \in Existing
                     PROVE  g.back = orig
        OBVIOUS
      <4>. DEFINE m == hdrs[orig].first
      <4>3. m \in Nat /\ LastReply(busy, m) # 0
        BY <1>9, <2>2, <4>2
      <4>4. m \in Existing /\ hdrs[LastReply(busy, m)].back = hdrs[m].back
        BY <1>2, <4>1, <4>3, LastReplyBack
      <4>5. hdrs[m].back = orig
        BY <4>1, <4>2, <4>4 DEF RightLinks
      <4>. QED  BY <4>2, <4>4, <4>5
    <3>. HIDE DEF g, h
    <3>7. h.first <= num /\ h.next <= num
      BY <3>3, <3>5
    <3>8. h.first \in Existing' => hdrs'[h.first].back = k
      BY <2>0, <3>4, <3>5
    <3>9. h.next \in Existing' => hdrs'[h.next].back = h.back
      BY <2>0, <3>1, <3>4, <3>5, <3>6
    <3>. QED  BY <2>0, <3>1, <3>7, <3>8, <3>9 DEF RightLinks
  <2>. QED  BY <1>3, <2>1, <2>2
<1>11. ASSUME NoneFailed', reader'.at = "loaded"
       PROVE  RightLinks(reader.num, reader.hdr)'
  <2>1. RightLinks(reader.num, reader.hdr)
    BY <1>1, <1>7, <1>11 DEF LinksInv
  <2>2. reader.hdr.first \in Nat /\ reader.hdr.next \in Nat
    BY <1>1, <1>11 DEF LinkInv, ReaderInv, HeaderType
  <2>. DEFINE m == reader.num
              h == reader.hdr
  <2>3. reader' = reader /\ lastMsg <= lastMsg' /\ lastMsg' \in Nat
    BY <1>1, <1>2
  <2>. QED  BY <1>2, <1>8, <2>1, <2>2, <2>3 DEF RightLinks
<1>. QED  BY <1>6, <1>10, <1>11 DEF LinksInv

LEMMA PostIds ==
    ASSUME HeadersInv, HashInv, NEW i \in Ids, NEW back, NEW ref, NEW busy, NEW n,
           Post(i, back, ref, busy, n)
    PROVE  HashInv'
<1>. DEFINE orig == Original(back, ref)
            num == lastMsg + 1
            old == Relinked(orig, num, busy)
<1>1. /\ hdrs' = [k \in Existing \cup {num} |->
                     IF k = num THEN NewHeader(i, orig, num, busy, n) ELSE old[k]]
      /\ lastMsg' = num /\ hashes' = Append(hashes, [id |-> i, num |-> num]) /\ ~Hashed(i)
  BY DEF Post, Announce, Duplicate
<1>2. Existing' = Existing \cup {num} /\ num \notin Existing
  BY <1>1 DEF Existing, HeadersInv
<1>3. \A k \in Existing : hdrs'[k].id = hdrs[k].id
  BY <1>1, <1>2, RelinkedChange
<1>4. hdrs'[num].id = i
  BY <1>1 DEF NewHeader
<1>5. NoneFailed' => NoneFailed /\ lastMsg' = lastMsg + 1
  BY <1>1 DEF NoneFailed, Intact, Post
<1>6. \A k \in Existing' : \/ k \in Existing /\ hdrs'[k].id = hdrs[k].id
                           \/ k = lastMsg + 1 /\ hdrs'[k].id = i
  BY <1>2, <1>3, <1>4
<1>7. hashes' = Append(hashes, [id |-> i, num |-> lastMsg + 1]) /\ ~Hashed(i)
  BY <1>1
<1>8. Intact({"trimmed"})' => Intact({"trimmed"})
  BY DEF Intact, Post
<1>9. IdHashed(i)
  BY <1>5, <1>6, <1>7, <1>8 DEF IdHashed
<1>. QED  BY <1>9, IdsHashed

\* A post that fails late has changed a link, and left its hash.
LEMMA PostFailsIds ==
    ASSUME LinkInv, HashInv, LoadedInv, NEW i \in Ids, NEW back, NEW ref,
           PostFails(i, back, ref)
    PROVE  HashInv' /\ LoadedInv' /\ LinksInv'
<1>. DEFINE orig == Original(back, ref)
            old == Relinked(orig, lastMsg + 1, {})
<1>1. /\ hdrs' = old /\ lastMsg' = lastMsg /\ reader' = reader
      /\ hashes' = Append(hashes, [id |-> i, num |-> lastMsg + 1]) /\ ~Hashed(i)
      /\ ~NoneFailed' /\ (Intact({"trimmed"})' => Intact({"trimmed"}))
  BY DEF PostFails, Announce, Duplicate, NoneFailed, Intact
<1>2. Existing' = Existing
  BY <1>1, RelinkedDomain DEF Existing
<1>3. \A k \in Existing : hdrs'[k].id = hdrs[k].id /\ hdrs'[k].back = hdrs[k].back
  BY <1>1, RelinkedChange DEF LinkInv
<1>. HIDE DEF orig, old
<1>4. HashInv'
  <2>1. \A k \in Existing' : \/ k \in Existing /\ hdrs'[k].id = hdrs[k].id
                             \/ k = lastMsg + 1 /\ hdrs'[k].id = i
    BY <1>2, <1>3
  <2>2. NoneFailed' => NoneFailed /\ lastMsg' = lastMsg + 1
    BY <1>1
  <2>3. HeadersInv /\ hashes' = Append(hashes, [id |-> i, num |-> lastMsg + 1]) /\ ~Hashed(i)
    BY <1>1 DEF LinkInv
  <2>4. IdHashed(i)
    BY <1>1, <2>1, <2>2, <2>3 DEF IdHashed
  <2>. QED  BY <2>3, <2>4, IdsHashed
<1>5. LoadedInv'
  BY <1>1, <1>2, <1>3 DEF LoadedInv
<1>. QED  BY <1>1, <1>4, <1>5 DEF LinksInv

\* The operator's comment: the header that is written back is of the same message,
\* with links as it had them when it was read.
LEMMA WriteCommentIds ==
    ASSUME LinkInv, HashInv, LoadedInv, LinksInv, WriteComment
    PROVE  HashInv' /\ LoadedInv' /\ LinksInv'
<1>. DEFINE num == reader.num
            h == [reader.hdr EXCEPT !.blk = hdrs[num].blk]
<1>1. /\ reader.at = "loaded" /\ num \in Existing
      /\ hdrs' = [hdrs EXCEPT ![num] = h]
      /\ reader' = Idle /\ lastMsg' = lastMsg /\ hashes' = hashes
  BY DEF WriteComment
<1>2. (NoneFailed' => NoneFailed) /\ (Intact({"trimmed"})' => Intact({"trimmed"}))
  BY DEF WriteComment, NoneFailed, Intact
<1>3. reader.hdr \in HeaderType
  BY <1>1 DEF LinkInv, ReaderInv
<1>4. /\ h.id = reader.hdr.id /\ h.back = reader.hdr.back
      /\ h.first = reader.hdr.first /\ h.next = reader.hdr.next
  BY <1>3 DEF HeaderType
<1>5. reader.hdr.id = hdrs[num].id /\ reader.hdr.back = hdrs[num].back
  BY <1>1 DEF LoadedInv
<1>. HIDE DEF h, num
<1>6. Existing' = Existing /\ \A k \in Existing : hdrs'[k] = IF k = num THEN h ELSE hdrs[k]
  BY <1>1 DEF Existing
<1>7. \A k \in Existing : hdrs'[k].id = hdrs[k].id /\ hdrs'[k].back = hdrs[k].back
  BY <1>4, <1>5, <1>6
<1>8. HashInv'
  BY <1>1, <1>2, <1>6, <1>7 DEF HashInv
<1>9. LoadedInv'
  BY <1>1 DEF LoadedInv, Idle
<1>10. ASSUME NoneFailed', NEW k \in Existing PROVE RightLinks(k, hdrs[k])'
  <2>1. CASE k = num
    <3>1. RightLinks(num, reader.hdr)
      BY <1>1, <1>2, <1>10 DEF LinksInv, num
    <3>. QED  BY <1>1, <1>4, <1>6, <1>7, <2>1, <3>1 DEF RightLinks
  <2>2. CASE k # num
    <3>1. RightLinks(k, hdrs[k])
      BY <1>2, <1>10 DEF LinksInv
    <3>. QED  BY <1>1, <1>6, <1>7, <2>2, <3>1 DEF RightLinks
  <2>. QED  BY <2>1, <2>2
<1>11. LinksInv'
  BY <1>1, <1>6, <1>10 DEF LinksInv, Idle
<1>. QED  BY <1>8, <1>9, <1>11

\* Steps that at most take headers away.
LEMMA ThreadsAlone ==
    ASSUME LinkInv, HashInv, LoadedInv, LinksInv,
           lastMsg' = lastMsg, hurt \subseteq hurt',
           \/ hashes' = hashes
           \/ \E dropped : HashesTrimmed(dropped) /\ TrimHarm(dropped) \subseteq hurt',
           Existing' \subseteq Existing, \A k \in Existing' : hdrs'[k] = hdrs[k],
           reader'.at = "loaded" =>
               \/ reader' = reader
               \/ reader'.num \in Existing' /\ reader'.hdr = hdrs[reader'.num]
    PROVE  HashInv' /\ LoadedInv' /\ LinksInv'
<1>1. (NoneFailed' => NoneFailed) /\ (Intact({"trimmed"})' => Intact({"trimmed"}))
  BY DEF NoneFailed, Intact
<1>2. HashInv'
  <2>1. CASE hashes' = hashes
    BY <1>1, <2>1 DEF HashInv
  <2>2. ASSUME NEW dropped, HashesTrimmed(dropped), TrimHarm(dropped) \subseteq hurt'
        PROVE  HashInv'
    BY <2>2, HashesKept DEF LinkInv, HeadersInv
  <2>. QED  BY <2>1, <2>2
<1>3. LoadedInv'
  BY DEF LoadedInv, LinkInv, HeadersInv
<1>4. \A n, h : RightLinks(n, h) => RightLinks(n, h)'
  BY DEF RightLinks
<1>5. LinksInv'
  BY <1>1, <1>4 DEF LinksInv
<1>. QED  BY <1>2, <1>3, <1>5
\* Harm done to the threads stays noted.
LEMMA HarmStays ==
    ASSUME [Next]_vars PROVE hurt \subseteq hurt'
<1>1. CASE AddMessage
  BY <1>1 DEF AddMessage, Post, PostFails
<1>2. ASSUME NEW dropped, PurgeNothing(dropped) \/ \E gone : Purge(gone, dropped)
      PROVE  hurt \subseteq hurt'
  BY <1>2 DEF Purge, PurgeNothing
<1>3. CASE WriteIndex \/ FixRenumber
  BY <1>3 DEF WriteIndex, FixRenumber
<1>4. CASE Reader
  BY <1>4 DEF Reader, SearchStart, Search, SearchFails, LowerHalf, UpperHalf, SearchFinds,
              LoadHeader, CloseMessage, WriteComment
<1>5. CASE UNCHANGED vars
  BY <1>5 DEF vars
<1>. QED  BY <1>1, <1>2, <1>3, <1>4, <1>5 DEF Next

LEMMA NextThreads ==
    ASSUME ThreadInv, [Next]_vars PROVE ThreadInv'
<1>. SUFFICES ASSUME Sound' PROVE (LinkInv /\ HashInv /\ LoadedInv /\ LinksInv)'
  BY DEF ThreadInv
<1>1. Sound /\ ~FixRenumber
  <2>1. hurt \subseteq hurt'
    BY HarmStays
  <2>2. "renumbered" \notin hurt'
    BY DEF Sound, Intact
  <2>3. FixRenumber => "renumbered" \in hurt'
    BY <2>1 DEF FixRenumber
  <2>. QED  BY <2>1, <2>2, <2>3 DEF Sound, Intact
<1>2. LinkInv /\ HashInv /\ LoadedInv /\ LinksInv
  BY <1>1 DEF ThreadInv
<1>3. LinkInv'
  BY <1>1, <1>2, NextLinks
<1>4. CASE AddMessage
  <2>1. PICK i \in ChosenIds, r \in Referred :
            \/ \E busy \in Busy, n \in HdrBlocks : Post(i, r[1], r[2], busy, n)
            \/ PostFails(i, r[1], r[2])
    BY <1>4 DEF AddMessage
  <2>2. i \in Ids /\ r[1] \in Nat
    BY <1>2 DEF ChosenIds, Referred, LinkInv, HeadersInv
  <2>3. ASSUME NEW busy \in Busy, NEW n \in HdrBlocks, Post(i, r[1], r[2], busy, n)
        PROVE  HashInv' /\ LoadedInv' /\ LinksInv'
    BY <1>2, <2>2, <2>3, PostIds, PostLinks DEF LinkInv
  <2>4. ASSUME PostFails(i, r[1], r[2]) PROVE HashInv' /\ LoadedInv' /\ LinksInv'
    BY <1>2, <2>2, <2>4, PostFailsIds
  <2>. QED  BY <1>3, <2>1, <2>3, <2>4
<1>5. ASSUME NEW gone, NEW dropped, Purge(gone, dropped)
      PROVE  HashInv' /\ LoadedInv' /\ LinksInv'
  <2>1. /\ lastMsg' = lastMsg /\ HashesTrimmed(dropped)
        /\ hurt \subseteq hurt' /\ TrimHarm(dropped) \subseteq hurt'
        /\ Existing' \subseteq Existing /\ \A k \in Existing' : hdrs'[k] = hdrs[k]
    BY <1>5 DEF Purge, Existing
  <2>2. reader'.at = "loaded" => reader' = reader
    <3>1. CASE reader.at = "search"
      <4>1. "at" \in DOMAIN reader
        BY <1>2 DEF LinkInv, ReaderInv
      <4>. QED  BY <1>5, <3>1, <4>1 DEF Purge, Disturbed
    <3>2. CASE reader.at # "search"
      BY <1>5, <3>2 DEF Purge, Disturbed
    <3>. QED  BY <3>1, <3>2
  <2>. QED  BY <1>2, <2>1, <2>2, ThreadsAlone
<1>10. ASSUME NEW dropped, PurgeNothing(dropped)
       PROVE  HashInv' /\ LoadedInv' /\ LinksInv'
  <2>1. /\ UNCHANGED <<hdrs, lastMsg, reader>> /\ HashesTrimmed(dropped)
        /\ hurt \subseteq hurt' /\ TrimHarm(dropped) \subseteq hurt'
    BY <1>10 DEF PurgeNothing
  <2>. QED  BY <1>2, <2>1, ThreadsAlone DEF Existing
<1>6. CASE WriteIndex
  BY <1>2, <1>3, <1>6, ThreadsAlone DEF WriteIndex, Existing
<1>7. CASE (\E n \in 1 .. lastMsg : SearchStart(n)) \/ Search \/ LoadHeader \/ CloseMessage
  BY <1>2, <1>3, <1>7, ReadingSteps, ThreadsAlone DEF Existing, LinkInv, ReaderInv
<1>8. CASE WriteComment
  BY <1>2, <1>3, <1>8, WriteCommentIds
<1>9. CASE UNCHANGED vars
  BY <1>2, <1>3, <1>9, ThreadsAlone DEF vars, baseVars, Existing
<1>. QED  BY <1>1, <1>3, <1>4, <1>5, <1>6, <1>7, <1>8, <1>9, <1>10 DEF Next, Reader

LEMMA InitThreads == Init => ThreadInv
<1>. SUFFICES ASSUME Init PROVE LinkInv /\ HashInv /\ LoadedInv /\ LinksInv
  BY DEF ThreadInv
<1>1. Existing = {} /\ hashes = <<>> /\ reader.at = "idle"
  BY DEF Init, Existing, Idle
<1>2. hashes \in Seq(HashType) /\ 1 .. Len(hashes) = {} /\ Len(hashes) = 0 /\ lastMsg = 0
  BY <1>1 DEF Init
<1>. QED  BY <1>1, <1>2, InitLinks DEF HashInv, LoadedInv, LinksInv

\* smb_findhash() finds the one message that has the id.
LEMMA NumberOfHash ==
    ASSUME HashInv, NEW k \in 1 .. Len(hashes)
    PROVE  NumberOfId(hashes[k].id) = hashes[k].num
<1>1. HashesOf(hashes[k].id) = {k}
  BY DEF HashesOf, HashInv
<1>2. k <= k
  OBVIOUS
<1>3. (CHOOSE m \in {k} : \A j \in {k} : m <= j) = k
  BY <1>2
<1>. QED  BY <1>1, <1>3 DEF NumberOfId

LEMMA IdsFollow == ASSUME ThreadInv PROVE IdsRight
<1>. SUFFICES ASSUME Intact({"renumbered"})
              PROVE  /\ \A n \in Existing : Hashed(hdrs[n].id) => NumberOfId(hdrs[n].id) >= n
                     /\ Intact({"trimmed"}) => \A n \in Existing :
                            /\ Hashed(hdrs[n].id) /\ NumberOfId(hdrs[n].id) = n
                            /\ \A m \in Existing : m # n => hdrs[m].id # hdrs[n].id
                     /\ Intact({"failed"}) =>
                            /\ \A i \in KnownIds : NumberOfId(i) \in Existing =>
                                   hdrs[NumberOfId(i)].id = i
                            /\ \A n \in Existing : n > lastMsg - MaxHashes =>
                                   Hashed(hdrs[n].id) /\ NumberOfId(hdrs[n].id) = n
  BY DEF IdsRight
<1>1. HashInv /\ HeadersInv
  BY DEF ThreadInv, Sound, LinkInv
<1>. DEFINE L == Len(hashes)
<1>2. L \in Nat /\ DOMAIN hashes = 1 .. L
  BY <1>1 DEF HashInv
<1>3. \A i : Hashed(i) <=> \E k \in 1 .. L : hashes[k].id = i
  BY <1>2 DEF Hashed, HashesOf
<1>. HIDE DEF L
<1>4. ASSUME NEW n \in Existing, Hashed(hdrs[n].id) PROVE NumberOfId(hdrs[n].id) >= n
  <2>1. PICK k \in 1 .. L : hashes[k].id = hdrs[n].id
    BY <1>3, <1>4
  <2>2. NumberOfId(hdrs[n].id) = hashes[k].num
    BY <1>1, <2>1, NumberOfHash DEF L
  <2>. QED  BY <1>1, <2>1, <2>2 DEF HashInv, L
<1>5. ASSUME Intact({"trimmed"}), NEW n \in Existing
      PROVE  /\ Hashed(hdrs[n].id) /\ NumberOfId(hdrs[n].id) = n
             /\ \A m \in Existing : m # n => hdrs[m].id # hdrs[n].id
  <2>1. \A m \in Existing : \E k \in 1 .. L : hashes[k].id = hdrs[m].id /\ hashes[k].num = m
    BY <1>1, <1>5 DEF HashInv, L
  <2>2. \A m \in Existing : Hashed(hdrs[m].id) /\ NumberOfId(hdrs[m].id) = m
    BY <1>1, <1>3, <2>1, NumberOfHash DEF L
  <2>. QED  BY <2>2
<1>6. ASSUME NoneFailed, NEW i \in KnownIds, NumberOfId(i) \in Existing
      PROVE  hdrs[NumberOfId(i)].id = i
  <2>1. PICK k \in 1 .. L : hashes[k].id = i
    BY <1>2, <1>6 DEF KnownIds
  <2>2. NumberOfId(i) = hashes[k].num
    BY <1>1, <2>1, NumberOfHash DEF L
  <2>. QED  BY <1>1, <1>6, <2>1, <2>2 DEF HashInv, L
<1>7. ASSUME NoneFailed, NEW n \in Existing, n > lastMsg - MaxHashes
      PROVE  Hashed(hdrs[n].id) /\ NumberOfId(hdrs[n].id) = n
  <2>. DEFINE k == L - (lastMsg - n)
  <2>1. n \in 1 .. lastMsg /\ lastMsg \in Nat
    BY <1>1 DEF HeadersInv
  <2>2. L >= lastMsg \/ L >= MaxHashes
    BY <1>1, <1>7 DEF HashInv, L
  <2>3. k \in 1 .. L /\ lastMsg - (L - k) = n
    BY <1>2, <1>7, <2>1, <2>2, ThreadAssumption
  <2>. HIDE DEF k
  <2>4. hashes[k].num = n
    BY <1>1, <1>7, <2>3 DEF HashInv, L
  <2>5. hdrs[n].id = hashes[k].id
    BY <1>1, <1>7, <2>3, <2>4 DEF HashInv, L
  <2>6. NumberOfId(hashes[k].id) = hashes[k].num
    BY <1>1, <2>3, NumberOfHash DEF L
  <2>. QED  BY <1>3, <2>3, <2>4, <2>5, <2>6
<1>. QED  BY <1>4, <1>5, <1>6, <1>7 DEF NoneFailed

LEMMA LinksFollow == ASSUME ThreadInv PROVE LinksRight
<1>1. Intact({"failed", "renumbered"}) => Sound /\ NoneFailed
  BY DEF Intact, Sound, NoneFailed
<1>. QED  BY <1>1 DEF ThreadInv, LinksInv, RightLinks, LinksRight

\* smb_addhashes() and smb_findhash(), with posts that fail after they have hashed
\* an id, purges, headers written back late, and maint() trimming the hash file,
\* until fixsmb renumbers: what an id finds, and that maint() leaves the last
\* MaxHashes messages to be found.
THEOREM IdsFindMessages == Spec => []IdsRight
<1>. QED  BY InitThreads, NextThreads, IdsFollow, PTL DEF Spec

\* smb_updatethread() with what purges and late writers do to the links: one that
\* leads to a message leads to a reply to the right one, as long as no post fails
\* and nothing is renumbered.
THEOREM LinksLeadRight == Spec => []LinksRight
<1>. QED  BY InitThreads, NextThreads, LinksFollow, PTL DEF Spec
-----------------------------------------------------------------------------
(* The index.                                                                *)

\* Numbers that follow one another as a loop computes them: step k takes the
\* value before it to the next.
Loops(L, X) == [1 .. L -> [X -> X]]
Values(L, X, a, g) ==
    {f \in [0 .. L -> X] : f[0] = a /\ \A k \in 1 .. L : f[k] = g[k][f[k - 1]]}

LEMMA LoopsRun ==
    ASSUME NEW L \in Nat, NEW X, NEW a \in X, NEW g \in Loops(L, X)
    PROVE  Values(L, X, a, g) # {}
<1>. USE DEF Loops, Values
<1>. DEFINE P == {j \in 0 .. L : \E f \in [0 .. L -> X] :
                     f[0] = a /\ \A k \in 1 .. j : f[k] = g[k][f[k - 1]]}
<1>1. 0 \in P
  <2>. DEFINE f == [k \in 0 .. L |-> a]
  <2>1. f \in [0 .. L -> X] /\ f[0] = a /\ 0 \in 0 .. L /\ 1 .. 0 = {}
    OBVIOUS
  <2>. HIDE DEF f
  <2>. QED  BY <2>1
<1>2. ASSUME NEW n \in 0 .. L - 1, n \in P PROVE n + 1 \in P
  <2>1. PICK f \in [0 .. L -> X] : f[0] = a /\ \A k \in 1 .. n : f[k] = g[k][f[k - 1]]
    BY <1>2
  <2>. DEFINE h == [f EXCEPT ![n + 1] = g[n + 1][f[n]]]
  <2>2. n \in 0 .. L /\ n + 1 \in 0 .. L /\ n + 1 \in 1 .. L /\ n + 1 # 0
    OBVIOUS
  <2>3. g[n + 1][f[n]] \in X
    BY <2>2
  <2>4. h \in [0 .. L -> X] /\ h[0] = a
    BY <2>1, <2>2, <2>3
  <2>5. ASSUME NEW k \in 1 .. n + 1 PROVE h[k] = g[k][h[k - 1]]
    <3>1. k \in 0 .. L /\ k - 1 \in 0 .. L /\ k - 1 # n + 1 /\ (k # n + 1 => k \in 1 .. n)
      BY <2>2
    <3>2. h[k - 1] = f[k - 1]
      BY <3>1
    <3>3. CASE k = n + 1
      <4>1. h[k] = g[n + 1][f[n]] /\ k - 1 = n
        BY <3>3, <2>2
      <4>. QED  BY <3>2, <3>3, <4>1
    <3>4. CASE k # n + 1
      BY <2>1, <3>1, <3>2, <3>4
    <3>. QED  BY <3>3, <3>4
  <2>. HIDE DEF h
  <2>. QED  BY <2>2, <2>4, <2>5
<1>3. L \in P
  <2>. HIDE DEF P
  <2>1. \A n \in 0 .. L - 1 : n \in P => n + 1 \in P
    BY <1>2
  <2>2. \A n \in 0 .. L : n \in P
    BY <1>1, <2>1, Induct
  <2>. QED  BY <2>2
<1>. QED  BY <1>3

Ascending(s) == \A j, k \in 1 .. Len(s) : j < k => s[j] < s[k]
Numbers(s) == {s[k] : k \in 1 .. Len(s)}
NumberLists == Seq(Nat)

\* One step of the loop of maint().
KeepOne(gone, s, n) == IF n \in gone THEN s ELSE Append(s, n)

LEMMA KeptRuns ==
    ASSUME index \in NumberLists, NEW gone
    PROVE  \E f \in [0 .. Len(index) -> NumberLists] :
              /\ f[0] = <<>>
              /\ \A k \in 1 .. Len(index) : f[k] = KeepOne(gone, f[k - 1], index[k])
              /\ Kept(gone) = f[Len(index)]
<1>. DEFINE L == Len(index)
            g == [k \in 1 .. L |-> [x \in NumberLists |-> KeepOne(gone, x, index[k])]]
            D(f) == [k \in 0 .. L |-> IF k = 0 THEN <<>>
                      ELSE IF index[k] \in gone THEN f[k - 1] ELSE Append(f[k - 1], index[k])]
            c == CHOOSE h : h = D(h)
<1>1. /\ L \in Nat /\ <<>> \in NumberLists
      /\ g \in [1 .. L -> [NumberLists -> NumberLists]]
  BY DEF NumberLists, KeepOne
<1>2. \A f, k : k \in 1 .. L => k # 0 /\ k - 1 \in 0 .. L
  BY <1>1
<1>. HIDE DEF L, g
<1>3. PICK f \in [0 .. L -> NumberLists] : f[0] = <<>> /\ \A k \in 1 .. L : f[k] = g[k][f[k - 1]]
  <2>1. g \in Loops(L, NumberLists)
    BY <1>1 DEF Loops
  <2>2. Values(L, NumberLists, <<>>, g) # {}
    BY <1>1, <2>1, LoopsRun
  <2>. QED  BY <2>2 DEF Values
<1>4. \A k \in 1 .. L : f[k] = KeepOne(gone, f[k - 1], index[k])
  <2>1. ASSUME NEW k \in 1 .. L PROVE f[k] = KeepOne(gone, f[k - 1], index[k])
    <3>1. f[k - 1] \in NumberLists
      BY <1>1
    <3>. QED  BY <1>3, <2>1, <3>1 DEF g
  <2>. QED  BY <2>1
<1>5. f = D(f)
  <2>1. \A k \in 0 .. L : k = 0 \/ k \in 1 .. L
    BY <1>1
  <2>. QED  BY <1>2, <1>3, <1>4, <2>1 DEF KeepOne
<1>6. c = D(c)
  BY <1>5
<1>7. Kept(gone) = c[L]
  BY DEF Kept, L
<1>. HIDE DEF c
<1>8. c[L] = f[L]
  <2>0. \A k \in 0 .. L :
            c[k] = IF k = 0 THEN <<>>
                   ELSE IF index[k] \in gone THEN c[k - 1] ELSE Append(c[k - 1], index[k])
    BY <1>6
  <2>1. /\ c[0] = <<>>
        /\ \A k \in 1 .. L : c[k] = KeepOne(gone, c[k - 1], index[k])
    BY <1>1, <1>2, <2>0 DEF KeepOne
  <2>. DEFINE P == {k \in 0 .. L : c[k] = f[k]}
  <2>2. 0 \in P
    BY <1>1, <1>3, <2>1
  <2>3. ASSUME NEW j \in 0 .. L - 1, j \in P PROVE j + 1 \in P
    <3>1. j + 1 \in 1 .. L /\ j + 1 \in 0 .. L /\ j + 1 - 1 = j /\ c[j] = f[j]
      BY <1>1, <2>3
    <3>. HIDE DEF P
    <3>. DEFINE k == j + 1
    <3>2. c[k] = KeepOne(gone, c[k - 1], index[k]) /\ f[k] = KeepOne(gone, f[k - 1], index[k])
      BY <1>4, <2>1, <3>1
    <3>3. c[k] = f[k]
      BY <3>1, <3>2
    <3>. QED  BY <3>1, <3>3 DEF P
  <2>4. \A k \in 0 .. L : c[k] = f[k]
    <3>. HIDE DEF P
    <3>1. \A k \in 0 .. L - 1 : k \in P => k + 1 \in P
      BY <2>3
    <3>2. \A k \in 0 .. L : k \in P
      BY <1>1, <2>2, <3>1, Induct
    <3>. QED  BY <3>2 DEF P
  <2>. QED  BY <1>1, <2>4
<1>. HIDE DEF D
<1>. QED  BY <1>3, <1>4, <1>7, <1>8 DEF L
\* maint(): the records that are written back are those of the messages that are
\* left, in the order they had.
LEMMA KeptRight ==
    ASSUME index \in NumberLists, Ascending(index), NEW gone
    PROVE  /\ Kept(gone) \in NumberLists /\ Ascending(Kept(gone))
           /\ Numbers(Kept(gone)) = Numbers(index) \ gone
<1>. DEFINE L == Len(index)
            Upto(k) == {index[m] : m \in 1 .. k} \ gone
<1>1. PICK f \in [0 .. L -> NumberLists] :
              /\ f[0] = <<>>
              /\ \A k \in 1 .. L : f[k] = KeepOne(gone, f[k - 1], index[k])
              /\ Kept(gone) = f[L]
  BY KeptRuns
<1>2. L \in Nat /\ \A k \in 1 .. L : index[k] \in Nat
  BY DEF NumberLists
<1>3. \A j, k \in 1 .. L : j < k => index[j] < index[k]
  BY DEF Ascending
<1>. DEFINE P == {k \in 0 .. L : Ascending(f[k]) /\ Numbers(f[k]) = Upto(k)}
<1>. HIDE DEF L
<1>4. 0 \in P
  <2>1. 0 \in 0 .. L /\ Upto(0) = {} /\ Len(<<>>) = 0
    BY <1>2
  <2>. QED  BY <1>1, <2>1 DEF Ascending, Numbers
<1>5. ASSUME NEW j \in 0 .. L - 1, j \in P PROVE j + 1 \in P
  <2>. DEFINE k == j + 1
              n == index[k]
              s == f[j]
              t == f[k]
  <2>1. k \in 1 .. L /\ k \in 0 .. L /\ k - 1 = j /\ j \in Nat /\ j < k /\ j \in 0 .. L
    BY <1>2
  <2>2. n \in Nat /\ \A m \in 1 .. j : index[m] < n /\ m \in 1 .. L
    BY <1>2, <1>3, <2>1
  <2>3. s \in NumberLists /\ t \in NumberLists /\ Ascending(s) /\ Numbers(s) = Upto(j)
    BY <1>1, <1>5, <2>1
  <2>4. t = KeepOne(gone, s, n)
    BY <1>1, <2>1
  <2>5. 1 .. k = 1 .. j \cup {k}
    BY <2>1
  <2>6. Upto(k) = Upto(j) \cup ({n} \ gone)
    BY <2>5
  <2>7. \A m \in Numbers(s) : m < n
    BY <2>2, <2>3
  <2>8. Ascending(t) /\ Numbers(t) = Upto(k)
    <3>. HIDE DEF s, t, n, k, P, Upto
    <3>1. CASE n \in gone
      BY <2>3, <2>4, <2>6, <3>1 DEF KeepOne
    <3>2. CASE n \notin gone
      <4>. DEFINE l == Len(s)
      <4>1. t = Append(s, n)
        BY <2>4, <3>2 DEF KeepOne
      <4>2. /\ l \in Nat /\ Len(t) = l + 1 /\ t[l + 1] = n
            /\ \A m \in 1 .. l : t[m] = s[m] /\ s[m] \in Nat
        BY <2>2, <2>3, <4>1 DEF NumberLists
      <4>. HIDE DEF l
      <4>3. 1 .. l + 1 = 1 .. l \cup {l + 1}
        BY <4>2
      <4>4. \A m \in 1 .. l : t[m] < n
        BY <2>7, <4>2 DEF Numbers, l
      <4>5. \A i, m \in 1 .. l : i < m => t[i] < t[m]
        BY <2>3, <4>2 DEF Ascending, l
      <4>6. Ascending(t)
        <5>. SUFFICES ASSUME NEW i \in 1 .. l + 1, NEW m \in 1 .. l + 1, i < m
                      PROVE  t[i] < t[m]
          BY <4>2 DEF Ascending
        <5>1. i \in 1 .. l /\ (m \in 1 .. l \/ m = l + 1)
          BY <4>2
        <5>. QED  BY <4>2, <4>4, <4>5, <5>1
      <4>7. Numbers(t) = Numbers(s) \cup {n}
        BY <4>2, <4>3 DEF Numbers, l
      <4>. QED  BY <2>3, <2>6, <3>2, <4>6, <4>7
    <3>. QED  BY <3>1, <3>2
  <2>. QED  BY <2>1, <2>8
<1>6. L \in P
  <2>. HIDE DEF P
  <2>1. \A n \in 0 .. L - 1 : n \in P => n + 1 \in P
    BY <1>5
  <2>2. \A n \in 0 .. L : n \in P
    BY <1>2, <1>4, <2>1, Induct
  <2>. QED  BY <1>2, <2>2
<1>. QED  BY <1>1, <1>2, <1>6 DEF Numbers, L

Recs == IF BaseFree THEN index ELSE keep

\* The index, or what maint() is going to write, has the messages in ascending
\* order; while maint() has not written it the index is empty.
IndexInv ==
    /\ lastMsg \in Nat /\ Existing \subseteq 1 .. lastMsg
    /\ Recs \in NumberLists /\ Ascending(Recs) /\ Numbers(Recs) = Existing
    /\ BaseFree \/ index = <<>>

\* The search of the index: the record it looks for, if it was there and was not
\* moved, is in the part that is left.
SearchRecs == [at : {"search"}, want : Nat, total : Nat, bot : Nat, top : Nat,
               l : Nat, due : BOOLEAN]
SearchInv ==
    /\ "at" \in DOMAIN reader
    /\ reader.at = "search" =>
        /\ reader \in SearchRecs
        /\ reader.bot <= reader.l /\ reader.l <= reader.top
        /\ reader.due =>
               /\ BaseFree /\ reader.l < reader.top
               /\ reader.top <= reader.total /\ reader.total <= Len(index)
               /\ \E p \in 1 .. Len(index) :
                      /\ reader.bot < p /\ p <= reader.top
                      /\ index[p] = reader.want

\* A base whose index is not touched.
LEMMA IndexAlone ==
    ASSUME IndexInv, UNCHANGED <<index, keep, lastMsg>>, Existing' = Existing
    PROVE  IndexInv'
<1>1. Recs' = Recs /\ (BaseFree' <=> BaseFree)
  BY DEF Recs, BaseFree
<1>. QED  BY <1>1 DEF IndexInv, Ascending, Numbers

LEMMA PostIndexed ==
    ASSUME IndexInv, NEW i, NEW back, NEW ref, NEW busy, NEW n, Post(i, back, ref, busy, n)
    PROVE  IndexInv' /\ BaseFree /\ BaseFree'
<1>. DEFINE num == lastMsg + 1
            L == Len(index)
<1>1. /\ BaseFree /\ keep' = keep /\ index' = Append(index, num) /\ lastMsg' = num
      /\ Existing' = Existing \cup {num}
  BY DEF Post, Announce, Existing
<1>2. BaseFree' /\ Recs = index /\ Recs' = index'
  BY <1>1 DEF BaseFree, Recs
<1>3. index \in NumberLists /\ Ascending(index) /\ Numbers(index) = Existing
  BY <1>2 DEF IndexInv
<1>4. /\ num \in Nat /\ Existing \cup {num} \subseteq 1 .. num
      /\ \A m \in Existing : m < num
  BY DEF IndexInv
<1>5. /\ L \in Nat /\ Len(index') = L + 1 /\ index'[L + 1] = num /\ index' \in NumberLists
      /\ \A m \in 1 .. L : index'[m] = index[m]
  BY <1>1, <1>3, <1>4 DEF NumberLists
<1>6. \A m \in 1 .. L : index[m] < num
  BY <1>3, <1>4 DEF Numbers
<1>. HIDE DEF L, num
<1>7. 1 .. L + 1 = 1 .. L \cup {L + 1}
  BY <1>5
<1>8. \A j, m \in 1 .. L : j < m => index[j] < index[m]
  BY <1>3 DEF Ascending, L
<1>9. Ascending(index')
  BY <1>5, <1>6, <1>7, <1>8 DEF Ascending
<1>10. Numbers(index') = Numbers(index) \cup {num}
  BY <1>5, <1>7 DEF Numbers, L
<1>. QED  BY <1>1, <1>2, <1>3, <1>4, <1>5, <1>9, <1>10 DEF IndexInv, Ascending, Numbers
LEMMA PurgeIndexed ==
    ASSUME IndexInv, NEW gone \in SUBSET Existing, NEW dropped, Purge(gone, dropped)
    PROVE  IndexInv' /\ ~BaseFree' /\ index' = <<>>
<1>1. /\ BaseFree /\ index' = <<>> /\ keep' = Kept(gone) /\ lastMsg' = lastMsg
      /\ Existing' = Existing \ gone
  BY DEF Purge, Existing
<1>2. Recs = index /\ index \in NumberLists /\ Ascending(index) /\ Numbers(index) = Existing
  BY <1>1 DEF Recs, IndexInv
<1>3. keep' \in NumberLists /\ Ascending(keep') /\ Numbers(keep') = Existing \ gone
  BY <1>1, <1>2, KeptRight
<1>4. keep' # NoIndex
  <2>1. 0 \notin Existing
    BY DEF IndexInv
  <2>2. 0 \in Numbers(NoIndex)
    BY DEF Numbers, NoIndex
  <2>. QED  BY <1>3, <2>1, <2>2
<1>5. ~BaseFree' /\ Recs' = keep'
  BY <1>4 DEF BaseFree, Recs
<1>. QED  BY <1>1, <1>3, <1>5 DEF IndexInv, Ascending, Numbers

LEMMA WriteIndexed ==
    ASSUME IndexInv, WriteIndex
    PROVE  IndexInv' /\ ~BaseFree
<1>1. ~BaseFree /\ Recs = keep /\ index' = keep /\ lastMsg' = lastMsg /\ Existing' = Existing
  BY DEF WriteIndex, Recs, Existing
<1>2. BaseFree' /\ Recs' = index'
  BY DEF WriteIndex, BaseFree, Recs
<1>. QED  BY <1>1, <1>2 DEF IndexInv, Ascending, Numbers

LEMMA ExistingFinite ==
    ASSUME IndexInv PROVE IsFiniteSet(Existing) /\ Cardinality(Existing) \in Nat
<1>1. IsFiniteSet(1 .. lastMsg)
  BY FS_Interval DEF IndexInv
<1>. QED  BY <1>1, FS_Subset, FS_CardinalityType DEF IndexInv

LEMMA RenumberIndexed ==
    ASSUME IndexInv, FixRenumber
    PROVE  IndexInv'
<1>. DEFINE total == Cardinality(Existing)
<1>1. /\ index' = [n \in 1 .. total |-> n] /\ lastMsg' = total
      /\ BaseFree /\ keep' = keep /\ Existing' = 1 .. total
  BY DEF FixRenumber, Existing
<1>2. total \in Nat
  BY ExistingFinite
<1>. HIDE DEF total
<1>3. BaseFree' /\ Recs' = index'
  BY <1>1 DEF BaseFree, Recs
<1>4. /\ index' \in NumberLists /\ Len(index') = total
      /\ \A k \in 1 .. total : index'[k] = k /\ k \in Nat
  BY <1>1, <1>2 DEF NumberLists
<1>5. Ascending(index') /\ Numbers(index') = 1 .. total
  BY <1>4 DEF Ascending, Numbers
<1>. QED  BY <1>1, <1>2, <1>3, <1>4, <1>5 DEF IndexInv, Ascending, Numbers

LEMMA FailedIndex ==
    ASSUME IndexInv, NEW i, NEW back, NEW ref, PostFails(i, back, ref)
    PROVE  IndexInv'
<1>1. UNCHANGED <<index, keep, lastMsg>> /\ Existing' = Existing
  BY RelinkedDomain DEF PostFails, Existing
<1>. QED  BY <1>1, IndexAlone

LEMMA NextIndexed ==
    ASSUME IndexInv, "at" \in DOMAIN reader, [Next]_vars
    PROVE  IndexInv'
<1>1. CASE AddMessage
  BY <1>1, PostIndexed, FailedIndex DEF AddMessage
<1>2. ASSUME NEW gone \in SUBSET Existing, NEW dropped, Purge(gone, dropped) PROVE IndexInv'
  BY <1>2, PurgeIndexed
<1>3. CASE (\E n \in 1 .. lastMsg : SearchStart(n)) \/ Search \/ LoadHeader \/ CloseMessage
  BY <1>3, ReadingSteps, IndexAlone DEF Existing
<1>4. CASE WriteComment
  BY <1>4, IndexAlone DEF WriteComment, Existing
<1>5. CASE UNCHANGED vars
  BY <1>5, IndexAlone DEF vars, baseVars, Existing
<1>6. ASSUME NEW dropped, PurgeNothing(dropped) PROVE IndexInv'
  BY <1>6, IndexAlone DEF PurgeNothing, Existing
<1>. QED  BY <1>1, <1>2, <1>3, <1>4, <1>5, <1>6, WriteIndexed, RenumberIndexed DEF Next, Reader
LEMMA HalfIsLess ==
    ASSUME NEW a \in Nat, NEW b \in Nat, a <= b
    PROVE  /\ Half(a, b) \in Nat /\ Half(a, b) <= b - a
           /\ a < b => Half(a, b) < b - a
           /\ a + 1 < b => Half(a, b) > 0
  BY DEF Half

\* The part of the index from bot to top, looked at in l, when the record is p.
LEMMA LowerPart ==
    ASSUME NEW bot \in Nat, NEW l \in Nat, NEW top \in Nat, bot <= l, l <= top
    PROVE  LET m == bot + Half(bot, l)
           IN  m \in Nat /\ bot <= m /\ m <= l /\ (bot < l => m < l)
<1>. DEFINE h == Half(bot, l)
<1>1. h \in Nat /\ h <= l - bot /\ (bot < l => h < l - bot)
  BY HalfIsLess
<1>. HIDE DEF h
<1>2. LET m == bot + h IN m \in Nat /\ bot <= m /\ m <= l /\ (bot < l => m < l)
  BY <1>1
<1>. QED  BY <1>2 DEF h

LEMMA UpperPart ==
    ASSUME NEW l \in Nat, NEW top \in Nat, l <= top
    PROVE  LET m == top - Half(l, top)
           IN  m \in Nat /\ l <= m /\ m <= top /\ (l + 1 < top => m < top)
<1>. DEFINE h == Half(l, top)
<1>1. h \in Nat /\ h <= top - l /\ (l + 1 < top => h > 0)
  BY HalfIsLess
<1>. HIDE DEF h
<1>2. LET m == top - h IN m \in Nat /\ l <= m /\ m <= top /\ (l + 1 < top => m < top)
  BY <1>1
<1>. QED  BY <1>2 DEF h

\* The place of a record in an ascending index.
LEMMA Before ==
    ASSUME NEW s \in NumberLists, Ascending(s),
           NEW j \in 1 .. Len(s), NEW k \in 1 .. Len(s), s[j] < s[k]
    PROVE  j < k
<1>1. s[j] \in Nat /\ s[k] \in Nat /\ j \in Nat /\ k \in Nat
  BY DEF NumberLists
<1>2. k < j => s[k] < s[j]
  BY DEF Ascending
<1>. QED  BY <1>1, <1>2

LEMMA LowerSearch ==
    ASSUME IndexInv, SearchInv, LowerHalf PROVE SearchInv'
<1>. DEFINE bot == reader.bot
            l == reader.l
            top == reader.top
            want == reader.want
            m == bot + Half(bot, l)
<1>1. /\ reader \in SearchRecs /\ reader.at = "search" /\ bot <= l /\ l <= top
      /\ UNCHANGED <<index, keep>> /\ l < Len(index) /\ index[l + 1] > want
      /\ reader' = [reader EXCEPT !.top = l, !.l = m]
  BY DEF LowerHalf, Searching, Exhausted, InIndex, Read, SearchInv, baseVars
<1>2. bot \in Nat /\ l \in Nat /\ top \in Nat /\ want \in Nat /\ reader.total \in Nat
  BY <1>1 DEF SearchRecs
<1>3. m \in Nat /\ bot <= m /\ m <= l /\ (bot < l => m < l)
  BY <1>1, <1>2, LowerPart
<1>. HIDE DEF m
<1>4. /\ reader' \in SearchRecs /\ reader'.bot = bot /\ reader'.l = m /\ reader'.top = l
      /\ reader'.want = want /\ reader'.total = reader.total /\ reader'.due = reader.due
      /\ "at" \in DOMAIN reader'
  BY <1>1, <1>2, <1>3 DEF SearchRecs
<1>5. ASSUME reader.due
      PROVE  /\ BaseFree' /\ m < l /\ l <= reader.total /\ reader.total <= Len(index')
             /\ \E p \in 1 .. Len(index') : bot < p /\ p <= l /\ index'[p] = want
  <2>1. /\ BaseFree /\ l < top /\ top <= reader.total /\ reader.total <= Len(index)
        /\ \E p \in 1 .. Len(index) : bot < p /\ p <= top /\ index[p] = want
    BY <1>1, <1>5 DEF SearchInv
  <2>2. PICK p \in 1 .. Len(index) : bot < p /\ p <= top /\ index[p] = want
    BY <2>1
  <2>3. index \in NumberLists /\ Ascending(index) /\ Len(index) \in Nat
    BY <2>1 DEF IndexInv, Recs, NumberLists
  <2>4. l + 1 \in 1 .. Len(index)
    BY <1>1, <1>2, <2>3
  <2>. DEFINE k == l + 1
  <2>5. index[p] < index[k]
    <3>1. index[k] \in Nat
      BY <2>3, <2>4 DEF NumberLists
    <3>. QED  BY <1>1, <1>2, <2>2, <3>1
  <2>6. p < k
    <3>. HIDE DEF k
    <3>. QED  BY <2>2, <2>3, <2>4, <2>5, Before DEF k
  <2>7. p <= l /\ bot < l
    BY <1>2, <2>2, <2>6
  <2>8. BaseFree'
    BY <1>1, <2>1 DEF BaseFree
  <2>9. l <= reader.total /\ m < l
    BY <1>2, <1>3, <2>1, <2>7
  <2>. QED  BY <1>1, <2>1, <2>2, <2>7, <2>8, <2>9
<1>. QED  BY <1>3, <1>4, <1>5 DEF SearchInv

LEMMA UpperSearch ==
    ASSUME IndexInv, SearchInv, UpperHalf PROVE SearchInv'
<1>. DEFINE bot == reader.bot
            l == reader.l
            top == reader.top
            want == reader.want
            m == top - Half(l, top)
<1>1. /\ reader \in SearchRecs /\ reader.at = "search" /\ bot <= l /\ l <= top
      /\ UNCHANGED <<index, keep>> /\ l < Len(index) /\ index[l + 1] < want
      /\ reader' = [reader EXCEPT !.bot = l, !.l = m]
  BY DEF UpperHalf, Searching, Exhausted, InIndex, Read, SearchInv, baseVars
<1>2. bot \in Nat /\ l \in Nat /\ top \in Nat /\ want \in Nat /\ reader.total \in Nat
  BY <1>1 DEF SearchRecs
<1>3. m \in Nat /\ l <= m /\ m <= top /\ (l + 1 < top => m < top)
  BY <1>1, <1>2, UpperPart
<1>. HIDE DEF m
<1>4. /\ reader' \in SearchRecs /\ reader'.bot = l /\ reader'.l = m /\ reader'.top = top
      /\ reader'.want = want /\ reader'.total = reader.total /\ reader'.due = reader.due
      /\ "at" \in DOMAIN reader'
  BY <1>1, <1>2, <1>3 DEF SearchRecs
<1>5. ASSUME reader.due
      PROVE  /\ BaseFree' /\ m < top /\ top <= reader.total /\ reader.total <= Len(index')
             /\ \E p \in 1 .. Len(index') : l < p /\ p <= top /\ index'[p] = want
  <2>1. /\ BaseFree /\ l < top /\ top <= reader.total /\ reader.total <= Len(index)
        /\ \E p \in 1 .. Len(index) : bot < p /\ p <= top /\ index[p] = want
    BY <1>1, <1>5 DEF SearchInv
  <2>2. PICK p \in 1 .. Len(index) : bot < p /\ p <= top /\ index[p] = want
    BY <2>1
  <2>3. index \in NumberLists /\ Ascending(index) /\ Len(index) \in Nat
    BY <2>1 DEF IndexInv, Recs, NumberLists
  <2>4. l + 1 \in 1 .. Len(index)
    BY <1>1, <1>2, <2>3
  <2>. DEFINE k == l + 1
  <2>5. index[k] < index[p]
    BY <1>1, <2>2
  <2>6. k < p
    <3>. HIDE DEF k
    <3>. QED  BY <2>2, <2>3, <2>4, <2>5, Before DEF k
  <2>7. l < p /\ l + 1 < top
    BY <1>2, <2>2, <2>6
  <2>8. BaseFree'
    BY <1>1, <2>1 DEF BaseFree
  <2>9. m < top
    BY <1>3, <2>7
  <2>. QED  BY <1>1, <2>1, <2>2, <2>7, <2>8, <2>9
<1>. QED  BY <1>3, <1>4, <1>5 DEF SearchInv
LEMMA StartSearch ==
    ASSUME IndexInv, NEW n \in 1 .. lastMsg, SearchStart(n) PROVE SearchInv'
<1>. DEFINE L == Len(index)
            d == \E k \in DOMAIN index : index[k] = n
<1>1. /\ index # <<>> /\ BaseFree /\ UNCHANGED <<index, keep>>
      /\ reader' = [at |-> "search", want |-> n, total |-> L, bot |-> 0, top |-> L,
                    l |-> L \div 2, due |-> d]
  BY DEF SearchStart, IndexInv, baseVars
<1>2. index \in NumberLists /\ L \in Nat /\ L # 0 /\ DOMAIN index = 1 .. L /\ n \in Nat
  BY <1>1 DEF IndexInv, Recs, NumberLists
<1>3. L \div 2 \in Nat /\ L \div 2 < L /\ 0 <= L \div 2
  BY <1>2
<1>4. d \in BOOLEAN /\ (d => \E p \in 1 .. L : 0 < p /\ p <= L /\ index[p] = n)
  BY <1>2
<1>5. BaseFree' /\ Len(index') = L
  BY <1>1 DEF BaseFree
<1>. HIDE DEF d
<1>6. reader' \in SearchRecs /\ "at" \in DOMAIN reader'
  BY <1>1, <1>2, <1>3, <1>4 DEF SearchRecs
<1>7. /\ reader'.bot = 0 /\ reader'.l = L \div 2 /\ reader'.top = L /\ reader'.total = L
      /\ reader'.due = d /\ reader'.want = n
  BY <1>1
<1>. HIDE DEF L
<1>. QED  BY <1>1, <1>2, <1>3, <1>4, <1>5, <1>6, <1>7 DEF SearchInv

\* A search that is disturbed may give up.
LEMMA DisturbedSearch ==
    ASSUME SearchInv, reader' = Disturbed PROVE SearchInv' /\ (Searching => reader' # Idle)
<1>1. CASE reader.at = "search"
  <2>1. reader \in SearchRecs /\ reader' = [reader EXCEPT !.due = FALSE]
    BY <1>1 DEF SearchInv, Disturbed
  <2>2. /\ reader' \in SearchRecs /\ reader'.at = "search" /\ "at" \in DOMAIN reader'
        /\ reader'.bot = reader.bot /\ reader'.l = reader.l /\ reader'.top = reader.top
        /\ reader'.due = FALSE
    BY <2>1 DEF SearchRecs
  <2>. QED  BY <1>1, <2>2 DEF SearchInv, Idle
<1>2. CASE reader.at # "search"
  BY <1>2 DEF SearchInv, Disturbed, Searching
<1>. QED  BY <1>1, <1>2

\* A base of which at most the end of the index changes.
LEMMA SearchGoesOn ==
    ASSUME SearchInv, reader' = reader,
           BaseFree => /\ BaseFree' /\ Len(index) \in Nat /\ Len(index') \in Nat
                       /\ Len(index) <= Len(index')
                       /\ \A p \in 1 .. Len(index) : index'[p] = index[p]
    PROVE  SearchInv' /\ (Searching => reader' # Idle)
<1>1. Searching => reader' # Idle
  BY DEF Searching, Idle
<1>2. ASSUME reader.at = "search", reader.due
      PROVE  /\ BaseFree' /\ reader.total <= Len(index')
             /\ \E p \in 1 .. Len(index') :
                      /\ reader.bot < p /\ p <= reader.top
                      /\ index'[p] = reader.want
  <2>1. /\ BaseFree /\ reader.total <= Len(index)
        /\ \E p \in 1 .. Len(index) :
                      /\ reader.bot < p /\ p <= reader.top
                      /\ index[p] = reader.want
    BY <1>2 DEF SearchInv
  <2>2. reader.total \in Nat
    BY <1>2 DEF SearchInv, SearchRecs
  <2>. QED  BY <2>1, <2>2
<1>. QED  BY <1>1, <1>2 DEF SearchInv

LEMMA NextSearch ==
    ASSUME IndexInv, SearchInv, [Next]_vars
    PROVE  SearchInv' /\ (Searching /\ reader' = Idle => ~reader.due)
<1>0. BaseFree => Len(index) \in Nat
  BY DEF IndexInv, Recs, NumberLists
<1>1. ASSUME UNCHANGED <<index, keep>>
      PROVE  BaseFree => /\ BaseFree' /\ Len(index) \in Nat /\ Len(index') \in Nat
                         /\ Len(index) <= Len(index')
                         /\ \A p \in 1 .. Len(index) : index'[p] = index[p]
  BY <1>0, <1>1 DEF BaseFree
<1>2. ASSUME NEW i, NEW back, NEW ref, NEW busy, NEW n, Post(i, back, ref, busy, n)
      PROVE  SearchInv' /\ (Searching => reader' # Idle)
  <2>1. index' = Append(index, lastMsg + 1) /\ keep' = keep /\ reader' = reader
    BY <1>2 DEF Post
  <2>2. BaseFree => /\ BaseFree' /\ Len(index) \in Nat /\ Len(index') \in Nat
                    /\ Len(index) <= Len(index')
                    /\ \A p \in 1 .. Len(index) : index'[p] = index[p]
    <3>1. BaseFree => index \in NumberLists /\ lastMsg + 1 \in Nat
      BY DEF IndexInv, Recs
    <3>. QED  BY <2>1, <3>1 DEF BaseFree, NumberLists
  <2>. QED  BY <2>1, <2>2, SearchGoesOn
<1>3. ASSUME NEW i, NEW back, NEW ref, PostFails(i, back, ref)
      PROVE  SearchInv' /\ (Searching => reader' # Idle)
  <2>1. UNCHANGED <<index, keep>> /\ reader' = reader
    BY <1>3 DEF PostFails
  <2>. QED  BY <1>1, <2>1, SearchGoesOn
<1>4. ASSUME (\E gone \in SUBSET Existing : \E dropped : Purge(gone, dropped)) \/ FixRenumber
      PROVE  SearchInv' /\ (Searching => reader' # Idle)
  BY <1>4, DisturbedSearch DEF Purge, FixRenumber
<1>5. ASSUME WriteIndex PROVE SearchInv' /\ (Searching => reader' # Idle)
  BY <1>5, SearchGoesOn DEF WriteIndex
<1>6. ASSUME NEW n \in 1 .. lastMsg, SearchStart(n) PROVE SearchInv' /\ reader' # Idle
  BY <1>6, StartSearch DEF SearchStart, Idle
<1>7. ASSUME SearchFails PROVE SearchInv' /\ ~reader.due
  <2>1. SearchInv'
    BY <1>7 DEF SearchFails, SearchInv, Idle
  <2>2. ASSUME reader.due PROVE FALSE
    <3>1. /\ reader.at = "search" /\ Exhausted
      BY <1>7 DEF SearchFails, Searching
    <3>2. /\ reader \in SearchRecs /\ reader.bot <= reader.l /\ reader.l < reader.top
          /\ reader.top <= reader.total /\ reader.total <= Len(index) /\ BaseFree
      BY <2>2, <3>1 DEF SearchInv
    <3>3. PICK p \in 1 .. Len(index) : reader.bot < p /\ p <= reader.top /\ index[p] = reader.want
      BY <2>2, <3>1 DEF SearchInv
    <3>4. reader.bot \in Nat /\ reader.l \in Nat /\ reader.top \in Nat /\ reader.total \in Nat
      BY <3>2 DEF SearchRecs
    <3>5. InIndex
      BY <1>0, <3>2, <3>4 DEF InIndex
    <3>6. reader.bot = reader.top - 1 /\ index[reader.l + 1] # reader.want
      BY <3>1, <3>5 DEF Exhausted, Read
    <3>7. p = reader.l + 1
      BY <3>2, <3>3, <3>4, <3>6
    <3>. QED  BY <3>3, <3>6, <3>7
  <2>. QED  BY <2>1, <2>2
<1>8. ASSUME LowerHalf \/ UpperHalf PROVE SearchInv' /\ reader' # Idle
  <2>1. "at" \in DOMAIN reader /\ reader.at = "search"
    BY <1>8 DEF LowerHalf, UpperHalf, Searching, SearchInv
  <2>2. reader'.at = "search"
    BY <1>8, <2>1 DEF LowerHalf, UpperHalf
  <2>. QED  BY <1>8, <2>2, LowerSearch, UpperSearch DEF Idle
<1>9. ASSUME SearchFinds PROVE SearchInv' /\ reader' # Idle
  BY <1>9 DEF SearchFinds, SearchInv, Idle
<1>10. ASSUME LoadHeader \/ CloseMessage \/ WriteComment PROVE SearchInv' /\ ~Searching
  <2>1. reader.at \in {"found", "loaded"}
    BY <1>10 DEF LoadHeader, CloseMessage, WriteComment
  <2>2. "at" \in DOMAIN reader' /\ reader'.at # "search"
    <3>1. CASE LoadHeader
      <4>1. CASE \E k \in Existing : hdrs[k].blk = reader.blk
        BY <3>1, <4>1 DEF LoadHeader
      <4>2. CASE ~\E k \in Existing : hdrs[k].blk = reader.blk
        BY <3>1, <4>2 DEF LoadHeader, Idle
      <4>. QED  BY <4>1, <4>2
    <3>2. CASE CloseMessage \/ WriteComment
      BY <3>2 DEF CloseMessage, WriteComment, Idle
    <3>. QED  BY <1>10, <3>1, <3>2
  <2>. QED  BY <2>1, <2>2 DEF SearchInv, Searching
<1>11. ASSUME UNCHANGED vars PROVE SearchInv' /\ (Searching => reader' # Idle)
  <2>1. UNCHANGED <<index, keep>> /\ reader' = reader
    BY <1>11 DEF vars, baseVars
  <2>. QED  BY <1>1, <2>1, SearchGoesOn
<1>12. CASE AddMessage
  BY <1>2, <1>3, <1>12 DEF AddMessage
<1>13. ASSUME NEW dropped, PurgeNothing(dropped) PROVE SearchInv' /\ (Searching => reader' # Idle)
  <2>1. UNCHANGED <<index, keep>> /\ reader' = reader
    BY <1>13 DEF PurgeNothing
  <2>. QED  BY <1>1, <2>1, SearchGoesOn
<1>. QED  BY <1>4, <1>5, <1>6, <1>7, <1>8, <1>9, <1>10, <1>11, <1>12, <1>13 DEF Next, Reader, Search

LEMMA InitIndexed == Init => IndexInv /\ SearchInv
<1>. SUFFICES ASSUME Init PROVE IndexInv /\ SearchInv
  OBVIOUS
<1>1. /\ Existing = {} /\ index = <<>> /\ lastMsg = 0 /\ BaseFree
      /\ "at" \in DOMAIN reader /\ reader.at = "idle"
  BY DEF Init, Existing, BaseFree, Idle
<1>2. <<>> \in NumberLists /\ Len(<<>>) = 0 /\ Recs = <<>>
  BY <1>1 DEF NumberLists, Recs
<1>. QED  BY <1>1, <1>2 DEF IndexInv, SearchInv, Ascending, Numbers

LEMMA IndexInvariant == Spec => [](IndexInv /\ SearchInv)
<1>1. IndexInv /\ SearchInv /\ [Next]_vars => IndexInv' /\ SearchInv'
  BY NextIndexed, NextSearch DEF SearchInv
<1>. QED  BY InitIndexed, <1>1, PTL DEF Spec

\* smb_getmsgidx(), which searches without a lock: posts that lengthen the index
\* under the search do not make it give up on a message that was there when it
\* began and that no purge or renumbering has moved.
THEOREM SearchSafe == Spec => SearchRight
<1>1. IndexInv /\ SearchInv /\ [Next]_vars => [Searching /\ reader' = Idle => ~reader.due]_vars
  BY NextSearch
<1>. QED  BY IndexInvariant, <1>1, PTL DEF Spec, SearchRight
-----------------------------------------------------------------------------
(* The search ends.                                                          *)

\* The records a search has left, and the one it looks at next among them.
Left == reader.top - reader.bot
NarrowInv == Searching =>
    /\ reader.bot \in Nat /\ reader.l \in Nat /\ reader.top \in Nat
    /\ reader.bot < reader.top
    /\ \/ reader.top = reader.bot + 1
       \/ reader.bot < reader.l /\ reader.l < reader.top

\* smb_getmsgidx(): a search that goes on has fewer records left with every step, and
\* never none; nothing that happens to the index meanwhile gives it more.
SearchNarrows ==
    [][Searching /\ Searching' => /\ 0 < Left' /\ Left' <= Left
                                  /\ Search => Left' < Left]_vars

\* The middle of more than one record is none of its ends.
LEMMA HalfOf ==
    ASSUME NEW bot \in Nat, NEW top \in Nat, bot < top
    PROVE  /\ Half(bot, top) \in Nat
           /\ top = bot + 1 \/ (0 < Half(bot, top) /\ Half(bot, top) < top - bot)
<1>1. PICK d \in Nat : d = top - bot /\ d > 0
  OBVIOUS
<1>2. d \div 2 \in Nat /\ (d = 1 \/ (0 < d \div 2 /\ d \div 2 < d))
  BY <1>1
<1>. QED  BY <1>1, <1>2 DEF Half

\* The records that are looked at next, below and above.
LEMMA LowerNarrows ==
    ASSUME SearchInv, NarrowInv, LowerHalf
    PROVE  NarrowInv' /\ Searching' /\ 0 < Left' /\ Left' < Left /\ Left' <= Left
<1>. DEFINE bot == reader.bot
            l == reader.l
            m == bot + Half(bot, l)
<1>1. /\ reader \in SearchRecs /\ reader.at = "search" /\ InIndex
      /\ reader' = [reader EXCEPT !.top = l, !.l = m]
      /\ ~(bot = reader.top - 1 /\ Read(l) # reader.want) /\ Read(l) > reader.want
  BY DEF LowerHalf, Searching, Exhausted, SearchInv
<1>2. bot \in Nat /\ l \in Nat /\ reader.top \in Nat /\ bot < l /\ l < reader.top
  <2>1. reader.want \in Nat
    BY <1>1 DEF SearchRecs
  <2>2. Read(l) # reader.want
    BY <1>1, <2>1
  <2>. QED  BY <1>1, <2>2 DEF NarrowInv, Searching
<1>3. m \in Nat /\ (l = bot + 1 \/ (bot < m /\ m < l))
  <2>1. Half(bot, l) \in Nat /\ (l = bot + 1 \/ (0 < Half(bot, l) /\ Half(bot, l) < l - bot))
    BY <1>2, HalfOf
  <2>. QED  BY <1>2, <2>1
<1>. HIDE DEF m
<1>4. reader'.at = "search" /\ reader'.bot = bot /\ reader'.l = m /\ reader'.top = l
  BY <1>1 DEF SearchRecs
<1>. QED  BY <1>2, <1>3, <1>4 DEF NarrowInv, Searching, Left

LEMMA UpperNarrows ==
    ASSUME SearchInv, NarrowInv, UpperHalf
    PROVE  NarrowInv' /\ Searching' /\ 0 < Left' /\ Left' < Left /\ Left' <= Left
<1>. DEFINE top == reader.top
            l == reader.l
            m == top - Half(l, top)
<1>1. /\ reader \in SearchRecs /\ reader.at = "search" /\ InIndex
      /\ reader' = [reader EXCEPT !.bot = l, !.l = m]
      /\ ~(reader.bot = top - 1 /\ Read(l) # reader.want) /\ Read(l) < reader.want
  BY DEF UpperHalf, Searching, Exhausted, SearchInv
<1>2. reader.bot \in Nat /\ l \in Nat /\ top \in Nat /\ reader.bot < l /\ l < top
  <2>1. reader.want \in Nat
    BY <1>1 DEF SearchRecs
  <2>2. Read(l) # reader.want
    BY <1>1, <2>1
  <2>. QED  BY <1>1, <2>2 DEF NarrowInv, Searching
<1>3. m \in Nat /\ (top = l + 1 \/ (l < m /\ m < top))
  <2>1. Half(l, top) \in Nat /\ (top = l + 1 \/ (0 < Half(l, top) /\ Half(l, top) < top - l))
    BY <1>2, HalfOf
  <2>2. Half(l, top) <= top
    BY <1>2 DEF Half
  <2>. QED  BY <1>2, <2>1, <2>2
<1>. HIDE DEF m
<1>4. reader'.at = "search" /\ reader'.top = top /\ reader'.l = m /\ reader'.bot = l
  BY <1>1 DEF SearchRecs
<1>. QED  BY <1>2, <1>3, <1>4 DEF NarrowInv, Searching, Left

\* A step that only touches what is due, or nothing of the search.
LEMMA NarrowStays ==
    ASSUME SearchInv, NarrowInv, reader' = reader \/ reader' = Disturbed
    PROVE  NarrowInv' /\ (Searching => Left' = Left /\ Left \in Nat /\ 0 < Left)
<1>1. /\ Searching' => Searching
      /\ Searching => reader'.bot = reader.bot /\ reader'.l = reader.l /\ reader'.top = reader.top
  BY DEF Disturbed, Searching, SearchInv, SearchRecs
<1>2. NarrowInv'
  BY <1>1 DEF NarrowInv
<1>. QED  BY <1>1, <1>2 DEF NarrowInv, Left

LEMMA StartNarrow ==
    ASSUME IndexInv, NEW n, SearchStart(n)
    PROVE  NarrowInv' /\ ~Searching
<1>. DEFINE L == Len(index)
<1>1. index # <<>> /\ BaseFree /\ reader = Idle
  BY DEF SearchStart, IndexInv
<1>2. L \in Nat /\ L # 0
  BY <1>1 DEF IndexInv, Recs, NumberLists
<1>3. reader'.bot = 0 /\ reader'.l = L \div 2 /\ reader'.top = L
  BY DEF SearchStart
<1>. HIDE DEF L
<1>4. L \div 2 \in Nat /\ (L = 1 \/ (0 < L \div 2 /\ L \div 2 < L))
  BY <1>2
<1>. QED  BY <1>1, <1>2, <1>3, <1>4 DEF NarrowInv, Searching, Idle

LEMMA NextNarrows ==
    ASSUME IndexInv, SearchInv, NarrowInv, [Next]_vars
    PROVE  /\ NarrowInv'
           /\ Searching /\ Searching' => /\ 0 < Left' /\ Left' <= Left
                                         /\ Search => Left' < Left
<1>. DEFINE Narrow == NarrowInv' /\ (Searching /\ Searching' => 0 < Left' /\ Left' <= Left)
<1>1. ASSUME Search
      PROVE  NarrowInv' /\ (Searching' => 0 < Left' /\ Left' < Left /\ Left' <= Left)
  <2>1. CASE SearchFails \/ SearchFinds
    BY <2>1 DEF SearchFails, SearchFinds, NarrowInv, Searching, Idle
  <2>. QED  BY <1>1, <2>1, LowerNarrows, UpperNarrows DEF Search
<1>2. ASSUME reader' = reader \/ reader' = Disturbed
      PROVE  Narrow
  BY <1>2, NarrowStays
<1>3. ASSUME NEW n, SearchStart(n)
      PROVE  Narrow
  BY <1>3, StartNarrow
<1>4. ASSUME LoadHeader \/ CloseMessage \/ WriteComment
      PROVE  Narrow
  BY <1>4 DEF LoadHeader, CloseMessage, WriteComment, Idle, NarrowInv, Searching
<1>5. ASSUME \/ AddMessage \/ WriteIndex \/ FixRenumber \/ UNCHANGED vars
             \/ \E dropped : PurgeNothing(dropped) \/ \E gone : Purge(gone, dropped)
      PROVE  Narrow
  <2>1. reader' = reader \/ reader' = Disturbed
    BY <1>5 DEF AddMessage, Post, PostFails, Purge, PurgeNothing, WriteIndex, FixRenumber, vars
  <2>. QED  BY <1>2, <2>1
<1>6. Search \/ Narrow
  BY <1>3, <1>4, <1>5 DEF Next, Reader
<1>7. CASE Search
  BY <1>1, <1>7
<1>8. CASE ~Search
  BY <1>6, <1>8
<1>. QED  BY <1>7, <1>8

\* The search of smb_getmsgidx() narrows: with WF_vars(Search) it comes to an end.
THEOREM SearchShrinks == Spec => SearchNarrows
<1>1. Init => NarrowInv
  BY DEF Init, NarrowInv, Searching, Idle
<1>2. IndexInv /\ SearchInv /\ NarrowInv /\ [Next]_vars =>
          /\ NarrowInv'
          /\ [Searching /\ Searching' => /\ 0 < Left' /\ Left' <= Left
                                         /\ Search => Left' < Left]_vars
  BY NextNarrows
<1>. QED  BY <1>1, <1>2, IndexInvariant, PTL DEF Spec, SearchNarrows
-----------------------------------------------------------------------------
(* Type correctness, with the numbers fixsmb -renumber gives.                *)

\* The numbers of the elements of a set that lie at different places, in the order
\* of their places, are 1, 2, ... up to their count.
Rank(S, b, k) == Cardinality({m \in S : b[m] <= b[k]})

LEMMA Ranks ==
    ASSUME NEW S, IsFiniteSet(S), NEW b \in [S -> Nat], IsInjective(b)
    PROVE  \A n \in 1 .. Cardinality(S) : \E k \in S : Rank(S, b, k) = n
<1>. DEFINE N == Cardinality(S)
            below(k) == {m \in S : b[m] <= b[k]}
            rank == [k \in S |-> Cardinality(below(k))]
<1>1. N \in Nat
  BY FS_CardinalityType
<1>2. ASSUME NEW k \in S
      PROVE  /\ IsFiniteSet(below(k)) /\ Cardinality(below(k)) \in Nat
             /\ Cardinality(below(k)) \in 1 .. N
  <2>1. below(k) \in SUBSET S /\ k \in below(k)
    OBVIOUS
  <2>. HIDE DEF below
  <2>2. IsFiniteSet(below(k)) /\ Cardinality(below(k)) <= N
    BY <2>1, FS_Subset
  <2>3. Cardinality(below(k)) \in Nat /\ Cardinality(below(k)) # 0
    BY <2>1, <2>2, FS_CardinalityType, FS_EmptySet
  <2>. QED  BY <1>1, <2>2, <2>3
<1>3. ASSUME NEW j \in S, NEW k \in S, b[j] < b[k] PROVE rank[j] # rank[k]
  <2>1. below(j) \in SUBSET below(k) /\ k \in below(k) /\ k \notin below(j)
    BY <1>3
  <2>2. IsFiniteSet(below(k))
    BY <1>2
  <2>. HIDE DEF below
  <2>3. Cardinality(below(k)) = Cardinality(below(j)) => below(k) = below(j)
    BY <2>1, <2>2, FS_Subset
  <2>. QED  BY <2>1, <2>3
<1>4. rank \in [S -> 1 .. N]
  BY <1>2
<1>5. \A j, k \in S : rank[j] = rank[k] => j = k
  <2>. SUFFICES ASSUME NEW j \in S, NEW k \in S, rank[j] = rank[k] PROVE j = k
    OBVIOUS
  <2>1. ~(b[j] < b[k]) /\ ~(b[k] < b[j])
    BY <1>3
  <2>. HIDE DEF rank
  <2>2. b[j] = b[k]
    BY <2>1
  <2>. QED  BY <2>2 DEF IsInjective
<1>6. IsFiniteSet(1 .. N) /\ Cardinality(1 .. N) = N
  BY <1>1, FS_Interval
<1>7. \A n \in 1 .. N : \E k \in S : rank[k] = n
  <2>. HIDE DEF rank, N
  <2>1. rank \in Injection(S, 1 .. N)
    BY <1>4, <1>5 DEF Injection, IsInjective
  <2>2. rank \in Surjection(S, 1 .. N)
    BY <1>6, <2>1, FS_Injection DEF N
  <2>. QED  BY <2>2 DEF Surjection
<1>. QED  BY <1>7 DEF Rank

\* Everything has its type, and headers lie at different places.
PostsInv == posts \in 0 .. MaxPosts /\ failures \in 0 .. MaxFailures
HashesInv == hashes \in Seq(HashType)
PlacesInv ==
    /\ \A n \in Existing : hdrs[n] \in HeaderType
    /\ \A j, k \in Existing : hdrs[j].blk = hdrs[k].blk => j = k
ReadInv ==
    /\ reader.at \in {"idle", "search", "found", "loaded"}
    /\ reader \in ReaderType

TypeInv == PostsInv /\ HashesInv /\ PlacesInv /\ ReadInv

\* fixsmb finds a header for every new number.
LEMMA EveryNumber ==
    ASSUME IndexInv, PlacesInv
    PROVE  \A n \in 1 .. Cardinality(Existing) : \E k \in Existing : Renumbered(k) = n
<1>. DEFINE b == [k \in Existing |-> hdrs[k].blk]
<1>1. b \in [Existing -> Nat] /\ IsInjective(b)
  <2>1. \A h \in HeaderType : h.blk \in Nat
    BY DEF HeaderType
  <2>. QED  BY <2>1 DEF PlacesInv, IsInjective
<1>2. \A k \in Existing : Renumbered(k) = Rank(Existing, b, k)
  <2>1. ASSUME NEW k \in Existing
        PROVE  {m \in Existing : hdrs[m].blk <= hdrs[k].blk} = {m \in Existing : b[m] <= b[k]}
    OBVIOUS
  <2>. QED  BY <2>1 DEF Renumbered, Rank
<1>. HIDE DEF b
<1>. QED  BY <1>1, <1>2, ExistingFinite, Ranks

LEMMA RenumberPlaces ==
    ASSUME IndexInv, PlacesInv, FixRenumber
    PROVE  PlacesInv'
<1>. DEFINE total == Cardinality(Existing)
            old(n) == CHOOSE k \in Existing : Renumbered(k) = n
<1>1. hdrs' = [n \in 1 .. total |-> hdrs[old(n)]] /\ Existing' = 1 .. total
  BY DEF FixRenumber, Existing
<1>2. \A n \in 1 .. total : \E k \in Existing : Renumbered(k) = n
  BY EveryNumber
<1>3. \A n \in 1 .. total : old(n) \in Existing /\ Renumbered(old(n)) = n
  BY <1>2
<1>. HIDE DEF old
<1>. QED  BY <1>1, <1>3 DEF PlacesInv

\* smb_updatethread() leaves the header where it is.
LEMMA RelinkedPlace ==
    ASSUME PlacesInv, lastMsg \in Nat, NEW orig, NEW busy, NEW k \in Existing
    PROVE  LET h == Relinked(orig, lastMsg + 1, busy)[k]
           IN  h \in HeaderType /\ h.blk = hdrs[k].blk
<1>. DEFINE num == lastMsg + 1
<1>1. hdrs[k] \in HeaderType /\ num \in Nat
  BY DEF PlacesInv
<1>2. Relinked(orig, num, busy)[k] \in
          {hdrs[k], [hdrs[k] EXCEPT !.first = num], [hdrs[k] EXCEPT !.next = num]}
  BY DEF Relinked, Linked
<1>. HIDE DEF num
<1>3. LET h == [hdrs[k] EXCEPT !.first = num] IN h \in HeaderType /\ h.blk = hdrs[k].blk
  BY <1>1 DEF HeaderType
<1>4. LET h == [hdrs[k] EXCEPT !.next = num] IN h \in HeaderType /\ h.blk = hdrs[k].blk
  BY <1>1 DEF HeaderType
<1>5. CASE Relinked(orig, num, busy)[k] = hdrs[k]
  BY <1>1, <1>5 DEF num
<1>6. CASE Relinked(orig, num, busy)[k] = [hdrs[k] EXCEPT !.first = num]
  BY <1>3, <1>6 DEF num
<1>7. CASE Relinked(orig, num, busy)[k] = [hdrs[k] EXCEPT !.next = num]
  BY <1>4, <1>7 DEF num
<1>. QED  BY <1>2, <1>5, <1>6, <1>7

\* A new header lies where no other header is.
LEMMA NewPlace ==
    ASSUME PlacesInv, NEW n \in HdrBlocks, FreeRuns(n) # {}, NEW k \in Existing
    PROVE  FirstFree(n) # hdrs[k].blk
<1>1. FirstFree(n) \in FreeRuns(n) /\ FirstFree(n) \in Nat
  BY FirstFreeIsBlock
<1>2. n \in Nat /\ n # 0
  BY ThreadAssumption
<1>3. \A h \in HeaderType : h.blk \in Nat /\ h.n \in Nat /\ h.n # 0
  BY ThreadAssumption DEF HeaderType
<1>4. hdrs[k].blk \in Nat /\ hdrs[k].n \in Nat /\ hdrs[k].n # 0
  BY <1>3 DEF PlacesInv
<1>5. hdrs[k].blk \in hdrs[k].blk .. hdrs[k].blk + hdrs[k].n - 1
  BY <1>4
<1>6. hdrs[k].blk \in BlocksUsed
  BY <1>5 DEF BlocksUsed
<1>7. FirstFree(n) \in FirstFree(n) .. FirstFree(n) + n - 1
  BY <1>1, <1>2
<1>8. FirstFree(n) \notin BlocksUsed
  BY <1>1, <1>7 DEF FreeRuns
<1>. QED  BY <1>6, <1>8
LEMMA PostTyped ==
    ASSUME IndexInv, TypeInv, NEW i \in Ids, NEW back \in Nat, NEW ref,
           NEW busy, IsFiniteSet(busy), NEW n \in HdrBlocks, Post(i, back, ref, busy, n)
    PROVE  TypeInv'
<1>. DEFINE orig == Original(back, ref)
            num  == lastMsg + 1
            old  == Relinked(orig, num, busy)
            new  == NewHeader(i, orig, num, busy, n)
<1>1. /\ hdrs' = [k \in Existing \cup {num} |-> IF k = num THEN new ELSE old[k]]
      /\ lastMsg' = num /\ reader' = reader /\ FreeRuns(n) # {}
      /\ Existing' = Existing \cup {num}
  BY DEF Post, Existing
<1>2. lastMsg \in Nat /\ num \in Nat \ {0} /\ num \notin Existing /\ Existing \subseteq Nat
  BY DEF IndexInv
<1>3. PostsInv'
  <2>1. /\ posts < MaxPosts /\ posts' = posts + 1
        /\ failures + Cardinality(busy) <= MaxFailures
        /\ failures' = failures + Cardinality(busy)
    BY DEF Post, Announce
  <2>2. Cardinality(busy) \in Nat
    BY FS_CardinalityType
  <2>. QED  BY <2>1, <2>2, ThreadAssumption DEF TypeInv, PostsInv
<1>4. HashesInv'
  <2>1. hashes' = Append(hashes, [id |-> i, num |-> num])
    BY DEF Post, Announce
  <2>2. [id |-> i, num |-> num] \in HashType
    BY <1>2 DEF HashType
  <2>. HIDE DEF num
  <2>. QED  BY <2>1, <2>2 DEF TypeInv, HashesInv
<1>5. new \in HeaderType /\ new.blk = FirstFree(n)
  <2>0. \A h \in HeaderType : h.tid \in Nat
    BY DEF HeaderType
  <2>1. (IF CanLink(orig, busy) THEN hdrs[orig].tid ELSE num) \in Nat
    BY <1>2, <2>0 DEF CanLink, TypeInv, PlacesInv
  <2>2. orig \in Nat
    BY <1>2 DEF Original
  <2>3. FirstFree(n) \in Nat
    BY <1>1, FirstFreeIsBlock
  <2>. HIDE DEF orig, num
  <2>. QED  BY <2>1, <2>2, <2>3 DEF NewHeader, HeaderType
<1>6. \A k \in Existing : old[k] \in HeaderType /\ old[k].blk = hdrs[k].blk
  BY <1>2, RelinkedPlace DEF TypeInv
<1>7. \A k \in Existing : FirstFree(n) # hdrs[k].blk
  BY <1>1, NewPlace DEF TypeInv
<1>. HIDE DEF orig, old, new, num
<1>8. hdrs'[num] = new /\ \A k \in Existing : hdrs'[k] = old[k]
  BY <1>1, <1>2
<1>9. PlacesInv'
  <2>1. \A k \in Existing' : hdrs'[k] \in HeaderType
    BY <1>1, <1>5, <1>6, <1>8
  <2>2. ASSUME NEW j \in Existing', NEW k \in Existing', hdrs'[j].blk = hdrs'[k].blk
        PROVE  j = k
    BY <1>1, <1>5, <1>6, <1>7, <1>8, <2>2 DEF TypeInv, PlacesInv
  <2>. QED  BY <2>1, <2>2 DEF PlacesInv
<1>. QED  BY <1>1, <1>3, <1>4, <1>9 DEF TypeInv, ReadInv

LEMMA FailureTyped ==
    ASSUME IndexInv, TypeInv, NEW i \in Ids, NEW back, NEW ref, PostFails(i, back, ref)
    PROVE  TypeInv'
<1>. DEFINE num == lastMsg + 1
            old == Relinked(Original(back, ref), num, {})
<1>1. /\ hdrs' = old /\ reader' = reader /\ Existing' = Existing
      /\ failures < MaxFailures /\ failures' = failures + 1
      /\ posts < MaxPosts /\ posts' = posts + 1
      /\ hashes' = Append(hashes, [id |-> i, num |-> num])
  BY RelinkedDomain DEF PostFails, Announce, Existing
<1>2. lastMsg \in Nat /\ num \in Nat \ {0}
  BY DEF IndexInv
<1>3. PostsInv'
  BY <1>1, ThreadAssumption DEF TypeInv, PostsInv
<1>4. HashesInv'
  <2>1. [id |-> i, num |-> num] \in HashType
    BY <1>2 DEF HashType
  <2>. HIDE DEF num
  <2>. QED  BY <1>1, <2>1 DEF TypeInv, HashesInv
<1>5. \A k \in Existing : old[k] \in HeaderType /\ old[k].blk = hdrs[k].blk
  BY <1>2, RelinkedPlace DEF TypeInv
<1>. HIDE DEF old
<1>6. PlacesInv'
  BY <1>1, <1>5 DEF TypeInv, PlacesInv
<1>. QED  BY <1>1, <1>3, <1>4, <1>6 DEF TypeInv, ReadInv

LEMMA DisturbedTyped ==
    ASSUME ReadInv, reader' = Disturbed PROVE ReadInv'
<1>1. CASE reader.at = "search"
  <2>1. reader \in SearchRecs /\ reader' = [reader EXCEPT !.due = FALSE]
    BY <1>1 DEF ReadInv, ReaderType, Disturbed, Idle, SearchRecs
  <2>2. reader' \in SearchRecs
    BY <2>1 DEF SearchRecs
  <2>. QED  BY <2>2 DEF ReadInv, ReaderType, SearchRecs
<1>2. CASE reader.at # "search"
  BY <1>2 DEF ReadInv, Disturbed
<1>. QED  BY <1>1, <1>2

LEMMA TrimTyped ==
    ASSUME HashesInv, NEW dropped, HashesTrimmed(dropped) PROVE HashesInv'
<1>1. /\ hashes \in Seq(HashType) /\ dropped \in 0 .. Len(hashes) /\ Len(hashes) \in Nat
      /\ hashes' = SubSeq(hashes, dropped + 1, Len(hashes))
  BY DEF HashesInv, HashesTrimmed
<1>2. dropped + 1 \in 1 .. Len(hashes) + 1 /\ Len(hashes) \in dropped .. Len(hashes)
  BY <1>1
<1>. QED  BY <1>1, <1>2, SubSeqProperties DEF HashesInv

LEMMA PurgeTyped ==
    ASSUME TypeInv, NEW gone, NEW dropped, Purge(gone, dropped) PROVE TypeInv'
<1>1. /\ Existing' = Existing \ gone /\ \A k \in Existing' : hdrs'[k] = hdrs[k]
      /\ reader' = Disturbed /\ HashesTrimmed(dropped) /\ UNCHANGED <<posts, failures>>
  BY DEF Purge, Existing
<1>2. PlacesInv'
  BY <1>1 DEF TypeInv, PlacesInv
<1>. QED  BY <1>1, <1>2, DisturbedTyped, TrimTyped DEF TypeInv, PostsInv

LEMMA NothingTyped ==
    ASSUME TypeInv, NEW dropped, PurgeNothing(dropped) PROVE TypeInv'
<1>1. HashesTrimmed(dropped) /\ UNCHANGED <<hdrs, reader, posts, failures>>
  BY DEF PurgeNothing
<1>. QED  BY <1>1, TrimTyped DEF TypeInv, PostsInv, PlacesInv, ReadInv, Existing

\* fixsmb adds hashes of ids and numbers that messages have.
LEMMA RenumberHashed ==
    ASSUME IndexInv, TypeInv, FixRenumber PROVE HashesInv'
<1>1. PICK s \in [1 .. Cardinality(Unhashed) -> Unhashed] :
          hashes' = hashes \o [k \in DOMAIN s |-> [id |-> hdrs[s[k]].id, num |-> s[k]]]
  BY DEF FixRenumber
<1>. DEFINE C == Cardinality(Unhashed)
            new == [k \in DOMAIN s |-> [id |-> hdrs[s[k]].id, num |-> s[k]]]
<1>2. C \in Nat
  <2>1. Unhashed \in SUBSET Existing
    BY DEF Unhashed
  <2>2. IsFiniteSet(Unhashed)
    BY <2>1, ExistingFinite, FS_Subset
  <2>. QED  BY <2>2, FS_CardinalityType
<1>. HIDE DEF C
<1>3. ASSUME NEW k \in 1 .. C PROVE [id |-> hdrs[s[k]].id, num |-> s[k]] \in HashType
  <2>1. s[k] \in Existing
    BY DEF Unhashed, C
  <2>2. \A n \in Existing : hdrs[n] \in HeaderType /\ n \in Nat \ {0}
    BY DEF TypeInv, PlacesInv, IndexInv
  <2>3. hdrs[s[k]] \in HeaderType /\ s[k] \in Nat \ {0}
    BY <2>1, <2>2
  <2>. QED  BY <2>3 DEF HeaderType, HashType
<1>4. new \in [1 .. C -> HashType]
  <2>1. DOMAIN s = 1 .. C
    BY DEF C
  <2>. QED  BY <1>3, <2>1
<1>. HIDE DEF new
<1>5. new \in Seq(HashType)
  BY <1>2, <1>4
<1>6. hashes' = hashes \o new /\ hashes \in Seq(HashType)
  BY <1>1 DEF new, TypeInv, HashesInv
<1>. QED  BY <1>5, <1>6, ConcatProperties DEF HashesInv

LEMMA RenumberTyped ==
    ASSUME IndexInv, TypeInv, FixRenumber PROVE TypeInv'
<1>1. reader' = Disturbed /\ UNCHANGED <<posts, failures>>
  BY DEF FixRenumber
<1>. QED  BY <1>1, RenumberPlaces, RenumberHashed, DisturbedTyped DEF TypeInv, PostsInv

\* What a reader does to itself.
LEMMA ReaderTyped ==
    ASSUME IndexInv, SearchInv, SearchInv', TypeInv,
           (\E n \in 1 .. lastMsg : SearchStart(n)) \/ Search \/ LoadHeader \/ CloseMessage
    PROVE  TypeInv'
<1>1. UNCHANGED <<hdrs, hashes, posts, failures>>
  BY Zenon DEF SearchStart, Search, SearchFails, LowerHalf, UpperHalf, SearchFinds,
               LoadHeader, CloseMessage, baseVars
<1>2. SearchRecs \cup {Idle} \subseteq ReaderType
  BY DEF SearchRecs, ReaderType
<1>3. ASSUME reader' = Idle PROVE ReadInv'
  BY <1>2, <1>3 DEF ReadInv, Idle
<1>4. ASSUME (\E n \in 1 .. lastMsg : SearchStart(n)) \/ LowerHalf \/ UpperHalf
      PROVE  ReadInv'
  <2>1. reader'.at = "search"
    <3>1. CASE \E n \in 1 .. lastMsg : SearchStart(n)
      BY <3>1 DEF SearchStart
    <3>2. CASE LowerHalf \/ UpperHalf
      <4>1. "at" \in DOMAIN reader /\ reader.at = "search"
        BY <3>2 DEF LowerHalf, UpperHalf, Searching, SearchInv
      <4>. QED  BY <3>2, <4>1 DEF LowerHalf, UpperHalf
    <3>. QED  BY <1>4, <3>1, <3>2
  <2>. QED  BY <1>2, <2>1 DEF SearchInv, ReadInv
<1>5. \A h \in HeaderType : h.blk \in Nat
  BY DEF HeaderType
<1>6. ASSUME SearchFinds PROVE ReadInv'
  <2>1. /\ reader.at = "search" /\ reader.l < Len(index)
        /\ index[reader.l + 1] = reader.want
        /\ reader' = [at |-> "found", blk |-> hdrs[reader.want].blk]
    BY <1>6 DEF SearchFinds, Searching, Exhausted, InIndex, Read
  <2>2. reader.l \in Nat
    BY <2>1 DEF SearchInv, SearchRecs
  <2>3. index # <<>>
    BY <2>1, <2>2
  <2>4. index \in NumberLists /\ Numbers(index) = Existing
    BY <2>3 DEF IndexInv, Recs
  <2>5. reader.l + 1 \in 1 .. Len(index)
    BY <2>1, <2>2, <2>4 DEF NumberLists
  <2>6. reader.want \in Existing
    BY <2>1, <2>4, <2>5 DEF Numbers
  <2>7. hdrs[reader.want].blk \in Nat
    BY <1>5, <2>6 DEF TypeInv, PlacesInv
  <2>. QED  BY <2>1, <2>7 DEF ReadInv, ReaderType
<1>7. ASSUME LoadHeader, reader' # Idle PROVE ReadInv'
  <2>. DEFINE k == CHOOSE m \in Existing : hdrs[m].blk = reader.blk
  <2>1. /\ \E m \in Existing : hdrs[m].blk = reader.blk
        /\ reader' = [at |-> "loaded", num |-> k, hdr |-> hdrs[k]]
    BY <1>7 DEF LoadHeader
  <2>2. k \in Existing
    BY <2>1
  <2>. HIDE DEF k
  <2>3. k \in Nat /\ hdrs[k] \in HeaderType
    BY <2>2 DEF TypeInv, PlacesInv, IndexInv
  <2>. QED  BY <2>1, <2>3 DEF ReadInv, ReaderType
<1>8. ReadInv'
  BY <1>3, <1>4, <1>6, <1>7 DEF Search, SearchFails, CloseMessage
<1>. QED  BY <1>1, <1>8 DEF TypeInv, PostsInv, HashesInv, PlacesInv, Existing

LEMMA CommentTyped ==
    ASSUME TypeInv, WriteComment PROVE TypeInv'
<1>. DEFINE h == [reader.hdr EXCEPT !.blk = hdrs[reader.num].blk]
<1>1. /\ reader.at = "loaded" /\ reader.num \in Existing /\ reader' = Idle
      /\ hdrs' = [hdrs EXCEPT ![reader.num] = h]
      /\ UNCHANGED <<hashes, posts, failures>>
  BY DEF WriteComment
<1>2. reader.hdr \in HeaderType
  BY <1>1 DEF TypeInv, ReadInv, ReaderType, Idle
<1>3. hdrs[reader.num] \in HeaderType
  BY <1>1 DEF TypeInv, PlacesInv
<1>4. h \in HeaderType /\ h.blk = hdrs[reader.num].blk
  BY <1>2, <1>3 DEF HeaderType
<1>. HIDE DEF h
<1>5. Existing' = Existing /\ \A k \in Existing : hdrs'[k] = IF k = reader.num THEN h ELSE hdrs[k]
  BY <1>1 DEF Existing
<1>6. PlacesInv'
  BY <1>4, <1>5 DEF TypeInv, PlacesInv
<1>7. ReadInv'
  BY <1>1 DEF ReadInv, ReaderType, Idle
<1>. QED  BY <1>1, <1>6, <1>7 DEF TypeInv, PostsInv, HashesInv

LEMMA NextTyped ==
    ASSUME IndexInv, SearchInv, SearchInv', TypeInv, [Next]_vars PROVE TypeInv'
<1>1. CASE AddMessage
  <2>1. PICK i \in ChosenIds, r \in Referred :
            \/ \E busy \in Busy, n \in HdrBlocks : Post(i, r[1], r[2], busy, n)
            \/ PostFails(i, r[1], r[2])
    BY <1>1 DEF AddMessage
  <2>2. i \in Ids /\ r[1] \in Nat
    BY DEF ChosenIds, Referred, IndexInv
  <2>3. ASSUME NEW busy \in Busy, NEW n \in HdrBlocks, Post(i, r[1], r[2], busy, n)
        PROVE  TypeInv'
    <3>1. IsFiniteSet(busy)
      BY FS_Singleton, FS_EmptySet DEF Busy
    <3>. QED  BY <2>2, <2>3, <3>1, PostTyped
  <2>. QED  BY <2>1, <2>2, <2>3, FailureTyped
<1>2. ASSUME NEW dropped, PurgeNothing(dropped) \/ \E gone : Purge(gone, dropped) PROVE TypeInv'
  BY <1>2, PurgeTyped, NothingTyped
<1>3. CASE WriteIndex
  BY <1>3 DEF WriteIndex, TypeInv, PostsInv, HashesInv, PlacesInv, ReadInv, Existing
<1>4. CASE UNCHANGED vars
  BY <1>4 DEF vars, baseVars, TypeInv, PostsInv, HashesInv, PlacesInv, ReadInv, Existing
<1>. QED  BY <1>1, <1>2, <1>3, <1>4, RenumberTyped, ReaderTyped, CommentTyped DEF Next, Reader

LEMMA InitTyped == Init => TypeInv
<1>. SUFFICES ASSUME Init PROVE TypeInv
  OBVIOUS
<1>1. /\ Existing = {} /\ hashes = <<>> /\ posts = 0 /\ failures = 0
      /\ reader = Idle /\ reader.at = "idle"
  BY DEF Init, Existing, Idle
<1>. QED  BY <1>1, ThreadAssumption
     DEF TypeInv, PostsInv, HashesInv, PlacesInv, ReadInv, ReaderType

LEMMA TypeInvariant == Spec => []TypeInv
<1>1. IndexInv /\ SearchInv /\ SearchInv' /\ TypeInv /\ [Next]_vars => TypeInv'
  BY NextTyped
<1>. QED  BY InitTyped, IndexInvariant, <1>1, PTL DEF Spec

LEMMA TypesFollow == ASSUME IndexInv, TypeInv PROVE TypeOK
<1>1. \A k \in DOMAIN hashes : hashes[k] \in [id : Ids, num : Nat \ {0}]
  <2>1. \A k \in DOMAIN hashes : hashes[k] \in HashType
    BY DEF TypeInv, HashesInv
  <2>. QED  BY <2>1 DEF HashType
<1>2. /\ {Recs[k] : k \in DOMAIN Recs} = Existing
      /\ \A j, k \in DOMAIN Recs : j < k => Recs[j] < Recs[k]
  <2>1. DOMAIN Recs = 1 .. Len(Recs)
    BY DEF IndexInv, NumberLists
  <2>. QED  BY <2>1 DEF IndexInv, Ascending, Numbers
<1>. QED  BY <1>1, <1>2 DEF TypeOK, TypeInv, PostsInv, PlacesInv, ReadInv, IndexInv, Recs

\* The base and its reader, with posts that fail, purges, renumbering and stale
\* headers written back, for any number of each: headers have numbers that were
\* given, and the index names each of them once and in order.
THEOREM TypesRight == Spec => []TypeOK
<1>1. IndexInv /\ TypeInv => TypeOK
  BY TypesFollow
<1>. QED  BY IndexInvariant, TypeInvariant, <1>1, PTL DEF Spec

-----------------------------------------------------------------------------
(* What a thread shows.                                                      *)

\* While nothing has hurt the threads: links lead to messages that are there, ...
Chained == \A n \in Existing : {hdrs[n].first, hdrs[n].next} \subseteq Existing \cup {0}

\* ... a message has the thread of the older one it replies to, or begins one, ...
Rooted == \A n \in Existing :
    /\ hdrs[n].back \in Existing \cup {0} /\ hdrs[n].back < n
    /\ hdrs[n].tid \in Existing
    /\ hdrs[n].back = 0 => hdrs[n].tid = n
    /\ hdrs[n].back # 0 => hdrs[n].tid = hdrs[hdrs[n].back].tid

\* ... and a link of an older message of the thread leads to every reply.
LinkTo(n, p) == hdrs[p].tid = hdrs[n].tid /\ n \in {hdrs[p].first, hdrs[p].next}
Linkable == \A n \in Existing :
    hdrs[n].back # 0 => \E p \in Existing : p < n /\ LinkTo(n, p)

AllThere == lastMsg = posts /\ Existing = 1 .. lastMsg

\* smb_updatethread() when no header is locked: the loop ends at a reply to the
\* same message that has no reply after it.
LEMMA LastReplyIsThere ==
    ASSUME HeadersInv, ChainsReply, Chained, NEW m \in Existing
    PROVE  LET k == LastReply({}, m)
           IN  k \in Existing /\ hdrs[k].next = 0 /\ hdrs[k].back = hdrs[m].back
<1>1. PICK f : /\ \A k \in Nat : f[k] = ReplyFrom({}, f, k)
               /\ \A k \in Nat : LastReply({}, k) = f[k]
  BY LastReplyIs
<1>2. /\ lastMsg \in Nat /\ Existing \subseteq 1 .. lastMsg
      /\ \A k \in Existing : hdrs[k].next \in Nat /\ k \in Nat /\ k # 0
      /\ \A k \in Existing : hdrs[k].next # 0 => hdrs[k].next > k
  <2>1. \A h \in HeaderType : h.next \in Nat
    BY DEF HeaderType
  <2>2. /\ lastMsg \in Nat /\ Existing \subseteq 1 .. lastMsg
        /\ \A k \in Existing : hdrs[k] \in HeaderType /\ Ascends(k, hdrs[k])
    BY DEF HeadersInv
  <2>3. \A k \in Existing : hdrs[k].next # 0 => hdrs[k].next > k
    BY <2>2 DEF Ascends
  <2>4. \A k \in Existing : hdrs[k].next \in Nat
    BY <2>1, <2>2
  <2>. QED  BY <2>2, <2>3, <2>4
<1>. DEFINE last(k) == f[k] \in Existing /\ hdrs[f[k]].next = 0
            bad == {k \in Existing : ~last(k)}
<1>3. ASSUME bad # {} PROVE FALSE
  <2>. DEFINE S == {lastMsg - k : k \in bad}
  <2>0. bad \subseteq 1 .. lastMsg
    BY <1>2
  <2>1. S \in SUBSET Nat /\ S # {}
    BY <1>2, <1>3, <2>0
  <2>2. PICK x \in S : \A y \in S : x <= y
    BY <2>1, LeastNatural
  <2>3. PICK k \in bad : \A j \in bad : j <= k
    <3>1. PICK k \in bad : x = lastMsg - k
      OBVIOUS
    <3>2. \A j \in bad : lastMsg - k <= lastMsg - j /\ j \in Nat /\ k \in Nat
      BY <1>2, <2>2, <3>1
    <3>. HIDE DEF bad, S
    <3>3. \A j \in bad : j <= k
      BY <1>2, <3>2
    <3>. QED  BY <3>3
  <2>4. k \in Existing /\ k \in Nat /\ k # 0 /\ ~last(k) /\ f[k] = ReplyFrom({}, f, k)
    BY <1>1, <1>2
  <2>. DEFINE n == hdrs[k].next
  <2>5. n # 0
    BY <2>4 DEF ReplyFrom
  <2>6. n \in Existing /\ n > k /\ n \in Nat
    BY <1>2, <2>4, <2>5 DEF Chained
  <2>7. f[k] = f[n]
    BY <2>4, <2>5, <2>6 DEF ReplyFrom
  <2>8. n \in bad
    BY <2>4, <2>6, <2>7
  <2>. HIDE DEF bad, n
  <2>. QED  BY <2>3, <2>4, <2>6, <2>8
<1>4. m \notin bad /\ m \in Nat
  BY <1>2, <1>3
<1>5. last(m) /\ LastReply({}, m) = f[m]
  BY <1>1, <1>4
<1>6. LastReply({}, m) # 0
  BY <1>2, <1>5
<1>. QED  BY <1>4, <1>5, <1>6, LastReplyBack

\* One link of a header, that led nowhere, leads to the message num.
Extended(g, h, num) ==
    /\ h.back = g.back /\ h.tid = g.tid
    /\ \/ h.first = g.first /\ g.next = 0 /\ h.next = num
       \/ h.next = g.next /\ g.first = 0 /\ h.first = num

FirstsReply ==
    \A n \in Existing : hdrs[n].first \in Existing => hdrs[hdrs[n].first].back = n

\* A reply is linked from one message of its thread; no other link changes.
LEMMA OneLinkMore ==
    ASSUME HeadersInv, ChainsReply, Chained, Rooted,
           FirstsReply,
           NEW orig \in Existing
    PROVE  LET h == Relinked(orig, lastMsg + 1, {})
           IN  \E p \in Existing :
                  /\ hdrs[p].tid = hdrs[orig].tid
                  /\ Extended(hdrs[p], h[p], lastMsg + 1)
                  /\ \A k \in Existing : k # p => h[k] = hdrs[k]
<1>. DEFINE num == lastMsg + 1
            h == Relinked(orig, num, {})
            m == hdrs[orig].first
<1>1. \A k \in Existing : hdrs[k] \in HeaderType
  BY DEF HeadersInv
<1>2. h = Linked(orig, num, {})
  BY DEF Relinked, CanLink
<1>3. CASE m = 0
  <2>1. \A k \in Existing : k # orig => h[k] = hdrs[k]
    BY <1>2, <1>3 DEF Linked
  <2>2. h[orig] = [hdrs[orig] EXCEPT !.first = num]
    BY <1>2, <1>3 DEF Linked
  <2>. HIDE DEF num, h
  <2>3. /\ h[orig].first = num /\ h[orig].next = hdrs[orig].next
        /\ h[orig].back = hdrs[orig].back /\ h[orig].tid = hdrs[orig].tid
    BY <1>1, <2>2 DEF HeaderType
  <2>. QED  BY <1>3, <2>1, <2>3 DEF Extended, num, h
<1>4. CASE m # 0
  <2>1. m \in Existing /\ hdrs[m].back = orig
    BY <1>4 DEF Chained, FirstsReply
  <2>. DEFINE p == LastReply({}, m)
  <2>2. p \in Existing /\ hdrs[p].next = 0 /\ hdrs[p].back = orig
    BY <2>1, LastReplyIsThere
  <2>3. \A k \in Existing : k # p => h[k] = hdrs[k]
    BY <1>2, <1>4 DEF Linked
  <2>4. h[p] = [hdrs[p] EXCEPT !.next = num]
    BY <1>2, <1>4, <2>2 DEF Linked
  <2>5. orig # 0
    BY DEF HeadersInv
  <2>6. hdrs[p].tid = hdrs[orig].tid
    BY <2>2, <2>5 DEF Rooted
  <2>. HIDE DEF num, h, p
  <2>7. /\ h[p].next = num /\ h[p].first = hdrs[p].first
        /\ h[p].back = hdrs[p].back /\ h[p].tid = hdrs[p].tid
    BY <1>1, <2>2, <2>4 DEF HeaderType
  <2>. QED  BY <2>2, <2>3, <2>6, <2>7 DEF Extended, num, h
<1>. QED  BY <1>3, <1>4

\* A post that finds no header locked: its message is shown with the thread of its
\* original, and whatever was shown before still is.
LEMMA PostShown ==
    ASSUME HeadersInv, ChainsReply, FirstsReply, AllThere, Chained, Rooted, Linkable,
           NEW i, NEW back \in 0 .. lastMsg, NEW ref, NEW n, Post(i, back, ref, {}, n)
    PROVE  (AllThere /\ Chained /\ Rooted /\ Linkable)'
<1>. DEFINE orig == Original(back, ref)
            num  == lastMsg + 1
            old  == Relinked(orig, num, {})
            new  == NewHeader(i, orig, num, {}, n)
<1>1. /\ hdrs' = [k \in Existing \cup {num} |-> IF k = num THEN new ELSE old[k]]
      /\ lastMsg' = num /\ posts' = posts + 1
  BY DEF Post, Announce
<1>2. /\ lastMsg \in Nat /\ num \in Nat \ {0} /\ num = lastMsg + 1
      /\ Existing = 1 .. lastMsg /\ lastMsg = posts
  BY DEF HeadersInv, AllThere
<1>3. orig \in Existing \cup {0}
  BY <1>2 DEF Original
<1>4. new.back = orig /\ new.first = 0 /\ new.next = 0
      /\ new.tid = IF orig \in Existing THEN hdrs[orig].tid ELSE num
  BY DEF NewHeader, CanLink
<1>. HIDE DEF orig, old, new
<1>5. Existing' = Existing \cup {num}
  BY <1>1 DEF Existing
<1>6. /\ hdrs'[num] = new
      /\ \A k \in Existing : hdrs'[k] = old[k] /\ k # num /\ k < num
  BY <1>1, <1>2
<1>. HIDE DEF num
<1>7. AllThere'
  BY <1>1, <1>2, <1>5 DEF AllThere
<1>8. \A k \in Existing : k \in Nat /\ k # 0
  BY <1>2
<1>9. CASE orig = 0
  <2>1. 0 \notin Existing
    BY <1>8
  <2>2. \A k \in Existing : hdrs'[k] = hdrs[k]
    BY <1>6, <1>9, <2>1 DEF old, Relinked, CanLink
  <2>3. Chained'
    BY <1>4, <1>5, <1>6, <2>2 DEF Chained
  <2>4. Rooted'
    <3>1. orig < num
      BY <1>2, <1>9
    <3>. QED  BY <1>4, <1>5, <1>6, <1>9, <2>1, <2>2, <3>1 DEF Rooted
  <2>5. Linkable'
    BY <1>4, <1>5, <1>6, <1>9, <2>2 DEF Linkable, LinkTo
  <2>. QED  BY <1>7, <2>3, <2>4, <2>5
<1>10. CASE orig \in Existing
  <2>1. PICK p \in Existing :
            /\ hdrs[p].tid = hdrs[orig].tid
            /\ Extended(hdrs[p], old[p], num)
            /\ \A k \in Existing : k # p => old[k] = hdrs[k]
    BY <1>10, OneLinkMore DEF old, num
  <2>2. \A k \in Existing :
            /\ hdrs'[k].back = hdrs[k].back /\ hdrs'[k].tid = hdrs[k].tid
            /\ hdrs'[k].first = hdrs[k].first \/ (hdrs[k].first = 0 /\ hdrs'[k].first = num)
            /\ hdrs'[k].next = hdrs[k].next \/ (hdrs[k].next = 0 /\ hdrs'[k].next = num)
    BY <1>6, <2>1 DEF Extended
  <2>3. num \in {hdrs'[p].first, hdrs'[p].next} /\ p < num /\ hdrs'[p].tid = hdrs[orig].tid
    BY <1>6, <2>1 DEF Extended
  <2>4. Chained'
    BY <1>4, <1>5, <1>6, <2>2 DEF Chained
  <2>5. Rooted'
    <3>1. hdrs[orig].tid \in Existing /\ orig < num /\ orig # 0
      BY <1>6, <1>8, <1>10 DEF Rooted
    <3>2. hdrs'[num].tid = hdrs'[orig].tid
      BY <1>4, <1>6, <1>10, <2>2
    <3>. QED  BY <1>4, <1>5, <1>6, <1>10, <2>2, <3>1, <3>2 DEF Rooted
  <2>6. Linkable'
    <3>1. hdrs'[p].tid = hdrs'[num].tid
      BY <1>4, <1>6, <1>10, <2>3
    <3>2. ASSUME NEW k \in Existing, NEW q \in Existing, LinkTo(k, q) PROVE LinkTo(k, q)'
      BY <1>8, <2>2, <3>2 DEF LinkTo
    <3>3. ASSUME NEW k \in Existing, hdrs'[k].back # 0
          PROVE  \E q \in Existing : q < k /\ LinkTo(k, q)'
      BY <2>2, <3>2, <3>3 DEF Linkable
    <3>. QED  BY <1>5, <2>3, <3>1, <3>3 DEF Linkable, LinkTo
  <2>. QED  BY <1>7, <2>4, <2>5, <2>6
<1>. QED  BY <1>3, <1>9, <1>10

\* The threads of a base nothing has hurt: maint() has trimmed the hash file at most.
Unhurt == hurt \subseteq {"trimmed"}
ShownInv == Unhurt => AllThere /\ Chained /\ Rooted /\ Linkable

\* The other steps that hurt no thread change no header.
LEMMA NextShown ==
    ASSUME ThreadInv, ShownInv, [Next]_vars PROVE ShownInv'
<1>. SUFFICES ASSUME Unhurt' PROVE (AllThere /\ Chained /\ Rooted /\ Linkable)'
  BY DEF ShownInv
<1>1. Unhurt
  BY HarmStays DEF Unhurt
<1>2. /\ HeadersInv /\ ChainsReply /\ FirstsReply
      /\ AllThere /\ Chained /\ Rooted /\ Linkable
  BY <1>1 DEF Unhurt, ThreadInv, Sound, NoneFailed, Intact, LinkInv, LinksInv, RightLinks,
              ChainsReply, FirstsReply, ShownInv
<1>3. ASSUME UNCHANGED <<hdrs, lastMsg, posts>>
      PROVE  (AllThere /\ Chained /\ Rooted /\ Linkable)'
  BY <1>2, <1>3 DEF AllThere, Chained, Rooted, Linkable, LinkTo, Existing
<1>4. CASE AddMessage
  <2>1. PICK i \in ChosenIds, r \in Referred :
            \/ \E busy \in Busy, n \in HdrBlocks : Post(i, r[1], r[2], busy, n)
            \/ PostFails(i, r[1], r[2])
    BY <1>4 DEF AddMessage
  <2>2. ~PostFails(i, r[1], r[2])
    BY DEF PostFails, Unhurt
  <2>3. PICK n \in HdrBlocks : Post(i, r[1], r[2], {}, n)
    <3>1. PICK busy \in Busy, n \in HdrBlocks : Post(i, r[1], r[2], busy, n)
      BY <2>1, <2>2
    <3>2. hurt' = hurt \cup (IF busy = {} THEN {} ELSE {"busy"})
      BY <3>1 DEF Post
    <3>3. busy = {}
      BY <3>2 DEF Unhurt
    <3>. QED  BY <3>1, <3>3
  <2>4. r[1] \in 0 .. lastMsg
    BY <1>2 DEF Referred, HeadersInv
  <2>. QED  BY <1>2, <2>3, <2>4, PostShown
<1>5. ASSUME NEW gone, NEW dropped, Purge(gone, dropped) PROVE FALSE
  BY <1>5 DEF Purge, Unhurt
<1>6. ~FixRenumber
  BY DEF FixRenumber, Unhurt
<1>7. ASSUME WriteIndex \/ \E dropped : PurgeNothing(dropped)
      PROVE  (AllThere /\ Chained /\ Rooted /\ Linkable)'
  BY <1>3, <1>7 DEF WriteIndex, PurgeNothing
<1>8. CASE (\E n \in 1 .. lastMsg : SearchStart(n)) \/ Search \/ LoadHeader \/ CloseMessage
  BY <1>3, <1>8 DEF SearchStart, Search, SearchFails, LowerHalf, UpperHalf, SearchFinds,
                    LoadHeader, CloseMessage, baseVars
<1>9. CASE WriteComment
  <2>1. hdrs' = hdrs
    BY <1>9 DEF WriteComment, Unhurt
  <2>. QED  BY <1>3, <1>9, <2>1 DEF WriteComment
<1>10. CASE UNCHANGED vars
  BY <1>3, <1>10 DEF vars, baseVars
<1>. QED  BY <1>4, <1>5, <1>6, <1>7, <1>8, <1>9, <1>10 DEF Next, Reader

LEMMA InitShown == Init => ShownInv
<1>. SUFFICES ASSUME Init PROVE ShownInv
  OBVIOUS
<1>1. Existing = {} /\ lastMsg = 0 /\ posts = 0
  BY DEF Init, Existing
<1>. QED  BY <1>1 DEF ShownInv, AllThere, Chained, Rooted, Linkable

\* show_thread(): what the links reach from message r is shown after as many rounds
\* as there can be posts.
Reached(S) == S \cup {m \in Existing : \E k \in S : m \in {hdrs[k].first, hdrs[k].next}}

LEMMA ShownRuns ==
    ASSUME NEW r \in Existing
    PROVE  \E f \in [0 .. MaxPosts -> SUBSET Existing] :
              /\ f[0] = {r} /\ ShownFrom(r) = f[MaxPosts]
              /\ \A k \in 1 .. MaxPosts : f[k] = Reached(f[k - 1])
<1>. DEFINE N == MaxPosts
            X == SUBSET Existing
            step(S) == S \cup {m \in Existing : \E k \in S : m \in {hdrs[k].first, hdrs[k].next}}
            D(f) == [k \in 0 .. N |-> IF k = 0 THEN {r} ELSE step(f[k - 1])]
            c == CHOOSE h : h = D(h)
            g == [k \in 1 .. N |-> [S \in X |-> step(S)]]
<1>1. N \in Nat /\ {r} \in X
  BY ThreadAssumption
<1>2. g \in Loops(N, X)
  BY DEF Loops
<1>. HIDE DEF N, X, g
<1>3. PICK f \in [0 .. N -> X] : f[0] = {r} /\ \A k \in 1 .. N : f[k] = g[k][f[k - 1]]
  <2>1. Values(N, X, {r}, g) # {}
    BY <1>1, <1>2, LoopsRun
  <2>. QED  BY <2>1 DEF Values
<1>4. \A k \in 1 .. N : f[k] = step(f[k - 1])
  <2>1. ASSUME NEW k \in 1 .. N PROVE f[k] = step(f[k - 1])
    <3>1. f[k - 1] \in X
      BY <1>1, <1>3
    <3>2. g[k][f[k - 1]] = step(f[k - 1])
      BY <3>1 DEF g
    <3>. QED  BY <1>3, <3>2
  <2>. QED  BY <2>1
<1>. HIDE DEF step
<1>5. f = D(f)
  <2>1. \A k \in 0 .. N : k = 0 \/ k \in 1 .. N
    BY <1>1
  <2>. QED  BY <1>3, <1>4, <2>1
<1>6. c = D(c)
  BY <1>5
<1>7. ShownFrom(r) = c[N]
  BY DEF ShownFrom, N, step
<1>. HIDE DEF c
<1>8. c[0] = {r} /\ \A k \in 1 .. N : c[k] = step(c[k - 1])
  <2>1. \A k \in 0 .. N : c[k] = IF k = 0 THEN {r} ELSE step(c[k - 1])
    BY <1>6
  <2>2. 0 \in 0 .. N /\ \A k \in 1 .. N : k \in 0 .. N /\ k # 0
    BY <1>1
  <2>. HIDE DEF D
  <2>. QED  BY <2>1, <2>2
<1>9. c \in [0 .. N -> X]
  <2>. DEFINE P == {k \in 0 .. N : c[k] \in X}
  <2>1. \A k \in 0 .. N : k \in P <=> c[k] \in X
    OBVIOUS
  <2>. HIDE DEF P
  <2>2. 0 \in P
    <3>1. 0 \in 0 .. N
      BY <1>1
    <3>. QED  BY <1>1, <1>8, <2>1, <3>1
  <2>3. \A j \in 0 .. N - 1 : j \in P => j + 1 \in P
    <3>. SUFFICES ASSUME NEW j \in 0 .. N - 1, j \in P PROVE j + 1 \in P
      OBVIOUS
    <3>1. /\ j \in 0 .. N /\ j + 1 \in 1 .. N /\ j + 1 \in 0 .. N
          /\ j + 1 - 1 = j
      BY <1>1
    <3>2. c[j + 1] = step(c[j])
      BY <1>8, <3>1
    <3>3. step(c[j]) \in X
      BY <2>1, <3>1 DEF step, X
    <3>. QED  BY <2>1, <3>1, <3>2, <3>3
  <2>4. \A k \in 0 .. N : k \in P
    BY <1>1, <2>2, <2>3, Induct
  <2>5. \A k \in 0 .. N : c[k] \in X
    BY <2>1, <2>4
  <2>. QED  BY <1>6, <2>5
<1>. HIDE DEF D
<1>. QED  BY <1>7, <1>8, <1>9 DEF N, X, step, Reached

\* A reader at message n is shown it: from the message its thread has its number of
\* he gets to n over messages of the thread with lower numbers.
LEMMA ThreadFollows ==
    ASSUME PostsInv, HeadersInv, ShownInv PROVE ThreadShown
<1>. SUFFICES ASSUME Unhurt, NEW n \in Existing PROVE n \in ShownFrom(FirstInThread(n))
  BY DEF ThreadShown, Unhurt
<1>1. /\ Chained /\ Rooted /\ Linkable
      /\ Existing = 1 .. lastMsg /\ lastMsg \in Nat /\ lastMsg <= MaxPosts
  BY DEF ShownInv, AllThere, HeadersInv, PostsInv
<1>2. MaxPosts \in Nat
  BY ThreadAssumption
<1>. DEFINE r == hdrs[n].tid
<1>3. FirstInThread(n) = r /\ r \in Existing
  BY <1>1 DEF FirstInThread, Rooted
<1>. HIDE DEF r
<1>4. PICK f \in [0 .. MaxPosts -> SUBSET Existing] :
          /\ f[0] = {r} /\ ShownFrom(r) = f[MaxPosts]
          /\ \A k \in 1 .. MaxPosts : f[k] = Reached(f[k - 1])
  BY <1>3, ShownRuns
\* What is shown after so many rounds has every message of the thread that far.
<1>. DEFINE Far(k) == {m \in Existing : m <= k /\ hdrs[m].tid = r}
            P == {k \in 0 .. MaxPosts : Far(k) \subseteq f[k]}
<1>5. 0 \in P
  <2>1. Far(0) = {}
    BY <1>1
  <2>2. 0 \in 0 .. MaxPosts
    BY <1>2
  <2>. QED  BY <2>1, <2>2
<1>6. ASSUME NEW j \in 0 .. MaxPosts - 1, j \in P PROVE j + 1 \in P
  <2>1. /\ j \in Nat /\ j + 1 \in 1 .. MaxPosts /\ j + 1 \in 0 .. MaxPosts
        /\ j + 1 - 1 = j
    BY <1>2
  <2>2. f[j + 1] = Reached(f[j]) /\ Far(j) \subseteq f[j]
    BY <1>4, <1>6, <2>1
  <2>3. ASSUME NEW m \in Far(j + 1) PROVE m \in f[j + 1]
    <3>1. m \in Existing /\ m \in Nat /\ m <= j + 1 /\ hdrs[m].tid = r
      BY <1>1
    <3>2. CASE hdrs[m].back = 0
      <4>1. m = r
        BY <1>1, <3>1, <3>2 DEF Rooted
      <4>2. r \in f[0] /\ \A k \in 0 .. MaxPosts - 1 : r \in f[k] => r \in f[k + 1]
        <5>1. \A k \in 0 .. MaxPosts - 1 : k + 1 \in 1 .. MaxPosts /\ k + 1 - 1 = k
          BY <1>2
        <5>. QED  BY <1>4, <5>1 DEF Reached
      <4>. DEFINE Q == {k \in 0 .. MaxPosts : r \in f[k]}
      <4>3. \A k \in 0 .. MaxPosts : k \in Q <=> r \in f[k]
        OBVIOUS
      <4>. HIDE DEF Q
      <4>4. /\ 0 \in 0 .. MaxPosts
            /\ \A k \in 0 .. MaxPosts - 1 : k \in 0 .. MaxPosts /\ k + 1 \in 0 .. MaxPosts
        BY <1>2
      <4>5. 0 \in Q /\ \A k \in 0 .. MaxPosts - 1 : k \in Q => k + 1 \in Q
        BY <4>2, <4>3, <4>4
      <4>6. \A k \in 0 .. MaxPosts : k \in Q
        BY <1>2, <4>5, Induct
      <4>. QED  BY <2>1, <4>1, <4>3, <4>6
    <3>3. CASE hdrs[m].back # 0
      <4>1. PICK p \in Existing : p < m /\ LinkTo(m, p)
        BY <1>1, <3>1, <3>3 DEF Linkable
      <4>2. p \in Nat /\ p <= j
        BY <1>1, <2>1, <3>1, <4>1
      <4>3. p \in Far(j)
        BY <3>1, <4>1, <4>2 DEF LinkTo
      <4>. QED  BY <2>2, <3>1, <4>1, <4>3 DEF LinkTo, Reached
    <3>. QED  BY <3>2, <3>3
  <2>. QED  BY <2>1, <2>3
<1>7. Far(MaxPosts) \subseteq f[MaxPosts]
  <2>1. \A j \in 0 .. MaxPosts - 1 : j \in P => j + 1 \in P
    BY <1>6
  <2>. HIDE DEF P
  <2>2. \A k \in 0 .. MaxPosts : k \in P
    BY <1>2, <1>5, <2>1, Induct
  <2>3. MaxPosts \in 0 .. MaxPosts
    BY <1>2
  <2>. QED  BY <2>2, <2>3 DEF P
<1>8. n \in Far(MaxPosts)
  <2>1. n <= MaxPosts
    BY <1>1, <1>2
  <2>. QED  BY <2>1 DEF r
<1>. QED  BY <1>3, <1>4, <1>7, <1>8

\* smb_first_in_thread() and show_thread(), with posts that reply to any message,
\* searches and comments written back unchanged meanwhile: the thread a reader is
\* shown has the message he is at, while nothing has hurt the links.
THEOREM ThreadsShown == Spec => []ThreadShown
<1>1. ThreadInv /\ ShownInv /\ [Next]_vars => ShownInv'
  BY NextShown
<1>2. ThreadInv /\ TypeInv /\ ShownInv => ThreadShown
  <2>. SUFFICES ASSUME ThreadInv, TypeInv, ShownInv PROVE ThreadShown
    OBVIOUS
  <2>1. CASE Unhurt
    <3>1. HeadersInv
      BY <2>1 DEF Unhurt, ThreadInv, Sound, Intact, LinkInv
    <3>. QED  BY <3>1, ThreadFollows DEF TypeInv
  <2>2. CASE ~Unhurt
    BY <2>2 DEF ThreadShown, Unhurt
  <2>. QED  BY <2>1, <2>2
<1>. QED  BY InitThreads, NextThreads, InitShown, TypeInvariant, <1>1, <1>2, PTL DEF Spec
-----------------------------------------------------------------------------
(* Links after a renumbering.                                                *)

\* If headers have one size they lie in slots of it, and none lies behind as many
\* slots as there were messages before it: fixsmb, which numbers headers by their
\* places, gives none a higher number than it had.
SlotInv(c) == Sound => \A k \in Existing : \E q \in 0 .. k - 1 : hdrs[k].blk = c * q

LEMMA Slots ==
    ASSUME NEW c \in Nat \ {0}, NEW p \in Nat, NEW q \in Nat
    PROVE  /\ c * p \in Nat /\ p < q => c * p + c <= c * q
           /\ c * p = c * q => p = q
<1>1. ASSUME NEW i \in Nat, NEW j \in Nat, i < j PROVE c * i + c <= c * j
  <2>. DEFINE d == j - i - 1
  <2>1. d \in Nat /\ j = i + 1 + d
    BY <1>1
  <2>. HIDE DEF d
  <2>2. c * d \in Nat /\ c * i \in Nat
    BY <2>1
  <2>3. c * (i + 1 + d) = c * i + c + c * d
    BY <2>1
  <2>. QED  BY <2>1, <2>2, <2>3
<1>2. c * p \in Nat /\ c * q \in Nat
  OBVIOUS
<1>3. c * p = c * q => p = q
  <2>1. p < q \/ q < p \/ p = q
    OBVIOUS
  <2>2. p < q => c * p + c <= c * q
    BY <1>1
  <2>3. q < p => c * q + c <= c * p
    BY <1>1
  <2>. QED  BY <1>2, <2>1, <2>2, <2>3
<1>. QED  BY <1>1, <1>2, <1>3

\* Every block is in a slot.
LEMMA InSlot ==
    ASSUME NEW c \in Nat \ {0}, NEW b \in Nat
    PROVE  \E q \in Nat : c * q <= b /\ b < c * q + c
<1>. DEFINE P == {j \in 0 .. b : \E q \in Nat : c * q <= j /\ j < c * q + c}
<1>1. 0 \in P
  <2>1. c * 0 = 0 /\ 0 \in 0 .. b /\ 0 \in Nat
    OBVIOUS
  <2>2. c * 0 <= 0 /\ 0 < c * 0 + c
    BY <2>1
  <2>. QED  BY <2>1, <2>2
<1>2. ASSUME NEW j \in 0 .. b - 1, j \in P PROVE j + 1 \in P
  <2>1. PICK q \in Nat : c * q <= j /\ j < c * q + c
    BY <1>2
  <2>2. /\ c * q \in Nat /\ j \in Nat /\ j + 1 \in 0 .. b /\ q + 1 \in Nat
        /\ c * (q + 1) = c * q + c
    OBVIOUS
  <2>3. CASE j + 1 < c * q + c
    <3>1. c * q <= j + 1
      BY <2>1, <2>2
    <3>. QED  BY <2>2, <2>3, <3>1
  <2>4. CASE ~(j + 1 < c * q + c)
    <3>1. j + 1 = c * (q + 1)
      BY <2>1, <2>2, <2>4
    <3>2. c * (q + 1) <= j + 1 /\ j + 1 < c * (q + 1) + c
      BY <2>2, <3>1
    <3>. QED  BY <2>2, <3>2
  <2>. QED  BY <2>3, <2>4
<1>. HIDE DEF P
<1>3. \A j \in 0 .. b - 1 : j \in P => j + 1 \in P
  BY <1>2
<1>4. \A j \in 0 .. b : j \in P
  BY <1>1, <1>3, Induct
<1>. QED  BY <1>4 DEF P

\* The first free run is a slot, and each slot before it has a header.
LEMMA FirstFreeSlot ==
    ASSUME NEW c \in HdrBlocks, FreeRuns(c) # {},
           \A k \in Existing : hdrs[k].n = c /\ \E q \in Nat : hdrs[k].blk = c * q
    PROVE  \E q \in Nat : /\ FirstFree(c) = c * q
                          /\ \A p \in 0 .. q - 1 : \E k \in Existing : hdrs[k].blk = c * p
<1>. DEFINE f == FirstFree(c)
<1>1. c \in Nat \ {0} /\ MaxBlocks \in Nat
  BY ThreadAssumption
<1>2. f \in Nat /\ f \in FreeRuns(c) /\ \A b \in FreeRuns(c) : f <= b
  <2>1. FreeRuns(c) \in SUBSET Nat
    BY ThreadAssumption DEF FreeRuns
  <2>2. \E b \in FreeRuns(c) : \A d \in FreeRuns(c) : b <= d
    BY <2>1, LeastNatural
  <2>. QED  BY <2>2, FirstFreeIsBlock DEF FirstFree
<1>. HIDE DEF f
<1>3. PICK q \in Nat : c * q <= f /\ f < c * q + c
  BY <1>1, <1>2, InSlot
\* A block of a slot is in use if a header lies in that slot.
<1>4. ASSUME NEW p \in Nat, NEW x \in c * p .. c * p + c - 1, x \in BlocksUsed
      PROVE  \E k \in Existing : hdrs[k].blk = c * p
  <2>1. PICK k \in Existing : x \in hdrs[k].blk .. hdrs[k].blk + hdrs[k].n - 1
    BY <1>4 DEF BlocksUsed
  <2>2. PICK r \in Nat : hdrs[k].blk = c * r /\ hdrs[k].n = c
    OBVIOUS
  <2>3. /\ c * p \in Nat /\ c * r \in Nat
        /\ p < r => c * p + c <= c * r
        /\ r < p => c * r + c <= c * p
    BY <1>1, Slots
  <2>4. x \in c * r .. c * r + c - 1 /\ x \in Nat
    BY <1>1, <2>1, <2>2, <2>3
  <2>5. ~(p < r) /\ ~(r < p)
    BY <1>1, <1>4, <2>3, <2>4
  <2>6. p = r
    BY <2>5
  <2>. QED  BY <2>2, <2>6
\* A slot up to f that has no header is a free run.
<1>5. ASSUME NEW p \in Nat, c * p <= f, ~\E k \in Existing : hdrs[k].blk = c * p
      PROVE  c * p \in FreeRuns(c)
  <2>1. c * p \in 0 .. MaxBlocks - c
    <3>1. f \in 0 .. MaxBlocks - c
      BY <1>2 DEF FreeRuns
    <3>2. c * p \in Nat
      BY <1>1, Slots
    <3>. QED  BY <1>1, <1>5, <3>1, <3>2
  <2>2. (c * p .. c * p + c - 1) \cap BlocksUsed = {}
    BY <1>4, <1>5
  <2>. QED  BY <2>1, <2>2 DEF FreeRuns
<1>6. f = c * q
  <2>1. c * q \in Nat
    BY <1>1, Slots
  <2>2. f \in c * q .. c * q + c - 1 /\ f \in f .. f + c - 1
    BY <1>1, <1>2, <1>3, <2>1
  <2>3. f \notin BlocksUsed
    BY <1>2, <2>2 DEF FreeRuns
  <2>4. ~\E k \in Existing : hdrs[k].blk = c * q
    <3>. SUFFICES ASSUME NEW k \in Existing, hdrs[k].blk = c * q PROVE FALSE
      OBVIOUS
    <3>1. f \in BlocksUsed
      BY <2>2 DEF BlocksUsed
    <3>. QED  BY <2>3, <3>1
  <2>5. f <= c * q
    BY <1>2, <1>3, <1>5, <2>4
  <2>. QED  BY <1>2, <1>3, <2>1, <2>5
<1>7. ASSUME NEW p \in 0 .. q - 1 PROVE \E k \in Existing : hdrs[k].blk = c * p
  <2>1. p \in Nat /\ p < q
    BY <1>3
  <2>2. c * p + c <= c * q /\ c * p \in Nat /\ c * q \in Nat
    BY <1>1, <2>1, Slots
  <2>3. c * p < f
    BY <1>1, <1>6, <2>2
  <2>. QED  BY <1>2, <1>5, <2>1, <2>2, <2>3
<1>. QED  BY <1>6, <1>7 DEF f

\* A set of headers that lie in different slots has no more of them than there are
\* slots; so many slots that have headers are no more than the headers.
LEMMA SlotsCount ==
    ASSUME NEW S, NEW n \in Nat, NEW f \in [S -> Nat],
           \A j, k \in S : f[j] = f[k] => j = k
    PROVE  /\ (\A k \in S : f[k] < n) => IsFiniteSet(S) /\ Cardinality(S) <= n
           /\ IsFiniteSet(S) /\ (\A p \in 0 .. n - 1 : \E k \in S : f[k] = p)
              => n <= Cardinality(S)
<1>. DEFINE T == 0 .. n - 1
<1>1. IsFiniteSet(T) /\ Cardinality(T) = n /\ T \subseteq Nat /\ \A k \in Nat : k < n => k \in T
  BY FS_Interval
<1>. HIDE DEF T
<1>2. ASSUME \A k \in S : f[k] < n PROVE IsFiniteSet(S) /\ Cardinality(S) <= n
  <2>1. f \in [S -> T]
    BY <1>1, <1>2
  <2>2. f \in Injection(S, T)
    BY <2>1 DEF Injection, IsInjective
  <2>. QED  BY <1>1, <2>2, FS_Injection
<1>3. ASSUME IsFiniteSet(S), \A p \in T : \E k \in S : f[k] = p PROVE n <= Cardinality(S)
  <2>. DEFINE g == [p \in T |-> CHOOSE k \in S : f[k] = p]
  <2>1. \A p \in T : g[p] \in S /\ f[g[p]] = p
    BY <1>3
  <2>2. g \in [T -> S]
    BY <1>3
  <2>. HIDE DEF g
  <2>3. g \in Injection(T, S)
    BY <2>1, <2>2 DEF Injection, IsInjective
  <2>. QED  BY <1>1, <1>3, <2>3, FS_Injection
<1>. QED  BY <1>2, <1>3 DEF T

\* The slots of the headers.
LEMMA SlotOfHeader ==
    ASSUME NEW c \in Nat \ {0}, PlacesInv, IndexInv, SlotInv(c), Sound
    PROVE  \E s \in [Existing -> Nat] :
              /\ \A k \in Existing : s[k] < k /\ hdrs[k].blk = c * s[k]
              /\ \A j, k \in Existing : s[j] = s[k] => j = k
<1>. DEFINE s == [k \in Existing |-> CHOOSE q \in 0 .. k - 1 : hdrs[k].blk = c * q]
<1>1. \A k \in Existing : s[k] \in 0 .. k - 1 /\ hdrs[k].blk = c * s[k]
  BY DEF SlotInv
<1>2. \A k \in Existing : k \in Nat
  BY DEF IndexInv
<1>3. \A k \in Existing : s[k] \in Nat /\ s[k] < k
  BY <1>1, <1>2
<1>4. s = [k \in Existing |-> s[k]]
  OBVIOUS
<1>. HIDE DEF s
<1>5. s \in [Existing -> Nat]
  BY <1>3, <1>4
<1>6. \A j, k \in Existing : s[j] = s[k] => j = k
  BY <1>1 DEF PlacesInv
<1>. QED  BY <1>1, <1>3, <1>5, <1>6

LEMMA NewSlot ==
    ASSUME NEW c, HdrBlocks = {c}, PlacesInv, IndexInv, SlotInv(c), Sound, FreeRuns(c) # {}
    PROVE  \E q \in 0 .. lastMsg : FirstFree(c) = c * q
<1>1. c \in HdrBlocks /\ c \in Nat \ {0}
  BY ThreadAssumption
<1>2. PICK s \in [Existing -> Nat] :
          /\ \A k \in Existing : s[k] < k /\ hdrs[k].blk = c * s[k]
          /\ \A j, k \in Existing : s[j] = s[k] => j = k
  BY <1>1, SlotOfHeader
<1>3. \A k \in Existing : hdrs[k].n = c
  BY DEF PlacesInv, HeaderType
<1>4. \A k \in Existing : s[k] \in Nat
  BY <1>2
<1>5. PICK q \in Nat : /\ FirstFree(c) = c * q
                       /\ \A p \in 0 .. q - 1 : \E k \in Existing : hdrs[k].blk = c * p
  BY <1>1, <1>2, <1>3, <1>4, FirstFreeSlot
<1>6. \A p \in 0 .. q - 1 : \E k \in Existing : s[k] = p
  <2>1. ASSUME NEW p \in 0 .. q - 1, NEW k \in Existing, hdrs[k].blk = c * p PROVE s[k] = p
    <3>1. p \in Nat /\ c * s[k] = c * p
      BY <1>2, <2>1
    <3>. QED  BY <1>1, <1>4, <3>1, Slots
  <2>. QED  BY <1>5, <2>1
<1>7. q <= Cardinality(Existing)
  BY <1>2, <1>6, ExistingFinite, SlotsCount
<1>8. Cardinality(Existing) <= lastMsg
  <2>1. IsFiniteSet(1 .. lastMsg) /\ Cardinality(1 .. lastMsg) = lastMsg
    BY FS_Interval DEF IndexInv
  <2>2. Existing \in SUBSET (1 .. lastMsg)
    BY DEF IndexInv
  <2>. QED  BY <2>1, <2>2, FS_Subset
<1>9. q \in 0 .. lastMsg
  BY <1>7, <1>8, ExistingFinite DEF IndexInv
<1>. QED  BY <1>5, <1>9

\* No header gets a higher number.
LEMMA RenumberDown ==
    ASSUME NEW c \in Nat \ {0}, PlacesInv, IndexInv, SlotInv(c), Sound, NEW n \in Existing
    PROVE  Renumbered(n) <= n
<1>1. PICK s \in [Existing -> Nat] :
          /\ \A k \in Existing : s[k] < k /\ hdrs[k].blk = c * s[k]
          /\ \A j, k \in Existing : s[j] = s[k] => j = k
  BY SlotOfHeader
<1>. DEFINE S == {k \in Existing : hdrs[k].blk <= hdrs[n].blk}
            f == [k \in S |-> s[k]]
<1>2. n \in Nat /\ s[n] \in Nat /\ s[n] < n
  BY <1>1 DEF IndexInv
<1>3. \A k \in S : s[k] <= s[n]
  <2>. SUFFICES ASSUME NEW k \in S PROVE s[k] <= s[n]
    OBVIOUS
  <2>1. s[k] \in Nat /\ c * s[k] <= c * s[n]
    BY <1>1
  <2>2. s[n] < s[k] => c * s[n] + c <= c * s[k]
    BY <1>2, <2>1, Slots
  <2>3. c * s[n] \in Nat /\ c * s[k] \in Nat
    BY <1>2, <2>1, Slots
  <2>. QED  BY <1>2, <2>1, <2>2, <2>3
<1>4. f \in [S -> Nat] /\ \A j, k \in S : f[j] = f[k] => j = k
  BY <1>1
<1>5. \A k \in S : f[k] < n
  <2>1. \A k \in S : f[k] = s[k] /\ s[k] \in Nat
    BY <1>1
  <2>. QED  BY <1>2, <1>3, <2>1
<1>. HIDE DEF f, S
<1>6. Cardinality(S) <= n
  BY <1>2, <1>4, <1>5, SlotsCount
<1>. QED  BY <1>6 DEF S, Renumbered

LEMMA RenumberKeeps ==
    ASSUME NEW c \in Nat \ {0}, PlacesInv, IndexInv, SlotInv(c), LinkInv, FixRenumber, Sound
    PROVE  LinkInv'
<1>. DEFINE total == Cardinality(Existing)
            old(n) == CHOOSE k \in Existing : Renumbered(k) = n
<1>1. /\ hdrs' = [n \in 1 .. total |-> hdrs[old(n)]] /\ Existing' = 1 .. total
      /\ lastMsg' = total
  BY DEF FixRenumber, Existing
<1>2. total \in Nat /\ \A k \in Existing : k \in Nat
  BY ExistingFinite DEF IndexInv
<1>. HIDE DEF total
<1>3. \A n \in 1 .. total : old(n) \in Existing /\ Renumbered(old(n)) = n
  <2>1. \A n \in 1 .. total : \E k \in Existing : Renumbered(k) = n
    BY EveryNumber DEF total
  <2>. QED  BY <2>1
<1>. HIDE DEF old
<1>4. ASSUME NEW n \in 1 .. total
      PROVE  hdrs'[n] \in HeaderType /\ Ascends(n, hdrs'[n])
  <2>. DEFINE k == old(n)
  <2>1. k \in Existing /\ n <= k /\ k \in Nat /\ n \in Nat
    <3>1. k \in Existing /\ Renumbered(k) = n
      BY <1>3
    <3>2. Renumbered(k) <= k
      BY <1>1, <3>1, RenumberDown
    <3>3. k \in Nat
      BY <1>2, <3>1
    <3>. HIDE DEF k
    <3>. QED  BY <1>2, <3>1, <3>2, <3>3
  <2>2. hdrs'[n] = hdrs[k]
    BY <1>1
  <2>. HIDE DEF k
  <2>. DEFINE h == hdrs[k]
  <2>3. h \in HeaderType /\ Ascends(k, h)
    BY <2>1 DEF LinkInv, HeadersInv
  <2>. HIDE DEF h
  <2>4. h.first \in Nat /\ h.next \in Nat
    BY <2>3 DEF HeaderType
  <2>5. Ascends(n, h)
    BY <2>1, <2>3, <2>4 DEF Ascends
  <2>. QED  BY <2>2, <2>3, <2>5 DEF h
<1>5. HeadersInv'
  BY <1>1, <1>2, <1>4 DEF HeadersInv
<1>6. reader' = reader \/ (reader.at = "search" /\ reader' = [reader EXCEPT !.due = FALSE])
  BY DEF FixRenumber, Disturbed
<1>7. "at" \in DOMAIN reader' /\ (reader'.at = "loaded" => reader' = reader)
  BY <1>6 DEF LinkInv, ReaderInv
<1>. QED  BY <1>5, <1>7 DEF LinkInv, ReaderInv, Ascends

LEMMA PostSlots ==
    ASSUME NEW c, HdrBlocks = {c}, PlacesInv, IndexInv, SlotInv(c), Sound,
           NEW i, NEW back, NEW ref, NEW busy, Post(i, back, ref, busy, c)
    PROVE  SlotInv(c)'
<1>. DEFINE orig == Original(back, ref)
            num  == lastMsg + 1
            old  == Relinked(orig, num, busy)
            new  == NewHeader(i, orig, num, busy, c)
<1>1. /\ hdrs' = [k \in Existing \cup {num} |-> IF k = num THEN new ELSE old[k]]
      /\ FreeRuns(c) # {}
  BY DEF Post
<1>2. lastMsg \in Nat /\ num \notin Existing /\ num - 1 = lastMsg
  BY DEF IndexInv
<1>3. \A k \in Existing : old[k].blk = hdrs[k].blk
  BY <1>2, RelinkedPlace
<1>4. \E q \in 0 .. num - 1 : new.blk = c * q
  BY <1>1, <1>2, NewSlot DEF NewHeader
<1>. HIDE DEF orig, num, old, new
<1>5. Existing' = Existing \cup {num} /\ hdrs'[num] = new
      /\ \A k \in Existing : hdrs'[k] = old[k]
  BY <1>1, <1>2 DEF Existing
<1>6. \A k \in Existing : \E q \in 0 .. k - 1 : hdrs'[k].blk = c * q
  BY <1>3, <1>5 DEF SlotInv
<1>. QED  BY <1>4, <1>5, <1>6 DEF SlotInv

LEMMA NextSlots ==
    ASSUME NEW c, HdrBlocks = {c}, IndexInv, TypeInv, Sound => LinkInv, SlotInv(c), [Next]_vars
    PROVE  SlotInv(c)'
<1>. SUFFICES ASSUME Sound' PROVE SlotInv(c)'
  BY DEF SlotInv
<1>1. Sound /\ LinkInv /\ ~FixRenumber /\ PlacesInv /\ lastMsg \in Nat
  <2>1. FixRenumber => "renumbered" \in hurt'
    BY HarmStays DEF FixRenumber
  <2>. QED  BY <2>1, HarmStays DEF Sound, Intact, TypeInv, IndexInv
<1>2. ASSUME Existing' \subseteq Existing, \A k \in Existing' : hdrs'[k].blk = hdrs[k].blk
      PROVE  SlotInv(c)'
  BY <1>1, <1>2 DEF SlotInv
<1>3. CASE AddMessage
  <2>1. PICK i \in ChosenIds, r \in Referred :
            \/ \E busy \in Busy, n \in HdrBlocks : Post(i, r[1], r[2], busy, n)
            \/ PostFails(i, r[1], r[2])
    BY <1>3 DEF AddMessage
  <2>2. ASSUME NEW busy, Post(i, r[1], r[2], busy, c) PROVE SlotInv(c)'
    BY <1>1, <2>2, PostSlots
  <2>3. ASSUME PostFails(i, r[1], r[2]) PROVE SlotInv(c)'
    <3>. DEFINE orig == Original(r[1], r[2])
    <3>1. hdrs' = Relinked(orig, lastMsg + 1, {})
      BY <2>3 DEF PostFails
    <3>2. Existing' = Existing
      BY <3>1, RelinkedDomain DEF Existing
    <3>3. \A k \in Existing : Relinked(orig, lastMsg + 1, {})[k].blk = hdrs[k].blk
      BY <1>1, RelinkedPlace
    <3>. QED  BY <1>2, <3>1, <3>2, <3>3
  <2>. QED  BY <2>1, <2>2, <2>3
<1>4. ASSUME NEW gone, NEW dropped, Purge(gone, dropped) PROVE SlotInv(c)'
  BY <1>2, <1>4 DEF Purge, Existing
<1>5. ASSUME hdrs' = hdrs PROVE SlotInv(c)'
  BY <1>2, <1>5 DEF Existing
<1>6. ASSUME WriteIndex \/ \E dropped : PurgeNothing(dropped) PROVE SlotInv(c)'
  BY <1>5, <1>6 DEF WriteIndex, PurgeNothing
<1>7. CASE (\E n \in 1 .. lastMsg : SearchStart(n)) \/ Search \/ LoadHeader \/ CloseMessage
  BY <1>1, <1>5, <1>7, ReadingSteps DEF LinkInv, ReaderInv
<1>8. CASE WriteComment
  <2>. DEFINE n == reader.num
              h == [reader.hdr EXCEPT !.blk = hdrs[n].blk]
  <2>1. n \in Existing /\ hdrs' = [hdrs EXCEPT ![n] = h] /\ reader.hdr \in HeaderType
    BY <1>1, <1>8 DEF WriteComment, LinkInv, ReaderInv
  <2>2. h.blk = hdrs[n].blk
    BY <2>1 DEF HeaderType
  <2>. HIDE DEF h
  <2>. QED  BY <1>2, <2>1, <2>2 DEF Existing
<1>9. CASE UNCHANGED vars
  BY <1>5, <1>9 DEF vars, baseVars
<1>. QED  BY <1>1, <1>3, <1>4, <1>6, <1>7, <1>8, <1>9 DEF Next, Reader

Size == CHOOSE c : HdrBlocks = {c}
Once == Sound \/ Intact({"twice"})
SizedInv == (Once => LinkInv) /\ (Renumber => SlotInv(Size))

\* smb_updatethread(), with posts that fail or find a header locked, maint() and
\* operators who write back old headers, for any number of each: the links
\* show_thread() and smb_last_in_branch() follow lead to higher numbers, after one
\* fixsmb -renumber too if headers have one size.
THEOREM LinksLeadOn ==
    ASSUME ~Renumber \/ \E c : HdrBlocks = {c}
    PROVE  Spec => []LinksAscend
<1>1. Renumber => HdrBlocks = {Size} /\ Size \in Nat \ {0}
  BY ThreadAssumption DEF Size
<1>2. Init => SizedInv
  <2>1. Init => Existing = {}
    BY DEF Init, Existing
  <2>. QED  BY <2>1, InitLinks DEF SizedInv, SlotInv
<1>3. IndexInv /\ TypeInv /\ SizedInv /\ [Next]_vars => SizedInv'
  <2>. SUFFICES ASSUME IndexInv, TypeInv, SizedInv, [Next]_vars PROVE SizedInv'
    OBVIOUS
  <2>1. PlacesInv /\ hurt \subseteq hurt'
    BY HarmStays DEF TypeInv
  <2>2. CASE FixRenumber
    <3>1. /\ Renumber /\ ~Sound'
          /\ Intact({"twice"})' => Sound
      BY <2>1, <2>2 DEF FixRenumber, Sound, Intact
    <3>2. ASSUME Once' PROVE LinkInv'
      <4>1. Sound /\ LinkInv
        BY <3>1, <3>2 DEF SizedInv, Once
      <4>. QED  BY <1>1, <2>1, <2>2, <3>1, <4>1, RenumberKeeps DEF SizedInv
    <3>. QED  BY <3>1, <3>2 DEF SizedInv, SlotInv
  <2>3. CASE ~FixRenumber
    <3>1. Once' => Once
      BY <2>1 DEF Once, Sound, Intact
    <3>2. Once' => LinkInv'
      BY <2>3, <3>1, NextLinks DEF SizedInv
    <3>3. Renumber => SlotInv(Size)'
      BY <1>1, NextSlots DEF SizedInv, Once
    <3>. QED  BY <3>2, <3>3 DEF SizedInv
  <2>. QED  BY <2>2, <2>3
<1>4. SizedInv => LinksAscend
  BY DEF SizedInv, Once, LinkInv, HeadersInv, Ascends, LinksAscend
<1>. QED  BY IndexInvariant, TypeInvariant, <1>2, <1>3, <1>4, PTL DEF Spec
=============================================================================
