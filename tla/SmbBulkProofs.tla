---------------------------- MODULE SmbBulkProofs ----------------------------
(* Proofs about SmbBulk: a text with many recipients keeps its blocks to    *)
(* itself, and every recipient may delete the message once, as long as      *)
(* nobody deletes it before the sender has counted the recipients, and, if  *)
(* counting them failed, as long as no copy takes the last reference away.  *)
EXTENDS SmbBulk, SmbBlocksProofs, FiniteSetTheorems

\* What the sections that add recipients rely on: no message is purged while its
\* sender is at work, and the recipients can be counted in 16 bits.
LateDeletes == ~EarlyDeletes /\ MaxRecipients < RefModulus

LEMMA TextNumbers ==
    ASSUME NEW m \in TextType
    PROVE  m.blk \in Nat /\ m.body \in Nat /\ m.tail = 0
<1>1. m.blk \in 0 .. MaxBlocks /\ m.body \in Nat /\ m.tail \in {0}
  BY DEF TextType
<1>. QED  BY <1>1, MaxBlocksAssumption

LEMMA TableNumbers ==
    ASSUME TypeOK
    PROVE  sda \in [Block -> Nat] /\ sdaLen \in Nat /\ DOMAIN sda = Block
<1>1. Refs \subseteq Nat
  BY RefModulusAssumption DEF Refs
<1>2. \A S, T : \A f \in [Block -> S] : S \subseteq T => f \in [Block -> T]
  OBVIOUS
<1>3. sda \in [Block -> Nat]
  BY <1>1, <1>2 DEF TypeOK, FilesOK
<1>4. sdaLen \in Nat
  BY MaxBlocksAssumption DEF TypeOK, FilesOK
<1>. QED  BY <1>3, <1>4

LEMMA StoredType == TypeOK => Stored \subseteq TextType
<1>. SUFFICES ASSUME TypeOK PROVE Stored \subseteq TextType
  OBVIOUS
<1>1. \A e \in idx : e.m \in TextType
  BY DEF TypeOK, FilesOK
<1>2. \A s \in Senders : msg[s] \in TextType
  BY DEF TypeOK, SendersOK
<1>. QED  BY <1>1, <1>2 DEF Stored

\* No block of a stored text is free.
LEMMA StoredCounted ==
    ASSUME TypeOK, SharedInv, NEW m \in Stored, NEW b \in Extent(m)
    PROVE  b \in Block /\ b < sdaLen /\ sda[b] > 0
<1>0. TypeOK /\ BlocksInv /\ SendingInv /\ CountedInv
  BY DEF SharedInv
<1>1. b < sdaLen
  BY <1>0 DEF BlocksInv
<1>2. b \in Block
  <2>1. m.blk \in Nat /\ m.body \in Nat /\ m.tail = 0
    BY <1>0, StoredType, TextNumbers
  <2>2. DatBlocks(m.body + m.tail) \in Nat
    BY <2>1, DatBlocksType
  <2>3. b \in Nat
    BY <2>1, <2>2 DEF Extent
  <2>4. sdaLen \in 0 .. MaxBlocks
    BY <1>0 DEF TypeOK, FilesOK
  <2>. QED  BY <1>1, <2>3, <2>4, MaxBlocksAssumption DEF Block
<1>3. ASSUME NEW s \in Senders, Sending(s), b \in Extent(msg[s]) PROVE sda[b] > 0
  BY <1>3, <1>0 DEF SendingInv
<1>4. ASSUME NEW e \in idx, e.m = m, sda[b] >= Cardinality(Headers(b)) PROVE sda[b] > 0
  <2>1. e \in Headers(b) /\ Headers(b) \in SUBSET idx /\ IsFiniteSet(idx)
    BY <1>4, <1>0 DEF Headers, TypeOK, FilesOK
  <2>2. IsFiniteSet(Headers(b))
    BY <2>1, FS_Subset
  <2>3. Cardinality(Headers(b)) \in Nat /\ Cardinality(Headers(b)) # 0
    BY <2>1, <2>2, FS_CardinalityType, FS_EmptySet
  <2>4. sda[b] \in Nat
    BY <1>0, <1>2, TableNumbers
  <2>. QED  BY <1>4, <2>3, <2>4
<1>5. CASE \E s \in Senders : Sending(s) /\ m = msg[s]
  BY <1>3, <1>5, <1>2, <1>1
<1>6. CASE \E e \in idx : e.m = m
  BY <1>3, <1>4, <1>6, <1>2, <1>1, <1>0 DEF CountedInv
<1>. QED  BY <1>5, <1>6 DEF Stored

\* At most n headers of one text have recipients up to n.
LEMMA RecipientsBound ==
    ASSUME NEW H \in SUBSET [to : 1 .. MaxRecipients, m : TextType], NEW m,
           NEW n \in 0 .. MaxRecipients, \A e \in H : e.m = m /\ e.to <= n
    PROVE  Cardinality(H) <= n
<1>. DEFINE f == [e \in H |-> e.to]
<1>0. n \in Nat /\ MaxRecipients \in Nat
  BY BulkAssumption
<1>1. \A e \in H : e.to \in 1 .. n
  BY <1>0
<1>2. \A e, g \in H : e.to = g.to => e = g
  OBVIOUS
<1>3. f \in Injection(H, 1 .. n)
  BY <1>1, <1>2 DEF Injection, IsInjective
<1>4. IsFiniteSet(1 .. n) /\ Cardinality(1 .. n) = n
  BY <1>0, FS_Interval
<1>. HIDE DEF f
<1>. QED  BY <1>3, <1>4, FS_Injection
-----------------------------------------------------------------------------
(* Type correctness.                                                       *)

LEMMA NextFiles == TypeOK /\ [Next]_vars => FilesOK'
<1>. SUFFICES ASSUME TypeOK, [Next]_vars PROVE FilesOK'
  OBVIOUS
<1>0. FilesOK /\ SendersOK
  BY DEF TypeOK
<1>1. ASSUME NEW s \in Senders, NEW body \in Bodies, StoreText(s, body) PROVE FilesOK'
  <2>. DEFINE n == DatBlocks(body)
              b == FirstFit(sda, sdaLen, n)
  <2>1. body \in Nat /\ n \in Nat
    BY BulkAssumption, DatBlocksType
  <2>2. /\ sda' = MarkUsed(sda, b, n) /\ sdaLen' = LargerOf(sdaLen, b + n)
        /\ b + n <= MaxBlocks /\ idx' = idx
    BY <1>1 DEF StoreText
  <2>. HIDE DEF n
  <2>3. b \in 0 .. sdaLen
    BY <2>1, <1>0, TableNumbers, FirstFitFree DEF FilesOK
  <2>. HIDE DEF b
  <2>4. b + n \in 0 .. MaxBlocks
    BY <2>1, <2>2, <2>3, MaxBlocksAssumption
  <2>5. sdaLen' \in 0 .. MaxBlocks
    BY <2>2, <2>4, <1>0, LargerOfType DEF FilesOK
  <2>6. 1 \in Refs
    BY RefModulusAssumption DEF Refs
  <2>7. sda' \in [Block -> Refs]
    BY <2>2, <2>6, <1>0, MarkUsedType DEF FilesOK
  <2>. QED  BY <2>2, <2>5, <2>7, <1>0 DEF FilesOK
<1>2. ASSUME NEW s \in Senders, AddRecipient(s) PROVE FilesOK'
  <2>. DEFINE e == [to |-> count[s] + 1, m |-> msg[s]]
  <2>1. idx' = idx \cup {e} /\ UNCHANGED <<sda, sdaLen>> /\ count[s] < MaxRecipients
    BY <1>2 DEF AddRecipient
  <2>2. count[s] \in 0 .. MaxRecipients /\ msg[s] \in TextType
    BY <1>0 DEF SendersOK
  <2>3. count[s] + 1 \in 1 .. MaxRecipients
    BY <2>1, <2>2, BulkAssumption
  <2>4. e \in [to : 1 .. MaxRecipients, m : TextType]
    BY <2>2, <2>3
  <2>. HIDE DEF e
  <2>5. IsFiniteSet(idx')
    BY <2>1, <1>0, FS_AddElement DEF FilesOK
  <2>. QED  BY <2>1, <2>4, <2>5, <1>0 DEF FilesOK
<1>3. ASSUME NEW s \in Senders, NEW blocks, sda' = Count(s, blocks), UNCHANGED <<sdaLen, idx>>
      PROVE  FilesOK'
  <2>1. sda' = [b \in Block |-> IF b \notin blocks THEN sda[b]
                               ELSE IF References(s) = AllRefs THEN 0
                               ELSE (sda[b] + References(s)) % RefModulus]
    BY <1>3 DEF Count
  <2>2. count[s] \in Int
    BY <1>0, BulkAssumption DEF SendersOK
  <2>3. References(s) \in Int
    BY <2>2 DEF References, AllRefs
  <2>4. \A x \in Int : x % RefModulus \in Refs
    BY RefModulusAssumption DEF Refs
  <2>5. 0 \in Refs /\ \A b \in Block : sda[b] \in Refs
    BY <1>0, RefModulusAssumption DEF FilesOK, Refs
  <2>6. \A b \in Block : sda[b] \in Int
    BY <2>5 DEF Refs
  <2>7. \A b \in Block : (sda[b] + References(s)) % RefModulus \in Refs
    BY <2>3, <2>4, <2>6
  <2>8. sda' \in [Block -> Refs]
    BY <2>1, <2>5, <2>7
  <2>. QED  BY <1>3, <2>8, <1>0 DEF FilesOK
<1>4. ASSUME NEW e \in idx, Delete(e) PROVE FilesOK'
  <2>1. sda' = FreeFields(sda, e.m) /\ idx' = idx \ {e} /\ sdaLen' = sdaLen
    BY <1>4 DEF Delete
  <2>2. IsFiniteSet(idx')
    BY <2>1, <1>0, FS_RemoveElement DEF FilesOK
  <2>. QED  BY <2>1, <2>2, <1>0, FreeFieldsType DEF FilesOK
<1>5. CASE UNCHANGED <<sda, sdaLen, idx>>
  BY <1>5, <1>0 DEF FilesOK
<1>6. ASSUME NEW s \in Senders,
             \/ CountReferences(s)
             \/ \E end \in FieldBlocks(msg[s], "body") : CountingStops(s, end)
      PROVE  FilesOK'
  BY <1>6, <1>3 DEF CountReferences, CountingStops, Fail
<1>7. ASSUME NEW s \in Senders, SkipRecipient(s) \/ EndOfList(s) \/ SenderDies(s) PROVE FilesOK'
  BY <1>7, <1>5 DEF SkipRecipient, EndOfList, SenderDies, Fail
<1>. QED  BY <1>1, <1>2, <1>4, <1>5, <1>6, <1>7 DEF Next, vars

LEMMA NextSenders == TypeOK /\ [Next]_vars => SendersOK'
<1>. SUFFICES ASSUME TypeOK, [Next]_vars PROVE SendersOK'
  OBVIOUS
<1>0. SendersOK /\ FilesOK
  BY DEF TypeOK
<1>1. ASSUME NEW s \in Senders, NEW body \in Bodies, StoreText(s, body) PROVE SendersOK'
  <2>. DEFINE n == DatBlocks(body)
              b == FirstFit(sda, sdaLen, n)
              new == [text |-> texts + 1, blk |-> b, body |-> body, tail |-> 0]
  <2>1. body \in Nat /\ n \in Nat
    BY BulkAssumption, DatBlocksType
  <2>2. /\ texts' = texts + 1 /\ texts < MaxTexts /\ msg' = [msg EXCEPT ![s] = new]
        /\ pc' = [pc EXCEPT ![s] = "sending"] /\ UNCHANGED <<kind, count>>
    BY <1>1 DEF StoreText, Goto
  <2>. HIDE DEF n
  <2>3. b \in 0 .. sdaLen /\ sdaLen \in 0 .. MaxBlocks
    BY <2>1, <1>0, TableNumbers, FirstFitFree DEF FilesOK
  <2>. HIDE DEF b
  <2>4. b \in 0 .. MaxBlocks
    BY <2>3, MaxBlocksAssumption
  <2>5. texts + 1 \in 0 .. MaxTexts
    BY <2>2, <1>0, BulkAssumption DEF SendersOK
  <2>6. new \in TextType
    BY <2>1, <2>4, <2>5 DEF TextType
  <2>. HIDE DEF new
  <2>. QED  BY <2>2, <2>5, <2>6, <1>0 DEF SendersOK
<1>2. ASSUME NEW s \in Senders, AddRecipient(s) \/ SkipRecipient(s) PROVE SendersOK'
  <2>1. /\ count' = [count EXCEPT ![s] = @ + 1] /\ count[s] < MaxRecipients
        /\ UNCHANGED <<pc, kind, msg, texts>>
    BY <1>2 DEF AddRecipient, SkipRecipient
  <2>2. count[s] \in 0 .. MaxRecipients
    BY <1>0 DEF SendersOK
  <2>3. count[s] + 1 \in 0 .. MaxRecipients
    BY <2>1, <2>2, BulkAssumption
  <2>. QED  BY <2>1, <2>3, <1>0 DEF SendersOK
<1>3. ASSUME NEW s \in Senders, EndOfList(s) PROVE SendersOK'
  BY <1>3, <1>0 DEF SendersOK, EndOfList, Goto
<1>4. ASSUME NEW s \in Senders, Forget(s), UNCHANGED <<kind, texts>> PROVE SendersOK'
  <2>1. /\ msg' = [msg EXCEPT ![s] = NoText] /\ count' = [count EXCEPT ![s] = 0]
        /\ pc' = [pc EXCEPT ![s] = "idle"] /\ UNCHANGED <<kind, texts>>
    BY <1>4 DEF Forget, Goto
  <2>2. NoText \in TextType /\ 0 \in 0 .. MaxRecipients
    BY MaxBlocksAssumption, BulkAssumption DEF NoText, TextType
  <2>. QED  BY <2>1, <2>2, <1>0 DEF SendersOK
<1>5. ASSUME NEW e \in idx, Delete(e) PROVE SendersOK'
  BY <1>5, <1>0 DEF SendersOK, Delete
<1>6. CASE UNCHANGED vars
  BY <1>6, <1>0 DEF vars, SendersOK
<1>7. ASSUME NEW s \in Senders,
             \/ CountReferences(s) \/ SenderDies(s)
             \/ \E end \in FieldBlocks(msg[s], "body") : CountingStops(s, end)
      PROVE  SendersOK'
  BY <1>7, <1>4 DEF CountReferences, CountingStops, SenderDies, Fail
<1>. QED  BY <1>1, <1>2, <1>3, <1>5, <1>6, <1>7 DEF Next

LEMMA NextGhosts == TypeOK /\ [Next]_vars => GhostsOK' /\ uncounted \subseteq uncounted'
<1>. SUFFICES ASSUME TypeOK, [Next]_vars PROVE GhostsOK' /\ uncounted \subseteq uncounted'
  OBVIOUS
<1>0. GhostsOK /\ SendersOK
  BY DEF TypeOK
<1>1. ASSUME NEW s \in Senders, Fail(s) PROVE GhostsOK' /\ uncounted \subseteq uncounted'
  <2>1. failures + 1 \in 0 .. MaxFailures
    BY <1>1, <1>0, BulkAssumption DEF Fail, GhostsOK
  <2>2. msg[s].text \in 0 .. MaxTexts
    BY <1>0 DEF SendersOK, TextType
  <2>. QED  BY <1>1, <2>1, <2>2, <1>0 DEF Fail, GhostsOK
<1>2. ASSUME NEW e \in idx, Delete(e) PROVE GhostsOK' /\ uncounted \subseteq uncounted'
  <2>1. UNCHANGED <<failures, uncounted>> /\ spent' \in BOOLEAN
    BY <1>2 DEF Delete
  <2>. QED  BY <2>1, <1>0 DEF GhostsOK
<1>3. CASE UNCHANGED ghosts
  BY <1>3, <1>0 DEF ghosts, GhostsOK
<1>4. CASE UNCHANGED vars
  BY <1>4, <1>3 DEF vars
<1>5. ASSUME NEW s \in Senders, SenderDies(s) \/ \E end : CountingStops(s, end)
      PROVE  GhostsOK' /\ uncounted \subseteq uncounted'
  BY <1>5, <1>1 DEF SenderDies, CountingStops
<1>6. ASSUME NEW s \in Senders,
             \/ \E body \in Bodies : StoreText(s, body)
             \/ AddRecipient(s) \/ SkipRecipient(s) \/ EndOfList(s) \/ CountReferences(s)
      PROVE  UNCHANGED ghosts
  BY <1>6 DEF StoreText, AddRecipient, SkipRecipient, EndOfList, CountReferences
<1>. QED  BY <1>2, <1>3, <1>4, <1>5, <1>6 DEF Next

LEMMA NextTypes == TypeOK /\ [Next]_vars => TypeOK'
BY NextFiles, NextSenders, NextGhosts DEF TypeOK

-----------------------------------------------------------------------------
(* The texts and their blocks.                                             *)

\* A step that stores no text keeps the texts apart.
LEMMA TextsKeep ==
    ASSUME TextInv, BlocksInv, Stored' \subseteq Stored, UNCHANGED <<sdaLen, texts>>,
           \A s \in Senders : Sending(s)' => Sending(s) /\ msg'[s] = msg[s]
    PROVE  TextInv' /\ BlocksInv'
<1>1. TextInv'
  BY DEF TextInv
<1>2. BlocksInv'
  BY DEF BlocksInv
<1>. QED  BY <1>1, <1>2

LEMMA StoreKeeps ==
    ASSUME TypeOK, SharedInv, NEW s \in Senders, NEW body \in Bodies, StoreText(s, body)
    PROVE  SharedInv'
<1>. DEFINE n == DatBlocks(body)
            b == FirstFit(sda, sdaLen, n)
            new == [text |-> texts + 1, blk |-> b, body |-> body, tail |-> 0]
<1>0. TypeOK /\ TextInv /\ BlocksInv /\ SendingInv /\ CountedInv
  BY DEF SharedInv
<1>1. body \in Nat /\ n \in Nat
  BY BulkAssumption, DatBlocksType
<1>2. /\ sda' = MarkUsed(sda, b, n) /\ sdaLen' = LargerOf(sdaLen, b + n) /\ b + n <= MaxBlocks
      /\ msg' = [msg EXCEPT ![s] = new] /\ pc' = [pc EXCEPT ![s] = "sending"]
      /\ pc[s] = "idle" /\ texts' = texts + 1 /\ UNCHANGED <<idx, count, uncounted>>
  BY DEF StoreText, Goto, ghosts
<1>3. new.text = texts + 1 /\ Extent(new) = b .. b + n - 1
  <2>1. body + 0 = body
    BY <1>1
  <2>. QED  BY <2>1 DEF Extent
<1>. HIDE DEF n
<1>4. b \in 0 .. sdaLen /\ \A k \in b .. b + n - 1 : k < sdaLen => sda[k] = 0
  BY <1>1, <1>0, TableNumbers, FirstFitFree DEF TypeOK, FilesOK
<1>. HIDE DEF b, new
<1>5. sdaLen \in Nat /\ b \in Nat /\ DOMAIN sda = Block
  BY <1>0, <1>4, TableNumbers
<1>6. sdaLen' >= sdaLen /\ sdaLen' >= b + n /\ sdaLen' \in Nat
  BY <1>1, <1>2, <1>5 DEF LargerOf
<1>7. texts \in Nat
  BY <1>0, BulkAssumption DEF TypeOK, SendersOK
<1>8. /\ ~Sending(s) /\ Sending(s)' /\ msg'[s] = new
      /\ \A t \in Senders \ {s} : (Sending(t)' <=> Sending(t)) /\ msg'[t] = msg[t]
  BY <1>0, <1>2 DEF Sending, TypeOK, SendersOK
<1>9. Stored' = Stored \cup {new}
  BY <1>2, <1>8 DEF Stored
<1>10. new \notin Stored /\ \A m \in Stored : m.text # new.text
  <2>1. \A m \in Stored : m.text \in 1 .. texts
    BY <1>0 DEF TextInv
  <2>. QED  BY <2>1, <1>3, <1>7
<1>11. \A k \in Block : sda'[k] = IF k \in Extent(new) THEN 1 ELSE sda[k]
  BY <1>2, <1>3, <1>5, MarkUsedValue
<1>12. ASSUME NEW m \in Stored, NEW k \in Extent(m)
       PROVE  k \notin Extent(new) /\ k < sdaLen' /\ sda'[k] = sda[k]
  <2>1. k \in Block /\ k < sdaLen /\ sda[k] > 0
    BY StoredCounted
  <2>2. k \in Int
    BY <2>1, MaxBlocksAssumption DEF Block
  <2>3. k \notin Extent(new)
    BY <2>1, <1>3, <1>4
  <2>4. k < sdaLen'
    BY <2>1, <2>2, <1>5, <1>6
  <2>. QED  BY <2>1, <2>3, <2>4, <1>11
<1>13. ASSUME NEW k \in Extent(new) PROVE k < sdaLen' /\ sda'[k] = 1
  <2>1. k \in b .. b + n - 1
    BY <1>3
  <2>2. k \in Block /\ k < sdaLen'
    BY <2>1, <1>1, <1>2, <1>5, <1>6, MaxBlocksAssumption DEF Block
  <2>. QED  BY <2>2, <1>11
<1>14. TextInv'
  <2>1. \A m \in Stored' : m.text \in 1 .. texts'
    <3>1. \A x \in 1 .. texts : x \in 1 .. texts + 1
      BY <1>7
    <3>2. texts + 1 \in 1 .. texts + 1
      BY <1>7
    <3>. QED  BY <3>1, <3>2, <1>0, <1>2, <1>3, <1>9 DEF TextInv
  <2>2. \A m, k \in Stored' : m.text = k.text => m = k
    BY <1>0, <1>9, <1>10 DEF TextInv
  <2>3. \A t, u \in Senders : Sending(t)' /\ Sending(u)' /\ msg'[t] = msg'[u] => t = u
    <3>1. \A t \in Senders : Sending(t) => msg[t] # new
      BY <1>10 DEF Stored
    <3>. QED  BY <3>1, <1>0, <1>8 DEF TextInv
  <2>. QED  BY <2>1, <2>2, <2>3 DEF TextInv
<1>15. BlocksInv'
  <2>1. \A m \in Stored : Extent(m) \cap Extent(new) = {}
    BY <1>12
  <2>. QED  BY <2>1, <1>0, <1>9, <1>12, <1>13 DEF BlocksInv
<1>16. SendingInv'
  <2>1. \A e \in idx : e.m # new
    BY <1>10 DEF Stored
  <2>2. \A t \in Senders \ {s} : Sending(t) => \A k \in Extent(msg[t]) : sda'[k] = 1
    BY <1>0, <1>12 DEF SendingInv, Stored
  <2>. QED  BY <2>1, <2>2, <1>0, <1>2, <1>8, <1>13 DEF SendingInv
<1>17. CountedInv'
  <2>1. \A k \in Block : Headers(k)' = Headers(k)
    BY <1>2 DEF Headers
  <2>2. uncounted' = uncounted
    BY <1>2
  <2>3. ASSUME NEW k \in Block, k \notin Extent(new),
               ~\E t \in Senders : Sending(t) /\ k \in Extent(msg[t])
        PROVE  \/ sda'[k] >= Cardinality(Headers(k))
               \/ sda'[k] > 0 /\ \E e \in Headers(k) : e.m.text \in uncounted
    BY <2>3, <1>0, <1>11 DEF CountedInv
  <2>. QED  BY <2>1, <2>2, <2>3, <1>8 DEF CountedInv
<1>. QED  BY <1>14, <1>15, <1>16, <1>17 DEF SharedInv

LEMMA AddKeeps ==
    ASSUME TypeOK, SharedInv, NEW s \in Senders, AddRecipient(s)
    PROVE  SharedInv'
<1>0. TypeOK /\ TextInv /\ BlocksInv /\ SendingInv /\ CountedInv
  BY DEF SharedInv
<1>. DEFINE e == [to |-> count[s] + 1, m |-> msg[s]]
<1>1. /\ pc[s] = "sending" /\ idx' = idx \cup {e} /\ count' = [count EXCEPT ![s] = @ + 1]
      /\ UNCHANGED <<sda, sdaLen, pc, kind, msg, texts, uncounted>>
  BY DEF AddRecipient, ghosts
<1>2. e.to = count[s] + 1 /\ e.m = msg[s]
  OBVIOUS
<1>. HIDE DEF e
<1>3. Sending(s) /\ \A t \in Senders : Sending(t)' <=> Sending(t)
  BY <1>1 DEF Sending
<1>4. Stored' = Stored
  BY <1>1, <1>2, <1>3 DEF Stored
<1>5. TextInv' /\ BlocksInv'
  BY <1>0, <1>1, <1>3, <1>4, TextsKeep
<1>6. count[s] \in Nat /\ count \in [Senders -> 0 .. MaxRecipients]
  BY <1>0, BulkAssumption DEF TypeOK, SendersOK
<1>7. /\ count'[s] = count[s] + 1
      /\ \A t \in Senders \ {s} : count'[t] = count[t]
  BY <1>1, <1>6
<1>8. SendingInv'
  <2>1. ASSUME NEW t \in Senders, Sending(t), NEW g \in idx', g.m = msg[t]
        PROVE  g.to <= count'[t]
    <3>1. CASE t = s /\ g = e
      BY <3>1, <1>2, <1>6, <1>7
    <3>2. CASE t = s /\ g \in idx
      <4>1. g.to <= count[s]
        BY <3>2, <2>1, <1>0 DEF SendingInv
      <4>2. g.to \in Int
        BY <3>2, <1>0 DEF TypeOK, FilesOK
      <4>. QED  BY <4>1, <4>2, <3>2, <1>6, <1>7
    <3>3. CASE t # s
      <4>1. g # e
        BY <3>3, <2>1, <1>0, <1>2, <1>3 DEF TextInv
      <4>. QED  BY <4>1, <3>3, <2>1, <1>0, <1>1, <1>7 DEF SendingInv
    <3>. QED  BY <3>1, <3>2, <3>3, <2>1, <1>1
  <2>. QED  BY <2>1, <1>0, <1>1, <1>3 DEF SendingInv
<1>9. CountedInv'
  <2>1. \A b \in Block : b \in Extent(msg[s]) \/ Headers(b)' = Headers(b)
    BY <1>1, <1>2 DEF Headers
  <2>. QED  BY <2>1, <1>0, <1>1, <1>3 DEF CountedInv
<1>. QED  BY <1>5, <1>8, <1>9 DEF SharedInv

LEMMA MoveKeeps ==
    ASSUME TypeOK, SharedInv, NEW s \in Senders, SkipRecipient(s) \/ EndOfList(s)
    PROVE  SharedInv'
<1>0. TypeOK /\ TextInv /\ BlocksInv /\ SendingInv /\ CountedInv
  BY DEF SharedInv
<1>1. UNCHANGED <<sda, sdaLen, idx, msg, texts, uncounted>>
  BY DEF SkipRecipient, EndOfList, ghosts
<1>2. \A t \in Senders : Sending(t)' <=> Sending(t)
  BY <1>0 DEF SkipRecipient, EndOfList, Goto, Sending, TypeOK, SendersOK
<1>3. Stored' = Stored
  BY <1>1, <1>2 DEF Stored
<1>4. TextInv' /\ BlocksInv'
  BY <1>0, <1>1, <1>2, <1>3, TextsKeep
<1>5. \A t \in Senders : count'[t] = count[t] \/ count'[t] = count[t] + 1
  BY <1>0 DEF SkipRecipient, EndOfList, TypeOK, SendersOK
<1>6. /\ \A t \in Senders : count[t] \in Int
      /\ \A e \in idx : e.to \in Int
  BY <1>0, BulkAssumption DEF TypeOK, SendersOK, FilesOK
<1>7. ASSUME NEW t \in Senders, Sending(t), NEW e \in idx, e.m = msg[t]
      PROVE  e.to <= count'[t]
  <2>1. e.to <= count[t]
    BY <1>7, <1>0 DEF SendingInv
  <2>. QED  BY <2>1, <1>5, <1>6
<1>8. SendingInv'
  BY <1>0, <1>1, <1>2, <1>7 DEF SendingInv
<1>9. CountedInv'
  <2>1. \A b \in Block : Headers(b)' = Headers(b)
    BY <1>1 DEF Headers
  <2>. QED  BY <2>1, <1>0, <1>1, <1>2 DEF CountedInv
<1>. QED  BY <1>4, <1>8, <1>9 DEF SharedInv

\* What the blocks of the text have when the recipients are counted.
LEMMA ReferencesAdded ==
    ASSUME TypeOK, MaxRecipients < RefModulus, NEW s \in Senders
    PROVE  IF References(s) = AllRefs THEN count[s] = 0
           ELSE (1 + References(s)) % RefModulus >= count[s]
<1>1. /\ count[s] \in Nat /\ count[s] < RefModulus /\ RefModulus \in Nat \ {0}
      /\ 1 < RefModulus
  <2>1. count[s] \in 0 .. MaxRecipients
    BY DEF TypeOK, SendersOK
  <2>. QED  BY <2>1, BulkAssumption, RefModulusAssumption
<1>2. \A x \in Nat : x < RefModulus => x % RefModulus = x
  BY <1>1
<1>3. CASE count[s] > 1
  <2>1. References(s) = count[s] - 1
    BY <1>3 DEF References
  <2>2. 1 + References(s) = count[s] /\ References(s) # AllRefs
    BY <2>1, <1>1, <1>3 DEF AllRefs
  <2>. QED  BY <2>2, <1>1, <1>2
<1>4. CASE count[s] = 1
  <2>1. References(s) = 0
    BY <1>4 DEF References
  <2>2. 1 + References(s) = 1 /\ References(s) # AllRefs
    BY <2>1 DEF AllRefs
  <2>. QED  BY <2>2, <1>1, <1>2, <1>4
<1>5. CASE count[s] = 0
  <2>1. References(s) \in {AllRefs, 0}
    BY <1>5 DEF References
  <2>2. References(s) = 0 => 1 + References(s) = 1
    OBVIOUS
  <2>. QED  BY <2>1, <2>2, <1>1, <1>2, <1>5
<1>. QED  BY <1>1, <1>3, <1>4, <1>5

\* A sender is done with its text, whose recipients it has counted in these blocks.
LEMMA CountKeeps ==
    ASSUME TypeOK, SharedInv, TypeOK', MaxRecipients < RefModulus,
           NEW s \in Senders, Sending(s), NEW blocks \in SUBSET Extent(msg[s]),
           sda' = Count(s, blocks), Forget(s), UNCHANGED <<sdaLen, idx, texts>>,
           uncounted \subseteq uncounted',
           blocks = Extent(msg[s]) \/ (count[s] > 1 => msg[s].text \in uncounted')
    PROVE  SharedInv'
<1>0. TypeOK /\ TextInv /\ BlocksInv /\ SendingInv /\ CountedInv
  BY DEF SharedInv
<1>1. /\ sda' = [b \in Block |-> IF b \notin blocks THEN sda[b]
                               ELSE IF References(s) = AllRefs THEN 0
                               ELSE (sda[b] + References(s)) % RefModulus]
      /\ pc' = [pc EXCEPT ![s] = "idle"]
      /\ msg' = [msg EXCEPT ![s] = NoText] /\ count' = [count EXCEPT ![s] = 0]
  BY DEF Count, Forget, Goto
<1>2. /\ Sending(s) /\ ~Sending(s)'
      /\ \A t \in Senders \ {s} : /\ Sending(t)' <=> Sending(t)
                                  /\ msg'[t] = msg[t] /\ count'[t] = count[t]
  BY <1>0, <1>1 DEF Sending, TypeOK, SendersOK
<1>3. Stored' \subseteq Stored /\ msg[s] \in Stored
  BY <1>1, <1>2 DEF Stored
<1>4. TextInv' /\ BlocksInv'
  BY <1>0, <1>1, <1>2, <1>3, TextsKeep
<1>6. \A b \in Block : b \notin Extent(msg[s]) => sda'[b] = sda[b]
  BY <1>1
<1>7. \A t \in Senders \ {s} : Sending(t) => msg[t] # msg[s] /\ msg[t] \in Stored
  BY <1>0, <1>2 DEF TextInv, Stored
<1>8. SendingInv'
  <2>1. ASSUME NEW t \in Senders \ {s}, Sending(t), NEW b \in Extent(msg[t])
        PROVE  sda'[b] = 1
    <3>1. b \notin Extent(msg[s]) /\ sda[b] = 1
      BY <2>1, <1>0, <1>3, <1>7 DEF BlocksInv, SendingInv
    <3>2. b \in Block
      BY <2>1, <1>7, StoredCounted
    <3>. QED  BY <3>1, <3>2, <1>6
  <2>. QED  BY <2>1, <1>0, <1>1, <1>2 DEF SendingInv
<1>9. CountedInv'
  <2>0. \A b \in Block : Headers(b)' = Headers(b)
    BY <1>1 DEF Headers
  <2>1. ASSUME NEW b \in Block, b \in Extent(msg[s])
        PROVE  \/ sda'[b] >= Cardinality(Headers(b))
               \/ sda'[b] > 0 /\ \E e \in Headers(b) : e.m.text \in uncounted'
    <3>1. \A e \in Headers(b) : e.m = msg[s] /\ e.to <= count[s]
      <4>1. \A e \in Headers(b) : e \in idx /\ e.m \in Stored /\ b \in Extent(e.m)
        BY DEF Headers, Stored
      <4>2. \A e \in Headers(b) : e.m = msg[s]
        BY <4>1, <2>1, <1>0, <1>3 DEF BlocksInv
      <4>. QED  BY <4>1, <4>2, <1>0, <1>2 DEF SendingInv
    <3>2. count[s] \in 0 .. MaxRecipients
      BY <1>0 DEF TypeOK, SendersOK
    <3>3. Headers(b) \in SUBSET [to : 1 .. MaxRecipients, m : TextType]
      BY <1>0 DEF Headers, TypeOK, FilesOK
    <3>4. Cardinality(Headers(b)) <= count[s]
      BY <3>1, <3>2, <3>3, RecipientsBound
    <3>5. sda[b] = 1
      BY <2>1, <1>0, <1>2 DEF SendingInv
    <3>6. IsFiniteSet(Headers(b)) /\ Cardinality(Headers(b)) \in Nat
      <4>1. Headers(b) \in SUBSET idx /\ IsFiniteSet(idx)
        BY <1>0 DEF Headers, TypeOK, FilesOK
      <4>. QED  BY <4>1, FS_Subset, FS_CardinalityType
    <3>7. sda'[b] \in Int /\ count[s] \in Int
      <4>1. sda' \in [Block -> Refs]
        BY DEF TypeOK, FilesOK
      <4>. QED  BY <4>1, <3>2 DEF Refs
    <3>8. CASE b \in blocks
      <4>1. sda'[b] = IF References(s) = AllRefs THEN 0 ELSE (1 + References(s)) % RefModulus
        BY <2>1, <3>8, <3>5, <1>1
      <4>2. sda'[b] >= count[s]
        BY <3>2, <4>1, <1>0, ReferencesAdded, BulkAssumption
      <4>. QED  BY <3>4, <3>6, <3>7, <4>2
    <3>9. CASE b \notin blocks
      <4>1. sda'[b] = 1
        BY <2>1, <3>9, <3>5, <1>1
      <4>2. CASE count[s] <= 1
        BY <4>1, <4>2, <3>4, <3>6, <3>7
      <4>3. CASE Headers(b) = {}
        BY <4>1, <4>3, FS_EmptySet
      <4>4. CASE count[s] > 1 /\ Headers(b) # {}
        <5>1. msg[s].text \in uncounted'
          BY <2>1, <3>9, <4>4
        <5>. QED  BY <4>1, <4>4, <5>1, <3>1
      <4>. QED  BY <4>2, <4>3, <4>4, <3>7
    <3>. QED  BY <3>8, <3>9
  <2>2. ASSUME NEW b \in Block, b \notin Extent(msg[s])
        PROVE  \/ \E t \in Senders : Sending(t)' /\ b \in Extent(msg'[t])
               \/ sda'[b] >= Cardinality(Headers(b))
               \/ sda'[b] > 0 /\ \E e \in Headers(b) : e.m.text \in uncounted'
    <3>1. CASE \E t \in Senders \ {s} : Sending(t) /\ b \in Extent(msg[t])
      BY <3>1, <1>2
    <3>2. CASE \/ sda[b] >= Cardinality(Headers(b))
               \/ sda[b] > 0 /\ \E e \in Headers(b) : e.m.text \in uncounted
      BY <3>2, <2>2, <1>6
    <3>. QED  BY <3>1, <3>2, <2>2, <1>0 DEF CountedInv
  <2>. QED  BY <2>0, <2>1, <2>2 DEF CountedInv
<1>. QED  BY <1>4, <1>8, <1>9 DEF SharedInv

\* So does each of the ways in which a sender is done with its text.
LEMMA ForgetKeeps ==
    ASSUME TypeOK, SharedInv, TypeOK', MaxRecipients < RefModulus, NEW s \in Senders,
           \/ CountReferences(s) \/ SenderDies(s)
           \/ \E end \in FieldBlocks(msg[s], "body") : CountingStops(s, end)
    PROVE  SharedInv'
<1>1. FieldBlocks(msg[s], "body") = Extent(msg[s])
  <2>1. msg[s] \in TextType
    BY DEF TypeOK, SendersOK
  <2>. QED  BY <2>1, TextNumbers, OneFieldBlocks
<1>2. CASE CountReferences(s)
  <2>1. /\ Sending(s) /\ Forget(s) /\ UNCHANGED <<sdaLen, idx, texts, uncounted>>
        /\ sda' = Count(s, Extent(msg[s]))
    BY <1>1, <1>2 DEF CountReferences, Sending, ghosts
  <2>. QED  BY <2>1, CountKeeps
<1>3. Fail(s) => /\ uncounted \subseteq uncounted' /\ UNCHANGED <<sdaLen, idx, texts>>
                 /\ count[s] > 1 => msg[s].text \in uncounted'
  BY DEF Fail
<1>4. CASE SenderDies(s)
  <2>1. Sending(s) /\ Forget(s) /\ Fail(s) /\ sda' = sda
    BY <1>4 DEF SenderDies, Sending
  <2>2. sda \in [Block -> Refs]
    BY DEF TypeOK, FilesOK
  <2>3. sda' = Count(s, {})
    BY <2>1, <2>2 DEF Count
  <2>. QED  BY <2>1, <2>3, <1>3, CountKeeps
<1>5. ASSUME NEW end, CountingStops(s, end) PROVE SharedInv'
  <2>1. Sending(s) /\ Forget(s) /\ Fail(s) /\ sda' = Count(s, CountedBlocks(s, end))
    BY <1>5 DEF CountingStops, Sending
  <2>2. CountedBlocks(s, end) \in SUBSET Extent(msg[s])
    BY <1>1 DEF CountedBlocks
  <2>. QED  BY <2>1, <2>2, <1>3, CountKeeps
<1>. QED  BY <1>2, <1>4, <1>5

LEMMA DeleteKeeps ==
    ASSUME TypeOK, SharedInv, TypeOK', ~EarlyDeletes, NEW e \in idx, Delete(e), ~spent'
    PROVE  SharedInv'
<1>0. TypeOK /\ TextInv /\ BlocksInv /\ SendingInv /\ CountedInv
  BY DEF SharedInv
<1>1. /\ ~InHand(e.m.text) /\ sda' = FreeFields(sda, e.m) /\ idx' = idx \ {e}
      /\ UNCHANGED <<sdaLen, pc, kind, msg, count, texts, uncounted>>
      /\ e.m.text \in uncounted =>
            \A f \in idx' : \A b \in Extent(e.m) \cap Extent(f.m) : sda'[b] # 0
  BY DEF Delete
<1>2. \A t \in Senders : Sending(t)' <=> Sending(t)
  BY <1>1 DEF Sending
<1>3. Stored' \subseteq Stored /\ e.m \in Stored
  BY <1>1, <1>2 DEF Stored
<1>4. TextInv' /\ BlocksInv'
  BY <1>0, <1>1, <1>2, <1>3, TextsKeep
<1>5. \A t \in Senders : Sending(t) => e.m # msg[t] /\ msg[t] \in Stored
  BY <1>1 DEF InHand, Sending, Stored
<1>6. \A b \in Block :
         sda'[b] = IF b \in Extent(e.m) /\ sda[b] > 0 THEN sda[b] - 1 ELSE sda[b]
  <2>1. e.m.blk \in Nat /\ e.m.body \in Nat /\ e.m.tail = 0
    BY <1>0, <1>3, StoredType, TextNumbers
  <2>. QED  BY <2>1, <1>1, OneFieldFreed
<1>7. \A t \in Senders : Sending(t) => Extent(msg[t]) \cap Extent(e.m) = {}
  BY <1>0, <1>3, <1>5 DEF BlocksInv
<1>8. SendingInv'
  <2>1. ASSUME NEW t \in Senders, Sending(t), NEW b \in Extent(msg[t]) PROVE sda'[b] = 1
    <3>1. b \in Block /\ b \notin Extent(e.m) /\ sda[b] = 1
      BY <2>1, <1>0, <1>5, <1>7, StoredCounted DEF SendingInv
    <3>. QED  BY <3>1, <1>6
  <2>. QED  BY <2>1, <1>0, <1>1, <1>2 DEF SendingInv
<1>9. CountedInv'
  <2>1. ASSUME NEW b \in Block, b \in Extent(e.m)
        PROVE  \/ sda'[b] >= Cardinality(Headers(b)')
               \/ sda'[b] > 0 /\ \E f \in Headers(b)' : f.m.text \in uncounted
    <3>0. sda[b] > 0
      BY <2>1, <1>3, StoredCounted
    <3>1. \/ sda[b] >= Cardinality(Headers(b))
          \/ \E f \in Headers(b) : f.m.text \in uncounted
      BY <2>1, <1>0, <1>3, <1>7 DEF CountedInv
    <3>2. /\ e \in Headers(b) /\ Headers(b)' = Headers(b) \ {e}
          /\ Headers(b) \in SUBSET idx /\ IsFiniteSet(idx)
      BY <2>1, <1>0, <1>1 DEF Headers, TypeOK, FilesOK
    <3>3. IsFiniteSet(Headers(b))
      BY <3>2, FS_Subset
    <3>4. sda'[b] \in Nat
      <4>1. sda' \in [Block -> Refs]
        BY DEF TypeOK, FilesOK
      <4>. QED  BY <4>1, RefModulusAssumption DEF Refs
    <3>5. CASE sda[b] >= Cardinality(Headers(b))
      <4>1. Cardinality(Headers(b)') = Cardinality(Headers(b)) - 1
        BY <3>2, <3>3, FS_RemoveElement
      <4>2. Cardinality(Headers(b)) \in Nat /\ sda[b] \in Nat
        BY <3>3, <1>0, FS_CardinalityType, TableNumbers
      <4>3. sda'[b] = sda[b] - 1
        BY <2>1, <3>0, <1>6
      <4>4. sda'[b] >= Cardinality(Headers(b)')
        BY <3>5, <4>1, <4>2, <4>3
      <4>. QED  BY <4>4
    <3>6. CASE \E f \in Headers(b) : f.m.text \in uncounted
      <4>1. \A f \in Headers(b) : f \in idx /\ f.m = e.m
        BY <2>1, <1>0, <1>3 DEF Headers, Stored, BlocksInv
      <4>2. e.m.text \in uncounted
        BY <3>6, <4>1
      <4>3. ASSUME NEW f \in Headers(b)' PROVE sda'[b] > 0 /\ f.m.text \in uncounted
        <5>1. f \in idx' /\ f.m = e.m
          BY <3>2, <4>1, <1>1
        <5>2. sda'[b] # 0
          BY <5>1, <4>2, <2>1, <1>1
        <5>. QED  BY <5>1, <5>2, <4>2, <3>4
      <4>4. CASE Headers(b)' = {}
        BY <4>4, <3>4, FS_EmptySet
      <4>. QED  BY <4>3, <4>4
    <3>. QED  BY <3>1, <3>5, <3>6
  <2>2. ASSUME NEW b \in Block, b \notin Extent(e.m)
        PROVE  sda'[b] = sda[b] /\ Headers(b)' = Headers(b)
    BY <2>2, <1>1, <1>6 DEF Headers
  <2>. QED  BY <2>1, <2>2, <1>0, <1>1, <1>2 DEF CountedInv
<1>. QED  BY <1>4, <1>8, <1>9 DEF SharedInv

-----------------------------------------------------------------------------
LEMMA InitBulk == Init => BulkInv
<1>. SUFFICES ASSUME Init PROVE BulkInv
  OBVIOUS
<1>1. TypeOK
  <2>1. NoText \in TextType
    BY MaxBlocksAssumption, BulkAssumption DEF NoText, TextType
  <2>2. 0 \in Refs /\ 0 \in 0 .. MaxBlocks /\ 0 \in 0 .. MaxRecipients /\ 0 \in 0 .. MaxTexts
    BY RefModulusAssumption, MaxBlocksAssumption, BulkAssumption DEF Refs
  <2>3. FilesOK
    BY <2>2, FS_EmptySet DEF Init, FilesOK
  <2>4. SendersOK
    BY <2>1, <2>2 DEF Init, SendersOK
  <2>5. GhostsOK
    <3>1. 0 \in 0 .. MaxFailures
      BY BulkAssumption
    <3>. QED  BY <3>1 DEF Init, GhostsOK
  <2>. QED  BY <2>3, <2>4, <2>5 DEF TypeOK
<1>2. Stored = {} /\ \A s \in Senders : ~Sending(s)
  BY DEF Init, Stored, Sending
<1>3. CountedInv
  <2>1. \A b \in Block : sda[b] = 0 /\ Headers(b) = {}
    BY DEF Init, Headers
  <2>. QED  BY <2>1, FS_EmptySet DEF CountedInv
<1>. QED  BY <1>1, <1>2, <1>3 DEF BulkInv, SharedInv, TextInv, BlocksInv, SendingInv

LEMMA NextBulk ==
    ASSUME LateDeletes
    PROVE  BulkInv /\ [Next]_vars => BulkInv'
<1>. SUFFICES ASSUME BulkInv, [Next]_vars PROVE BulkInv'
  OBVIOUS
<1>1. TypeOK /\ TypeOK'
  BY NextTypes DEF BulkInv
<1>2. ASSUME ~spent' PROVE ~spent
  BY <1>2 DEF Next, vars, ghosts, StoreText, AddRecipient, SkipRecipient, EndOfList,
              CountReferences, CountingStops, SenderDies, Fail, Delete
<1>3. ASSUME ~spent', SharedInv PROVE SharedInv'
  <2>1. CASE UNCHANGED vars
    BY <2>1, <1>3 DEF vars, ghosts, SharedInv, TextInv, BlocksInv, SendingInv, CountedInv,
                      Stored, Sending, Headers
  <2>2. ASSUME NEW s \in Senders,
               \/ \E body \in Bodies : StoreText(s, body)
               \/ AddRecipient(s) \/ SkipRecipient(s) \/ EndOfList(s)
               \/ CountReferences(s) \/ SenderDies(s)
               \/ \E end \in FieldBlocks(msg[s], "body") : CountingStops(s, end)
        PROVE  SharedInv'
    BY <2>2, <1>1, <1>3, StoreKeeps, AddKeeps, MoveKeeps, ForgetKeeps DEF LateDeletes
  <2>. QED  BY <2>1, <2>2, <1>1, <1>3, DeleteKeeps DEF Next, LateDeletes
<1>. QED  BY <1>1, <1>2, <1>3 DEF BulkInv

LEMMA BulkAlways == ASSUME LateDeletes PROVE Spec => []BulkInv
BY InitBulk, NextBulk, PTL DEF Spec

\* Two messages whose texts share a block have the same text, whatever bulk mail,
\* the SMTP server, net mail and JavaScript store and delete side by side, and
\* whichever of them fail to count, until a copy of a text whose recipients were
\* not counted takes the last reference from another copy.
THEOREM SharedTextsSafe == ASSUME LateDeletes PROVE Spec => []TextsDisjoint
<1>1. BulkInv => TextsDisjoint
  BY DEF BulkInv, SharedInv, TextInv, BlocksInv, Stored, TextsDisjoint
<1>. QED  BY <1>1, BulkAlways, PTL

\* When nobody is sending, no block has fewer references than headers, for any
\* number of senders and of recipients the counters can count; in a text whose
\* recipients were not counted it has one until a copy takes it from the others.
THEOREM RecipientsCounted == ASSUME LateDeletes PROVE Spec => []NeverUndercounted
<1>1. BulkInv => NeverUndercounted
  <2>. SUFFICES ASSUME TypeOK, SharedInv, Quiet, NEW b \in Block, NEW e \in Headers(b)
                PROVE  sda[b] >= IF e.m.text \in uncounted THEN 1 ELSE Cardinality(Headers(b))
    BY DEF BulkInv, NeverUndercounted
  <2>1. TypeOK /\ BlocksInv /\ CountedInv /\ e.m \in Stored /\ b \in Extent(e.m)
    BY DEF SharedInv, Headers, Stored
  <2>2. \A f \in Headers(b) : f.m = e.m
    BY <2>1 DEF Headers, Stored, BlocksInv
  <2>3. \/ sda[b] >= Cardinality(Headers(b))
        \/ \E f \in Headers(b) : f.m.text \in uncounted
    BY <2>1 DEF CountedInv, Quiet, Sending
  <2>4. sda[b] \in Nat /\ sda[b] > 0
    BY <2>1, StoredCounted, TableNumbers
  <2>. QED  BY <2>2, <2>3, <2>4
<1>. QED  BY <1>1, BulkAlways, PTL

\* As long as one recipient has a message left, the blocks of the text are not
\* free: only a message deleted while its sender is at work can break this, or
\* the copies of a text whose recipients were not counted.
THEOREM SharedBlocksCounted ==
    ASSUME LateDeletes PROVE Spec => [](spent \/ LiveBlocksCounted)
<1>1. BulkInv => spent \/ LiveBlocksCounted
  BY StoredCounted DEF BulkInv, LiveBlocksCounted, Stored
<1>. QED  BY <1>1, BulkAlways, PTL
=============================================================================
