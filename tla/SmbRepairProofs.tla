--------------------------- MODULE SmbRepairProofs ---------------------------
(* Proofs about SmbRepair: what a crash at any write leaves behind, what     *)
(* fixsmb makes of it, and what the programs that work on the base may rely  *)
(* on before and after.                                                      *)
EXTENDS SmbRepair, SmbBlocksProofs, FiniteSetTheorems

\* As savemsg() makes them: messages without a tail.
OneField == \A shape \in Shapes : shape.tail = 0

Posting == {"stored", "placed", "written", "indexed"}
Maintaining == {"maint", "purge data", "purge blocks", "rewrite", "rewritten"}
Purging == {"purge data", "purge blocks"}

\* The base is as it should be, or what fixsmb has rebuilt of it so far.
Sound == pc = "fix" \/ ~dirty

\* The headers in the header file, those of freed messages included.
Starts == {b \in Block : IsHeader(shd[b])}
ExtentAt(b) == b .. b + shd[b].n - 1
Run == pos .. pos + cur.n - 1

ListedIn(recs) == {recs[i] : i \in DOMAIN recs}
BlocksOf(recs) == {recs[i].hblk : i \in DOMAIN recs}
Apart(recs) == \A i, j \in DOMAIN recs : i # j => recs[i].hblk # recs[j].hblk

\* The headers whose blocks are not freed.
Used == IF pc \in Maintaining THEN BlocksOf(todo) \cup BlocksOf(keep) ELSE BlocksOf(idx)

\* The texts whose data blocks are not freed.
Holders == IF pc = "purge blocks" THEN Used \ {pos} ELSE Used
InHand == IF pc \in {"stored", "placed", "written"} THEN {cur.m} ELSE {}
Texts == {shd[b].m : b \in Holders} \cup InHand
Users(b) == {m \in Texts : b \in Extent(m)}

DataTyped == sda \in [Block -> Refs] /\ sdaLen \in 0 .. MaxBlocks /\ sdtLen = sdaLen
HeadTyped ==
    /\ sha \in [Block -> {0, 1}] /\ shaLen \in 0 .. MaxBlocks
    /\ shd \in [Block -> HeaderType \cup {NoHeader}] /\ shdLen \in 0 .. MaxBlocks
IndexTyped == idx \in Seq(RecordType) /\ total \in Nat /\ lastMsg \in Nat
WorkTyped ==
    /\ todo \in Seq(RecordType) /\ keep \in Seq(RecordType) /\ flagged \in 0 .. total
    /\ pc \in Labels /\ cur \in HeaderType /\ renumber \in BOOLEAN
    /\ pos \in 0 .. MaxBlocks
GhostTyped ==
    /\ posts \in 0 .. MaxPosts /\ deleted \subseteq 1 .. posts
    /\ dirty \in BOOLEAN /\ late \in BOOLEAN /\ misled \in BOOLEAN
TypeInv == DataTyped /\ HeadTyped /\ IndexTyped /\ WorkTyped /\ GhostTyped

\* What the process at work has in hand.
TodoInv ==
    /\ pc \notin Maintaining => keep = <<>> /\ flagged = 0
    /\ pc \notin Maintaining \cup {"flag"} => todo = <<>>
    /\ pc \in {"rewrite", "rewritten"} => todo = <<>>
    /\ pc = "flag" => Len(todo) = 1
PostInv == pc \in Posting =>
    /\ cur.num > 0 /\ ~cur.del /\ posts > 0 /\ cur.m.text = posts /\ posts \notin deleted
    /\ \A k \in Extent(cur.m) : k < sdaLen
    /\ OneField => cur.m.tail = 0
PlaceInv ==
    /\ pc \in {"placed", "written", "indexed"} => pos + cur.n <= shaLen
    /\ pc \in {"written", "indexed", "flag"} \cup Purging => pos < MaxBlocks /\ shd[pos] = cur
    /\ pc \in {"flag"} \cup Purging => cur.del /\ todo # <<>>
    /\ pc = "fix" => pos <= shdLen /\ shaLen = shdLen
WorkInv == TodoInv /\ PostInv /\ PlaceInv

\* Always: a header fits into the header file and its text into the data file.
FitInv == \A b \in Starts :
    /\ b + shd[b].n <= shdLen /\ shd[b].num > 0
    /\ shd[b].m.text \in 1 .. posts
    /\ \A k \in Extent(shd[b].m) : k < sdaLen
    /\ OneField => shd[b].m.tail = 0

\* The rest is about bases where every search for a number found the message
\* that was meant.  A header has its text to itself and is not undeleted.
FilesInv ==
    /\ FitInv
    /\ copies = {} /\ shdLen <= shaLen
    /\ \A a, b \in Starts : shd[a].m.text = shd[b].m.text => a = b
    /\ \A b \in Starts : shd[b].m.text \in deleted => shd[b].del
    /\ pc \in {"stored", "placed"} => \A b \in Starts : shd[b].m.text # posts

HandInv == pc \in {"flag"} \cup Purging => Head(todo).hblk = pos

\* The records of a sound base point at headers with blocks of their own.
RecordsInv == Sound =>
    /\ Used \subseteq Starts
    /\ \A b \in Used : \A k \in ExtentAt(b) : sha[k] = 1
    /\ \A a, b \in Used : a # b => ExtentAt(a) \cap ExtentAt(b) = {}
ListInv == Sound =>
    /\ pc \notin Maintaining => Apart(idx)
    /\ pc \in Maintaining =>
          Apart(todo) /\ Apart(keep) /\ BlocksOf(todo) \cap BlocksOf(keep) = {}
    /\ pc \notin Maintaining => \A e \in Records \ ListedIn(todo) : e.del = HeaderOf(e).del
    /\ pc \in Maintaining => \A e \in ListedIn(keep) : e.del = HeaderOf(e).del

\* Nobody else has the blocks allocated for a header.
RunInv == Sound /\ pc \in {"placed", "written"} =>
    /\ \A k \in Run : sha[k] = 1
    /\ \A b \in Used : ExtentAt(b) \cap Run = {}

\* The status counts the records of the index.
LengthInv == ~dirty =>
    /\ pc \notin Maintaining \cup {"indexed", "fix"} => Len(idx) = total
    /\ pc = "indexed" => Len(idx) = total + 1
    /\ pc \in Maintaining => Len(keep) + flagged = total
    /\ pc = "rewritten" => idx = keep

\* How far fixsmb has got.
FixInv == pc = "fix" =>
    /\ \A b \in Used : b + shd[b].n <= pos
    /\ \A e \in Records : ~e.del
    /\ \A k \in Block : k >= pos => sha[k] = 0

\* The counters are exact.
CountInv == OneField /\ (late => MaxPosts < RefModulus) /\ Sound =>
    \A b \in Block : sda[b] = Cardinality(Users(b))

\* The rest is about bases nobody has worked on while they were damaged.
LateInv == ~late =>
    /\ dirty => pc \in {"idle", "fix"}
    /\ BlocksOf(idx) \subseteq Starts
    /\ \A a, b \in Starts : a < b => a + shd[a].n <= b
    /\ pc = "placed" => \A a \in Starts : a < pos => a + shd[a].n <= pos

\* Each header has its record, or lies in free blocks and is deleted.
StaleInv == ~late /\ Sound =>
    \A a \in Starts : \/ a \in Used
                      \/ /\ shd[a].del
                         /\ \/ \A k \in ExtentAt(a) : sha[k] = 0
                            \/ pc = "placed" /\ a \in Run
                      \/ pc = "written" /\ a = pos
                      \/ pc = "fix" /\ a >= pos

TextsInv == ~late /\ OneField =>
    /\ \A a, b \in Starts : a # b /\ ~shd[a].del /\ ~shd[b].del =>
           Extent(shd[a].m) \cap Extent(shd[b].m) = {}
    /\ pc \in {"stored", "placed"} => \A a \in Starts :
           ~shd[a].del => Extent(shd[a].m) \cap Extent(cur.m) = {}

PostedInv == ~late =>
    /\ \A t \in posted \ doomed : \E a \in Starts : ~shd[a].del /\ shd[a].m.text = t
    /\ \A e \in ListedIn(todo) : TextOf(e).text \in doomed

-----------------------------------------------------------------------------
(* Types.                                                                  *)

LEMMA HeaderHasFields ==
    ASSUME NEW h \in HeaderType
    PROVE  /\ IsHeader(h)
           /\ h.num \in Nat /\ h.n \in Nat \ {0} /\ h.n \in HdrBlocks \cup {1}
           /\ h.del \in BOOLEAN /\ h.m \in TextType
<1>1. h # NoHeader
  <2>1. DOMAIN h = {"num", "n", "del", "m"}
    BY DEF HeaderType
  <2>2. DOMAIN NoHeader = {"num"}
    BY DEF NoHeader
  <2>3. "n" \in DOMAIN h /\ "n" \notin DOMAIN NoHeader
    BY <2>1, <2>2
  <2>. QED  BY <2>3
<1>2. h.num \in Nat /\ h.n \in HdrBlocks \cup {1} /\ h.del \in BOOLEAN /\ h.m \in TextType
  BY DEF HeaderType
<1>3. HdrBlocks \cup {1} \subseteq Nat \ {0}
  BY RepairAssumption
<1>4. h.n \in Nat \ {0}
  BY <1>2, <1>3
<1>. QED  BY <1>1, <1>2, <1>4 DEF IsHeader

LEMMA TextHasFields ==
    ASSUME NEW m \in TextType
    PROVE  m.text \in Nat /\ m.blk \in Nat /\ m.body \in Nat /\ m.tail \in Nat
<1>1. m.text \in 0 .. MaxPosts /\ m.blk \in 0 .. MaxBlocks /\ m.body \in Nat /\ m.tail \in Nat
  BY DEF TextType
<1>. QED  BY <1>1, RepairAssumption, MaxBlocksAssumption

LEMMA RecordHasFields ==
    ASSUME NEW e \in RecordType
    PROVE  e.num \in Nat \ {0} /\ e.hblk \in Block /\ e.del \in BOOLEAN
BY DEF RecordType

LEMMA BlocksAreNumbers == Block \subseteq Nat /\ MaxBlocks \in Nat
BY MaxBlocksAssumption DEF Block

\* What is at a block of the header file.
LEMMA HeaderAt ==
    ASSUME TypeInv, NEW b \in Block
    PROVE  /\ shd[b] \in HeaderType \cup {NoHeader}
           /\ IsHeader(shd[b]) <=> shd[b] \in HeaderType
           /\ b \in Starts <=> shd[b] \in HeaderType
<1>1. shd[b] \in HeaderType \cup {NoHeader}
  BY DEF TypeInv, HeadTyped
<1>2. ~IsHeader(NoHeader)
  BY DEF IsHeader
<1>. QED  BY <1>1, <1>2, HeaderHasFields DEF Starts, IsHeader

LEMMA WriteType ==
    ASSUME TypeInv, NEW b, NEW h \in HeaderType, WriteHeaderAt(b, h)
    PROVE  /\ shd' \in [Block -> HeaderType \cup {NoHeader}]
           /\ \A k \in Block : shd'[k] = IF k = b THEN h
                                        ELSE IF k \in b + 1 .. b + h.n - 1 THEN NoHeader
                                        ELSE shd[k]
<1>1. shd' = [k \in Block |-> IF k = b THEN h
                            ELSE IF k \in b + 1 .. b + h.n - 1 THEN NoHeader
                            ELSE shd[k]]
  BY DEF WriteHeaderAt
<1>2. \A k \in Block : shd[k] \in HeaderType \cup {NoHeader}
  BY DEF TypeInv, HeadTyped
<1>. QED  BY <1>1, <1>2

LEMMA ListingType ==
    ASSUME NEW places, NEW s \in InOrder(places), idx \in Seq(RecordType),
           places \subseteq DOMAIN idx
    PROVE  /\ s \in Seq(RecordType) /\ Len(s) = Cardinality(places)
           /\ ListedIn(s) = {idx[i] : i \in places}
           /\ Apart(idx) => Apart(s)
<1>. DEFINE n == Cardinality(places)
<1>1. IsFiniteSet(places) /\ n \in Nat
  <2>1. IsFiniteSet(DOMAIN idx)
    <3>1. DOMAIN idx = 1 .. Len(idx) /\ Len(idx) \in Nat
      OBVIOUS
    <3>. QED  BY <3>1, FS_Interval
  <2>2. IsFiniteSet(places)
    BY <2>1, FS_Subset
  <2>. QED  BY <2>2, FS_CardinalityType
<1>2. PICK at \in Surjection(1 .. n, places) :
          /\ \A i, j \in DOMAIN at : i < j => at[i] < at[j]
          /\ s = [i \in DOMAIN at |-> idx[at[i]]]
  BY DEF InOrder, Reordered
<1>3. at \in [1 .. n -> places] /\ \A p \in places : \E i \in 1 .. n : at[i] = p
  BY <1>2 DEF Surjection
<1>. HIDE DEF n
<1>4. DOMAIN at = 1 .. n
  BY <1>3
<1>5. \A i \in 1 .. n : at[i] \in places /\ s[i] = idx[at[i]]
  BY <1>2, <1>3, <1>4
<1>6. \A i \in DOMAIN idx : idx[i] \in RecordType
  OBVIOUS
<1>7. s \in [1 .. n -> RecordType]
  BY <1>2, <1>4, <1>5, <1>6
<1>8. s \in Seq(RecordType) /\ Len(s) = n /\ DOMAIN s = 1 .. n
  BY <1>1, <1>7
<1>9. ListedIn(s) = {idx[i] : i \in places}
  BY <1>3, <1>5, <1>8 DEF ListedIn
<1>10. ASSUME Apart(idx) PROVE Apart(s)
  <2>1. \A i \in DOMAIN idx : i \in Int
    OBVIOUS
  <2>2. \A i, j \in 1 .. n : i # j => at[i] # at[j]
    BY <1>2, <1>3, <1>4, <2>1
  <2>. QED  BY <1>5, <1>8, <1>10, <2>2 DEF Apart
<1>. QED  BY <1>8, <1>9, <1>10 DEF n

LEMMA SortedType ==
    ASSUME idx \in Seq(RecordType), NEW s \in Sorted
    PROVE  /\ s \in Seq(RecordType) /\ Len(s) = Len(idx)
           /\ ListedIn(s) = ListedIn(idx)
           /\ Apart(idx) => Apart(s)
<1>1. PICK at \in Bijection(DOMAIN idx, DOMAIN idx) : s = [i \in DOMAIN at |-> idx[at[i]]]
  BY DEF Sorted, Reordered
<1>2. /\ at \in [DOMAIN idx -> DOMAIN idx]
      /\ \A i, j \in DOMAIN at : at[i] = at[j] => i = j
      /\ \A p \in DOMAIN idx : \E i \in DOMAIN idx : at[i] = p
  BY DEF Bijection, Injection, IsInjective, Surjection
<1>3. DOMAIN idx = 1 .. Len(idx) /\ Len(idx) \in Nat
  OBVIOUS
<1>4. \A i \in DOMAIN idx : s[i] = idx[at[i]] /\ at[i] \in DOMAIN idx /\ idx[i] \in RecordType
  BY <1>1, <1>2
<1>5. s \in [1 .. Len(idx) -> RecordType]
  BY <1>1, <1>2, <1>3, <1>4
<1>6. s \in Seq(RecordType) /\ Len(s) = Len(idx) /\ DOMAIN s = DOMAIN idx
  BY <1>3, <1>5
<1>7. ListedIn(s) = ListedIn(idx)
  BY <1>2, <1>4, <1>6 DEF ListedIn
<1>8. Apart(idx) => Apart(s)
  <2>1. DOMAIN at = DOMAIN idx
    BY <1>2
  <2>2. \A i, j \in DOMAIN idx : i # j => at[i] # at[j]
    BY <1>2, <2>1
  <2>. QED  BY <1>4, <1>6, <2>2 DEF Apart
<1>. QED  BY <1>6, <1>7, <1>8
-----------------------------------------------------------------------------
(* Every step keeps the types.                                             *)

LEMMA RecordsIn ==
    ASSUME TypeInv, NEW i \in DOMAIN idx
    PROVE  idx[i] \in RecordType /\ idx[i].hblk \in Block
BY RecordHasFields DEF TypeInv, IndexTyped

LEMMA DeletedType ==
    ASSUME NEW h \in HeaderType
    PROVE  /\ SetDeleted(h) \in HeaderType
           /\ SetDeleted(h).num = h.num /\ SetDeleted(h).n = h.n
           /\ SetDeleted(h).del = TRUE /\ SetDeleted(h).m = h.m
BY DEF SetDeleted, HeaderType

LEMMA IndexDeletedType ==
    ASSUME IndexTyped, NEW e, NEW h, h.num \in Nat \ {0}
    PROVE  /\ IndexDeleted(e, h) \in Seq(RecordType)
           /\ Len(IndexDeleted(e, h)) = Len(idx) /\ DOMAIN IndexDeleted(e, h) = DOMAIN idx
           /\ \A i \in DOMAIN idx :
                  /\ IndexDeleted(e, h)[i].hblk = idx[i].hblk
                  /\ IndexDeleted(e, h)[i].del = (idx[i].del \/ idx[i] = e)
<1>. DEFINE s == IndexDeleted(e, h)
            r == [num |-> h.num, hblk |-> e.hblk, del |-> TRUE]
<1>1. DOMAIN idx = 1 .. Len(idx) /\ Len(idx) \in Nat /\ DOMAIN s = DOMAIN idx
  BY DEF IndexTyped, IndexDeleted
<1>2. ASSUME NEW i \in DOMAIN idx
      PROVE  /\ s[i] \in RecordType
             /\ s[i].hblk = idx[i].hblk
             /\ s[i].del = (idx[i].del \/ idx[i] = e)
  <2>1. idx[i] \in RecordType
    BY DEF IndexTyped
  <2>2. CASE idx[i] = e
    <3>1. s[i] = r
      BY <2>2 DEF IndexDeleted
    <3>2. e.hblk \in Block
      BY <2>1, <2>2, RecordHasFields
    <3>3. r \in RecordType /\ r.hblk = e.hblk /\ r.del = TRUE
      BY <3>2 DEF RecordType
    <3>. HIDE DEF r, s
    <3>. QED  BY <2>2, <3>1, <3>3
  <2>3. CASE idx[i] # e
    <3>1. s[i] = idx[i]
      BY <2>3 DEF IndexDeleted
    <3>. HIDE DEF s
    <3>2. idx[i].del \in BOOLEAN
      BY <2>1, RecordHasFields
    <3>. QED  BY <2>1, <2>3, <3>1, <3>2
  <2>. QED  BY <2>2, <2>3
<1>3. s \in [1 .. Len(idx) -> RecordType]
  BY <1>1, <1>2 DEF IndexDeleted
<1>4. s \in Seq(RecordType) /\ Len(s) = Len(idx)
  BY <1>1, <1>3
<1>. QED  BY <1>1, <1>2, <1>4 DEF s

\* The number smb_init_idx() takes from the header in hand.
LEMMA HandNumber ==
    ASSUME TypeInv, WorkInv, FitInv, pc \in {"flag"} \cup Purging
    PROVE  cur.num \in Nat \ {0}
<1>1. cur \in HeaderType /\ cur.num \in Nat /\ IsHeader(cur)
  BY HeaderHasFields DEF TypeInv, WorkTyped
<1>2. pos < MaxBlocks /\ shd[pos] = cur
  BY DEF WorkInv, PlaceInv
<1>3. pos \in Starts
  BY <1>1, <1>2, MaxBlocksAssumption DEF Starts, Block, TypeInv, WorkTyped
<1>. QED  BY <1>1, <1>2, <1>3 DEF FitInv

LEMMA MarkType ==
    ASSUME TypeInv, NEW b, NEW n
    PROVE  /\ MarkUsed(sha, b, n) \in [Block -> {0, 1}]
           /\ MarkUsed(sda, b, n) \in [Block -> Refs]
<1>1. 1 \in {0, 1} /\ 1 \in Refs
  BY RefModulusAssumption DEF Refs
<1>. QED  BY <1>1, MarkUsedType DEF TypeInv, DataTyped, HeadTyped

LEMMA FreeRunType ==
    ASSUME TypeInv, NEW b, NEW n
    PROVE  FreeRun(sha, b, n) \in [Block -> {0, 1}]
BY DEF FreeRun, TypeInv, HeadTyped

LEMMA CountType ==
    ASSUME NEW table \in [Block -> Refs], NEW m
    PROVE  CountFields(table, m) \in [Block -> Refs]
<1>1. ASSUME NEW t \in [Block -> Refs], NEW field
      PROVE  CountField(t, m, field) \in [Block -> Refs]
  <2>1. \A k \in Block : t[k] \in Refs /\ (t[k] + 1) % RefModulus \in Refs
    BY RefModulusAssumption DEF Refs
  <2>. QED  BY <2>1 DEF CountField
<1>. QED  BY <1>1 DEF CountFields

LEMMA ZeroTables == /\ [b \in Block |-> 0] \in [Block -> Refs]
                    /\ [b \in Block |-> 0] \in [Block -> {0, 1}]
<1>1. 0 \in Refs
  BY RefModulusAssumption DEF Refs
<1>. QED  BY <1>1

LEMMA StoreTyped ==
    ASSUME TypeInv, NEW shape \in Shapes, NEW n \in HdrBlocks, StoreText(shape, n)
    PROVE  TypeInv'
<1>. DEFINE k == DatBlocks(shape.body + shape.tail)
            b == FirstFit(sda, sdaLen, k)
<1>1. /\ posts < MaxPosts /\ b + k <= MaxBlocks /\ posts' = posts + 1
      /\ sda' = MarkUsed(sda, b, k)
      /\ sdaLen' = LargerOf(sdaLen, b + k) /\ sdtLen' = LargerOf(sdtLen, b + k)
      /\ cur' = [num |-> lastMsg + 1, n |-> n, del |-> FALSE,
                 m |-> [text |-> posts + 1, blk |-> b,
                        body |-> shape.body, tail |-> shape.tail]]
      /\ pc' = "stored" /\ late' = (late \/ dirty)
      /\ UNCHANGED <<hdrVars, idxVars, todo, keep, flagged, pos, renumber,
                     dirty, misled, deleted>>
  BY DEF StoreText, StartWork
<1>2. shape.body \in Nat /\ shape.tail \in Nat /\ shape.body + shape.tail \in Nat
  BY RepairAssumption
<1>3. k \in Nat
  BY <1>2, DatBlocksType
<1>4. b \in 0 .. sdaLen /\ sdaLen \in 0 .. MaxBlocks /\ sda \in [Block -> Nat]
  <2>1. Refs \subseteq Nat
    BY RefModulusAssumption DEF Refs
  <2>2. sda \in [Block -> Nat]
    BY <2>1 DEF TypeInv, DataTyped
  <2>. QED  BY <2>2, <1>3, FirstFitFree DEF TypeInv, DataTyped
<1>. HIDE DEF k, b
<1>5. b \in 0 .. MaxBlocks /\ b + k \in 0 .. MaxBlocks
  BY <1>1, <1>3, <1>4, MaxBlocksAssumption
<1>6. LargerOf(sdaLen, b + k) \in 0 .. MaxBlocks
  BY <1>4, <1>5, LargerOfType
<1>7. DataTyped'
  BY <1>1, <1>6, MarkType DEF DataTyped, TypeInv
<1>8. posts \in Nat /\ posts + 1 \in 0 .. MaxPosts
  BY <1>1, RepairAssumption DEF TypeInv, GhostTyped
<1>9. cur' \in HeaderType
  <2>1. [text |-> posts + 1, blk |-> b, body |-> shape.body, tail |-> shape.tail] \in TextType
    BY <1>2, <1>5, <1>8 DEF TextType
  <2>. QED  BY <1>1, <2>1 DEF HeaderType, TypeInv, IndexTyped
<1>10. GhostTyped'
  BY <1>1, <1>8 DEF GhostTyped, TypeInv
<1>11. WorkTyped'
  BY <1>1, <1>9 DEF WorkTyped, TypeInv, Labels, idxVars
<1>. QED  BY <1>1, <1>7, <1>10, <1>11 DEF TypeInv, HeadTyped, IndexTyped, hdrVars, idxVars

LEMMA PostingTyped ==
    ASSUME TypeInv, WorkInv, Refuse \/ PlaceHeader \/ WriteHeader \/ WriteIndex \/ WriteStatus
    PROVE  TypeInv'
<1>. USE DEF datVars, hdrVars, idxVars, workVars, ghosts
<1>0. cur.n \in Nat /\ cur.num \in Nat /\ cur \in HeaderType
  BY HeaderHasFields DEF TypeInv, WorkTyped
<1>1. CASE Refuse
  <2>1. DataTyped'
    BY <1>1, FreeFieldsType DEF Refuse, DataTyped, TypeInv
  <2>. QED  BY <1>1, <2>1 DEF Refuse, TypeInv, HeadTyped, IndexTyped, WorkTyped, GhostTyped, Labels
<1>2. CASE PlaceHeader
  <2>. DEFINE b == FirstFit(sha, shaLen, cur.n)
  <2>1. /\ b + cur.n <= MaxBlocks /\ sha' = MarkUsed(sha, b, cur.n)
        /\ shaLen' = LargerOf(shaLen, b + cur.n) /\ pos' = b /\ pc' = "placed"
        /\ UNCHANGED <<datVars, shd, shdLen, idxVars, cur, todo, keep, flagged, renumber, ghosts>>
    BY <1>2 DEF PlaceHeader
  <2>2. sha \in [Block -> Nat] /\ shaLen \in 0 .. MaxBlocks
    BY DEF TypeInv, HeadTyped
  <2>3. b \in 0 .. shaLen
    BY <1>0, <2>2, FirstFitFree
  <2>. HIDE DEF b
  <2>4. b \in 0 .. MaxBlocks /\ b + cur.n \in 0 .. MaxBlocks
    BY <1>0, <2>1, <2>2, <2>3, MaxBlocksAssumption
  <2>5. shaLen' \in 0 .. MaxBlocks /\ shaLen' >= shaLen
    BY <2>1, <2>2, <2>4, LargerOfType
  <2>6. shdLen' \in 0 .. MaxBlocks
    BY <2>1 DEF TypeInv, HeadTyped
  <2>7. HeadTyped'
    BY <2>1, <2>5, <2>6, MarkType DEF TypeInv, HeadTyped
  <2>. QED  BY <2>1, <2>4, <2>7 DEF TypeInv, DataTyped, IndexTyped, WorkTyped, GhostTyped, Labels
<1>3. CASE WriteHeader
  <2>1. /\ pc = "placed" /\ WriteHeaderAt(pos, cur)
        /\ shdLen' = LargerOf(shdLen, pos + cur.n) /\ pc' = "written"
        /\ UNCHANGED <<datVars, sha, shaLen, idxVars, workVars,
                       dirty, late, misled, deleted, posts>>
    BY <1>3 DEF WriteHeader
  <2>2. pos + cur.n <= shaLen /\ pos \in Nat
    BY <2>1, MaxBlocksAssumption DEF WorkInv, PlaceInv, TodoInv, TypeInv, WorkTyped
  <2>3. shdLen \in 0 .. MaxBlocks /\ shaLen \in 0 .. MaxBlocks
    BY DEF TypeInv, HeadTyped
  <2>a. pos + cur.n \in 0 .. MaxBlocks
    BY <1>0, <2>2, <2>3, MaxBlocksAssumption
  <2>4. shdLen' \in 0 .. MaxBlocks
    BY <2>1, <2>3, <2>a, LargerOfType
  <2>5. HeadTyped'
    BY <1>0, <2>1, <2>4, WriteType DEF TypeInv, HeadTyped
  <2>. QED  BY <2>1, <2>5 DEF TypeInv, DataTyped, IndexTyped, WorkTyped, GhostTyped, Labels
<1>4. CASE WriteIndex
  <2>1. /\ pc = "written" /\ idx' = Append(idx, [num |-> cur.num, hblk |-> pos, del |-> FALSE])
        /\ pc' = "indexed"
        /\ UNCHANGED <<datVars, hdrVars, total, lastMsg, workVars, ghosts>>
    BY <1>4 DEF WriteIndex
  <2>2. cur.num > 0 /\ pos < MaxBlocks
    BY <2>1 DEF WorkInv, PostInv, PlaceInv, Posting
  <2>3. pos \in Block /\ cur.num \in Nat \ {0}
    BY <1>0, <2>2, MaxBlocksAssumption DEF TypeInv, WorkTyped, Block
  <2>4. [num |-> cur.num, hblk |-> pos, del |-> FALSE] \in RecordType
    BY <2>3 DEF RecordType
  <2>5. IndexTyped'
    BY <2>1, <2>4 DEF TypeInv, IndexTyped
  <2>. QED  BY <2>1, <2>5 DEF TypeInv, DataTyped, HeadTyped, WorkTyped, GhostTyped, Labels
<1>5. CASE WriteStatus
  <2>1. /\ lastMsg' = lastMsg + 1 /\ total' = total + 1 /\ pc' = "idle"
        /\ UNCHANGED <<datVars, hdrVars, idx, workVars,
                       dirty, late, misled, doomed, deleted, posts, crashes>>
    BY <1>5 DEF WriteStatus
  <2>2. total' \in Nat /\ flagged \in 0 .. total'
    BY <2>1 DEF TypeInv, IndexTyped, WorkTyped
  <2>3. IndexTyped'
    BY <2>1, <2>2 DEF TypeInv, IndexTyped
  <2>4. WorkTyped'
    BY <2>1, <2>2 DEF TypeInv, WorkTyped, Labels
  <2>. QED  BY <2>1, <2>3, <2>4 DEF TypeInv, DataTyped, HeadTyped, GhostTyped
<1>. QED  BY <1>1, <1>2, <1>3, <1>4, <1>5

\* smb_updatemsg() reads the header of one record and writes it at another's.
Flags(e, from, at, h) ==
    /\ from.hblk \in Starts /\ h = SetDeleted(shd[from.hblk]) /\ h.n \in Nat \ {0}
    /\ at \in RecordType /\ at.hblk \in Block /\ at.hblk + h.n <= MaxBlocks
    /\ pc = "idle" /\ pc' = "flag" /\ ~e.del
    /\ WriteHeaderAt(at.hblk, h) /\ shdLen' = LargerOf(shdLen, at.hblk + h.n)
    /\ cur' = h /\ pos' = at.hblk /\ todo' = <<at>>
    /\ deleted' = IF at.hblk # from.hblk \/ at.hblk \in copies THEN deleted
                  ELSE deleted \cup {h.m.text}
    /\ doomed' = doomed \cup TextsOf({e})
    /\ dirty' = (dirty \/ at.hblk # from.hblk)
    /\ misled' = (misled \/ at.hblk # from.hblk \/ from.hblk # e.hblk)
    /\ late' = (late \/ dirty \/ at.hblk # from.hblk \/ from.hblk # e.hblk)
    /\ at.hblk = from.hblk => copies' = copies
    /\ UNCHANGED <<datVars, sha, shaLen, idxVars, keep, flagged, renumber,
                   posted, posts, crashes>>

LEMMA FlagTyped ==
    ASSUME TypeInv, NEW e, e \in ListedIn(idx), FlagMessage(e)
    PROVE  \E from \in ListedIn(idx), at \in ListedIn(idx), h \in HeaderType :
               Flags(e, from, at, h)
<1>1. PICK from \in {e} \cup Found(e.num) :
      \E at \in {from} \cup Found(HeaderOf(from).num) :
        LET h == SetDeleted(HeaderOf(from))
            other == at.hblk # from.hblk
        IN  /\ IsHeader(HeaderOf(from))
            /\ at.hblk + h.n <= MaxBlocks
            /\ WriteHeaderAt(at.hblk, h)
            /\ shdLen' = LargerOf(shdLen, at.hblk + h.n)
            /\ cur' = h /\ pos' = at.hblk /\ todo' = <<at>>
            /\ dirty' = (dirty \/ other)
            /\ misled' = (misled \/ other \/ from.hblk # e.hblk)
            /\ late' = (late \/ dirty \/ other \/ from.hblk # e.hblk)
            /\ deleted' = IF other \/ at.hblk \in copies THEN deleted
                          ELSE deleted \cup {h.m.text}
            /\ copies' = IF other
                         THEN (copies \ (at.hblk .. at.hblk + h.n - 1)) \cup {at.hblk}
                         ELSE copies
  BY DEF FlagMessage
<1>2. from \in ListedIn(idx) /\ from \in RecordType /\ from.hblk \in Block
  <2>1. from \in ListedIn(idx)
    BY DEF Found, Records, ListedIn
  <2>. QED  BY <2>1, RecordHasFields DEF ListedIn, TypeInv, IndexTyped
<1>3. from.hblk \in Starts /\ shd[from.hblk] \in HeaderType
  BY <1>1, <1>2, HeaderAt DEF HeaderOf, Starts
<1>4. PICK h : h = SetDeleted(shd[from.hblk]) /\ h \in HeaderType /\ h.n \in Nat \ {0}
  BY <1>3, DeletedType, HeaderHasFields
<1>5. PICK at \in {from} \cup Found(HeaderOf(from).num) :
            /\ at.hblk + h.n <= MaxBlocks
            /\ WriteHeaderAt(at.hblk, h)
            /\ shdLen' = LargerOf(shdLen, at.hblk + h.n)
            /\ cur' = h /\ pos' = at.hblk /\ todo' = <<at>>
            /\ dirty' = (dirty \/ at.hblk # from.hblk)
            /\ misled' = (misled \/ at.hblk # from.hblk \/ from.hblk # e.hblk)
            /\ late' = (late \/ dirty \/ at.hblk # from.hblk \/ from.hblk # e.hblk)
            /\ deleted' = IF at.hblk # from.hblk \/ at.hblk \in copies THEN deleted
                          ELSE deleted \cup {h.m.text}
            /\ at.hblk = from.hblk => copies' = copies
  BY <1>1, <1>4 DEF HeaderOf
<1>6. at \in ListedIn(idx) /\ at \in RecordType /\ at.hblk \in Block
  <2>1. at \in ListedIn(idx)
    BY <1>2 DEF Found, Records, ListedIn
  <2>. QED  BY <2>1, RecordHasFields DEF ListedIn, TypeInv, IndexTyped
<1>7. /\ pc = "idle" /\ pc' = "flag" /\ ~e.del
      /\ doomed' = doomed \cup TextsOf({e})
      /\ UNCHANGED <<datVars, sha, shaLen, idxVars, keep, flagged, renumber,
                     posted, posts, crashes>>
  BY DEF FlagMessage
<1>8. Flags(e, from, at, h)
  BY <1>3, <1>4, <1>5, <1>6, <1>7 DEF Flags
<1>. QED  BY <1>2, <1>4, <1>6, <1>8

\* maint() finds a record with the number and writes its header again.
Purges(found, h) ==
    /\ found.hblk \in Starts /\ h = SetDeleted(shd[found.hblk])
    /\ found \in RecordType /\ found.hblk \in Block
    /\ pc = "maint" /\ pc' = "purge data" /\ todo # <<>>
    /\ WriteHeaderAt(found.hblk, h)
    /\ cur' = h /\ pos' = found.hblk /\ idx' = IndexDeleted(found, h)
    /\ Astray(found.hblk # Head(todo).hblk)
    /\ deleted' = IF found.hblk \in copies THEN deleted ELSE deleted \cup {h.m.text}
    /\ UNCHANGED <<datVars, sha, shaLen, shdLen, total, lastMsg, todo, keep, flagged,
                   renumber, posted, doomed, copies, posts, crashes>>

LEMMA PurgeHeaderTyped ==
    ASSUME TypeInv, PurgeHeader
    PROVE  \E found \in ListedIn(idx), h \in HeaderType : Purges(found, h)
<1>1. PICK found \in Found(Head(todo).num) :
        LET h == SetDeleted(HeaderOf(found))
        IN  /\ IsHeader(HeaderOf(found))
            /\ WriteHeaderAt(found.hblk, h)
            /\ cur' = h /\ pos' = found.hblk
            /\ idx' = IndexDeleted(found, h)
            /\ Astray(found.hblk # Head(todo).hblk)
            /\ deleted' = IF found.hblk \in copies THEN deleted ELSE deleted \cup {h.m.text}
  BY DEF PurgeHeader
<1>2. found \in ListedIn(idx)
  BY DEF Found, Records, ListedIn
<1>3. found \in RecordType /\ found.hblk \in Block
  BY <1>2, RecordHasFields DEF ListedIn, TypeInv, IndexTyped
<1>4. found.hblk \in Starts /\ shd[found.hblk] \in HeaderType
  BY <1>1, <1>3, HeaderAt DEF HeaderOf, Starts
<1>5. PICK h : h = SetDeleted(shd[found.hblk]) /\ h \in HeaderType
  BY <1>4, DeletedType
<1>6. /\ WriteHeaderAt(found.hblk, h)
      /\ cur' = h /\ pos' = found.hblk /\ idx' = IndexDeleted(found, h)
      /\ Astray(found.hblk # Head(todo).hblk)
      /\ deleted' = IF found.hblk \in copies THEN deleted ELSE deleted \cup {h.m.text}
  BY <1>1, <1>5 DEF HeaderOf
<1>7. /\ pc = "maint" /\ pc' = "purge data" /\ todo # <<>>
      /\ UNCHANGED <<datVars, sha, shaLen, shdLen, total, lastMsg, todo, keep, flagged,
                     renumber, posted, doomed, copies, posts, crashes>>
  BY DEF PurgeHeader
<1>8. Purges(found, h)
  BY <1>3, <1>4, <1>5, <1>6, <1>7 DEF Purges
<1>. QED  BY <1>2, <1>5, <1>8

LEMMA LoadedPlaces ==
    ASSUME IndexTyped, NEW places, places \subseteq {i \in DOMAIN idx : i <= total}
    PROVE  /\ IsFiniteSet(places) /\ Cardinality(places) \in 0 .. total
           /\ IsFiniteSet({i \in DOMAIN idx : i <= total})
<1>1. DOMAIN idx = 1 .. Len(idx) /\ Len(idx) \in Nat /\ total \in Nat
  BY DEF IndexTyped
<1>2. {i \in DOMAIN idx : i <= total} \subseteq 1 .. total /\ places \subseteq 1 .. total
  BY <1>1
<1>3. IsFiniteSet(1 .. total) /\ Cardinality(1 .. total) = total
  BY <1>1, FS_Interval
<1>4. IsFiniteSet(places) /\ Cardinality(places) <= total
  <2>1. places \in SUBSET (1 .. total)
    BY <1>2
  <2>2. IsFiniteSet(places) /\ Cardinality(places) <= Cardinality(1 .. total)
    BY <1>3, <2>1, FS_Subset
  <2>. QED  BY <1>3, <2>2
<1>5. Cardinality(places) \in Nat
  BY <1>4, FS_CardinalityType
<1>6. IsFiniteSet({i \in DOMAIN idx : i <= total})
  <2>1. {i \in DOMAIN idx : i <= total} \in SUBSET (1 .. total)
    BY <1>2
  <2>. QED  BY <1>3, <2>1, FS_Subset
<1>. QED  BY <1>1, <1>4, <1>5, <1>6

LEMMA MaintTyped ==
    ASSUME TypeInv, WorkInv, FitInv,
           \/ \E e \in ListedIn(idx) : FlagMessage(e)
           \/ FlagIndex
           \/ \E chosen \in SUBSET DOMAIN idx : MaintStart(chosen)
    PROVE  TypeInv'
<1>. USE DEF datVars, hdrVars, idxVars, workVars, ghosts
<1>1. ASSUME NEW e \in ListedIn(idx), FlagMessage(e) PROVE TypeInv'
  <2>a. PICK from \in ListedIn(idx), at \in ListedIn(idx), h \in HeaderType :
            Flags(e, from, at, h)
    BY <1>1, FlagTyped
  <2>1.     /\ from.hblk \in Starts /\ h = SetDeleted(shd[from.hblk]) /\ h.n \in Nat \ {0}
            /\ at \in RecordType /\ at.hblk \in Block /\ at.hblk + h.n <= MaxBlocks
            /\ pc' = "flag"
            /\ WriteHeaderAt(at.hblk, h) /\ shdLen' = LargerOf(shdLen, at.hblk + h.n)
            /\ cur' = h /\ pos' = at.hblk /\ todo' = <<at>>
            /\ deleted' = IF at.hblk # from.hblk \/ at.hblk \in copies THEN deleted
                          ELSE deleted \cup {h.m.text}
            /\ dirty' = (dirty \/ at.hblk # from.hblk)
            /\ misled' = (misled \/ at.hblk # from.hblk \/ from.hblk # e.hblk)
            /\ late' = (late \/ dirty \/ at.hblk # from.hblk \/ from.hblk # e.hblk)
            /\ UNCHANGED <<datVars, sha, shaLen, idxVars, keep, flagged, renumber, posts>>
    BY <2>a DEF Flags
  <2>2. shd' \in [Block -> HeaderType \cup {NoHeader}]
    BY <2>1, WriteType
  <2>3. shd[from.hblk] \in HeaderType
    BY <2>1, HeaderAt DEF Starts
  <2>4. h.m.text \in 1 .. posts
    BY <2>1, <2>3, DeletedType DEF FitInv
  <2>5. todo' \in Seq(RecordType)
    BY <2>1
  <2>6. pos' \in 0 .. MaxBlocks
    BY <2>1, MaxBlocksAssumption DEF Block
  <2>7. shdLen' \in 0 .. MaxBlocks
    <3>1. at.hblk \in Nat /\ h.n \in Nat /\ at.hblk + h.n <= MaxBlocks /\ MaxBlocks \in Nat
      BY <2>1, BlocksAreNumbers
    <3>2. at.hblk + h.n \in 0 .. MaxBlocks
      BY <3>1
    <3>. QED  BY <2>1, <3>2, LargerOfType DEF TypeInv, HeadTyped
  <2>8. WorkTyped'
    BY <2>1, <2>5, <2>6 DEF TypeInv, WorkTyped, Labels
  <2>9. deleted' \subseteq 1 .. posts
    BY <2>1, <2>4 DEF TypeInv, GhostTyped
  <2>10. dirty' \in BOOLEAN /\ late' \in BOOLEAN /\ misled' \in BOOLEAN
    BY <2>1 DEF TypeInv, GhostTyped
  <2>11. GhostTyped'
    BY <2>1, <2>9, <2>10 DEF TypeInv, GhostTyped
  <2>12. HeadTyped'
    BY <2>1, <2>2, <2>7 DEF TypeInv, HeadTyped
  <2>. QED  BY <2>1, <2>8, <2>11, <2>12 DEF TypeInv, DataTyped, IndexTyped
<1>2. ASSUME FlagIndex PROVE TypeInv'
  <2>1. /\ pc = "flag" /\ idx' = IndexDeleted(Head(todo), cur) /\ todo' = Tail(todo) /\ pc' = "idle"
        /\ UNCHANGED <<datVars, hdrVars, total, lastMsg, cur, keep, flagged, pos, renumber, ghosts>>
    BY <1>2 DEF FlagIndex
  <2>2. idx' \in Seq(RecordType)
    BY <2>1, HandNumber, IndexDeletedType DEF TypeInv
  <2>3. todo' \in Seq(RecordType)
    BY <2>1 DEF WorkInv, PlaceInv, TodoInv, TypeInv, WorkTyped
  <2>. QED  BY <2>1, <2>2, <2>3 DEF TypeInv, DataTyped, HeadTyped, IndexTyped, WorkTyped,
                                    GhostTyped, Labels
<1>3. ASSUME NEW chosen, MaintStart(chosen) PROVE TypeInv'
  <2>. DEFINE loaded == {i \in DOMAIN idx : i <= total}
              purge  == {i \in loaded : idx[i].del \/ i \in chosen}
  <2>1. /\ todo' \in InOrder(purge) /\ keep' \in InOrder(loaded \ purge)
        /\ flagged' = Cardinality(purge) /\ pc' = "maint" /\ late' = (late \/ dirty)
        /\ UNCHANGED <<datVars, hdrVars, idxVars, cur, pos, renumber,
                       dirty, misled, deleted, posts>>
    BY <1>3 DEF MaintStart, StartWork
  <2>2. purge \subseteq loaded /\ loaded \subseteq DOMAIN idx /\ loaded \ purge \subseteq DOMAIN idx
    OBVIOUS
  <2>3. Cardinality(purge) \in 0 .. total
    BY <2>2, LoadedPlaces DEF TypeInv
  <2>. HIDE DEF purge, loaded
  <2>4. todo' \in Seq(RecordType) /\ keep' \in Seq(RecordType)
    BY <2>1, <2>2, ListingType DEF TypeInv, IndexTyped
  <2>5. WorkTyped'
    BY <2>1, <2>3, <2>4 DEF TypeInv, WorkTyped, Labels
  <2>6. GhostTyped'
    BY <2>1 DEF TypeInv, GhostTyped
  <2>. QED  BY <2>1, <2>5, <2>6 DEF TypeInv, DataTyped, HeadTyped, IndexTyped
<1>. QED  BY <1>1, <1>2, <1>3

LEMMA TailType ==
    ASSUME WorkTyped, todo # <<>>
    PROVE  Tail(todo) \in Seq(RecordType) /\ Head(todo) \in RecordType
BY DEF WorkTyped

LEMMA PurgeTyped ==
    ASSUME TypeInv, WorkInv, FitInv,
           PurgeHeader \/ PurgeNotFound \/ PurgeBadHeader \/ PurgeData \/ PurgeBlocks
    PROVE  TypeInv'
<1>. USE DEF datVars, hdrVars, idxVars, workVars, ghosts
<1>0. ASSUME NEW wrong \in BOOLEAN, Astray(wrong)
      PROVE  dirty' \in BOOLEAN /\ late' \in BOOLEAN /\ misled' \in BOOLEAN
  BY <1>0 DEF Astray, TypeInv, GhostTyped
<1>1. CASE PurgeHeader
  <2>a. PICK found \in ListedIn(idx), h \in HeaderType : Purges(found, h)
    BY <1>1, PurgeHeaderTyped
  <2>1.        /\ found.hblk \in Starts /\ h = SetDeleted(shd[found.hblk])
               /\ found.hblk \in Block /\ pc' = "purge data"
               /\ WriteHeaderAt(found.hblk, h)
               /\ cur' = h /\ pos' = found.hblk /\ idx' = IndexDeleted(found, h)
               /\ deleted' = IF found.hblk \in copies THEN deleted
                             ELSE deleted \cup {h.m.text}
               /\ UNCHANGED <<datVars, sha, shaLen, shdLen, total, lastMsg, todo, keep, flagged,
                              renumber, posts>>
    BY <2>a DEF Purges
  <2>d. dirty' \in BOOLEAN /\ late' \in BOOLEAN /\ misled' \in BOOLEAN
    BY <1>0, <2>a DEF Purges
  <2>2. shd' \in [Block -> HeaderType \cup {NoHeader}]
    BY <2>1, WriteType
  <2>3. shd[found.hblk] \in HeaderType
    BY <2>1, HeaderAt DEF Starts
  <2>b. h.m = shd[found.hblk].m /\ h.num = shd[found.hblk].num
    BY <2>1, <2>3, DeletedType
  <2>c. h.num \in Nat
    BY HeaderHasFields
  <2>4. h.m.text \in 1 .. posts /\ h.num \in Nat \ {0}
    <3>1. found.hblk \in Starts
      BY <2>1
    <3>2. shd[found.hblk].m.text \in 1 .. posts /\ shd[found.hblk].num > 0
      BY <3>1 DEF FitInv
    <3>. QED  BY <2>b, <2>c, <3>2
  <2>5. pos' \in 0 .. MaxBlocks
    <3>1. found.hblk \in Block /\ pos' = found.hblk
      BY <2>1
    <3>. QED  BY <3>1, MaxBlocksAssumption DEF Block
  <2>6. idx' \in Seq(RecordType)
    BY <2>1, <2>4, IndexDeletedType DEF TypeInv
  <2>7. WorkTyped'
    BY <2>1, <2>5 DEF TypeInv, WorkTyped, Labels
  <2>8. deleted' \subseteq 1 .. posts
    BY <2>1, <2>4 DEF TypeInv, GhostTyped
  <2>9. GhostTyped'
    BY <2>1, <2>d, <2>8 DEF TypeInv, GhostTyped
  <2>10. HeadTyped'
    BY <2>1, <2>2 DEF TypeInv, HeadTyped
  <2>. QED  BY <2>1, <2>6, <2>7, <2>9, <2>10 DEF TypeInv, DataTyped, IndexTyped
<1>2. CASE PurgeNotFound \/ PurgeBadHeader
  <2>1. /\ todo' = <<>> \/ (todo # <<>> /\ todo' = Tail(todo))
        /\ UNCHANGED <<datVars, hdrVars, idxVars, cur, keep, flagged, pos, renumber, pc,
                       deleted, posts>>
    BY <1>2 DEF PurgeNotFound, PurgeBadHeader
  <2>b. \E wrong \in BOOLEAN : Astray(wrong)
    BY <1>2 DEF PurgeNotFound, PurgeBadHeader
  <2>2. todo' \in Seq(RecordType)
    <3>1. CASE todo' = <<>>
      BY <3>1
    <3>2. CASE todo # <<>> /\ todo' = Tail(todo)
      BY <3>2, TailType DEF TypeInv
    <3>. QED  BY <2>1, <3>1, <3>2
  <2>3. WorkTyped'
    BY <2>1, <2>2 DEF TypeInv, WorkTyped
  <2>4. dirty' \in BOOLEAN /\ late' \in BOOLEAN /\ misled' \in BOOLEAN
    BY <1>0, <2>b
  <2>. QED  BY <2>1, <2>3, <2>4 DEF TypeInv, DataTyped, HeadTyped, IndexTyped, GhostTyped
<1>3. CASE PurgeData
  <2>1. DataTyped'
    BY <1>3, FreeFieldsType DEF PurgeData, TypeInv, DataTyped
  <2>2. WorkTyped'
    BY <1>3 DEF PurgeData, TypeInv, WorkTyped, Labels
  <2>. QED  BY <1>3, <2>1, <2>2 DEF PurgeData, TypeInv, HeadTyped, IndexTyped, GhostTyped
<1>4. CASE PurgeBlocks
  <2>1. HeadTyped'
    BY <1>4, FreeRunType DEF PurgeBlocks, TypeInv, HeadTyped
  <2>2. todo # <<>>
    BY <1>4 DEF PurgeBlocks, WorkInv, PlaceInv, Purging
  <2>3. Tail(todo) \in Seq(RecordType)
    BY <2>2, TailType DEF TypeInv
  <2>4. WorkTyped'
    BY <1>4, <2>3 DEF PurgeBlocks, TypeInv, WorkTyped, Labels
  <2>. QED  BY <1>4, <2>1, <2>4 DEF PurgeBlocks, TypeInv, DataTyped, IndexTyped, GhostTyped
<1>. QED  BY <1>1, <1>2, <1>3, <1>4

LEMMA RewriteIndexTyped ==
    ASSUME TypeInv, TruncateIndex \/ RewriteIndex \/ MaintStatus
    PROVE  TypeInv'
<1>. USE DEF datVars, hdrVars, idxVars, workVars, ghosts
<1>1. CASE TruncateIndex
  <2>1. WorkTyped'
    BY <1>1 DEF TruncateIndex, TypeInv, WorkTyped, Labels
  <2>2. IndexTyped'
    BY <1>1 DEF TruncateIndex, TypeInv, IndexTyped
  <2>. QED  BY <1>1, <2>1, <2>2 DEF TruncateIndex, TypeInv, DataTyped, HeadTyped, GhostTyped
<1>2. CASE RewriteIndex
  <2>1. WorkTyped'
    BY <1>2 DEF RewriteIndex, TypeInv, WorkTyped, Labels
  <2>2. IndexTyped'
    BY <1>2 DEF RewriteIndex, TypeInv, IndexTyped, WorkTyped
  <2>. QED  BY <1>2, <2>1, <2>2 DEF RewriteIndex, TypeInv, DataTyped, HeadTyped, GhostTyped
<1>3. CASE MaintStatus
  <2>1. total' = total - flagged /\ total' \in Nat /\ flagged' = 0 /\ keep' = <<>>
    BY <1>3 DEF MaintStatus, TypeInv, IndexTyped, WorkTyped
  <2>2. WorkTyped'
    BY <1>3, <2>1 DEF MaintStatus, TypeInv, WorkTyped, Labels
  <2>3. IndexTyped'
    BY <1>3, <2>1 DEF MaintStatus, TypeInv, IndexTyped
  <2>. QED  BY <1>3, <2>2, <2>3 DEF MaintStatus, TypeInv, DataTyped, HeadTyped, GhostTyped
<1>. QED  BY <1>1, <1>2, <1>3

\* The step of fixsmb from a header to the block behind it.
LEMMA FixHeaderParts ==
    ASSUME TypeInv, WorkInv, FitInv, FixHeader
    PROVE  LET old == shd[pos]
               num == IF renumber THEN Len(idx) + 1 ELSE old.num
               h   == [num |-> num, n |-> old.n, del |-> old.del, m |-> old.m]
               e   == [num |-> num, hblk |-> pos, del |-> FALSE]
           IN  /\ pc = "fix" /\ pos \in Starts /\ old \in HeaderType /\ h \in HeaderType
               /\ pos + old.n <= shdLen /\ pos' = pos + old.n /\ num > 0
               /\ e \in RecordType
               /\ sda' = (IF old.del THEN sda ELSE CountFields(sda, old.m))
               /\ old.del => /\ sha' = FreeRun(sha, pos, old.n)
                             /\ UNCHANGED <<shd, idx>>
               /\ ~old.del => /\ sha' = MarkUsed(sha, pos, old.n)
                              /\ shd' = [shd EXCEPT ![pos] = h]
                              /\ idx' = Append(idx, e)
               /\ UNCHANGED <<sdaLen, sdtLen, shaLen, shdLen, total, lastMsg, pc, cur, todo,
                              keep, flagged, renumber, ghosts>>
<1>. DEFINE old == shd[pos]
            num == IF renumber THEN Len(idx) + 1 ELSE old.num
            h   == [num |-> num, n |-> old.n, del |-> old.del, m |-> old.m]
            e   == [num |-> num, hblk |-> pos, del |-> FALSE]
<1>1. /\ pc = "fix" /\ pos < shdLen /\ IsHeader(old)
      /\ sda' = (IF old.del THEN sda ELSE CountFields(sda, old.m))
      /\ old.del => /\ sha' = FreeRun(sha, pos, old.n)
                    /\ UNCHANGED <<shd, idx>>
      /\ ~old.del => /\ sha' = MarkUsed(sha, pos, old.n)
                     /\ shd' = [shd EXCEPT ![pos] = h]
                     /\ idx' = Append(idx, e)
      /\ pos' = pos + old.n
      /\ UNCHANGED <<sdaLen, sdtLen, shaLen, shdLen, total, lastMsg, pc, cur, todo,
                     keep, flagged, renumber, ghosts>>
  BY DEF FixHeader, FixCounts
<1>2. pos \in Block
  BY <1>1, MaxBlocksAssumption DEF TypeInv, WorkTyped, HeadTyped, Block
<1>3. old \in HeaderType /\ pos \in Starts
  BY <1>1, <1>2, HeaderAt
<1>4. pos + old.n <= shdLen /\ old.num > 0 /\ old.num \in Nat
  BY <1>3, HeaderHasFields DEF FitInv
<1>5. Len(idx) \in Nat
  BY DEF TypeInv, IndexTyped
<1>6. num \in Nat \ {0}
  BY <1>4, <1>5
<1>. HIDE DEF num
<1>7. h \in HeaderType
  BY <1>3, <1>6 DEF HeaderType
<1>8. e \in RecordType
  BY <1>2, <1>6 DEF RecordType
<1>. QED  BY <1>1, <1>3, <1>4, <1>6, <1>7, <1>8 DEF num

LEMMA FixTyped ==
    ASSUME TypeInv, WorkInv, FitInv,
           (\E option \in BOOLEAN : FixStart(option)) \/ FixHeader \/ FixNoHeader \/ FixEnd
    PROVE  TypeInv'
<1>. USE DEF datVars, hdrVars, idxVars, workVars, ghosts
<1>1. ASSUME NEW option \in BOOLEAN, FixStart(option) PROVE TypeInv'
  <2>1. DataTyped'
    BY <1>1, ZeroTables DEF FixStart, TypeInv, DataTyped
  <2>2. shdLen \in 0 .. MaxBlocks
    BY DEF TypeInv, HeadTyped
  <2>3. HeadTyped'
    BY <1>1, <2>2, ZeroTables DEF FixStart, TypeInv, HeadTyped
  <2>4. WorkTyped'
    BY <1>1, MaxBlocksAssumption DEF FixStart, TypeInv, WorkTyped, Labels
  <2>5. IndexTyped'
    BY <1>1 DEF FixStart, TypeInv, IndexTyped
  <2>. QED  BY <1>1, <2>1, <2>3, <2>4, <2>5 DEF FixStart, TypeInv, GhostTyped
<1>2. CASE FixHeader
  <2>. DEFINE old == shd[pos]
              num == IF renumber THEN Len(idx) + 1 ELSE old.num
              h   == [num |-> num, n |-> old.n, del |-> old.del, m |-> old.m]
              e   == [num |-> num, hblk |-> pos, del |-> FALSE]
  <2>1. /\ pos \in Starts /\ old \in HeaderType /\ h \in HeaderType /\ e \in RecordType
        /\ pos + old.n <= shdLen /\ pos' = pos + old.n
        /\ sda' = (IF old.del THEN sda ELSE CountFields(sda, old.m))
        /\ old.del => /\ sha' = FreeRun(sha, pos, old.n)
                      /\ UNCHANGED <<shd, idx>>
        /\ ~old.del => /\ sha' = MarkUsed(sha, pos, old.n)
                       /\ shd' = [shd EXCEPT ![pos] = h]
                       /\ idx' = Append(idx, e)
        /\ UNCHANGED <<sdaLen, sdtLen, shaLen, shdLen, total, lastMsg, pc, cur, todo,
                       keep, flagged, renumber, ghosts>>
    BY <1>2, FixHeaderParts
  <2>2. pos \in Nat /\ old.n \in Nat /\ shdLen \in 0 .. MaxBlocks
    BY <2>1, HeaderHasFields, MaxBlocksAssumption DEF TypeInv, WorkTyped, HeadTyped
  <2>. HIDE DEF old, h, e
  <2>3. pos' \in 0 .. MaxBlocks
    BY <2>1, <2>2, MaxBlocksAssumption
  <2>4. DataTyped'
    BY <2>1, CountType DEF TypeInv, DataTyped
  <2>5. sha' \in [Block -> {0, 1}]
    BY <2>1, FreeRunType, MarkType
  <2>6. shd' \in [Block -> HeaderType \cup {NoHeader}]
    BY <2>1 DEF TypeInv, HeadTyped
  <2>7. HeadTyped'
    BY <2>1, <2>5, <2>6 DEF TypeInv, HeadTyped
  <2>8. IndexTyped'
    BY <2>1 DEF TypeInv, IndexTyped
  <2>9. WorkTyped'
    BY <2>1, <2>3 DEF TypeInv, WorkTyped
  <2>. QED  BY <2>1, <2>4, <2>7, <2>8, <2>9 DEF TypeInv, GhostTyped
<1>3. CASE FixNoHeader
  <2>1. pos' = pos + 1 /\ pos' \in 0 .. MaxBlocks
    BY <1>3, MaxBlocksAssumption DEF FixNoHeader, TypeInv, WorkTyped, HeadTyped
  <2>2. WorkTyped'
    BY <1>3, <2>1 DEF FixNoHeader, TypeInv, WorkTyped
  <2>. QED  BY <1>3, <2>2 DEF FixNoHeader, TypeInv, DataTyped, HeadTyped, IndexTyped, GhostTyped
<1>4. CASE FixEnd
  <2>1. flagged = 0
    BY <1>4 DEF FixEnd, WorkInv, TodoInv, Maintaining
  <2>2. total' = Len(idx) /\ (lastMsg' = Len(idx) \/ lastMsg' = lastMsg)
    BY <1>4 DEF FixEnd
  <2>a. idx' \in Sorted \/ idx' = idx
    BY <1>4 DEF FixEnd
  <2>3. Len(idx) \in Nat /\ idx' \in Seq(RecordType)
    BY <2>a, SortedType DEF TypeInv, IndexTyped
  <2>4. IndexTyped'
    <3>1. lastMsg \in Nat
      BY DEF TypeInv, IndexTyped
    <3>2. total' \in Nat /\ lastMsg' \in Nat
      BY <2>2, <2>3, <3>1
    <3>. QED  BY <2>3, <3>2 DEF IndexTyped
  <2>5. flagged' = 0 /\ flagged' \in 0 .. total'
    BY <1>4, <2>1, <2>2, <2>3 DEF FixEnd
  <2>6. WorkTyped'
    BY <1>4, <2>5 DEF FixEnd, TypeInv, WorkTyped, Labels
  <2>. QED  BY <1>4, <2>4, <2>6 DEF FixEnd, TypeInv, DataTyped, HeadTyped, GhostTyped
<1>. QED  BY <1>1, <1>2, <1>3, <1>4

LEMMA NoWorkType == NoWork \in HeaderType
<1>1. NoText \in TextType
  BY RepairAssumption, MaxBlocksAssumption DEF NoText, TextType
<1>. QED  BY <1>1 DEF NoWork, HeaderType

LEMMA CrashTyped == ASSUME TypeInv, Crash PROVE TypeInv'
<1>. USE DEF datVars, hdrVars, idxVars, workVars, ghosts
<1>1. 0 \in 0 .. total /\ 0 \in 0 .. MaxBlocks
  BY MaxBlocksAssumption DEF TypeInv, IndexTyped
<1>0. <<>> \in Seq(RecordType)
  OBVIOUS
<1>2. WorkTyped'
  BY <1>0, <1>1, NoWorkType DEF Crash, TypeInv, WorkTyped, Labels
<1>. QED  BY <1>2 DEF Crash, TypeInv, DataTyped, HeadTyped, IndexTyped, GhostTyped

LEMMA NextTyped ==
    ASSUME TypeInv, WorkInv, FitInv, [Next]_vars
    PROVE  TypeInv'
<1>1. CASE AddMessage
  BY <1>1, StoreTyped, PostingTyped DEF AddMessage
<1>2. CASE Maintain
  <2>1. \A i \in DOMAIN idx : idx[i] \in ListedIn(idx)
    BY DEF ListedIn
  <2>. QED  BY <1>2, <2>1, MaintTyped, PurgeTyped, RewriteIndexTyped DEF Maintain
<1>3. CASE Repair
  BY <1>3, FixTyped DEF Repair
<1>4. CASE Crash
  BY <1>4, CrashTyped
<1>5. CASE UNCHANGED vars
  BY <1>5 DEF vars, datVars, hdrVars, idxVars, workVars, ghosts, TypeInv, DataTyped, HeadTyped,
              IndexTyped, WorkTyped, GhostTyped
<1>. QED  BY <1>1, <1>2, <1>3, <1>4, <1>5 DEF Next
-----------------------------------------------------------------------------
(* What the process at work has in hand.                                   *)

\* Where the headers are after one is written over what was there.
LEMMA WriteStarts ==
    ASSUME TypeInv, NEW b \in Block, NEW h \in HeaderType, WriteHeaderAt(b, h)
    PROVE  /\ b \in Starts' /\ shd'[b] = h
           /\ \A k \in Starts' : k # b =>
                  k \in Starts /\ k \notin b .. b + h.n - 1 /\ shd'[k] = shd[k]
           /\ \A k \in Starts : k \notin b .. b + h.n - 1 => k \in Starts' /\ shd'[k] = shd[k]
<1>1. \A k \in Block : shd'[k] = IF k = b THEN h
                                ELSE IF k \in b + 1 .. b + h.n - 1 THEN NoHeader ELSE shd[k]
  BY WriteType
<1>2. b \in Nat /\ h.n \in Nat \ {0} /\ IsHeader(h)
  BY HeaderHasFields, BlocksAreNumbers
<1>3. \A k \in Block : k \in b .. b + h.n - 1 <=> k = b \/ k \in b + 1 .. b + h.n - 1
  BY <1>2, BlocksAreNumbers
<1>4. ~IsHeader(NoHeader)
  BY DEF IsHeader
<1>5. b \in Starts' /\ shd'[b] = h
  BY <1>1, <1>2 DEF Starts
<1>6. ASSUME NEW k \in Starts', k # b
      PROVE  k \in Starts /\ k \notin b .. b + h.n - 1 /\ shd'[k] = shd[k]
  <2>1. k \in Block /\ IsHeader(shd'[k])
    BY <1>6 DEF Starts
  <2>2. k \notin b + 1 .. b + h.n - 1
    BY <1>1, <1>4, <1>6, <2>1
  <2>. QED  BY <1>1, <1>3, <1>6, <2>1, <2>2 DEF Starts
<1>7. ASSUME NEW k \in Starts, k \notin b .. b + h.n - 1
      PROVE  k \in Starts' /\ shd'[k] = shd[k]
  <2>1. k \in Block /\ IsHeader(shd[k])
    BY DEF Starts
  <2>2. k # b /\ k \notin b + 1 .. b + h.n - 1
    BY <1>3, <1>7, <2>1
  <2>3. shd'[k] = shd[k]
    BY <1>1, <2>1, <2>2
  <2>. QED  BY <2>1, <2>3 DEF Starts
<1>. QED  BY <1>5, <1>6, <1>7

LEMMA StoreWork ==
    ASSUME TypeInv, WorkInv, NEW shape \in Shapes, NEW n \in HdrBlocks, StoreText(shape, n)
    PROVE  /\ WorkInv'
           /\ sdaLen' >= sdaLen /\ posts' = posts + 1 /\ posts \in Nat
           /\ \A k \in Block : k < sdaLen /\ k \in Extent(cur'.m) => sda[k] = 0
           /\ \A k \in Extent(cur'.m) : k \in Block
           /\ \A k \in Block : sda'[k] = IF k \in Extent(cur'.m) THEN 1 ELSE sda[k]
           /\ cur'.n \in HdrBlocks
<1>. DEFINE k == DatBlocks(shape.body + shape.tail)
            b == FirstFit(sda, sdaLen, k)
            m == [text |-> posts + 1, blk |-> b, body |-> shape.body, tail |-> shape.tail]
<1>1. /\ posts < MaxPosts /\ b + k <= MaxBlocks /\ posts' = posts + 1
      /\ pc = "idle" /\ pc' = "stored"
      /\ sda' = MarkUsed(sda, b, k)
      /\ sdaLen' = LargerOf(sdaLen, b + k)
      /\ cur' = [num |-> lastMsg + 1, n |-> n, del |-> FALSE, m |-> m]
      /\ UNCHANGED <<hdrVars, idxVars, todo, keep, flagged, pos, renumber, dirty, deleted>>
  BY DEF StoreText, StartWork
<1>2. shape.body \in Nat /\ shape.tail \in Nat /\ shape.body + shape.tail \in Nat
  BY RepairAssumption
<1>3. k \in Nat
  BY <1>2, DatBlocksType
<1>4. sdaLen \in 0 .. MaxBlocks /\ sda \in [Block -> Nat] /\ DOMAIN sda = Block
  <2>1. Refs \subseteq Nat
    BY RefModulusAssumption DEF Refs
  <2>2. sda \in [Block -> Nat]
    BY <2>1 DEF TypeInv, DataTyped
  <2>. QED  BY <2>2 DEF TypeInv, DataTyped
<1>5. b \in 0 .. sdaLen /\ \A j \in b .. b + k - 1 : j < sdaLen => sda[j] = 0
  BY <1>3, <1>4, FirstFitFree
<1>6. Extent(m) = b .. b + k - 1 /\ m.text = posts + 1 /\ m.tail = shape.tail
  <2>1. m.blk = b /\ m.body = shape.body /\ m.tail = shape.tail /\ m.text = posts + 1
    OBVIOUS
  <2>. QED  BY <2>1 DEF Extent
<1>7. cur'.num = lastMsg + 1 /\ cur'.del = FALSE /\ cur'.m = m /\ cur'.n = n
  BY <1>1
<1>. HIDE DEF k, b, m
<1>8. /\ b \in Nat /\ sdaLen \in Nat /\ posts \in Nat /\ lastMsg \in Nat
      /\ deleted \subseteq 1 .. posts
  BY <1>4, <1>5, RepairAssumption, MaxBlocksAssumption DEF TypeInv, GhostTyped, IndexTyped
<1>9. sdaLen' >= sdaLen /\ sdaLen' >= b + k
  BY <1>1, <1>3, <1>8 DEF LargerOf
<1>10. \A j \in b .. b + k - 1 : j \in Block /\ j < sdaLen'
  BY <1>1, <1>3, <1>8, <1>9, MaxBlocksAssumption DEF Block, LargerOf
<1>11. \A j \in Block : sda'[j] = IF j \in b .. b + k - 1 THEN 1 ELSE sda[j]
  BY <1>1, <1>4, MarkUsedValue
<1>12. posts' \notin deleted'
  BY <1>1, <1>8
<1>13. PostInv'
  BY <1>1, <1>6, <1>7, <1>8, <1>10, <1>12 DEF PostInv, Posting, OneField
<1>14. TodoInv'
  BY <1>1 DEF WorkInv, TodoInv, Maintaining
<1>15. PlaceInv'
  BY <1>1 DEF PlaceInv, Purging
<1>16. WorkInv'
  BY <1>13, <1>14, <1>15 DEF WorkInv
<1>17. \A j \in Block : j < sdaLen /\ j \in Extent(m) => sda[j] = 0
  BY <1>5, <1>6
<1>. QED  BY <1>1, <1>6, <1>7, <1>8, <1>9, <1>10, <1>11, <1>16, <1>17

\* What smb_allochdr() finds for the header in hand.
LEMMA PlaceParts ==
    ASSUME TypeInv, PlaceHeader
    PROVE  /\ cur.n \in Nat \ {0} /\ pos' \in Nat /\ pos' + cur.n <= MaxBlocks
           /\ pos' = FirstFit(sha, shaLen, cur.n)
           /\ \A k \in pos' .. pos' + cur.n - 1 : k \in Block /\ (k < shaLen => sha[k] = 0)
           /\ shaLen' >= shaLen /\ pos' + cur.n <= shaLen'
           /\ \A k \in Block : sha'[k] = IF k \in pos' .. pos' + cur.n - 1 THEN 1 ELSE sha[k]
<1>. DEFINE b == FirstFit(sha, shaLen, cur.n)
<1>1. /\ b + cur.n <= MaxBlocks /\ sha' = MarkUsed(sha, b, cur.n)
      /\ shaLen' = LargerOf(shaLen, b + cur.n) /\ pos' = b
  BY DEF PlaceHeader
<1>2. cur.n \in Nat \ {0}
  BY HeaderHasFields DEF TypeInv, WorkTyped
<1>3. sha \in [Block -> Nat] /\ shaLen \in 0 .. MaxBlocks /\ DOMAIN sha = Block
  BY DEF TypeInv, HeadTyped
<1>4. b \in 0 .. shaLen /\ \A k \in b .. b + cur.n - 1 : k < shaLen => sha[k] = 0
  BY <1>2, <1>3, FirstFitFree
<1>. HIDE DEF b
<1>5. b \in Nat /\ shaLen \in Nat
  BY <1>3, <1>4, MaxBlocksAssumption
<1>6. \A k \in b .. b + cur.n - 1 : k \in Block
  BY <1>1, <1>2, <1>5, MaxBlocksAssumption DEF Block
<1>7. shaLen' >= shaLen /\ b + cur.n <= shaLen'
  BY <1>1, <1>2, <1>5 DEF LargerOf
<1>8. \A k \in Block : sha'[k] = IF k \in b .. b + cur.n - 1 THEN 1 ELSE sha[k]
  BY <1>1, <1>3, MarkUsedValue
<1>. QED  BY <1>1, <1>2, <1>4, <1>5, <1>6, <1>7, <1>8 DEF b

LEMMA PostingWork ==
    ASSUME TypeInv, WorkInv, Refuse \/ PlaceHeader \/ WriteHeader \/ WriteIndex \/ WriteStatus
    PROVE  WorkInv'
<1>. USE DEF datVars, hdrVars, idxVars, workVars, ghosts
<1>1. CASE Refuse
  BY <1>1 DEF Refuse, WorkInv, TodoInv, PostInv, PlaceInv, Posting, Maintaining, Purging
<1>2. CASE PlaceHeader
  <2>1. /\ pc = "stored" /\ pc' = "placed"
        /\ UNCHANGED <<datVars, idxVars, cur, todo, keep, flagged, renumber, ghosts>>
    BY <1>2 DEF PlaceHeader
  <2>2. pos' + cur.n <= shaLen'
    BY <1>2, PlaceParts
  <2>3. PostInv'
    BY <2>1 DEF WorkInv, PostInv, Posting
  <2>4. TodoInv'
    BY <2>1 DEF WorkInv, TodoInv, Maintaining
  <2>5. PlaceInv'
    BY <2>1, <2>2 DEF PlaceInv, Purging
  <2>. QED  BY <2>3, <2>4, <2>5 DEF WorkInv
<1>3. CASE WriteHeader
  <2>1. /\ pc = "placed" /\ WriteHeaderAt(pos, cur) /\ pc' = "written"
        /\ UNCHANGED <<datVars, sha, shaLen, idxVars, workVars,
                       dirty, late, misled, deleted, posts>>
    BY <1>3 DEF WriteHeader
  <2>2. pos + cur.n <= shaLen
    BY <2>1 DEF WorkInv, PlaceInv
  <2>3. cur \in HeaderType /\ cur.n \in Nat \ {0} /\ pos \in Nat /\ shaLen \in 0 .. MaxBlocks
    BY HeaderHasFields, MaxBlocksAssumption DEF TypeInv, WorkTyped, HeadTyped
  <2>4. pos < MaxBlocks /\ pos \in Block
    BY <2>2, <2>3, MaxBlocksAssumption DEF Block
  <2>5. shd'[pos] = cur
    BY <2>1, <2>3, <2>4, WriteStarts
  <2>6. PostInv'
    BY <2>1 DEF WorkInv, PostInv, Posting
  <2>7. TodoInv'
    BY <2>1 DEF WorkInv, TodoInv, Maintaining
  <2>8. PlaceInv'
    BY <2>1, <2>2, <2>4, <2>5 DEF PlaceInv, Purging
  <2>. QED  BY <2>6, <2>7, <2>8 DEF WorkInv
<1>4. CASE WriteIndex
  <2>1. PostInv'
    BY <1>4 DEF WriteIndex, WorkInv, PostInv, Posting
  <2>2. TodoInv'
    BY <1>4 DEF WriteIndex, WorkInv, TodoInv, Maintaining
  <2>3. PlaceInv'
    BY <1>4 DEF WriteIndex, WorkInv, PlaceInv, Purging
  <2>. QED  BY <2>1, <2>2, <2>3 DEF WorkInv
<1>5. CASE WriteStatus
  <2>1. PostInv'
    BY <1>5 DEF WriteStatus, PostInv, Posting
  <2>2. TodoInv'
    BY <1>5 DEF WriteStatus, WorkInv, TodoInv, Maintaining
  <2>3. PlaceInv'
    BY <1>5 DEF WriteStatus, PlaceInv, Purging
  <2>. QED  BY <2>1, <2>2, <2>3 DEF WorkInv
<1>. QED  BY <1>1, <1>2, <1>3, <1>4, <1>5

\* smb_putmsg() writes a header with MSG_DELETE over itself.
Rewritten(b) ==
    /\ b \in Starts /\ b \in Starts' /\ shd'[b] = SetDeleted(shd[b])
    /\ \A k \in Starts' : k \in Starts /\ (k # b => shd'[k] = shd[k])
    /\ \A k \in Starts : k \notin ExtentAt(b) => k \in Starts'

LEMMA RewriteStarts ==
    ASSUME TypeInv, NEW b \in Starts, NEW h, h = SetDeleted(shd[b]), WriteHeaderAt(b, h)
    PROVE  /\ Rewritten(b) /\ shd'[b] = h /\ h \in HeaderType /\ h.del = TRUE
           /\ shd[b] \in HeaderType /\ h.m = shd[b].m /\ h.n = shd[b].n /\ h.num = shd[b].num
<1>1. b \in Block /\ shd[b] \in HeaderType
  BY HeaderAt DEF Starts
<1>2. /\ h \in HeaderType /\ h.n = shd[b].n /\ h.del = TRUE /\ h.m = shd[b].m
      /\ h.num = shd[b].num
  BY <1>1, DeletedType
<1>3. /\ b \in Starts' /\ shd'[b] = h
      /\ \A k \in Starts' : k # b => k \in Starts /\ shd'[k] = shd[k]
      /\ \A k \in Starts : k \notin b .. b + h.n - 1 => k \in Starts'
  BY <1>1, <1>2, WriteStarts
<1>. QED  BY <1>1, <1>2, <1>3 DEF Rewritten, ExtentAt

\* What a rewritten header keeps, and that the others stay as they are.
LEMMA RewriteKeeps ==
    ASSUME TypeInv, NEW b, Rewritten(b)
    PROVE  /\ b \in Starts /\ b \in Starts' /\ shd'[b].del = TRUE
           /\ \A k \in Starts' : /\ k \in Starts /\ shd'[k].num = shd[k].num
                                 /\ shd'[k].n = shd[k].n /\ shd'[k].m = shd[k].m
                                 /\ shd[k].del => shd'[k].del
                                 /\ k # b => shd'[k] = shd[k]
           /\ \A k \in Starts : k \notin ExtentAt(b) => k \in Starts' /\ shd'[k] = shd[k]
<1>1. b \in Starts /\ b \in Block /\ shd[b] \in HeaderType
  BY HeaderAt DEF Starts, Rewritten
<1>2. /\ shd'[b].num = shd[b].num /\ shd'[b].n = shd[b].n
      /\ shd'[b].m = shd[b].m /\ shd'[b].del = TRUE
  BY <1>1, DeletedType DEF Rewritten
<1>3. b \in ExtentAt(b)
  BY <1>1, HeaderHasFields, BlocksAreNumbers DEF ExtentAt
<1>. QED  BY <1>1, <1>2, <1>3 DEF Rewritten

LEMMA MaintWork ==
    ASSUME TypeInv, WorkInv, FitInv,
           \/ \E e \in ListedIn(idx) : FlagMessage(e)
           \/ FlagIndex
           \/ \E chosen \in SUBSET DOMAIN idx : MaintStart(chosen)
           \/ PurgeHeader \/ PurgeNotFound \/ PurgeBadHeader \/ PurgeData \/ PurgeBlocks
           \/ TruncateIndex \/ RewriteIndex \/ MaintStatus
    PROVE  WorkInv'
<1>. USE DEF datVars, hdrVars, idxVars, workVars, ghosts
<1>1. ASSUME NEW e \in ListedIn(idx), FlagMessage(e) PROVE WorkInv'
  <2>1. PICK from \in ListedIn(idx), at \in ListedIn(idx), h \in HeaderType :
            Flags(e, from, at, h)
    BY <1>1, FlagTyped
  <2>2. /\ pc = "idle" /\ pc' = "flag" /\ at.hblk \in Block /\ WriteHeaderAt(at.hblk, h)
        /\ cur' = h /\ pos' = at.hblk /\ todo' = <<at>> /\ UNCHANGED <<keep, flagged>>
    BY <2>1 DEF Flags
  <2>3. h.del = TRUE
    <3>1. from.hblk \in Starts /\ h = SetDeleted(shd[from.hblk])
      BY <2>1 DEF Flags
    <3>. QED  BY <3>1, HeaderAt, DeletedType DEF Starts
  <2>4. shd'[at.hblk] = h
    BY <2>2, WriteStarts
  <2>5. shd'[pos'] = cur' /\ pos' < MaxBlocks /\ cur'.del
    BY <2>2, <2>3, <2>4, MaxBlocksAssumption DEF Block
  <2>6. todo' # <<>> /\ Len(todo') = 1
    BY <2>2
  <2>7. PlaceInv'
    BY <2>2, <2>5, <2>6 DEF PlaceInv, Purging
  <2>8. TodoInv'
    BY <2>2, <2>6 DEF WorkInv, TodoInv, Maintaining
  <2>9. PostInv'
    BY <2>2 DEF PostInv, Posting
  <2>. QED  BY <2>7, <2>8, <2>9 DEF WorkInv
<1>2. ASSUME FlagIndex PROVE WorkInv'
  <2>1. pc = "flag" /\ pc' = "idle" /\ todo' = Tail(todo) /\ UNCHANGED <<keep, flagged>>
    BY <1>2 DEF FlagIndex
  <2>2. todo' = <<>>
    <3>1. todo \in Seq(RecordType) /\ Len(todo) = 1
      BY <2>1 DEF WorkInv, TodoInv, TypeInv, WorkTyped
    <3>. QED  BY <2>1, <3>1
  <2>. QED  BY <2>1, <2>2 DEF WorkInv, TodoInv, PostInv, PlaceInv, Posting, Maintaining, Purging
<1>3. ASSUME NEW chosen, MaintStart(chosen) PROVE WorkInv'
  <2>1. pc' = "maint"
    BY <1>3 DEF MaintStart
  <2>. QED  BY <2>1 DEF WorkInv, TodoInv, PostInv, PlaceInv, Posting, Maintaining, Purging
<1>4. CASE PurgeHeader
  <2>1. PICK found \in ListedIn(idx), h \in HeaderType : Purges(found, h)
    BY <1>4, PurgeHeaderTyped
  <2>2. /\ pc = "maint" /\ pc' = "purge data" /\ found.hblk \in Block
        /\ WriteHeaderAt(found.hblk, h) /\ todo # <<>>
        /\ cur' = h /\ pos' = found.hblk /\ UNCHANGED <<todo, keep, flagged>>
    BY <2>1 DEF Purges
  <2>3. h.del = TRUE
    <3>1. found.hblk \in Starts /\ h = SetDeleted(shd[found.hblk])
      BY <2>1 DEF Purges
    <3>. QED  BY <3>1, HeaderAt, DeletedType DEF Starts
  <2>4. shd'[found.hblk] = h
    BY <2>2, WriteStarts
  <2>5. shd'[pos'] = cur' /\ pos' < MaxBlocks /\ cur'.del
    <3>1. shd'[pos'] = cur' /\ pos' \in Block /\ cur'.del
      BY <2>2, <2>3, <2>4
    <3>. QED  BY <3>1, MaxBlocksAssumption DEF Block
  <2>6. PlaceInv'
    BY <2>2, <2>5 DEF PlaceInv, Purging
  <2>7. TodoInv'
    BY <2>2 DEF WorkInv, TodoInv, Maintaining
  <2>8. PostInv'
    BY <2>2 DEF PostInv, Posting
  <2>. QED  BY <2>6, <2>7, <2>8 DEF WorkInv
<1>5. CASE PurgeNotFound \/ PurgeBadHeader
  <2>1. pc' = "maint"
    BY <1>5 DEF PurgeNotFound, PurgeBadHeader
  <2>. QED  BY <2>1 DEF WorkInv, TodoInv, PostInv, PlaceInv, Posting, Maintaining, Purging
<1>6. CASE PurgeData
  BY <1>6 DEF PurgeData, WorkInv, TodoInv, PostInv, PlaceInv, Posting, Maintaining, Purging
<1>7. CASE PurgeBlocks
  <2>1. pc' = "maint"
    BY <1>7 DEF PurgeBlocks
  <2>. QED  BY <2>1 DEF WorkInv, TodoInv, PostInv, PlaceInv, Posting, Maintaining, Purging
<1>8. CASE TruncateIndex
  BY <1>8 DEF TruncateIndex, WorkInv, TodoInv, PostInv, PlaceInv, Posting, Maintaining, Purging
<1>9. CASE RewriteIndex
  BY <1>9 DEF RewriteIndex, WorkInv, TodoInv, PostInv, PlaceInv, Posting, Maintaining, Purging
<1>10. CASE MaintStatus
  BY <1>10 DEF MaintStatus, WorkInv, TodoInv, PostInv, PlaceInv, Posting, Maintaining, Purging
<1>. QED  BY <1>1, <1>2, <1>3, <1>4, <1>5, <1>6, <1>7, <1>8, <1>9, <1>10

LEMMA FixWork ==
    ASSUME TypeInv, WorkInv, FitInv,
           (\E option \in BOOLEAN : FixStart(option)) \/ FixHeader \/ FixNoHeader \/ FixEnd
    PROVE  WorkInv'
<1>. USE DEF datVars, hdrVars, idxVars, workVars, ghosts
<1>1. ASSUME NEW option \in BOOLEAN, FixStart(option) PROVE WorkInv'
  <2>1. /\ pc = "idle" /\ pc' = "fix" /\ pos' = 0 /\ shaLen' = shdLen /\ shdLen' = shdLen
        /\ UNCHANGED <<todo, keep, flagged>>
    BY <1>1 DEF FixStart
  <2>2. pos' <= shdLen'
    BY <2>1, MaxBlocksAssumption DEF TypeInv, HeadTyped
  <2>3. PlaceInv'
    BY <2>1, <2>2 DEF PlaceInv, Purging
  <2>. QED  BY <2>1, <2>3 DEF WorkInv, TodoInv, PostInv, Posting, Maintaining
<1>2. CASE FixHeader
  <2>1. /\ pc = "fix" /\ pos + shd[pos].n <= shdLen /\ pos' = pos + shd[pos].n
        /\ UNCHANGED <<shaLen, shdLen, pc, todo, keep, flagged>>
    BY <1>2, FixHeaderParts
  <2>. QED  BY <2>1 DEF WorkInv, TodoInv, PostInv, PlaceInv, Posting, Maintaining, Purging
<1>3. CASE FixNoHeader
  <2>1. /\ pc = "fix" /\ pos < shdLen /\ pos' = pos + 1
        /\ UNCHANGED <<shaLen, shdLen, pc, todo, keep, flagged>>
    BY <1>3 DEF FixNoHeader
  <2>2. pos' <= shdLen
    BY <2>1, MaxBlocksAssumption DEF TypeInv, WorkTyped, HeadTyped
  <2>. QED  BY <2>1, <2>2 DEF WorkInv, TodoInv, PostInv, PlaceInv, Posting, Maintaining, Purging
<1>4. CASE FixEnd
  <2>1. pc = "fix" /\ pc' = "idle" /\ UNCHANGED <<todo, keep, flagged>>
    BY <1>4 DEF FixEnd
  <2>. QED  BY <2>1 DEF WorkInv, TodoInv, PostInv, PlaceInv, Posting, Maintaining, Purging
<1>. QED  BY <1>1, <1>2, <1>3, <1>4

LEMMA NextWork ==
    ASSUME TypeInv, WorkInv, FitInv, [Next]_vars
    PROVE  WorkInv'
<1>1. CASE AddMessage
  BY <1>1, StoreWork, PostingWork DEF AddMessage
<1>2. CASE Maintain
  <2>1. \A i \in DOMAIN idx : idx[i] \in ListedIn(idx)
    BY DEF ListedIn
  <2>. QED  BY <1>2, <2>1, MaintWork DEF Maintain
<1>3. CASE Repair
  BY <1>3, FixWork DEF Repair
<1>4. CASE Crash
  <2>1. pc' = "idle" /\ todo' = <<>> /\ keep' = <<>> /\ flagged' = 0
    BY <1>4 DEF Crash
  <2>. QED  BY <2>1 DEF WorkInv, TodoInv, PostInv, PlaceInv, Posting, Maintaining, Purging
<1>5. CASE UNCHANGED vars
  BY <1>5 DEF vars, datVars, hdrVars, workVars, ghosts, WorkInv, TodoInv, PostInv, PlaceInv,
              Posting, Maintaining, Purging, Extent
<1>. QED  BY <1>1, <1>2, <1>3, <1>4, <1>5 DEF Next

-----------------------------------------------------------------------------
(* A header fits into the file and its text into the data, whatever header  *)
(* was written where.                                                       *)

\* The header in hand is written.
LEMMA WriteParts ==
    ASSUME TypeInv, WorkInv, WriteHeader
    PROVE  /\ pc = "placed" /\ pc' = "written"
           /\ cur \in HeaderType /\ cur.n \in Nat \ {0} /\ pos \in Block /\ pos \in Nat
           /\ WriteHeaderAt(pos, cur) /\ pos + cur.n <= shaLen
           /\ shdLen' = LargerOf(shdLen, pos + cur.n)
           /\ shdLen' >= shdLen /\ shdLen' >= pos + cur.n /\ shdLen' \in Nat
           /\ copies' \subseteq copies
           /\ UNCHANGED <<datVars, sha, shaLen, idxVars, workVars,
                          dirty, late, misled, posted, doomed, deleted, posts, crashes>>
<1>1. /\ pc = "placed" /\ pc' = "written" /\ WriteHeaderAt(pos, cur)
      /\ shdLen' = LargerOf(shdLen, pos + cur.n)
      /\ copies' \subseteq copies
      /\ UNCHANGED <<datVars, sha, shaLen, idxVars, workVars,
                     dirty, late, misled, posted, doomed, deleted, posts, crashes>>
  BY DEF WriteHeader
<1>2. cur \in HeaderType /\ cur.n \in Nat \ {0} /\ pos \in Nat /\ shaLen \in 0 .. MaxBlocks
  BY HeaderHasFields, MaxBlocksAssumption DEF TypeInv, WorkTyped, HeadTyped
<1>3. pos + cur.n <= shaLen
  BY <1>1 DEF WorkInv, PlaceInv
<1>4. pos \in Block
  BY <1>2, <1>3, MaxBlocksAssumption DEF Block
<1>5. shdLen \in Nat
  BY <1>2, MaxBlocksAssumption DEF TypeInv, HeadTyped
<1>6. shdLen' >= shdLen /\ shdLen' >= pos + cur.n /\ shdLen' \in Nat
  BY <1>1, <1>2, <1>5 DEF LargerOf
<1>. QED  BY <1>1, <1>2, <1>3, <1>4, <1>6

\* A header is written whose text is in the data file.
LEMMA WriteFits ==
    ASSUME TypeInv, FitInv, NEW b \in Block, NEW h \in HeaderType, WriteHeaderAt(b, h),
           shdLen' = LargerOf(shdLen, b + h.n), UNCHANGED <<sdaLen, posts>>,
           h.num > 0, h.m.text \in 1 .. posts,
           \A k \in Extent(h.m) : k < sdaLen, OneField => h.m.tail = 0
    PROVE  FitInv'
<1>1. /\ b \in Starts' /\ shd'[b] = h
      /\ \A k \in Starts' : k # b => k \in Starts /\ shd'[k] = shd[k]
  BY WriteStarts
<1>2. shdLen \in Nat /\ b + h.n \in Nat
  BY HeaderHasFields, BlocksAreNumbers DEF TypeInv, HeadTyped
<1>3. shdLen' >= shdLen /\ shdLen' >= b + h.n /\ shdLen' \in Nat
  BY <1>2 DEF LargerOf
<1>4. ASSUME NEW k \in Starts'
      PROVE  /\ k + shd'[k].n <= shdLen' /\ shd'[k].num > 0
             /\ shd'[k].m.text \in 1 .. posts'
             /\ \A j \in Extent(shd'[k].m) : j < sdaLen'
             /\ OneField => shd'[k].m.tail = 0
  <2>1. CASE k = b
    BY <1>1, <1>3, <2>1
  <2>2. CASE k # b
    <3>1. k \in Starts /\ shd'[k] = shd[k]
      BY <1>1, <2>2
    <3>2. shd[k] \in HeaderType /\ k \in Nat
      BY <3>1, HeaderAt, BlocksAreNumbers DEF Starts
    <3>3. k + shd[k].n \in Nat
      BY <3>2, HeaderHasFields
    <3>4. k + shd[k].n <= shdLen
      BY <3>1 DEF FitInv
    <3>5. k + shd'[k].n <= shdLen'
      BY <1>2, <1>3, <3>1, <3>3, <3>4
    <3>. QED  BY <3>1, <3>5 DEF FitInv
  <2>. QED  BY <2>1, <2>2
<1>. QED  BY <1>4 DEF FitInv, Extent, OneField

LEMMA RewriteFits ==
    ASSUME TypeInv, FitInv, NEW b, Rewritten(b), UNCHANGED <<sdaLen, shdLen, posts>>
    PROVE  FitInv'
<1>1. \A k \in Starts' : /\ k \in Starts /\ shd'[k].num = shd[k].num
                         /\ shd'[k].n = shd[k].n /\ shd'[k].m = shd[k].m
  BY RewriteKeeps
<1>. QED  BY <1>1 DEF FitInv, Extent, OneField

LEMMA FixFits ==
    ASSUME TypeInv, WorkInv, FitInv, FixHeader
    PROVE  /\ FitInv'
           /\ Starts' = Starts
           /\ \A k \in Starts : /\ shd'[k].n = shd[k].n /\ shd'[k].m = shd[k].m
                                /\ shd'[k].del = shd[k].del
                                /\ k # pos => shd'[k] = shd[k]
<1>. DEFINE old == shd[pos]
            num == IF renumber THEN Len(idx) + 1 ELSE old.num
            h   == [num |-> num, n |-> old.n, del |-> old.del, m |-> old.m]
<1>1. /\ pc = "fix" /\ pos \in Starts /\ old \in HeaderType /\ h \in HeaderType /\ num > 0
      /\ old.del => shd' = shd
      /\ ~old.del => shd' = [shd EXCEPT ![pos] = h]
      /\ UNCHANGED <<sdaLen, shdLen, posts>>
  BY FixHeaderParts DEF ghosts
<1>2. /\ h.n = old.n /\ h.m = old.m /\ h.del = old.del /\ h.num = num
  OBVIOUS
<1>. HIDE DEF num, h
<1>3. shd \in [Block -> HeaderType \cup {NoHeader}]
  BY DEF TypeInv, HeadTyped
<1>4. IsHeader(h)
  BY <1>1, HeaderHasFields
<1>5. \A k \in Block : k # pos => shd'[k] = shd[k]
  BY <1>1, <1>3
<1>6. shd'[pos] = IF old.del THEN old ELSE h
  BY <1>1, <1>3 DEF Starts
<1>7. Starts' = Starts
  BY <1>1, <1>4, <1>5, <1>6 DEF Starts
<1>8. \A k \in Starts : /\ shd'[k].n = shd[k].n /\ shd'[k].m = shd[k].m
                        /\ shd'[k].del = shd[k].del
                        /\ k # pos => shd'[k] = shd[k]
  BY <1>2, <1>5, <1>6 DEF Starts
<1>9. \A k \in Starts : shd'[k].num > 0
  <2>1. \A k \in Starts : shd[k].num > 0
    BY DEF FitInv
  <2>. QED  BY <1>1, <1>2, <1>5, <1>6, <2>1 DEF Starts
<1>10. ASSUME NEW k \in Starts
       PROVE  /\ k + shd'[k].n <= shdLen' /\ shd'[k].num > 0
              /\ shd'[k].m.text \in 1 .. posts'
              /\ \A j \in Extent(shd'[k].m) : j < sdaLen'
              /\ OneField => shd'[k].m.tail = 0
  BY <1>1, <1>8, <1>9 DEF FitInv
<1>11. FitInv'
  BY <1>7, <1>10 DEF FitInv, Extent, OneField
<1>. QED  BY <1>7, <1>8, <1>11

\* Steps that leave the header file alone.
LEMMA SameFits ==
    ASSUME TypeInv, FitInv, UNCHANGED <<shd, shdLen>>,
           sdaLen' >= sdaLen, sdaLen' \in Nat, posts' \in {posts, posts + 1}
    PROVE  FitInv'
<1>1. Starts' = Starts /\ \A k \in Starts : k \in Block /\ shd[k] \in HeaderType
  BY HeaderAt DEF Starts
<1>2. posts \in Nat /\ sdaLen \in Nat
  BY RepairAssumption, MaxBlocksAssumption DEF TypeInv, GhostTyped, DataTyped
<1>3. ASSUME NEW k \in Starts
      PROVE  /\ k + shd'[k].n <= shdLen' /\ shd'[k].num > 0
             /\ shd'[k].m.text \in 1 .. posts'
             /\ \A j \in Extent(shd'[k].m) : j < sdaLen'
             /\ OneField => shd'[k].m.tail = 0
  <2>1. /\ k + shd[k].n <= shdLen /\ shd[k].num > 0
        /\ shd[k].m.text \in 1 .. posts
        /\ \A j \in Extent(shd[k].m) : j < sdaLen
        /\ OneField => shd[k].m.tail = 0
    BY DEF FitInv
  <2>2. shd'[k] = shd[k]
    OBVIOUS
  <2>3. shd[k].m.text \in 1 .. posts'
    BY <1>2, <2>1
  <2>4. shd[k].m.blk \in Nat /\ shd[k].m.body \in Nat /\ shd[k].m.tail \in Nat
    BY <1>1, HeaderHasFields, TextHasFields
  <2>5. \A j \in Extent(shd[k].m) : j \in Int
    BY <2>4, DatBlocksType DEF Extent
  <2>6. \A j \in Extent(shd[k].m) : j < sdaLen'
    BY <1>2, <2>1, <2>5
  <2>. QED  BY <2>1, <2>2, <2>3, <2>6
<1>. QED  BY <1>1, <1>3 DEF FitInv, Extent, OneField

LEMMA NextFits ==
    ASSUME TypeInv, WorkInv, FitInv, [Next]_vars
    PROVE  FitInv'
<1>. USE DEF datVars, hdrVars, idxVars, workVars, ghosts
<1>0. sdaLen \in Nat /\ sdaLen >= sdaLen /\ posts \in Nat
  BY RepairAssumption, MaxBlocksAssumption DEF TypeInv, DataTyped, GhostTyped
<1>1. ASSUME NEW shape \in Shapes, NEW n \in HdrBlocks, StoreText(shape, n) PROVE FitInv'
  <2>1. UNCHANGED <<shd, shdLen>> /\ posts' = posts + 1
    BY <1>1 DEF StoreText
  <2>2. sdaLen' >= sdaLen /\ sdaLen' \in Nat
    BY <1>1, NextTyped, StoreWork, MaxBlocksAssumption DEF TypeInv, DataTyped
  <2>. QED  BY <2>1, <2>2, SameFits
<1>2. CASE Refuse \/ PlaceHeader \/ WriteIndex \/ WriteStatus
  <2>1. UNCHANGED <<sdaLen, shd, shdLen, posts>>
    BY <1>2 DEF Refuse, PlaceHeader, WriteIndex, WriteStatus
  <2>. QED  BY <1>0, <2>1, SameFits
<1>3. CASE WriteHeader
  <2>1. /\ pc = "placed" /\ cur \in HeaderType /\ pos \in Block /\ WriteHeaderAt(pos, cur)
        /\ shdLen' = LargerOf(shdLen, pos + cur.n) /\ UNCHANGED <<sdaLen, posts>>
    BY <1>3, WriteParts
  <2>2. /\ cur.num > 0 /\ cur.m.text = posts /\ posts > 0
        /\ \A k \in Extent(cur.m) : k < sdaLen
        /\ OneField => cur.m.tail = 0
    BY <2>1 DEF WorkInv, PostInv, Posting
  <2>3. cur.m.text \in 1 .. posts
    BY <1>0, <2>2
  <2>. QED  BY <2>1, <2>2, <2>3, WriteFits
<1>4. ASSUME NEW e \in ListedIn(idx), FlagMessage(e) PROVE FitInv'
  <2>1. PICK from \in ListedIn(idx), at \in ListedIn(idx), h \in HeaderType :
            Flags(e, from, at, h)
    BY <1>4, FlagTyped
  <2>2. /\ from.hblk \in Starts /\ h = SetDeleted(shd[from.hblk])
        /\ at.hblk \in Block /\ WriteHeaderAt(at.hblk, h)
        /\ shdLen' = LargerOf(shdLen, at.hblk + h.n) /\ UNCHANGED <<sdaLen, posts>>
    BY <2>1 DEF Flags
  <2>3. h.num = shd[from.hblk].num /\ h.m = shd[from.hblk].m
    BY <2>2, HeaderAt, DeletedType DEF Starts
  <2>4. /\ h.num > 0 /\ h.m.text \in 1 .. posts
        /\ \A k \in Extent(h.m) : k < sdaLen
        /\ OneField => h.m.tail = 0
    BY <2>2, <2>3 DEF FitInv
  <2>. QED  BY <2>2, <2>4, WriteFits
<1>5. CASE PurgeHeader
  <2>1. PICK found \in ListedIn(idx), h \in HeaderType : Purges(found, h)
    BY <1>5, PurgeHeaderTyped
  <2>2. /\ found.hblk \in Starts /\ h = SetDeleted(shd[found.hblk])
        /\ WriteHeaderAt(found.hblk, h) /\ UNCHANGED <<sdaLen, shdLen, posts>>
    BY <2>1 DEF Purges
  <2>3. Rewritten(found.hblk)
    BY <2>2, RewriteStarts
  <2>. QED  BY <2>2, <2>3, RewriteFits
<1>6. CASE FlagIndex \/ PurgeNotFound \/ PurgeBadHeader \/ PurgeData \/ PurgeBlocks
           \/ TruncateIndex \/ RewriteIndex \/ MaintStatus
  <2>1. UNCHANGED <<sdaLen, shd, shdLen, posts>>
    BY <1>6 DEF FlagIndex, PurgeNotFound, PurgeBadHeader, PurgeData, PurgeBlocks, TruncateIndex,
                RewriteIndex, MaintStatus
  <2>. QED  BY <1>0, <2>1, SameFits
<1>7. ASSUME NEW chosen, MaintStart(chosen) PROVE FitInv'
  <2>1. UNCHANGED <<sdaLen, shd, shdLen, posts>>
    BY <1>7 DEF MaintStart
  <2>. QED  BY <1>0, <2>1, SameFits
<1>8. CASE FixHeader
  BY <1>8, FixFits
<1>9. ASSUME NEW option, FixStart(option) PROVE FitInv'
  <2>1. UNCHANGED <<shd, shdLen, posts>> /\ sdaLen' = sdaLen
    BY <1>9 DEF FixStart, TypeInv, DataTyped
  <2>. QED  BY <1>0, <2>1, SameFits
<1>10. CASE FixNoHeader \/ FixEnd \/ Crash \/ UNCHANGED vars
  <2>1. UNCHANGED <<sdaLen, shd, shdLen, posts>>
    BY <1>10 DEF FixNoHeader, FixEnd, Crash, vars
  <2>. QED  BY <1>0, <2>1, SameFits
<1>. QED  BY <1>1, <1>2, <1>3, <1>4, <1>5, <1>6, <1>7, <1>8, <1>9, <1>10
          DEF Next, AddMessage, Maintain, Repair, ListedIn

-----------------------------------------------------------------------------
(* The steps of programs whose searches find the message that is meant.     *)

\* smb_updatemsg() writes the header of a message over itself.
StraightFlag(e) ==
    /\ pc = "idle" /\ pc' = "flag" /\ late' = (late \/ dirty)
    /\ e \in RecordType /\ e.hblk \in Starts
    /\ Rewritten(e.hblk) /\ shd'[e.hblk] = cur' /\ cur' \in HeaderType /\ cur'.del
    /\ pos' = e.hblk /\ todo' = <<e>> /\ cur'.m = shd[e.hblk].m /\ cur'.n = shd[e.hblk].n
    /\ deleted' = deleted \cup {shd[e.hblk].m.text}
    /\ doomed' = doomed \cup {shd[e.hblk].m.text}
    /\ UNCHANGED <<datVars, sha, shaLen, shdLen, idxVars, keep, flagged, renumber,
                   dirty, misled, posted, copies, posts, crashes>>

\* maint() that of the record at hand; it may update another record of the block.
StraightPurge ==
    LET e == Head(todo)
    IN  /\ pc = "maint" /\ pc' = "purge data" /\ todo # <<>>
        /\ e \in RecordType /\ e.hblk \in Starts
        /\ Rewritten(e.hblk) /\ shd'[e.hblk] = cur' /\ cur' \in HeaderType /\ cur'.del
        /\ pos' = e.hblk /\ cur'.m = shd[e.hblk].m /\ cur'.n = shd[e.hblk].n
        /\ deleted' = deleted \cup {shd[e.hblk].m.text}
        /\ \E found \in ListedIn(idx) : idx' = IndexDeleted(found, cur')
        /\ UNCHANGED <<datVars, sha, shaLen, shdLen, total, lastMsg, todo, keep, flagged,
                       renumber, dirty, late, misled, posted, doomed, copies, posts, crashes>>

StraightBadHeader ==
    /\ pc = "maint" /\ todo # <<>> /\ ~IsHeader(HeaderOf(Head(todo)))
    /\ todo' = <<>>
    /\ UNCHANGED <<datVars, hdrVars, idxVars, cur, keep, flagged, pos, renumber, pc, ghosts>>

StraightMaintain ==
    \/ \E e \in ListedIn(idx) : StraightFlag(e)
    \/ FlagIndex
    \/ \E chosen \in SUBSET DOMAIN idx : MaintStart(chosen)
    \/ StraightPurge \/ StraightBadHeader \/ PurgeData \/ PurgeBlocks
    \/ TruncateIndex \/ RewriteIndex \/ MaintStatus

Straight == AddMessage \/ StraightMaintain \/ Repair \/ Crash

LEMMA FlagsStraight ==
    ASSUME TypeInv, FilesInv, NEW e, e \in ListedIn(idx), FlagMessage(e), ~misled'
    PROVE  ~misled /\ \E at \in ListedIn(idx) : StraightFlag(at)
<1>1. PICK from \in ListedIn(idx), at \in ListedIn(idx), h \in HeaderType :
          Flags(e, from, at, h)
  BY FlagTyped
<1>2. ~misled /\ at.hblk = from.hblk /\ from.hblk = e.hblk
  BY <1>1 DEF Flags, TypeInv, GhostTyped
<1>3. /\ at.hblk \in Starts /\ h = SetDeleted(shd[at.hblk]) /\ at \in RecordType
      /\ WriteHeaderAt(at.hblk, h) /\ shdLen' = LargerOf(shdLen, at.hblk + h.n)
      /\ cur' = h /\ pos' = at.hblk /\ todo' = <<at>>
      /\ doomed' = doomed \cup TextsOf({e})
      /\ pc = "idle" /\ pc' = "flag" /\ late' = (late \/ dirty) /\ dirty' = dirty
      /\ misled' = misled /\ copies' = copies
      /\ UNCHANGED <<datVars, sha, shaLen, idxVars, keep, flagged, renumber,
                     posted, posts, crashes>>
  BY <1>1, <1>2 DEF Flags, TypeInv, GhostTyped
<1>4. /\ Rewritten(at.hblk) /\ shd'[at.hblk] = h /\ h.del = TRUE
      /\ h.m = shd[at.hblk].m /\ h.n = shd[at.hblk].n
  BY <1>3, RewriteStarts
<1>5. shdLen' = shdLen
  <2>1. at.hblk + h.n <= shdLen
    BY <1>3, <1>4 DEF FilesInv, FitInv
  <2>2. at.hblk \in Nat /\ h.n \in Nat
    BY <1>3, HeaderHasFields, BlocksAreNumbers DEF Starts
  <2>3. shdLen \in Nat
    BY MaxBlocksAssumption DEF TypeInv, HeadTyped
  <2>. QED  BY <1>3, <2>1, <2>2, <2>3 DEF LargerOf
<1>6. deleted' = deleted \cup {shd[at.hblk].m.text}
  <2>1. at.hblk \notin copies
    BY DEF FilesInv
  <2>. QED  BY <1>1, <1>2, <1>4, <2>1 DEF Flags
<1>7. doomed' = doomed \cup {shd[at.hblk].m.text}
  <2>1. HeaderOf(e) = shd[at.hblk] /\ IsHeader(HeaderOf(e))
    BY <1>2, <1>3 DEF HeaderOf, Starts
  <2>2. TextsOf({e}) = {HeaderOf(e).m.text}
    BY <2>1 DEF TextsOf
  <2>. QED  BY <1>3, <2>1, <2>2
<1>8. StraightFlag(at)
  BY <1>3, <1>4, <1>5, <1>6, <1>7 DEF StraightFlag
<1>. QED  BY <1>2, <1>8

LEMMA PurgesStraight ==
    ASSUME TypeInv, FilesInv, PurgeHeader, ~misled'
    PROVE  ~misled /\ StraightPurge
<1>1. PICK found \in ListedIn(idx), h \in HeaderType : Purges(found, h)
  BY PurgeHeaderTyped
<1>2. PICK e : e = Head(todo)
  OBVIOUS
<1>3. ~misled /\ found.hblk = e.hblk /\ UNCHANGED <<dirty, late, misled>>
  BY <1>1, <1>2 DEF Purges, Astray, TypeInv, GhostTyped
<1>4. /\ e.hblk \in Starts /\ h = SetDeleted(shd[e.hblk])
      /\ pc = "maint" /\ pc' = "purge data" /\ todo # <<>>
      /\ WriteHeaderAt(e.hblk, h)
      /\ cur' = h /\ pos' = e.hblk /\ idx' = IndexDeleted(found, cur')
      /\ UNCHANGED <<datVars, sha, shaLen, shdLen, total, lastMsg, todo, keep, flagged,
                     renumber, posted, doomed, copies, posts, crashes>>
  BY <1>1, <1>3 DEF Purges
<1>5. /\ Rewritten(e.hblk) /\ shd'[e.hblk] = h /\ h.del = TRUE
      /\ h.m = shd[e.hblk].m /\ h.n = shd[e.hblk].n
  BY <1>4, RewriteStarts
<1>6. deleted' = deleted \cup {shd[e.hblk].m.text}
  <2>1. found.hblk \notin copies
    BY DEF FilesInv
  <2>. QED  BY <1>1, <1>5, <2>1 DEF Purges
<1>7. e \in RecordType
  BY <1>2, <1>4, TailType DEF TypeInv
<1>8. StraightPurge
  BY <1>2, <1>3, <1>4, <1>5, <1>6, <1>7 DEF StraightPurge
<1>. QED  BY <1>3, <1>8

\* No search has gone astray so far, nor does it in a step that leaves it so.
LEMMA GoesStraight ==
    ASSUME TypeInv, misled \/ FilesInv, [Next]_vars, ~misled'
    PROVE  ~misled /\ [Straight]_vars
<1>. USE DEF datVars, hdrVars, idxVars, workVars, ghosts
<1>1. CASE AddMessage
  <2>1. misled' = misled
    BY <1>1 DEF AddMessage, StoreText, Refuse, PlaceHeader, WriteHeader, WriteIndex, WriteStatus
  <2>. QED  BY <1>1, <2>1 DEF Straight
<1>2. ASSUME NEW i \in DOMAIN idx, FlagMessage(idx[i]) PROVE ~misled /\ Straight
  <2>1. idx[i] \in ListedIn(idx)
    BY DEF ListedIn
  <2>2. ~misled
    <3>1. PICK from \in ListedIn(idx), at \in ListedIn(idx), h \in HeaderType :
              Flags(idx[i], from, at, h)
      BY <1>2, <2>1, FlagTyped
    <3>. QED  BY <3>1 DEF Flags
  <2>3. \E at \in ListedIn(idx) : StraightFlag(at)
    BY <1>2, <2>1, <2>2, FlagsStraight
  <2>. QED  BY <2>2, <2>3 DEF Straight, StraightMaintain
<1>3. CASE PurgeHeader
  <2>1. ~misled
    <3>1. PICK found \in ListedIn(idx), h \in HeaderType : Purges(found, h)
      BY <1>3, PurgeHeaderTyped
    <3>. QED  BY <3>1 DEF Purges, Astray
  <2>. QED  BY <1>3, <2>1, PurgesStraight DEF Straight, StraightMaintain
<1>4. CASE PurgeNotFound
  BY <1>4 DEF PurgeNotFound, Astray
<1>5. CASE PurgeBadHeader
  <2>1. PICK found \in Found(Head(todo).num) :
            ~IsHeader(HeaderOf(found)) /\ Astray(found.hblk # Head(todo).hblk)
    BY <1>5 DEF PurgeBadHeader
  <2>2. ~misled /\ found.hblk = Head(todo).hblk /\ UNCHANGED <<dirty, late, misled>>
    BY <2>1 DEF Astray, TypeInv, GhostTyped
  <2>3. ~IsHeader(HeaderOf(Head(todo)))
    BY <2>1, <2>2 DEF HeaderOf
  <2>4. StraightBadHeader
    BY <1>5, <2>2, <2>3 DEF PurgeBadHeader, StraightBadHeader
  <2>. QED  BY <2>2, <2>4 DEF Straight, StraightMaintain
<1>5a. ASSUME NEW chosen \in SUBSET DOMAIN idx, MaintStart(chosen) PROVE ~misled /\ Straight
  <2>1. misled' = misled
    BY <1>5a DEF MaintStart
  <2>. QED  BY <1>5a, <2>1 DEF Straight, StraightMaintain
<1>6. CASE FlagIndex \/ PurgeData \/ PurgeBlocks \/ TruncateIndex \/ RewriteIndex \/ MaintStatus
  <2>1. misled' = misled
    BY <1>6 DEF FlagIndex, PurgeData, PurgeBlocks, TruncateIndex, RewriteIndex, MaintStatus
  <2>. QED  BY <1>6, <2>1 DEF Straight, StraightMaintain
<1>7. CASE Repair \/ Crash
  <2>1. misled' = misled
    BY <1>7 DEF Repair, FixStart, FixHeader, FixNoHeader, FixEnd, Crash
  <2>. QED  BY <1>7, <2>1 DEF Straight
<1>8. CASE UNCHANGED vars
  BY <1>8 DEF vars
<1>. QED  BY <1>1, <1>2, <1>3, <1>4, <1>5, <1>5a, <1>6, <1>7, <1>8 DEF Next, Maintain

LEMMA FlagParts ==
    ASSUME NEW e, StraightFlag(e)
    PROVE  /\ pc = "idle" /\ pc' = "flag" /\ late' = (late \/ dirty)
           /\ e \in RecordType /\ e.hblk \in Starts /\ HeaderOf(e) = shd[e.hblk]
           /\ Rewritten(e.hblk) /\ shd'[e.hblk] = cur' /\ cur' \in HeaderType /\ cur'.del
           /\ pos' = e.hblk /\ todo' = <<e>> /\ cur'.m = shd[e.hblk].m /\ cur'.n = shd[e.hblk].n
           /\ deleted' = deleted \cup {shd[e.hblk].m.text}
           /\ doomed' = doomed \cup {shd[e.hblk].m.text}
           /\ UNCHANGED <<datVars, sha, shaLen, shdLen, idxVars, keep, flagged, renumber,
                          dirty, misled, posted, copies, posts, crashes>>
BY DEF StraightFlag, HeaderOf

LEMMA PurgeParts ==
    ASSUME StraightPurge, NEW e, e = Head(todo)
    PROVE  /\ pc = "maint" /\ pc' = "purge data" /\ todo # <<>>
           /\ e \in RecordType /\ e.hblk \in Starts /\ HeaderOf(e) = shd[e.hblk]
           /\ Rewritten(e.hblk) /\ shd'[e.hblk] = cur' /\ cur' \in HeaderType /\ cur'.del
           /\ pos' = e.hblk /\ cur'.m = shd[e.hblk].m /\ cur'.n = shd[e.hblk].n
           /\ deleted' = deleted \cup {shd[e.hblk].m.text}
           /\ \E found \in ListedIn(idx) : idx' = IndexDeleted(found, cur')
           /\ UNCHANGED <<datVars, sha, shaLen, shdLen, total, lastMsg, todo, keep, flagged,
                          renumber, dirty, late, misled, posted, doomed, copies, posts, crashes>>
<1>0. /\ pc = "maint" /\ pc' = "purge data" /\ todo # <<>>
      /\ e \in RecordType /\ e.hblk \in Starts
      /\ Rewritten(e.hblk) /\ shd'[e.hblk] = cur' /\ cur' \in HeaderType /\ cur'.del
      /\ pos' = e.hblk /\ cur'.m = shd[e.hblk].m /\ cur'.n = shd[e.hblk].n
      /\ deleted' = deleted \cup {shd[e.hblk].m.text}
      /\ \E found \in ListedIn(idx) : idx' = IndexDeleted(found, cur')
      /\ UNCHANGED <<datVars, sha, shaLen, shdLen, total, lastMsg, todo, keep, flagged,
                     renumber, dirty, late, misled, posted, doomed, copies, posts, crashes>>
  BY DEF StraightPurge
<1>. QED  BY <1>0 DEF HeaderOf

-----------------------------------------------------------------------------
(* The header file: a text belongs to one header, and stays deleted.        *)
LEMMA WriteFiles ==
    ASSUME TypeInv, WorkInv, FilesInv, WriteHeader, FitInv'
    PROVE  FilesInv'
<1>1. /\ pc = "placed" /\ pc' = "written" /\ cur \in HeaderType /\ pos \in Block
      /\ WriteHeaderAt(pos, cur) /\ shdLen' = LargerOf(shdLen, pos + cur.n)
      /\ pos + cur.n <= shaLen /\ copies' \subseteq copies
      /\ UNCHANGED <<shaLen, deleted, posts>>
  BY WriteParts
<1>2. cur.m.text = posts /\ posts \notin deleted
  BY <1>1 DEF WorkInv, PostInv, Posting
<1>3. /\ pos \in Starts' /\ shd'[pos] = cur
      /\ \A k \in Starts' : k # pos => k \in Starts /\ shd'[k] = shd[k]
  BY <1>1, WriteStarts
<1>4. \A k \in Starts : shd[k].m.text # posts
  BY <1>1 DEF FilesInv
<1>5. \A b \in Starts' : shd'[b].m.text \in deleted' => shd'[b].del
  BY <1>1, <1>2, <1>3 DEF FilesInv
<1>6. ASSUME NEW a \in Starts', NEW b \in Starts', shd'[a].m.text = shd'[b].m.text
      PROVE  a = b
  BY <1>2, <1>3, <1>4, <1>6 DEF FilesInv
<1>7. copies' = {}
  BY <1>1 DEF FilesInv
<1>8. shdLen' <= shaLen'
  <2>1. shdLen <= shaLen
    BY DEF FilesInv
  <2>. QED  BY <1>1, <2>1 DEF LargerOf
<1>9. pc' \notin {"stored", "placed"}
  BY <1>1
<1>. QED  BY <1>5, <1>6, <1>7, <1>8, <1>9 DEF FilesInv

LEMMA RewriteFiles ==
    ASSUME TypeInv, FilesInv, NEW b, Rewritten(b), pc' \notin {"stored", "placed"},
           deleted' = deleted \cup {shd[b].m.text}, UNCHANGED <<shaLen, shdLen, copies>>,
           FitInv'
    PROVE  FilesInv'
<1>1. /\ b \in Starts /\ b \in Starts' /\ shd'[b].del = TRUE
      /\ \A k \in Starts' : /\ k \in Starts /\ shd'[k].m = shd[k].m
                            /\ shd[k].del => shd'[k].del
  BY RewriteKeeps
<1>2. ASSUME NEW a \in Starts', NEW k \in Starts', shd'[a].m.text = shd'[k].m.text
      PROVE  a = k
  BY <1>1, <1>2 DEF FilesInv
<1>3. ASSUME NEW k \in Starts', shd'[k].m.text \in deleted'
      PROVE  shd'[k].del
  <2>1. k \in Starts /\ shd'[k].m = shd[k].m
    BY <1>1
  <2>2. CASE shd[k].m.text = shd[b].m.text
    BY <1>1, <2>1, <2>2 DEF FilesInv
  <2>3. CASE shd[k].m.text \in deleted
    BY <1>1, <2>1, <2>3 DEF FilesInv
  <2>. QED  BY <1>3, <2>1, <2>2, <2>3
<1>4. copies' = {} /\ shdLen' <= shaLen'
  BY DEF FilesInv
<1>. QED  BY <1>2, <1>3, <1>4 DEF FilesInv

LEMMA FixFiles ==
    ASSUME TypeInv, WorkInv, FilesInv, FixHeader, FitInv'
    PROVE  FilesInv'
<1>1. /\ pc = "fix" /\ UNCHANGED <<shaLen, shdLen, pc, deleted, posts, copies>>
  BY FixHeaderParts DEF ghosts, FilesInv
<1>2. /\ Starts' = Starts
      /\ \A k \in Starts : shd'[k].m = shd[k].m /\ shd'[k].del = shd[k].del
  BY FixFits DEF FilesInv
<1>. QED  BY <1>1, <1>2 DEF FilesInv

\* Steps that leave the header file alone.
LEMMA SameFiles ==
    ASSUME TypeInv, FilesInv, UNCHANGED <<shd, shdLen, deleted, copies>>,
           shdLen' <= shaLen', posts' \in {posts, posts + 1},
           pc' \in {"stored", "placed"} => posts' = posts + 1 \/ (pc = "stored" /\ posts' = posts),
           FitInv'
    PROVE  FilesInv'
<1>1. Starts' = Starts
  BY DEF Starts
<1>2. posts \in Nat
  BY RepairAssumption DEF TypeInv, GhostTyped
<1>3. ASSUME NEW k \in Starts, pc' \in {"stored", "placed"}
      PROVE  shd'[k].m.text # posts'
  <2>1. shd[k].m.text \in 1 .. posts /\ (pc = "stored" => shd[k].m.text # posts)
    BY DEF FilesInv, FitInv
  <2>. QED  BY <1>2, <1>3, <2>1
<1>4. \A a, k \in Starts : shd'[a].m.text = shd'[k].m.text => a = k
  BY DEF FilesInv
<1>5. \A k \in Starts : shd'[k].m.text \in deleted' => shd'[k].del
  BY DEF FilesInv
<1>6. copies' = {}
  BY DEF FilesInv
<1>. QED  BY <1>1, <1>3, <1>4, <1>5, <1>6 DEF FilesInv

LEMMA NextFiles ==
    ASSUME TypeInv, WorkInv, FilesInv, [Straight]_vars, FitInv'
    PROVE  FilesInv'
<1>. USE DEF datVars, hdrVars, idxVars, workVars, ghosts
<1>0. posts \in Nat /\ shdLen <= shaLen
  BY RepairAssumption DEF TypeInv, GhostTyped, FilesInv
<1>1. ASSUME NEW shape \in Shapes, NEW n \in HdrBlocks, StoreText(shape, n) PROVE FilesInv'
  <2>1. UNCHANGED <<shd, shdLen, shaLen, deleted, copies>> /\ posts' = posts + 1
    BY <1>1 DEF StoreText
  <2>. QED  BY <1>0, <2>1, SameFiles
<1>2. CASE Refuse \/ WriteIndex \/ WriteStatus
  <2>1. /\ UNCHANGED <<shd, shdLen, shaLen, deleted, copies, posts>>
        /\ pc' \notin {"stored", "placed"}
    BY <1>2 DEF Refuse, WriteIndex, WriteStatus
  <2>. QED  BY <1>0, <2>1, SameFiles
<1>2a. CASE PlaceHeader
  <2>1. /\ UNCHANGED <<shd, shdLen, deleted, copies, posts>> /\ pc = "stored"
    BY <1>2a DEF PlaceHeader
  <2>2. shaLen' >= shaLen /\ shaLen' >= pos' + cur.n /\ pos' \in Nat /\ cur.n \in Nat
    BY <1>2a, PlaceParts
  <2>3. shdLen' <= shaLen'
    <3>1. shdLen \in Int /\ shaLen \in Int
      BY MaxBlocksAssumption DEF TypeInv, HeadTyped
    <3>2. shaLen' \in Int
      <4>1. shaLen' = LargerOf(shaLen, FirstFit(sha, shaLen, cur.n) + cur.n)
        BY <1>2a DEF PlaceHeader
      <4>2. pos' = FirstFit(sha, shaLen, cur.n)
        BY <1>2a, PlaceParts
      <4>3. pos' + cur.n \in Int
        BY <2>2
      <4>4. FirstFit(sha, shaLen, cur.n) + cur.n = pos' + cur.n
        BY <4>2
      <4>. QED  BY <3>1, <4>1, <4>3, <4>4 DEF LargerOf
    <3>. QED  BY <1>0, <2>1, <2>2, <3>1, <3>2
  <2>. QED  BY <2>1, <2>3, SameFiles
<1>3. CASE WriteHeader
  BY <1>3, WriteFiles
<1>4. ASSUME NEW e \in ListedIn(idx), StraightFlag(e) PROVE FilesInv'
  <2>1. /\ Rewritten(e.hblk) /\ pc' = "flag"
        /\ deleted' = deleted \cup {shd[e.hblk].m.text} /\ UNCHANGED <<shaLen, shdLen, copies>>
    BY <1>4, FlagParts
  <2>. QED  BY <2>1, RewriteFiles
<1>5. CASE StraightPurge
  <2>1. PICK e : e = Head(todo)
    OBVIOUS
  <2>2. /\ Rewritten(e.hblk) /\ pc' = "purge data"
        /\ deleted' = deleted \cup {shd[e.hblk].m.text} /\ UNCHANGED <<shaLen, shdLen, copies>>
    BY <1>5, <2>1, PurgeParts DEF FilesInv
  <2>. QED  BY <2>2, RewriteFiles
<1>6. CASE FlagIndex \/ StraightBadHeader \/ PurgeData \/ PurgeBlocks
           \/ TruncateIndex \/ RewriteIndex \/ MaintStatus
  <2>1. /\ UNCHANGED <<shd, shdLen, shaLen, deleted, copies, posts>>
        /\ pc' \notin {"stored", "placed"}
    BY <1>6 DEF FlagIndex, StraightBadHeader, PurgeData, PurgeBlocks, TruncateIndex, RewriteIndex,
                MaintStatus
  <2>. QED  BY <1>0, <2>1, SameFiles
<1>7. ASSUME NEW chosen, MaintStart(chosen) PROVE FilesInv'
  <2>1. /\ UNCHANGED <<shd, shdLen, shaLen, deleted, copies, posts>>
        /\ pc' \notin {"stored", "placed"}
    BY <1>7 DEF MaintStart
  <2>. QED  BY <1>0, <2>1, SameFiles
<1>8. CASE FixHeader
  BY <1>8, FixFiles
<1>9. ASSUME NEW option, FixStart(option) PROVE FilesInv'
  <2>1. /\ UNCHANGED <<shd, shdLen, deleted, copies, posts>> /\ pc' \notin {"stored", "placed"}
        /\ shaLen' = shdLen
    BY <1>9 DEF FixStart
  <2>2. shdLen' <= shaLen'
    BY <2>1, MaxBlocksAssumption DEF TypeInv, HeadTyped
  <2>. QED  BY <2>1, <2>2, SameFiles
<1>10. CASE FixNoHeader \/ FixEnd \/ Crash \/ UNCHANGED vars
  <2>1. /\ UNCHANGED <<shd, shdLen, shaLen, deleted, copies, posts>>
        /\ pc' \in {"stored", "placed"} => pc' = pc
    BY <1>10 DEF FixNoHeader, FixEnd, Crash, vars
  <2>2. CASE pc' \in {"stored", "placed"}
    BY <2>1, <2>2 DEF FilesInv, Starts
  <2>3. CASE pc' \notin {"stored", "placed"}
    BY <1>0, <2>1, <2>3, SameFiles
  <2>. QED  BY <2>2, <2>3
<1>. QED  BY <1>1, <1>2, <1>2a, <1>3, <1>4, <1>5, <1>6, <1>7, <1>8, <1>9, <1>10
          DEF Straight, AddMessage, StraightMaintain, Repair, ListedIn

\* A record is at hand while it is flagged.
LEMMA NextHand ==
    ASSUME HandInv, [Straight]_vars
    PROVE  HandInv'
<1>. USE DEF datVars, hdrVars, idxVars, workVars, ghosts
<1>1. ASSUME NEW e \in ListedIn(idx), StraightFlag(e) PROVE HandInv'
  <2>1. pos' = e.hblk /\ todo' = <<e>>
    BY <1>1, FlagParts
  <2>. QED  BY <2>1 DEF HandInv
<1>2. CASE StraightPurge
  <2>1. pos' = Head(todo).hblk /\ todo' = todo
    BY <1>2 DEF StraightPurge
  <2>. QED  BY <2>1 DEF HandInv
<1>3. CASE PurgeData
  BY <1>3 DEF PurgeData, HandInv, Purging
<1>4. CASE \/ FlagIndex \/ StraightBadHeader \/ PurgeBlocks
           \/ (\E chosen \in SUBSET DOMAIN idx : MaintStart(chosen))
           \/ TruncateIndex \/ RewriteIndex \/ MaintStatus \/ AddMessage \/ Repair \/ Crash
  <2>1. pc' \notin {"flag", "purge data", "purge blocks"}
    BY <1>4 DEF FlagIndex, StraightBadHeader, PurgeBlocks, MaintStart, TruncateIndex,
                RewriteIndex, MaintStatus, AddMessage, StoreText, Refuse, PlaceHeader, WriteHeader,
                WriteIndex, WriteStatus, Repair, FixStart, FixHeader, FixNoHeader, FixEnd, Crash
  <2>. QED  BY <2>1 DEF HandInv, Purging
<1>5. CASE UNCHANGED vars
  BY <1>5 DEF vars, HandInv
<1>. QED  BY <1>1, <1>2, <1>3, <1>4, <1>5 DEF Straight, StraightMaintain
-----------------------------------------------------------------------------
(* The index and the status.                                               *)

\* maint() sorts the records of the index into two lists.
LEMMA MaintParts ==
    ASSUME TypeInv, NEW chosen, MaintStart(chosen)
    PROVE  \E purge, others :
               /\ purge \subseteq DOMAIN idx /\ others \subseteq DOMAIN idx
               /\ purge \cap others = {}
               /\ todo' \in InOrder(purge) /\ keep' \in InOrder(others)
               /\ flagged' = Cardinality(purge)
               /\ pc = "idle" /\ pc' = "maint" /\ late' = (late \/ dirty)
               /\ Len(idx) = total => purge \cup others = DOMAIN idx
               /\ Len(idx) = total => Cardinality(others) + Cardinality(purge) = total
               /\ \A i \in others : ~idx[i].del
               /\ doomed' = doomed \cup {HeaderOf(idx[i]).m.text :
                                         i \in {j \in purge : IsHeader(HeaderOf(idx[j]))}}
               /\ UNCHANGED <<datVars, hdrVars, idxVars, cur, pos, renumber,
                              dirty, misled, posted, deleted, copies, posts, crashes>>
<1>. DEFINE loaded == {i \in DOMAIN idx : i <= total}
            purge  == {i \in loaded : idx[i].del \/ i \in chosen}
            others == loaded \ purge
<1>1. /\ todo' \in InOrder(purge) /\ keep' \in InOrder(others)
      /\ flagged' = Cardinality(purge) /\ pc = "idle" /\ pc' = "maint" /\ late' = (late \/ dirty)
      /\ doomed' = doomed \cup TextsOf({idx[i] : i \in purge})
      /\ UNCHANGED <<datVars, hdrVars, idxVars, cur, pos, renumber,
                     dirty, misled, posted, deleted, copies, posts, crashes>>
  BY DEF MaintStart, StartWork
<1>a. TextsOf({idx[i] : i \in purge}) =
          {HeaderOf(idx[i]).m.text : i \in {j \in purge : IsHeader(HeaderOf(idx[j]))}}
  BY DEF TextsOf
<1>2. /\ loaded \subseteq DOMAIN idx /\ purge \subseteq loaded /\ others \subseteq loaded
      /\ purge \cap others = {} /\ purge \cup others = loaded
      /\ \A i \in others : ~idx[i].del
  OBVIOUS
<1>3. DOMAIN idx = 1 .. Len(idx) /\ Len(idx) \in Nat
  BY DEF TypeInv, IndexTyped
<1>4. Len(idx) = total => loaded = DOMAIN idx /\ loaded = 1 .. total
  BY <1>3
<1>5. IsFiniteSet(purge) /\ IsFiniteSet(others) /\ IsFiniteSet(loaded)
  BY <1>2, LoadedPlaces DEF TypeInv
<1>. HIDE DEF loaded, purge, others
<1>6. Cardinality(loaded) = Cardinality(purge) + Cardinality(others)
  <2>1. purge \cap others = {} /\ Cardinality({}) = 0
    BY <1>2, FS_EmptySet
  <2>2. Cardinality(purge \cup others) =
            Cardinality(purge) + Cardinality(others) - Cardinality(purge \cap others)
    BY <1>5, FS_Union
  <2>3. Cardinality(purge) \in Nat /\ Cardinality(others) \in Nat
    BY <1>5, FS_CardinalityType
  <2>4. Cardinality(loaded) = Cardinality(purge \cup others) /\ Cardinality(purge \cap others) = 0
    BY <1>2, <2>1
  <2>. QED  BY <2>2, <2>3, <2>4
<1>7. ASSUME Len(idx) = total PROVE Cardinality(others) + Cardinality(purge) = total
  <2>1. total \in Nat /\ loaded = 1 .. total
    BY <1>4, <1>7 DEF TypeInv, IndexTyped
  <2>2. Cardinality(loaded) = total
    BY <2>1, FS_Interval
  <2>3. Cardinality(purge) \in Nat /\ Cardinality(others) \in Nat
    BY <1>5, FS_CardinalityType
  <2>. QED  BY <1>6, <2>2, <2>3
<1>8. /\ purge \subseteq DOMAIN idx /\ others \subseteq DOMAIN idx
      /\ purge \cap others = {} /\ \A i \in others : ~idx[i].del
      /\ Len(idx) = total => purge \cup others = DOMAIN idx
  BY <1>2, <1>4
<1>. QED  BY <1>1, <1>a, <1>7, <1>8

LEMMA LengthNext ==
    ASSUME TypeInv, WorkInv, FitInv, LengthInv, [Straight]_vars
    PROVE  LengthInv'
<1>. USE DEF datVars, hdrVars, idxVars, workVars, ghosts
<1>1. CASE \/ \E shape \in Shapes, n \in HdrBlocks : StoreText(shape, n)
           \/ Refuse \/ PlaceHeader \/ WriteHeader
           \/ \E e \in ListedIn(idx) : StraightFlag(e)
  <2>1. /\ UNCHANGED <<idx, total, dirty>>
        /\ pc \in {"idle", "stored", "placed"} /\ pc' \in {"idle", "stored", "placed", "written", "flag"}
    BY <1>1 DEF StoreText, Refuse, PlaceHeader, WriteHeader, StraightFlag, StartWork
  <2>. QED  BY <2>1 DEF LengthInv, Maintaining
<1>2. CASE WriteIndex
  <2>1. /\ pc = "written" /\ pc' = "indexed" /\ UNCHANGED <<total, dirty>>
        /\ idx' = Append(idx, [num |-> cur.num, hblk |-> pos, del |-> FALSE])
    BY <1>2 DEF WriteIndex
  <2>2. Len(idx') = Len(idx) + 1
    BY <2>1 DEF TypeInv, IndexTyped
  <2>. QED  BY <2>1, <2>2 DEF LengthInv, Maintaining
<1>3. CASE WriteStatus
  <2>1. pc = "indexed" /\ pc' = "idle" /\ total' = total + 1 /\ UNCHANGED <<idx, dirty>>
    BY <1>3 DEF WriteStatus
  <2>. QED  BY <2>1 DEF LengthInv, Maintaining
<1>4. CASE FlagIndex
  <2>1. /\ pc = "flag" /\ pc' = "idle" /\ UNCHANGED <<total, dirty>>
        /\ idx' = IndexDeleted(Head(todo), cur)
    BY <1>4 DEF FlagIndex
  <2>2. Len(idx') = Len(idx)
    BY <2>1, HandNumber, IndexDeletedType DEF TypeInv
  <2>. QED  BY <2>1, <2>2 DEF LengthInv, Maintaining
<1>5. ASSUME NEW chosen, MaintStart(chosen) PROVE LengthInv'
  <2>1. PICK purge, others :
            /\ others \subseteq DOMAIN idx /\ keep' \in InOrder(others)
            /\ flagged' = Cardinality(purge)
            /\ pc = "idle" /\ pc' = "maint" /\ UNCHANGED <<total, dirty>>
            /\ Len(idx) = total => Cardinality(others) + Cardinality(purge) = total
    BY <1>5, MaintParts
  <2>2. Len(keep') = Cardinality(others)
    BY <2>1, ListingType DEF TypeInv, IndexTyped
  <2>3. ~dirty => Len(idx) = total
    BY <2>1 DEF LengthInv, Maintaining
  <2>4. ~dirty => Len(keep') + flagged' = total'
    BY <2>1, <2>2, <2>3
  <2>. QED  BY <2>1, <2>4 DEF LengthInv, Maintaining
<1>6. CASE StraightPurge \/ StraightBadHeader \/ PurgeData \/ PurgeBlocks \/ TruncateIndex
  <2>1. /\ UNCHANGED <<keep, flagged, total, dirty>>
        /\ pc \in Maintaining /\ pc' \in Maintaining /\ pc' # "rewritten"
    BY <1>6 DEF StraightPurge, StraightBadHeader, PurgeData, PurgeBlocks, TruncateIndex, Maintaining
  <2>. QED  BY <2>1 DEF LengthInv, Maintaining
<1>7. CASE RewriteIndex
  <2>1. /\ UNCHANGED <<keep, flagged, total, dirty>> /\ idx' = keep
        /\ pc = "rewrite" /\ pc' = "rewritten"
    BY <1>7 DEF RewriteIndex
  <2>. QED  BY <2>1 DEF LengthInv, Maintaining
<1>8. CASE MaintStatus
  <2>1. /\ pc = "rewritten" /\ pc' = "idle" /\ total' = total - flagged /\ UNCHANGED <<idx, dirty>>
    BY <1>8 DEF MaintStatus
  <2>2. ~dirty => Len(idx) + flagged = total
    BY <2>1 DEF LengthInv, Maintaining
  <2>3. Len(idx) \in Nat /\ total \in Nat /\ flagged \in Nat
    BY DEF TypeInv, IndexTyped, WorkTyped
  <2>4. ~dirty => Len(idx') = total'
    BY <2>1, <2>2, <2>3
  <2>. QED  BY <2>1, <2>4 DEF LengthInv, Maintaining
<1>9. CASE FixHeader \/ FixNoHeader \/ \E option \in BOOLEAN : FixStart(option)
  <2>1. pc' = "fix"
    BY <1>9 DEF FixHeader, FixNoHeader, FixStart
  <2>. QED  BY <2>1 DEF LengthInv, Maintaining
<1>10. CASE FixEnd
  <2>1. pc' = "idle" /\ total' = Len(idx) /\ (idx' = idx \/ idx' \in Sorted)
    BY <1>10 DEF FixEnd
  <2>2. Len(idx') = Len(idx)
    BY <2>1, SortedType DEF TypeInv, IndexTyped
  <2>3. Len(idx') = total'
    BY <2>1, <2>2
  <2>. QED  BY <2>1, <2>3 DEF LengthInv, Maintaining
<1>11. CASE Crash
  BY <1>11 DEF Crash, LengthInv
<1>12. CASE UNCHANGED vars
  BY <1>12 DEF vars, LengthInv
<1>. QED  BY <1>1, <1>2, <1>3, <1>4, <1>5, <1>6, <1>7, <1>8, <1>9, <1>10, <1>11, <1>12
          DEF Straight, AddMessage, StraightMaintain, Repair, ListedIn

LEMMA BlocksIn ==
    ASSUME NEW s \in Seq(RecordType)
    PROVE  /\ \A i \in DOMAIN s : s[i].hblk \in BlocksOf(s) /\ s[i] \in ListedIn(s) /\ s[i] \in RecordType
           /\ \A e \in ListedIn(s) : e \in RecordType /\ e.hblk \in BlocksOf(s)
           /\ \A b \in BlocksOf(s) : \E e \in ListedIn(s) : e.hblk = b
           /\ BlocksOf(s) \subseteq Block
<1>1. \A i \in DOMAIN s : s[i] \in RecordType
  OBVIOUS
<1>. QED  BY <1>1, RecordHasFields DEF BlocksOf, ListedIn

\* Lists with the same records have the same blocks.
LEMMA SameBlocks ==
    ASSUME NEW s, NEW t, ListedIn(s) = ListedIn(t)
    PROVE  BlocksOf(s) = BlocksOf(t)
<1>1. BlocksOf(s) = {e.hblk : e \in ListedIn(s)} /\ BlocksOf(t) = {e.hblk : e \in ListedIn(t)}
  BY DEF BlocksOf, ListedIn
<1>. QED  BY <1>1

\* Where the lists of maint() come from.
LEMMA MaintLists ==
    ASSUME TypeInv, LengthInv, ListInv, ~dirty, NEW chosen, MaintStart(chosen)
    PROVE  /\ Apart(todo') /\ Apart(keep') /\ BlocksOf(todo') \cap BlocksOf(keep') = {}
           /\ BlocksOf(todo') \cup BlocksOf(keep') = BlocksOf(idx)
           /\ ListedIn(keep') \subseteq Records /\ ListedIn(todo') \subseteq Records
<1>1. PICK purge, others :
          /\ purge \subseteq DOMAIN idx /\ others \subseteq DOMAIN idx
          /\ purge \cap others = {}
          /\ todo' \in InOrder(purge) /\ keep' \in InOrder(others)
          /\ pc = "idle"
          /\ Len(idx) = total => purge \cup others = DOMAIN idx
  BY MaintParts
<1>2. Apart(idx) /\ purge \cup others = DOMAIN idx
  BY <1>1 DEF ListInv, Sound, LengthInv, Maintaining
<1>3. /\ ListedIn(todo') = {idx[i] : i \in purge} /\ Apart(todo')
      /\ ListedIn(keep') = {idx[i] : i \in others} /\ Apart(keep')
  BY <1>1, <1>2, ListingType DEF TypeInv, IndexTyped
<1>4. /\ BlocksOf(todo') = {e.hblk : e \in ListedIn(todo')}
      /\ BlocksOf(keep') = {e.hblk : e \in ListedIn(keep')}
  BY DEF BlocksOf, ListedIn
<1>5. /\ BlocksOf(todo') = {idx[i].hblk : i \in purge}
      /\ BlocksOf(keep') = {idx[i].hblk : i \in others}
  BY <1>3, <1>4
<1>6. BlocksOf(todo') \cap BlocksOf(keep') = {}
  BY <1>1, <1>2, <1>5 DEF Apart
<1>7. BlocksOf(todo') \cup BlocksOf(keep') = BlocksOf(idx)
  BY <1>2, <1>5 DEF BlocksOf
<1>8. ListedIn(keep') \subseteq Records /\ ListedIn(todo') \subseteq Records
  BY <1>1, <1>3 DEF Records
<1>. QED  BY <1>3, <1>6, <1>7, <1>8
\* The steps that change neither headers nor the header allocation table.
Quiet ==
    \/ \E shape \in Shapes, n \in HdrBlocks : StoreText(shape, n)
    \/ Refuse \/ WriteStatus \/ FlagIndex
    \/ \E chosen \in SUBSET DOMAIN idx : MaintStart(chosen)
    \/ PurgeData \/ TruncateIndex \/ RewriteIndex \/ MaintStatus
    \/ FixNoHeader \/ FixEnd \/ UNCHANGED vars

LEMMA FlagBlocks ==
    ASSUME NEW e, NEW h
    PROVE  /\ BlocksOf(IndexDeleted(e, h)) = BlocksOf(idx)
           /\ Apart(idx) => Apart(IndexDeleted(e, h))
<1>1. /\ DOMAIN IndexDeleted(e, h) = DOMAIN idx
      /\ \A i \in DOMAIN idx : IndexDeleted(e, h)[i].hblk = idx[i].hblk
  BY DEF IndexDeleted
<1>. QED  BY <1>1 DEF BlocksOf, Apart

LEMMA QuietUsed ==
    ASSUME TypeInv, WorkInv, LengthInv, ListInv, Quiet, Sound'
    PROVE  /\ Sound /\ Used' = Used /\ UNCHANGED <<shd, shdLen, sha, shaLen>>
           /\ late => late'
           /\ pc' \in {"placed", "written"} => pc' = pc /\ pos' = pos /\ cur' = cur
           /\ pc' = "fix" => pc = "fix"
<1>. USE DEF datVars, hdrVars, idxVars, workVars, ghosts
<1>1. CASE (\E shape \in Shapes, n \in HdrBlocks : StoreText(shape, n)) \/ Refuse \/ WriteStatus
  <2>1. /\ UNCHANGED <<idx, dirty, shd, shdLen, sha, shaLen>>
        /\ pc \in {"idle", "stored", "indexed"} /\ pc' \in {"idle", "stored"}
        /\ late' = (late \/ dirty) \/ late' = late
    BY <1>1 DEF StoreText, Refuse, WriteStatus, StartWork
  <2>2. BlocksOf(idx)' = BlocksOf(idx)
    BY <2>1
  <2>3. late => late'
    BY <2>1
  <2>4. Used' = Used /\ Sound
    BY <2>1, <2>2 DEF Used, Sound, Maintaining
  <2>. QED  BY <2>1, <2>3, <2>4
<1>2. CASE FlagIndex
  <2>1. /\ UNCHANGED <<dirty, late, shd, shdLen, sha, shaLen>> /\ pc = "flag" /\ pc' = "idle"
        /\ idx' = IndexDeleted(Head(todo), cur)
    BY <1>2 DEF FlagIndex
  <2>2. BlocksOf(idx') = BlocksOf(idx)
    BY <2>1, FlagBlocks
  <2>. QED  BY <2>1, <2>2 DEF Used, Sound, Maintaining
<1>3. ASSUME NEW chosen, MaintStart(chosen)
      PROVE  /\ Sound /\ Used' = Used /\ UNCHANGED <<shd, shdLen, sha, shaLen>>
             /\ pc' = "maint" /\ (late => late')
  <2>1. /\ UNCHANGED <<dirty, shd, shdLen, sha, shaLen>> /\ pc = "idle" /\ pc' = "maint"
        /\ late' = (late \/ dirty)
    BY <1>3 DEF MaintStart, StartWork
  <2>2. ~dirty
    BY <2>1 DEF Sound
  <2>3. BlocksOf(todo') \cup BlocksOf(keep') = BlocksOf(idx)
    BY <1>3, <2>2, MaintLists
  <2>. QED  BY <2>1, <2>2, <2>3 DEF Used, Sound, Maintaining
<1>4. CASE PurgeData \/ TruncateIndex \/ RewriteIndex
  <2>1. /\ UNCHANGED <<todo, keep, dirty, late, shd, shdLen, sha, shaLen>>
        /\ pc \in Maintaining /\ pc' \in Maintaining
    BY <1>4 DEF PurgeData, TruncateIndex, RewriteIndex, Maintaining
  <2>2. BlocksOf(todo') = BlocksOf(todo) /\ BlocksOf(keep') = BlocksOf(keep)
    BY <2>1
  <2>. QED  BY <2>1, <2>2 DEF Used, Sound, Maintaining
<1>5. CASE MaintStatus
  <2>1. /\ UNCHANGED <<idx, todo, dirty, late, shd, shdLen, sha, shaLen>>
        /\ pc = "rewritten" /\ pc' = "idle"
    BY <1>5 DEF MaintStatus
  <2>2. ~dirty /\ idx = keep /\ todo = <<>>
    BY <2>1 DEF Sound, LengthInv, WorkInv, TodoInv, Maintaining
  <2>3. BlocksOf(todo) = {}
    BY <2>2 DEF BlocksOf
  <2>4. BlocksOf(idx') = BlocksOf(keep)
    BY <2>1, <2>2
  <2>. QED  BY <2>1, <2>2, <2>3, <2>4 DEF Used, Sound, Maintaining
<1>6. CASE FixNoHeader
  <2>1. /\ UNCHANGED <<idx, dirty, late, shd, shdLen, sha, shaLen>> /\ pc = "fix" /\ pc' = "fix"
    BY <1>6 DEF FixNoHeader
  <2>2. BlocksOf(idx)' = BlocksOf(idx)
    BY <2>1
  <2>. QED  BY <2>1, <2>2 DEF Used, Sound, Maintaining
<1>7. CASE FixEnd
  <2>1. /\ UNCHANGED <<late, shd, shdLen, sha, shaLen>> /\ pc = "fix" /\ pc' = "idle"
        /\ idx' = idx \/ idx' \in Sorted
    BY <1>7 DEF FixEnd
  <2>2. ListedIn(idx') = ListedIn(idx)
    BY <2>1, SortedType DEF TypeInv, IndexTyped
  <2>3. BlocksOf(idx') = BlocksOf(idx)
    BY <2>2, SameBlocks
  <2>. QED  BY <2>1, <2>3 DEF Used, Sound, Maintaining
<1>8. CASE UNCHANGED vars
  <2>1. UNCHANGED <<idx, todo, keep, dirty, late, shd, shdLen, sha, shaLen, pc, pos, cur>>
    BY <1>8 DEF vars
  <2>2. /\ BlocksOf(idx)' = BlocksOf(idx)
        /\ BlocksOf(todo') = BlocksOf(todo) /\ BlocksOf(keep') = BlocksOf(keep)
    BY <2>1
  <2>. QED  BY <2>1, <2>2 DEF Used, Sound
<1>. QED  BY <1>1, <1>2, <1>3, <1>4, <1>5, <1>6, <1>7, <1>8 DEF Quiet

\* The other steps.
LEMMA TailBlocks ==
    ASSUME NEW s \in Seq(RecordType), s # <<>>
    PROVE  /\ Head(s).hblk \in BlocksOf(s) /\ Head(s) \in ListedIn(s)
           /\ ListedIn(Tail(s)) \subseteq ListedIn(s)
           /\ BlocksOf(Tail(s)) \subseteq BlocksOf(s)
           /\ Apart(s) => Apart(Tail(s)) /\ BlocksOf(Tail(s)) = BlocksOf(s) \ {Head(s).hblk}
<1>1. /\ Len(s) \in Nat \ {0} /\ DOMAIN s = 1 .. Len(s) /\ Head(s) = s[1]
      /\ Tail(s) \in Seq(RecordType) /\ Len(Tail(s)) = Len(s) - 1
      /\ \A i \in 1 .. Len(s) - 1 : Tail(s)[i] = s[i + 1]
  OBVIOUS
<1>2. DOMAIN Tail(s) = 1 .. Len(s) - 1
  BY <1>1
<1>3. \A i \in DOMAIN Tail(s) : i + 1 \in DOMAIN s /\ i + 1 # 1 /\ Tail(s)[i] = s[i + 1]
  BY <1>1, <1>2
<1>4. 1 \in DOMAIN s
  BY <1>1
<1>5. \A j \in DOMAIN s : j # 1 => \E i \in DOMAIN Tail(s) : i + 1 = j
  <2>1. ASSUME NEW j \in DOMAIN s, j # 1 PROVE \E i \in DOMAIN Tail(s) : i + 1 = j
    <3>1. j - 1 \in DOMAIN Tail(s) /\ (j - 1) + 1 = j
      BY <1>1, <1>2, <2>1
    <3>. QED  BY <3>1
  <2>. QED  BY <2>1
<1>6. \A i, j \in DOMAIN Tail(s) : i # j => i + 1 # j + 1
  BY <1>2
<1>7. Head(s).hblk \in BlocksOf(s) /\ Head(s) \in ListedIn(s)
  BY <1>1, <1>4 DEF BlocksOf, ListedIn
<1>8. ListedIn(Tail(s)) \subseteq ListedIn(s) /\ BlocksOf(Tail(s)) \subseteq BlocksOf(s)
  BY <1>3 DEF BlocksOf, ListedIn
<1>9. ASSUME Apart(s)
      PROVE  Apart(Tail(s)) /\ BlocksOf(Tail(s)) = BlocksOf(s) \ {Head(s).hblk}
  <2>1. Apart(Tail(s))
    BY <1>3, <1>6, <1>9 DEF Apart
  <2>2. \A b \in BlocksOf(Tail(s)) : b # Head(s).hblk
    BY <1>1, <1>3, <1>4, <1>9 DEF Apart, BlocksOf
  <2>3. \A b \in BlocksOf(s) : b # Head(s).hblk => b \in BlocksOf(Tail(s))
    BY <1>1, <1>3, <1>5 DEF BlocksOf
  <2>. QED  BY <1>8, <2>1, <2>2, <2>3
<1>. QED  BY <1>7, <1>8, <1>9

LEMMA AppendBlocks ==
    ASSUME NEW s \in Seq(RecordType), NEW e \in RecordType
    PROVE  /\ ListedIn(Append(s, e)) = ListedIn(s) \cup {e}
           /\ BlocksOf(Append(s, e)) = BlocksOf(s) \cup {e.hblk}
           /\ Apart(s) /\ e.hblk \notin BlocksOf(s) => Apart(Append(s, e))
<1>. DEFINE t == Append(s, e)
            n == Len(s)
<1>1. /\ n \in Nat /\ DOMAIN s = 1 .. n /\ t \in Seq(RecordType)
      /\ DOMAIN t = 1 .. n + 1 /\ t[n + 1] = e
      /\ \A i \in 1 .. n : t[i] = s[i]
  OBVIOUS
<1>. HIDE DEF t, n
<1>2. /\ n + 1 \in DOMAIN t /\ n + 1 \notin DOMAIN s
      /\ \A i \in DOMAIN t : i = n + 1 \/ i \in DOMAIN s
      /\ \A i \in DOMAIN s : i \in DOMAIN t /\ t[i] = s[i]
  BY <1>1
<1>3. ListedIn(t) = ListedIn(s) \cup {e}
  BY <1>1, <1>2 DEF ListedIn
<1>4. BlocksOf(t) = BlocksOf(s) \cup {e.hblk}
  BY <1>1, <1>2 DEF BlocksOf
<1>5. ASSUME Apart(s), e.hblk \notin BlocksOf(s) PROVE Apart(t)
  <2>1. \A i \in DOMAIN s : t[i].hblk # t[n + 1].hblk
    BY <1>1, <1>2, <1>5 DEF BlocksOf
  <2>2. ASSUME NEW i \in DOMAIN t, NEW j \in DOMAIN t, i # j PROVE t[i].hblk # t[j].hblk
    BY <1>2, <1>5, <2>1, <2>2 DEF Apart
  <2>. QED  BY <2>2 DEF Apart
<1>. QED  BY <1>3, <1>4, <1>5 DEF t

LEMMA IndexParts ==
    ASSUME TypeInv, WorkInv, WriteIndex
    PROVE  LET e == [num |-> cur.num, hblk |-> pos, del |-> FALSE]
           IN  /\ pc = "written" /\ pc' = "indexed" /\ e \in RecordType /\ e.hblk = pos /\ e.del = FALSE
               /\ idx' = Append(idx, e) /\ pos \in Block /\ shd[pos] = cur /\ ~cur.del
               /\ cur \in HeaderType /\ pos \in Starts /\ ExtentAt(pos) = Run
               /\ Used' = Used \cup {pos}
               /\ UNCHANGED <<datVars, hdrVars, total, lastMsg, workVars, ghosts>>
<1>. DEFINE e == [num |-> cur.num, hblk |-> pos, del |-> FALSE]
<1>1. /\ pc = "written" /\ pc' = "indexed" /\ idx' = Append(idx, e)
      /\ UNCHANGED <<datVars, hdrVars, total, lastMsg, workVars, ghosts>>
  BY DEF WriteIndex
<1>2. cur.num > 0 /\ ~cur.del /\ pos < MaxBlocks /\ shd[pos] = cur
  BY <1>1 DEF WorkInv, PostInv, PlaceInv, Posting
<1>3. cur \in HeaderType /\ cur.num \in Nat /\ IsHeader(cur)
  BY HeaderHasFields DEF TypeInv, WorkTyped
<1>4. pos \in Block
  BY <1>2, MaxBlocksAssumption DEF TypeInv, WorkTyped, Block
<1>5. e \in RecordType /\ e.hblk = pos /\ e.del = FALSE
  BY <1>2, <1>3, <1>4 DEF RecordType
<1>6. pos \in Starts /\ ExtentAt(pos) = Run
  BY <1>2, <1>3, <1>4 DEF Starts, ExtentAt, Run
<1>. HIDE DEF e
<1>7. BlocksOf(idx') = BlocksOf(idx) \cup {pos}
  BY <1>1, <1>5, AppendBlocks DEF TypeInv, IndexTyped
<1>8. Used' = Used \cup {pos}
  BY <1>1, <1>7 DEF Used, Maintaining
<1>. QED  BY <1>1, <1>2, <1>3, <1>4, <1>5, <1>6, <1>8 DEF e

LEMMA SameUsed ==
    ASSUME WriteHeader \/ PlaceHeader \/ (\E e \in ListedIn(idx) : StraightFlag(e)) \/ StraightPurge
    PROVE  Used' = Used
<1>. USE DEF datVars, hdrVars, idxVars, workVars, ghosts
<1>1. CASE WriteHeader \/ PlaceHeader \/ (\E e \in ListedIn(idx) : StraightFlag(e))
  <2>1. /\ idx' = idx /\ pc \in {"stored", "placed", "idle"} /\ pc' \in {"placed", "written", "flag"}
    BY <1>1 DEF WriteHeader, PlaceHeader, StraightFlag, StartWork
  <2>2. BlocksOf(idx)' = BlocksOf(idx)
    BY <2>1
  <2>. QED  BY <2>1, <2>2 DEF Used, Maintaining
<1>2. CASE StraightPurge
  <2>1. /\ UNCHANGED <<todo, keep>> /\ pc = "maint" /\ pc' = "purge data"
    BY <1>2 DEF StraightPurge
  <2>2. BlocksOf(todo)' = BlocksOf(todo) /\ BlocksOf(keep)' = BlocksOf(keep)
    BY <2>1
  <2>. QED  BY <2>1, <2>2 DEF Used, Maintaining
<1>. QED  BY <1>1, <1>2

LEMMA PurgeBlocksParts ==
    ASSUME TypeInv, WorkInv, HandInv, ListInv, Sound, PurgeBlocks
    PROVE  /\ pc = "purge blocks" /\ pc' = "maint" /\ Sound'
           /\ pos \in Used /\ Used' = Used \ {pos} /\ ExtentAt(pos) = Run /\ shd[pos] = cur
           /\ cur.del
           /\ Apart(todo') /\ BlocksOf(todo') \subseteq BlocksOf(todo)
           /\ \A k \in Block : sha'[k] = IF k \in Run THEN 0 ELSE sha[k]
           /\ todo' = Tail(todo) /\ todo # <<>>
           /\ UNCHANGED <<datVars, shaLen, shd, shdLen, idxVars, cur, keep, flagged, pos, renumber, ghosts>>
<1>1. /\ pc = "purge blocks" /\ pc' = "maint" /\ sha' = FreeRun(sha, pos, cur.n)
      /\ todo' = Tail(todo)
      /\ UNCHANGED <<datVars, shaLen, shd, shdLen, idxVars, cur, keep, flagged, pos, renumber, ghosts>>
  BY DEF PurgeBlocks
<1>2. todo # <<>> /\ Head(todo).hblk = pos /\ shd[pos] = cur /\ cur.del
  BY <1>1 DEF WorkInv, PlaceInv, HandInv, Purging
<1>3. Apart(todo) /\ BlocksOf(todo) \cap BlocksOf(keep) = {}
  BY <1>1 DEF ListInv, Maintaining
<1>4. todo \in Seq(RecordType)
  BY DEF TypeInv, WorkTyped
<1>5. /\ Apart(Tail(todo)) /\ BlocksOf(Tail(todo)) = BlocksOf(todo) \ {pos}
      /\ pos \in BlocksOf(todo)
  BY <1>2, <1>3, <1>4, TailBlocks
<1>6. Used = BlocksOf(todo) \cup BlocksOf(keep)
  BY <1>1 DEF Used, Maintaining
<1>7. Used' = BlocksOf(Tail(todo)) \cup BlocksOf(keep)
  <2>1. BlocksOf(todo)' = BlocksOf(Tail(todo)) /\ BlocksOf(keep)' = BlocksOf(keep)
    BY <1>1 DEF BlocksOf
  <2>. QED  BY <1>1, <2>1 DEF Used, Maintaining
<1>8. Used' = Used \ {pos} /\ pos \in Used
  BY <1>3, <1>5, <1>6, <1>7
<1>9. ExtentAt(pos) = Run
  BY <1>2 DEF ExtentAt, Run
<1>10. \A k \in Block : sha'[k] = IF k \in Run THEN 0 ELSE sha[k]
  BY <1>1 DEF FreeRun, Run
<1>11. BlocksOf(todo') \subseteq BlocksOf(todo) /\ Apart(todo')
  BY <1>1, <1>5
<1>12. Sound'
  BY <1>1 DEF Sound, ghosts
<1>. QED  BY <1>1, <1>2, <1>8, <1>9, <1>10, <1>11, <1>12

\* maint() does not meet a bad header in a sound base.
LEMMA NoBadHeader ==
    ASSUME TypeInv, RecordsInv, Sound, StraightBadHeader
    PROVE  FALSE
<1>1. pc = "maint" /\ todo # <<>> /\ ~IsHeader(HeaderOf(Head(todo)))
  BY DEF StraightBadHeader
<1>2. Head(todo).hblk \in BlocksOf(todo)
  BY <1>1, TailBlocks DEF TypeInv, WorkTyped
<1>3. Head(todo).hblk \in Used
  BY <1>1, <1>2 DEF Used, Maintaining
<1>4. Head(todo).hblk \in Starts
  BY <1>3 DEF RecordsInv
<1>. QED  BY <1>1, <1>4 DEF HeaderOf, Starts

LEMMA FixHeaderUsed ==
    ASSUME TypeInv, WorkInv, FilesInv, FixHeader
    PROVE  /\ pc = "fix" /\ pc' = "fix" /\ pos \in Starts /\ shd[pos] \in HeaderType
           /\ pos' = pos + shd[pos].n /\ pos' <= shdLen
           /\ shd[pos].del => Used' = Used /\ idx' = idx
           /\ ~shd[pos].del =>
                  /\ Used' = Used \cup {pos} /\ ListedIn(idx') \subseteq ListedIn(idx) \cup
                         {[num |-> (IF renumber THEN Len(idx) + 1 ELSE shd[pos].num),
                           hblk |-> pos, del |-> FALSE]}
                  /\ Apart(idx) /\ pos \notin Used => Apart(idx')
           /\ \A k \in Block : k \notin ExtentAt(pos) => sha'[k] = sha[k]
           /\ \A k \in Block : k \in ExtentAt(pos) =>
                  sha'[k] = IF shd[pos].del THEN 0 ELSE 1
           /\ sda' = (IF shd[pos].del THEN sda ELSE CountFields(sda, shd[pos].m))
           /\ UNCHANGED <<shdLen, shaLen, todo, keep, ghosts, cur>>
<1>. DEFINE old == shd[pos]
            num == IF renumber THEN Len(idx) + 1 ELSE old.num
            e   == [num |-> num, hblk |-> pos, del |-> FALSE]
<1>1. /\ pc = "fix" /\ pos \in Starts /\ old \in HeaderType
      /\ pos + old.n <= shdLen /\ pos' = pos + old.n
      /\ e \in RecordType
      /\ sda' = (IF old.del THEN sda ELSE CountFields(sda, old.m))
      /\ old.del => sha' = FreeRun(sha, pos, old.n) /\ UNCHANGED <<shd, idx>>
      /\ ~old.del => sha' = MarkUsed(sha, pos, old.n) /\ idx' = Append(idx, e)
      /\ UNCHANGED <<shdLen, shaLen, pc, todo, keep, ghosts, cur>>
  BY FixHeaderParts DEF FilesInv
<1>2. e.hblk = pos
  OBVIOUS
<1>. HIDE DEF e
<1>3. Used = BlocksOf(idx) /\ Used' = BlocksOf(idx')
  BY <1>1 DEF Used, Maintaining
<1>4. ASSUME old.del PROVE Used' = Used /\ idx' = idx
  <2>1. idx' = idx
    BY <1>1, <1>4
  <2>. QED  BY <1>3, <2>1
<1>5. ASSUME ~old.del
      PROVE  /\ Used' = Used \cup {pos} /\ ListedIn(idx') \subseteq ListedIn(idx) \cup {e}
             /\ Apart(idx) /\ pos \notin Used => Apart(idx')
  <2>1. idx' = Append(idx, e) /\ e \in RecordType /\ e.hblk = pos /\ idx \in Seq(RecordType)
    BY <1>1, <1>2, <1>5 DEF TypeInv, IndexTyped
  <2>2. /\ ListedIn(Append(idx, e)) = ListedIn(idx) \cup {e}
        /\ BlocksOf(Append(idx, e)) = BlocksOf(idx) \cup {e.hblk}
        /\ Apart(idx) /\ e.hblk \notin BlocksOf(idx) => Apart(Append(idx, e))
    BY <2>1, AppendBlocks
  <2>. QED  BY <1>3, <2>1, <2>2
<1>6. DOMAIN sha = Block
  BY DEF TypeInv, HeadTyped
<1>7. /\ \A k \in Block : k \notin ExtentAt(pos) => sha'[k] = sha[k]
      /\ \A k \in Block : k \in ExtentAt(pos) => sha'[k] = IF shd[pos].del THEN 0 ELSE 1
  <2>1. CASE old.del
    BY <1>1, <2>1 DEF FreeRun, ExtentAt
  <2>2. CASE ~old.del
    BY <1>1, <1>6, <2>2, MarkUsedValue DEF ExtentAt
  <2>. QED  BY <2>1, <2>2
<1>. QED  BY <1>1, <1>4, <1>5, <1>7 DEF e

LEMMA FixStartUsed ==
    ASSUME NEW option, FixStart(option)
    PROVE  /\ Used' = {} /\ pc' = "fix" /\ pos' = 0 /\ idx' = <<>>
           /\ \A b \in Block : sha'[b] = 0
           /\ \A b \in Block : sda'[b] = 0
           /\ UNCHANGED <<shd, shdLen, todo, keep, ghosts>>
<1>1. /\ pc' = "fix" /\ pos' = 0 /\ idx' = <<>>
      /\ \A b \in Block : sha'[b] = 0
      /\ \A b \in Block : sda'[b] = 0
      /\ UNCHANGED <<shd, shdLen, todo, keep, ghosts>>
  BY DEF FixStart
<1>2. BlocksOf(idx') = {}
  BY <1>1 DEF BlocksOf
<1>. QED  BY <1>1, <1>2 DEF Used, Maintaining
-----------------------------------------------------------------------------
(* The records of a sound base point at headers with blocks of their own.   *)

LEMMA StartBlocks ==
    ASSUME TypeInv, FilesInv, NEW b \in Starts
    PROVE  /\ b \in Block /\ b \in Nat /\ shd[b].n \in Nat \ {0} /\ b \in ExtentAt(b)
           /\ \A k \in ExtentAt(b) : k \in Block /\ k \in Nat /\ k < shdLen /\ k < shaLen
           /\ b + shd[b].n <= shdLen /\ shdLen \in Nat /\ shaLen \in Nat /\ shdLen <= shaLen
           /\ shd[b] \in HeaderType
<1>1. b \in Block /\ b \in Nat /\ shd[b] \in HeaderType
  BY HeaderAt, BlocksAreNumbers DEF Starts
<1>2. shd[b].n \in Nat \ {0}
  BY <1>1, HeaderHasFields
<1>3. b + shd[b].n <= shdLen /\ shdLen <= shaLen
  BY DEF FilesInv, FitInv
<1>4. shdLen \in Nat /\ shaLen \in Nat /\ shaLen <= MaxBlocks /\ MaxBlocks \in Nat
  BY MaxBlocksAssumption DEF TypeInv, HeadTyped
<1>5. b \in ExtentAt(b)
  BY <1>1, <1>2 DEF ExtentAt
<1>6. \A k \in ExtentAt(b) : k \in Block /\ k \in Nat /\ k < shdLen /\ k < shaLen
  BY <1>1, <1>2, <1>3, <1>4 DEF ExtentAt, Block
<1>. QED  BY <1>1, <1>2, <1>3, <1>4, <1>5, <1>6

LEMMA RecordsFrame ==
    ASSUME RecordsInv, Sound, Used' \subseteq Used,
           \A b \in Used' : b \in Starts' /\ shd'[b].n = shd[b].n,
           \A b \in Used' : \A k \in ExtentAt(b) : sha[k] = 1 => sha'[k] = 1
    PROVE  RecordsInv'
<1>1. \A b \in Used' : b \in Used /\ b \in Starts' /\ ExtentAt(b)' = ExtentAt(b)
  BY DEF ExtentAt
<1>2. \A b \in Used' : \A k \in ExtentAt(b) : sha'[k] = 1
  BY <1>1 DEF RecordsInv
<1>3. \A a, b \in Used' : a # b => ExtentAt(a) \cap ExtentAt(b) = {}
  BY <1>1 DEF RecordsInv
<1>. QED  BY <1>1, <1>2, <1>3 DEF RecordsInv

LEMMA RecordsAdd ==
    ASSUME RecordsInv, Sound, NEW c, Used' = Used \cup {c}, c \in Starts',
           \A b \in Used : b \in Starts' /\ shd'[b].n = shd[b].n,
           \A b \in Used : \A k \in ExtentAt(b) : sha[k] = 1 => sha'[k] = 1,
           shd'[c].n = shd[c].n, \A k \in ExtentAt(c) : sha'[k] = 1,
           \A b \in Used : ExtentAt(b) \cap ExtentAt(c) = {}
    PROVE  RecordsInv'
<1>1. \A b \in Used' : b \in Starts' /\ ExtentAt(b)' = ExtentAt(b)
  BY DEF ExtentAt
<1>2. \A b \in Used' : \A k \in ExtentAt(b) : sha'[k] = 1
  BY DEF RecordsInv
<1>3. \A a, b \in Used' : a # b => ExtentAt(a) \cap ExtentAt(b) = {}
  BY DEF RecordsInv
<1>. QED  BY <1>1, <1>2, <1>3 DEF RecordsInv

\* Flagging a header leaves the others where they are.
LEMMA RewriteUsed ==
    ASSUME TypeInv, FilesInv, RecordsInv, Sound, NEW b \in Used, Rewritten(b)
    PROVE  \A k \in Used : /\ k \in Starts' /\ shd'[k].n = shd[k].n /\ shd'[k].m = shd[k].m
                           /\ k # b => shd'[k] = shd[k]
<1>1. /\ b \in Starts /\ b \in Starts' /\ shd'[b].del = TRUE
      /\ \A k \in Starts' : /\ k \in Starts /\ shd'[k].num = shd[k].num
                            /\ shd'[k].n = shd[k].n /\ shd'[k].m = shd[k].m
                            /\ shd[k].del => shd'[k].del
                            /\ k # b => shd'[k] = shd[k]
      /\ \A k \in Starts : k \notin ExtentAt(b) => k \in Starts' /\ shd'[k] = shd[k]
  BY RewriteKeeps
<1>2. ASSUME NEW k \in Used PROVE k \in Starts'
  <2>1. k \in Starts
    BY DEF RecordsInv
  <2>2. k \in ExtentAt(k)
    BY <2>1, StartBlocks
  <2>3. k # b => k \notin ExtentAt(b)
    BY <2>2 DEF RecordsInv
  <2>. QED  BY <1>1, <2>1, <2>3
<1>. QED  BY <1>1, <1>2

LEMMA FlagUsed ==
    ASSUME TypeInv, NEW e \in ListedIn(idx), StraightFlag(e)
    PROVE  e.hblk \in Used /\ (Sound' => Sound) /\ pc' \notin {"placed", "written", "fix"}
<1>1. pc = "idle" /\ pc' = "flag" /\ dirty' = dirty
  BY FlagParts
<1>2. e.hblk \in BlocksOf(idx)
  BY DEF ListedIn, BlocksOf
<1>. QED  BY <1>1, <1>2 DEF Used, Maintaining, Sound

LEMMA PurgeUsed ==
    ASSUME TypeInv, StraightPurge, NEW e, e = Head(todo)
    PROVE  /\ e.hblk \in Used /\ e.hblk \in BlocksOf(todo)
           /\ (Sound' => Sound) /\ pc' \notin {"placed", "written", "fix"}
<1>1. pc = "maint" /\ pc' = "purge data" /\ dirty' = dirty /\ todo # <<>>
  BY PurgeParts
<1>2. e.hblk \in BlocksOf(todo)
  BY <1>1, TailBlocks DEF TypeInv, WorkTyped
<1>. QED  BY <1>1, <1>2 DEF Used, Maintaining, Sound

\* What WriteHeader leaves of the headers.
LEMMA WriteUsed ==
    ASSUME TypeInv, WorkInv, FilesInv, RecordsInv, RunInv, Sound, WriteHeader
    PROVE  \A k \in Used : k \in Starts' /\ shd'[k] = shd[k]
<1>1. /\ pc = "placed" /\ cur \in HeaderType /\ pos \in Block /\ WriteHeaderAt(pos, cur)
  BY WriteParts
<1>2. \A k \in Starts : k \notin Run => k \in Starts' /\ shd'[k] = shd[k]
  BY <1>1, WriteStarts DEF Run
<1>3. ASSUME NEW k \in Used PROVE k \in Starts /\ k \notin Run
  <2>1. k \in Starts
    BY DEF RecordsInv
  <2>2. k \in ExtentAt(k)
    BY <2>1, StartBlocks
  <2>. QED  BY <1>1, <2>1, <2>2 DEF RunInv
<1>. QED  BY <1>2, <1>3

LEMMA RecordsNext ==
    ASSUME TypeInv, WorkInv, FilesInv, HandInv, LengthInv, RecordsInv, ListInv, RunInv, FixInv,
           [Straight]_vars
    PROVE  RecordsInv'
<1>. SUFFICES ASSUME Sound' PROVE RecordsInv'
  BY DEF RecordsInv
<1>. USE DEF datVars, hdrVars, idxVars, workVars, ghosts
<1>0. ASSUME Sound PROVE \A b \in Used : b \in Starts
  BY <1>0 DEF RecordsInv
<1>1. CASE Quiet
  <2>1. Sound /\ Used' = Used /\ UNCHANGED <<shd, sha>>
    BY <1>1, QuietUsed
  <2>2. Starts' = Starts
    BY <2>1 DEF Starts
  <2>. QED  BY <1>0, <2>1, <2>2, RecordsFrame
<1>2. CASE PlaceHeader
  <2>1. /\ pc = "stored" /\ pc' = "placed" /\ UNCHANGED <<shd, dirty>> /\ Used' = Used
    BY <1>2, SameUsed DEF PlaceHeader
  <2>2. \A k \in Block : sha[k] = 1 => sha'[k] = 1
    BY <1>2, PlaceParts
  <2>3. Sound /\ Starts' = Starts
    BY <2>1 DEF Sound, Starts
  <2>4. \A b \in Used : \A k \in ExtentAt(b) : k \in Block
    BY <1>0, <2>3, StartBlocks
  <2>. QED  BY <1>0, <2>1, <2>2, <2>3, <2>4, RecordsFrame
<1>3. CASE WriteHeader
  <2>1. /\ pc = "placed" /\ pc' = "written" /\ UNCHANGED <<sha, dirty>> /\ Used' = Used
    BY <1>3, WriteParts, SameUsed
  <2>2. Sound
    BY <2>1 DEF Sound
  <2>3. \A k \in Used : k \in Starts' /\ shd'[k] = shd[k]
    BY <1>3, <2>2, WriteUsed
  <2>. QED  BY <2>1, <2>2, <2>3, RecordsFrame
<1>4. CASE WriteIndex
  <2>1. /\ pc = "written" /\ pc' = "indexed" /\ UNCHANGED <<shd, sha, dirty>>
        /\ pos \in Starts /\ ExtentAt(pos) = Run /\ Used' = Used \cup {pos}
    BY <1>4, IndexParts
  <2>2. Sound /\ Starts' = Starts
    BY <2>1 DEF Sound, Starts
  <2>3. /\ \A k \in ExtentAt(pos) : sha'[k] = 1
        /\ \A b \in Used : ExtentAt(b) \cap ExtentAt(pos) = {}
    BY <2>1, <2>2 DEF RunInv
  <2>. QED  BY <1>0, <2>1, <2>2, <2>3, RecordsAdd
<1>5. ASSUME NEW e \in ListedIn(idx), StraightFlag(e) PROVE RecordsInv'
  <2>1. e.hblk \in Used /\ Sound /\ Rewritten(e.hblk) /\ sha' = sha /\ Used' = Used
    BY <1>5, FlagUsed, FlagParts, SameUsed
  <2>2. \A k \in Used : k \in Starts' /\ shd'[k].n = shd[k].n
    BY <2>1, RewriteUsed
  <2>. QED  BY <2>1, <2>2, RecordsFrame
<1>6. CASE StraightPurge
  <2>1. PICK e : e = Head(todo)
    OBVIOUS
  <2>2. e.hblk \in Used /\ Sound /\ Rewritten(e.hblk) /\ sha' = sha /\ Used' = Used
    BY <1>6, <2>1, PurgeUsed, PurgeParts, SameUsed
  <2>3. \A k \in Used : k \in Starts' /\ shd'[k].n = shd[k].n
    BY <2>2, RewriteUsed
  <2>. QED  BY <2>2, <2>3, RecordsFrame
<1>7. CASE StraightBadHeader
  <2>1. Sound
    BY <1>7 DEF StraightBadHeader, Sound
  <2>. QED  BY <1>7, <2>1, NoBadHeader
<1>8. CASE PurgeBlocks
  <2>1. Sound
    BY <1>8 DEF PurgeBlocks, Sound
  <2>2. /\ pos \in Used /\ Used' = Used \ {pos} /\ ExtentAt(pos) = Run /\ shd' = shd
        /\ \A k \in Block : sha'[k] = IF k \in Run THEN 0 ELSE sha[k]
    BY <1>8, <2>1, PurgeBlocksParts
  <2>3. Starts' = Starts
    BY <2>2 DEF Starts
  <2>4. ASSUME NEW b \in Used', NEW k \in ExtentAt(b) PROVE sha'[k] = sha[k]
    <3>1. b \in Used /\ b # pos /\ k \in Block
      BY <1>0, <2>1, <2>2, StartBlocks
    <3>2. k \notin Run
      BY <2>1, <2>2, <3>1 DEF RecordsInv
    <3>. QED  BY <2>2, <3>1, <3>2
  <2>. QED  BY <1>0, <2>1, <2>2, <2>3, <2>4, RecordsFrame
<1>9. ASSUME NEW option, FixStart(option) PROVE RecordsInv'
  BY <1>9, FixStartUsed DEF RecordsInv
<1>10. CASE FixHeader
  <2>1. /\ pc = "fix" /\ pos \in Starts
        /\ shd[pos].del => Used' = Used
        /\ ~shd[pos].del => Used' = Used \cup {pos}
        /\ \A k \in Block : k \notin ExtentAt(pos) => sha'[k] = sha[k]
        /\ \A k \in Block : k \in ExtentAt(pos) => sha'[k] = IF shd[pos].del THEN 0 ELSE 1
    BY <1>10, FixHeaderUsed
  <2>2. Sound
    BY <2>1 DEF Sound
  <2>3. Starts' = Starts /\ \A k \in Starts : shd'[k].n = shd[k].n
    BY <1>10, FixFits DEF FilesInv
  <2>4. ASSUME NEW b \in Used PROVE ExtentAt(b) \cap ExtentAt(pos) = {}
    <3>1. b + shd[b].n <= pos
      BY <2>1 DEF FixInv
    <3>2. b \in Nat /\ shd[b].n \in Nat /\ pos \in Nat /\ shd[pos].n \in Nat
      BY <1>0, <2>1, <2>2, StartBlocks
    <3>. QED  BY <3>1, <3>2 DEF ExtentAt
  <2>5. ASSUME NEW b \in Used, NEW k \in ExtentAt(b) PROVE sha'[k] = sha[k]
    <3>1. k \in Block
      BY <1>0, <2>2, StartBlocks
    <3>. QED  BY <2>1, <2>4, <3>1
  <2>6. \A k \in ExtentAt(pos) : k \in Block
    BY <2>1, StartBlocks
  <2>7. CASE shd[pos].del
    BY <1>0, <2>1, <2>2, <2>3, <2>5, <2>7, RecordsFrame
  <2>8. CASE ~shd[pos].del
    <3>1. \A k \in ExtentAt(pos) : sha'[k] = 1
      BY <2>1, <2>6, <2>8
    <3>. QED  BY <1>0, <2>1, <2>2, <2>3, <2>4, <2>5, <2>8, <3>1, RecordsAdd
  <2>. QED  BY <2>7, <2>8
<1>11. CASE Crash
  BY <1>11 DEF Crash, Sound
<1>. QED  BY <1>1, <1>2, <1>3, <1>4, <1>5, <1>6, <1>7, <1>8, <1>9, <1>10, <1>11
          DEF Straight, AddMessage, StraightMaintain, Repair, ListedIn, Quiet

LEMMA RunNext ==
    ASSUME TypeInv, WorkInv, FilesInv, HandInv, RecordsInv, RunInv, [Straight]_vars
    PROVE  RunInv'
<1>. SUFFICES ASSUME Sound', pc' \in {"placed", "written"} PROVE RunInv'
  BY DEF RunInv
<1>. USE DEF datVars, hdrVars, idxVars, workVars, ghosts
<1>1. CASE PlaceHeader
  <2>1. /\ pc = "stored" /\ pc' = "placed" /\ UNCHANGED <<shd, dirty, cur>> /\ Used' = Used
    BY <1>1, SameUsed DEF PlaceHeader
  <2>2. /\ \A k \in pos' .. pos' + cur.n - 1 : k \in Block /\ (k < shaLen => sha[k] = 0)
        /\ \A k \in Block : sha'[k] = IF k \in pos' .. pos' + cur.n - 1 THEN 1 ELSE sha[k]
    BY <1>1, PlaceParts
  <2>3. Run' = pos' .. pos' + cur.n - 1
    BY <2>1 DEF Run
  <2>4. \A k \in Run' : sha'[k] = 1
    BY <2>2, <2>3
  <2>5. Sound
    BY <2>1 DEF Sound
  <2>6. ASSUME NEW b \in Used PROVE ExtentAt(b) \cap Run' = {}
    <3>1. b \in Starts /\ \A k \in ExtentAt(b) : sha[k] = 1
      BY <2>5 DEF RecordsInv
    <3>2. \A k \in ExtentAt(b) : k < shaLen
      BY <3>1, StartBlocks
    <3>. QED  BY <2>2, <2>3, <3>1, <3>2
  <2>7. \A b \in Used' : ExtentAt(b)' = ExtentAt(b)
    BY <2>1 DEF ExtentAt
  <2>. QED  BY <2>1, <2>4, <2>6, <2>7 DEF RunInv
<1>2. CASE WriteHeader
  <2>1. /\ pc = "placed" /\ UNCHANGED <<sha, dirty, cur, pos>> /\ Used' = Used
    BY <1>2, WriteParts, SameUsed
  <2>2. Sound
    BY <2>1 DEF Sound
  <2>3. \A k \in Used : shd'[k] = shd[k]
    BY <1>2, <2>2, WriteUsed
  <2>4. Run' = Run /\ \A b \in Used : ExtentAt(b)' = ExtentAt(b)
    BY <2>1, <2>3 DEF Run, ExtentAt
  <2>. QED  BY <2>1, <2>2, <2>4 DEF RunInv
<1>3. CASE UNCHANGED vars
  BY <1>3 DEF vars, RunInv, Sound, Run, Used, ExtentAt, BlocksOf
<1>4. CASE \/ \E shape \in Shapes, n \in HdrBlocks : StoreText(shape, n)
           \/ Refuse \/ WriteIndex \/ WriteStatus \/ StraightMaintain \/ Repair \/ Crash
  <2>1. pc' \notin {"placed", "written"}
    BY <1>4 DEF StoreText, Refuse, WriteIndex, WriteStatus, StraightMaintain, Repair, Crash,
                StraightFlag, FlagIndex, MaintStart, StraightPurge, StraightBadHeader,
                PurgeData, PurgeBlocks, TruncateIndex, RewriteIndex, MaintStatus, FixStart,
                FixHeader, FixNoHeader, FixEnd
  <2>. QED  BY <2>1
<1>. QED  BY <1>1, <1>2, <1>3, <1>4 DEF Straight, AddMessage

LEMMA FixNext ==
    ASSUME TypeInv, WorkInv, FilesInv, HandInv, RecordsInv, FixInv, [Straight]_vars
    PROVE  FixInv'
<1>. SUFFICES ASSUME pc' = "fix" PROVE FixInv'
  BY DEF FixInv
<1>. USE DEF datVars, hdrVars, idxVars, workVars, ghosts
<1>1. ASSUME NEW option, FixStart(option) PROVE FixInv'
  <2>1. /\ Used' = {} /\ idx' = <<>> /\ \A b \in Block : sha'[b] = 0
    BY <1>1, FixStartUsed
  <2>2. Records' = {}
    BY <2>1 DEF Records
  <2>. QED  BY <2>1, <2>2 DEF FixInv
<1>2. CASE FixHeader
  <2>1. /\ pc = "fix" /\ pos \in Starts /\ pos' = pos + shd[pos].n
        /\ shd[pos].del => Used' = Used /\ idx' = idx
        /\ ~shd[pos].del =>
               /\ Used' = Used \cup {pos}
               /\ ListedIn(idx') \subseteq ListedIn(idx) \cup
                         {[num |-> (IF renumber THEN Len(idx) + 1 ELSE shd[pos].num),
                           hblk |-> pos, del |-> FALSE]}
        /\ \A k \in Block : k \notin ExtentAt(pos) => sha'[k] = sha[k]
    BY <1>2, FixHeaderUsed
  <2>2. \A k \in Starts : shd'[k].n = shd[k].n
    BY <1>2, FixFits DEF FilesInv
  <2>3. \A b \in Used : b \in Starts
    BY <2>1 DEF RecordsInv, Sound
  <2>4. pos \in Nat /\ shd[pos].n \in Nat \ {0}
    BY <2>1, StartBlocks
  <2>5. ASSUME NEW b \in Used' PROVE b + shd'[b].n <= pos'
    <3>1. CASE b = pos
      BY <2>1, <2>2, <2>4, <3>1
    <3>2. CASE b # pos
      <4>1. b \in Used
        BY <2>1, <3>2
      <4>2. b + shd[b].n <= pos /\ b \in Nat /\ shd[b].n \in Nat /\ shd'[b].n = shd[b].n
        BY <2>1, <2>2, <2>3, <4>1, StartBlocks DEF FixInv
      <4>. QED  BY <2>1, <2>4, <4>2
    <3>. QED  BY <3>1, <3>2
  <2>6. \A e \in Records' : ~e.del
    <3>1. \A e \in Records : ~e.del
      BY <2>1 DEF FixInv
    <3>2. Records = ListedIn(idx) /\ Records' = ListedIn(idx')
      BY DEF Records, ListedIn
    <3>3. CASE shd[pos].del
      BY <2>1, <3>1, <3>2, <3>3
    <3>4. CASE ~shd[pos].del
      BY <2>1, <3>1, <3>2, <3>4
    <3>. QED  BY <3>3, <3>4
  <2>7. ASSUME NEW k \in Block, k >= pos' PROVE sha'[k] = 0
    <3>1. k \in Nat /\ k >= pos /\ k \notin ExtentAt(pos)
      BY <2>1, <2>4, <2>7, BlocksAreNumbers DEF ExtentAt
    <3>. QED  BY <2>1, <3>1 DEF FixInv
  <2>. QED  BY <2>5, <2>6, <2>7 DEF FixInv
<1>3. CASE FixNoHeader
  <2>1. pc = "fix" /\ pos' = pos + 1 /\ UNCHANGED <<shd, sha, idx>>
    BY <1>3 DEF FixNoHeader
  <2>2. BlocksOf(idx)' = BlocksOf(idx)
    BY <2>1
  <2>3. Used' = Used /\ Records' = Records
    BY <2>1, <2>2 DEF Used, Maintaining, Records
  <2>4. pos \in Nat
    BY MaxBlocksAssumption DEF TypeInv, WorkTyped
  <2>5. \A b \in Used : b \in Starts
    BY <2>1 DEF RecordsInv, Sound
  <2>6. ASSUME NEW b \in Used' PROVE b + shd'[b].n <= pos'
    <3>1. b + shd[b].n <= pos /\ b \in Nat /\ shd[b].n \in Nat
      BY <2>1, <2>3, <2>5, StartBlocks DEF FixInv
    <3>. QED  BY <2>1, <2>4, <3>1
  <2>7. \A k \in Block : k >= pos' => sha'[k] = 0
    BY <2>1, <2>4, BlocksAreNumbers DEF FixInv
  <2>. QED  BY <2>1, <2>3, <2>6, <2>7 DEF FixInv
<1>4. CASE UNCHANGED vars
  BY <1>4 DEF vars, FixInv, Used, Records, BlocksOf
<1>5. CASE AddMessage \/ StraightMaintain \/ FixEnd \/ Crash
  <2>1. pc' # "fix"
    BY <1>5 DEF AddMessage, StoreText, Refuse, PlaceHeader, WriteHeader, WriteIndex, WriteStatus,
                StraightMaintain, Crash, StraightFlag, FlagIndex, MaintStart, StraightPurge,
                StraightBadHeader, PurgeData, PurgeBlocks, TruncateIndex, RewriteIndex,
                MaintStatus, FixEnd
  <2>. QED  BY <2>1
<1>. QED  BY <1>1, <1>2, <1>3, <1>4, <1>5 DEF Straight, Repair

\* The marks in the index are those of the headers.
LEMMA ListFrame ==
    ASSUME ListInv, Sound, UNCHANGED <<idx, todo, keep>>,
           pc' \in Maintaining <=> pc \in Maintaining,
           \A e \in Records \ ListedIn(todo) : pc \notin Maintaining => shd'[e.hblk].del = shd[e.hblk].del,
           \A e \in ListedIn(keep) : pc \in Maintaining => shd'[e.hblk].del = shd[e.hblk].del
    PROVE  ListInv'
<1>1. /\ Records' = Records /\ ListedIn(todo)' = ListedIn(todo) /\ ListedIn(keep)' = ListedIn(keep)
      /\ BlocksOf(todo)' = BlocksOf(todo) /\ BlocksOf(keep)' = BlocksOf(keep)
      /\ Apart(idx)' = Apart(idx) /\ Apart(todo)' = Apart(todo) /\ Apart(keep)' = Apart(keep)
  BY DEF Records
<1>2. pc \notin Maintaining => \A e \in Records \ ListedIn(todo) : e.del = HeaderOf(e)'.del
  BY DEF ListInv, HeaderOf
<1>3. pc \in Maintaining => \A e \in ListedIn(keep) : e.del = HeaderOf(e)'.del
  BY DEF ListInv, HeaderOf
<1>. QED  BY <1>1, <1>2, <1>3 DEF ListInv

LEMMA ListPosting ==
    ASSUME TypeInv, WorkInv, FilesInv, HandInv, RecordsInv, ListInv, RunInv, Sound',
           \/ \E shape \in Shapes, n \in HdrBlocks : StoreText(shape, n)
           \/ Refuse \/ PlaceHeader \/ WriteHeader \/ WriteIndex \/ WriteStatus
    PROVE  ListInv'
<1>. USE DEF datVars, hdrVars, idxVars, workVars, ghosts
<1>1. CASE \/ \E shape \in Shapes, n \in HdrBlocks : StoreText(shape, n)
           \/ Refuse \/ PlaceHeader \/ WriteStatus
  <2>1. /\ UNCHANGED <<idx, todo, keep, shd, dirty>> /\ pc # "fix" /\ pc' # "fix"
        /\ pc \notin Maintaining /\ pc' \notin Maintaining
    BY <1>1 DEF StoreText, StartWork, Refuse, PlaceHeader, WriteStatus, Maintaining
  <2>2. Sound
    BY <2>1 DEF Sound
  <2>. QED  BY <2>1, <2>2, ListFrame
<1>2. CASE WriteHeader
  <2>1. /\ pc = "placed" /\ pc' = "written" /\ UNCHANGED <<idx, todo, keep, dirty>>
    BY <1>2, WriteParts
  <2>2. Sound /\ pc \notin Maintaining /\ pc' \notin Maintaining
    BY <2>1 DEF Sound, Maintaining
  <2>3. \A k \in Used : shd'[k] = shd[k]
    BY <1>2, <2>2, WriteUsed
  <2>4. \A e \in Records : e.hblk \in Used
    BY <2>2 DEF Records, Used, BlocksOf
  <2>. QED  BY <2>1, <2>2, <2>3, <2>4, ListFrame
<1>3. CASE WriteIndex
  <2>. DEFINE e == [num |-> cur.num, hblk |-> pos, del |-> FALSE]
  <2>1. /\ pc = "written" /\ pc' = "indexed" /\ e \in RecordType /\ e.hblk = pos /\ e.del = FALSE
        /\ idx' = Append(idx, e) /\ pos \in Block /\ shd[pos] = cur /\ ~cur.del
        /\ pos \in Starts /\ ExtentAt(pos) = Run
        /\ UNCHANGED <<todo, keep, shd, dirty>>
    BY <1>3, IndexParts
  <2>. HIDE DEF e
  <2>2. Sound /\ pc \notin Maintaining /\ pc' \notin Maintaining
    BY <2>1 DEF Sound, Maintaining
  <2>3. pos \notin BlocksOf(idx)
    <3>1. pos \in Run
      BY <2>1, StartBlocks
    <3>2. pos \notin Used
      BY <2>1, <2>2, <3>1 DEF RunInv
    <3>. QED  BY <2>2, <3>2 DEF Used
  <2>4. Apart(idx') /\ ListedIn(idx') = ListedIn(idx) \cup {e}
    BY <2>1, <2>2, <2>3, AppendBlocks DEF ListInv, TypeInv, IndexTyped
  <2>5. Records' = Records \cup {e}
    BY <2>4 DEF Records, ListedIn
  <2>6. \A f \in Records \ ListedIn(todo) : f.del = HeaderOf(f).del
    BY <2>2 DEF ListInv
  <2>7. e.del = shd[e.hblk].del
    <3>1. cur.del \in BOOLEAN
      BY HeaderHasFields DEF TypeInv, WorkTyped
    <3>. QED  BY <2>1, <3>1
  <2>8. \A f \in Records' \ ListedIn(todo)' : f.del = HeaderOf(f)'.del
    BY <2>1, <2>5, <2>6, <2>7 DEF HeaderOf
  <2>. QED  BY <2>2, <2>4, <2>8 DEF ListInv
<1>. QED  BY <1>1, <1>2, <1>3

LEMMA ListFlagging ==
    ASSUME TypeInv, WorkInv, FilesInv, HandInv, LengthInv, RecordsInv, ListInv, Sound',
           (\E e \in ListedIn(idx) : StraightFlag(e)) \/ FlagIndex
    PROVE  ListInv'
<1>. USE DEF datVars, hdrVars, idxVars, workVars, ghosts
<1>1. ASSUME NEW e \in ListedIn(idx), StraightFlag(e) PROVE ListInv'
  <2>1. /\ pc = "idle" /\ pc' = "flag" /\ todo' = <<e>> /\ UNCHANGED <<idx, keep, dirty>>
        /\ Rewritten(e.hblk)
    BY <1>1, FlagParts
  <2>2. Sound /\ e.hblk \in Used
    BY <1>1, FlagUsed
  <2>3. todo = <<>>
    BY <2>1 DEF WorkInv, TodoInv, Maintaining
  <2>4. ListedIn(todo') = {e} /\ ListedIn(todo) = {}
    BY <2>1, <2>3 DEF ListedIn
  <2>5. /\ Apart(idx) /\ \A f \in Records : f.del = HeaderOf(f).del
    BY <2>1, <2>2, <2>4 DEF ListInv, Maintaining
  <2>6. ASSUME NEW f \in Records, f # e PROVE shd'[f.hblk] = shd[f.hblk]
    <3>1. f.hblk # e.hblk
      BY <2>5, <2>6 DEF Apart, Records, ListedIn
    <3>2. f.hblk \in Used
      BY <2>1 DEF Records, Used, BlocksOf, Maintaining
    <3>. QED  BY <2>1, <2>2, <3>1, <3>2, RewriteUsed
  <2>7. Records' = Records /\ Apart(idx)' = Apart(idx)
    BY <2>1 DEF Records
  <2>8. \A f \in Records' \ ListedIn(todo)' : f.del = HeaderOf(f)'.del
    BY <2>4, <2>5, <2>6, <2>7 DEF HeaderOf
  <2>. QED  BY <2>1, <2>5, <2>7, <2>8 DEF ListInv, Maintaining
<1>2. ASSUME FlagIndex PROVE ListInv'
  <2>. DEFINE e == Head(todo)
  <2>1. /\ pc = "flag" /\ pc' = "idle" /\ idx' = IndexDeleted(e, cur) /\ todo' = Tail(todo)
        /\ UNCHANGED <<shd, keep, dirty>>
    BY <1>2 DEF FlagIndex
  <2>2. Len(todo) = 1 /\ e.hblk = pos /\ shd[pos] = cur /\ cur.del /\ todo # <<>>
    BY <2>1 DEF WorkInv, TodoInv, PlaceInv, HandInv
  <2>3. todo \in Seq(RecordType) /\ cur.del \in BOOLEAN
    BY HeaderHasFields DEF TypeInv, WorkTyped
  <2>4. ListedIn(todo) = {e} /\ todo' = <<>>
    <3>1. DOMAIN todo = {1} /\ e = todo[1]
      BY <2>2, <2>3
    <3>2. todo' = <<>>
      BY <2>1, <2>2, <2>3
    <3>. QED  BY <3>1, <3>2 DEF ListedIn
  <2>. HIDE DEF e
  <2>5. Sound
    BY <2>1 DEF Sound
  <2>6. Apart(idx) /\ \A f \in Records \ {e} : f.del = HeaderOf(f).del
    BY <2>1, <2>4, <2>5 DEF ListInv, Maintaining
  <2>7. Apart(idx')
    BY <2>1, <2>6, FlagBlocks
  <2>8. /\ DOMAIN idx' = DOMAIN idx
        /\ \A i \in DOMAIN idx :
                  /\ idx'[i].hblk = idx[i].hblk
                  /\ idx'[i].del = (idx[i].del \/ idx[i] = e)
    BY <2>1, HandNumber, IndexDeletedType DEF TypeInv, FilesInv
  <2>9. ASSUME NEW i \in DOMAIN idx PROVE idx'[i].del = shd'[idx'[i].hblk].del
    <3>1. idx[i] \in RecordType /\ idx[i].del \in BOOLEAN
      BY RecordsIn, RecordHasFields
    <3>2. CASE idx[i] = e
      BY <2>1, <2>2, <2>3, <2>8, <3>1, <3>2
    <3>3. CASE idx[i] # e
      <4>1. idx[i] \in Records \ {e}
        BY <3>3 DEF Records
      <4>2. idx[i].del = shd[idx[i].hblk].del
        BY <2>6, <4>1 DEF HeaderOf
      <4>3. idx'[i].del = idx[i].del
        BY <2>8, <3>1, <3>3
      <4>. QED  BY <2>1, <2>8, <4>2, <4>3
    <3>. QED  BY <3>2, <3>3
  <2>10. \A f \in Records' : f.del = HeaderOf(f)'.del
    BY <2>8, <2>9 DEF Records, HeaderOf
  <2>. QED  BY <2>1, <2>7, <2>10 DEF ListInv, Maintaining
<1>. QED  BY <1>1, <1>2

LEMMA ListMaint ==
    ASSUME TypeInv, WorkInv, FilesInv, HandInv, LengthInv, RecordsInv, ListInv, Sound',
           \/ \E chosen \in SUBSET DOMAIN idx : MaintStart(chosen)
           \/ StraightPurge \/ StraightBadHeader \/ PurgeData \/ PurgeBlocks
           \/ TruncateIndex \/ RewriteIndex \/ MaintStatus
    PROVE  ListInv'
<1>. USE DEF datVars, hdrVars, idxVars, workVars, ghosts
<1>1. ASSUME NEW chosen, MaintStart(chosen) PROVE ListInv'
  <2>1. pc = "idle" /\ pc' = "maint" /\ UNCHANGED <<idx, shd, dirty>>
    BY <1>1 DEF MaintStart, StartWork
  <2>2. ~dirty /\ Sound
    BY <2>1 DEF Sound
  <2>3. /\ Apart(todo') /\ Apart(keep') /\ BlocksOf(todo') \cap BlocksOf(keep') = {}
        /\ ListedIn(keep') \subseteq Records
    BY <1>1, <2>2, MaintLists
  <2>4. todo = <<>>
    BY <2>1 DEF WorkInv, TodoInv, Maintaining
  <2>5. ListedIn(todo) = {}
    BY <2>4 DEF ListedIn
  <2>6. \A e \in Records : e.del = HeaderOf(e).del
    BY <2>1, <2>2, <2>5 DEF ListInv, Maintaining
  <2>7. \A e \in ListedIn(keep)' : e.del = HeaderOf(e)'.del
    <3>1. ListedIn(keep)' = ListedIn(keep')
      OBVIOUS
    <3>. QED  BY <2>1, <2>3, <2>6, <3>1 DEF HeaderOf
  <2>. QED  BY <2>1, <2>3, <2>7 DEF ListInv, Maintaining
<1>2. CASE StraightPurge
  <2>1. PICK e : e = Head(todo)
    OBVIOUS
  <2>2. /\ pc = "maint" /\ pc' = "purge data" /\ UNCHANGED <<todo, keep, dirty>>
        /\ Rewritten(e.hblk)
    BY <1>2, <2>1, PurgeParts
  <2>3. Sound /\ e.hblk \in Used /\ e.hblk \in BlocksOf(todo)
    BY <1>2, <2>1, PurgeUsed
  <2>4. BlocksOf(todo) \cap BlocksOf(keep) = {}
    BY <2>2, <2>3 DEF ListInv, Maintaining
  <2>5. ASSUME NEW f \in ListedIn(keep) PROVE f.del = HeaderOf(f)'.del
    <3>1. f.hblk \in BlocksOf(keep)
      BY DEF ListedIn, BlocksOf
    <3>2. f.hblk \in Used /\ f.hblk # e.hblk
      BY <2>2, <2>3, <2>4, <3>1 DEF Used, Maintaining
    <3>3. shd'[f.hblk] = shd[f.hblk]
      BY <2>2, <2>3, <3>2, RewriteUsed
    <3>4. f.del = shd[f.hblk].del
      BY <2>2, <2>3 DEF ListInv, Maintaining, HeaderOf
    <3>. QED  BY <3>3, <3>4 DEF HeaderOf
  <2>6. /\ Apart(todo)' /\ Apart(keep)' /\ (BlocksOf(todo) \cap BlocksOf(keep) = {})'
        /\ ListedIn(keep)' = ListedIn(keep)
    <3>1. Apart(todo) /\ Apart(keep)
      BY <2>2, <2>3 DEF ListInv, Maintaining
    <3>2. /\ Apart(todo)' = Apart(todo) /\ Apart(keep)' = Apart(keep)
          /\ BlocksOf(todo)' = BlocksOf(todo) /\ BlocksOf(keep)' = BlocksOf(keep)
          /\ ListedIn(keep)' = ListedIn(keep)
      BY <2>2
    <3>. QED  BY <2>4, <3>1, <3>2
  <2>. QED  BY <2>2, <2>5, <2>6 DEF ListInv, Maintaining
<1>3. CASE StraightBadHeader
  <2>1. Sound
    BY <1>3 DEF StraightBadHeader, Sound
  <2>. QED  BY <1>3, <2>1, NoBadHeader
<1>4. CASE PurgeData \/ TruncateIndex \/ RewriteIndex
  <2>1. /\ UNCHANGED <<todo, keep, shd, dirty>> /\ pc \in Maintaining /\ pc' \in Maintaining
    BY <1>4 DEF PurgeData, TruncateIndex, RewriteIndex, Maintaining
  <2>2. Sound
    BY <2>1 DEF Sound, Maintaining
  <2>3. /\ Apart(todo) /\ Apart(keep) /\ BlocksOf(todo) \cap BlocksOf(keep) = {}
        /\ \A e \in ListedIn(keep) : e.del = HeaderOf(e).del
    BY <2>1, <2>2 DEF ListInv
  <2>4. /\ Apart(todo)' = Apart(todo) /\ Apart(keep)' = Apart(keep)
        /\ BlocksOf(todo)' = BlocksOf(todo) /\ BlocksOf(keep)' = BlocksOf(keep)
        /\ ListedIn(keep)' = ListedIn(keep) /\ \A e : HeaderOf(e)' = HeaderOf(e)
    BY <2>1 DEF HeaderOf
  <2>. QED  BY <2>1, <2>3, <2>4 DEF ListInv
<1>5. CASE PurgeBlocks
  <2>1. Sound
    BY <1>5 DEF PurgeBlocks, Sound
  <2>2. /\ pc = "purge blocks" /\ pc' = "maint" /\ UNCHANGED <<keep, shd>>
        /\ Apart(todo') /\ BlocksOf(todo') \subseteq BlocksOf(todo)
    BY <1>5, <2>1, PurgeBlocksParts
  <2>3. /\ Apart(keep) /\ BlocksOf(todo) \cap BlocksOf(keep) = {}
        /\ \A e \in ListedIn(keep) : e.del = HeaderOf(e).del
    BY <2>1, <2>2 DEF ListInv, Maintaining
  <2>4. /\ Apart(keep)' = Apart(keep) /\ BlocksOf(keep)' = BlocksOf(keep)
        /\ ListedIn(keep)' = ListedIn(keep) /\ \A e : HeaderOf(e)' = HeaderOf(e)
    BY <2>2 DEF HeaderOf
  <2>5. BlocksOf(todo)' \cap BlocksOf(keep)' = {} /\ Apart(todo)'
    BY <2>2, <2>3, <2>4
  <2>. QED  BY <2>2, <2>3, <2>4, <2>5 DEF ListInv, Maintaining
<1>6. CASE MaintStatus
  <2>1. /\ UNCHANGED <<idx, todo, shd, dirty>> /\ pc = "rewritten" /\ pc' = "idle"
    BY <1>6 DEF MaintStatus
  <2>2. Sound /\ idx = keep
    BY <2>1 DEF Sound, LengthInv, Maintaining
  <2>3. Apart(keep) /\ \A e \in ListedIn(keep) : e.del = HeaderOf(e).del
    BY <2>1, <2>2 DEF ListInv, Maintaining
  <2>4. Records' = ListedIn(keep) /\ Apart(idx)' /\ \A e : HeaderOf(e)' = HeaderOf(e)
    <3>1. Apart(idx)' = Apart(idx) /\ Records' = Records
      BY <2>1 DEF Records
    <3>. QED  BY <2>1, <2>2, <2>3, <3>1 DEF HeaderOf, Records, ListedIn
  <2>. QED  BY <2>1, <2>3, <2>4 DEF ListInv, Maintaining
<1>. QED  BY <1>1, <1>2, <1>3, <1>4, <1>5, <1>6

LEMMA ListFix ==
    ASSUME TypeInv, WorkInv, FilesInv, HandInv, RecordsInv, ListInv, FixInv, Sound',
           (\E option \in BOOLEAN : FixStart(option)) \/ FixHeader \/ FixNoHeader \/ FixEnd
    PROVE  ListInv'
<1>. USE DEF datVars, hdrVars, idxVars, workVars, ghosts
<1>1. ASSUME NEW option, FixStart(option) PROVE ListInv'
  <2>1. idx' = <<>> /\ pc' = "fix"
    BY <1>1, FixStartUsed
  <2>2. Records' = {} /\ Apart(idx')
    BY <2>1 DEF Records, Apart
  <2>. QED  BY <2>1, <2>2 DEF ListInv, Maintaining
<1>2. CASE FixHeader
  <2>. DEFINE e == [num |-> (IF renumber THEN Len(idx) + 1 ELSE shd[pos].num),
                    hblk |-> pos, del |-> FALSE]
  <2>1. /\ pc = "fix" /\ pc' = "fix" /\ pos \in Starts /\ shd[pos] \in HeaderType
        /\ shd[pos].del => Used' = Used /\ idx' = idx
        /\ ~shd[pos].del =>
               /\ ListedIn(idx') \subseteq ListedIn(idx) \cup {e}
               /\ Apart(idx) /\ pos \notin Used => Apart(idx')
        /\ todo' = todo
    BY <1>2, FixHeaderUsed
  <2>2. e.hblk = pos /\ e.del = FALSE
    OBVIOUS
  <2>. HIDE DEF e
  <2>3. \A k \in Starts : shd'[k].del = shd[k].del
    BY <1>2, FixFits DEF FilesInv
  <2>4. Sound /\ todo = <<>>
    BY <2>1 DEF Sound, WorkInv, TodoInv, Maintaining
  <2>5. ListedIn(todo) = {}
    BY <2>4 DEF ListedIn
  <2>6. Apart(idx) /\ \A f \in Records : f.del = HeaderOf(f).del
    BY <2>1, <2>4, <2>5 DEF ListInv, Maintaining
  <2>7. \A f \in Records : f.hblk \in Starts
    BY <2>1, <2>4 DEF RecordsInv, Used, Records, BlocksOf, Maintaining
  <2>8. pos \notin Used
    <3>1. pos \in Nat /\ shd[pos].n \in Nat \ {0}
      BY <2>1, StartBlocks
    <3>. QED  BY <2>1, <3>1 DEF FixInv
  <2>9. Apart(idx')
    BY <2>1, <2>6, <2>8
  <2>10. ASSUME NEW f \in Records' PROVE f.del = HeaderOf(f)'.del
    <3>1. Records = ListedIn(idx) /\ Records' = ListedIn(idx')
      BY DEF Records, ListedIn
    <3>2. CASE f \in Records
      BY <2>3, <2>6, <2>7, <3>2 DEF HeaderOf
    <3>3. CASE f \notin Records
      <4>1. f = e /\ ~shd[pos].del
        BY <2>1, <2>10, <3>1, <3>3
      <4>2. shd'[pos].del = FALSE
        BY <2>1, <2>3, <4>1, HeaderHasFields
      <4>. QED  BY <2>2, <4>1, <4>2 DEF HeaderOf
    <3>. QED  BY <3>2, <3>3
  <2>. QED  BY <2>1, <2>9, <2>10 DEF ListInv, Maintaining
<1>3. CASE FixNoHeader
  <2>1. /\ UNCHANGED <<idx, todo, keep, shd>> /\ pc = "fix" /\ pc' = "fix"
    BY <1>3 DEF FixNoHeader
  <2>2. Sound
    BY <2>1 DEF Sound
  <2>. QED  BY <2>1, <2>2, ListFrame
<1>4. CASE FixEnd
  <2>1. /\ UNCHANGED <<todo, shd>> /\ pc = "fix" /\ pc' = "idle"
        /\ idx' = idx \/ idx' \in Sorted
    BY <1>4 DEF FixEnd
  <2>2. Sound
    BY <2>1 DEF Sound
  <2>3. Apart(idx) /\ \A f \in Records \ ListedIn(todo) : f.del = HeaderOf(f).del
    BY <2>1, <2>2 DEF ListInv, Maintaining
  <2>4. ListedIn(idx') = ListedIn(idx) /\ Apart(idx')
    BY <2>1, <2>3, SortedType DEF TypeInv, IndexTyped
  <2>5. Records' = Records /\ ListedIn(todo)' = ListedIn(todo) /\ \A e : HeaderOf(e)' = HeaderOf(e)
    BY <2>1, <2>4 DEF Records, ListedIn, HeaderOf
  <2>. QED  BY <2>1, <2>3, <2>4, <2>5 DEF ListInv, Maintaining
<1>. QED  BY <1>1, <1>2, <1>3, <1>4

LEMMA ListNext ==
    ASSUME TypeInv, WorkInv, FilesInv, HandInv, LengthInv, RecordsInv, ListInv, RunInv, FixInv,
           [Straight]_vars
    PROVE  ListInv'
<1>. SUFFICES ASSUME Sound' PROVE ListInv'
  BY DEF ListInv
<1>1. CASE AddMessage
  BY <1>1, ListPosting DEF AddMessage
<1>2. CASE StraightMaintain
  <2>1. \A i \in DOMAIN idx : idx[i] \in ListedIn(idx)
    BY DEF ListedIn
  <2>. QED  BY <1>2, <2>1, ListFlagging, ListMaint DEF StraightMaintain
<1>3. CASE Repair
  BY <1>3, ListFix DEF Repair
<1>4. CASE Crash
  BY <1>4 DEF Crash, Sound
<1>5. CASE UNCHANGED vars
  BY <1>5 DEF vars, datVars, hdrVars, idxVars, workVars, ghosts, ListInv, Sound, Records, HeaderOf,
              ListedIn, BlocksOf, Apart
<1>. QED  BY <1>1, <1>2, <1>3, <1>4, <1>5 DEF Straight
-----------------------------------------------------------------------------
(* A base nobody has worked on while it was damaged: headers do not overlap, *)
(* and one without a record is a deleted one in free blocks.                 *)

\* First fit does not begin inside a header, freed or not.
LEMMA PlaceBehind ==
    ASSUME TypeInv, FilesInv, RecordsInv, StaleInv, ~late, Sound, PlaceHeader,
           NEW a \in Starts, a < pos'
    PROVE  a + shd[a].n <= pos'
<1>1. /\ cur.n \in Nat \ {0} /\ pos' \in Nat
      /\ pos' = FirstFit(sha, shaLen, cur.n)
      /\ \A k \in pos' .. pos' + cur.n - 1 : k \in Block /\ (k < shaLen => sha[k] = 0)
  BY PlaceParts
<1>2. /\ a \in Nat /\ shd[a].n \in Nat \ {0}
      /\ \A k \in ExtentAt(a) : k < shaLen
  BY StartBlocks
<1>3. SUFFICES ASSUME pos' < a + shd[a].n PROVE FALSE
  BY <1>1, <1>2
<1>4. pos' \in ExtentAt(a) /\ pos' \in pos' .. pos' + cur.n - 1
  BY <1>1, <1>2, <1>3 DEF ExtentAt
<1>5. pos' < shaLen /\ sha[pos'] = 0
  BY <1>1, <1>2, <1>4
<1>6. pc = "stored"
  BY DEF PlaceHeader
<1>7. \A k \in ExtentAt(a) : sha[k] = 0
  <2>1. a \notin Used
    BY <1>4, <1>5 DEF RecordsInv
  <2>. QED  BY <1>6, <2>1 DEF StaleInv
<1>8. sha \in [Block -> Nat] /\ shaLen \in 0 .. MaxBlocks
  BY DEF TypeInv, HeadTyped
<1>9. FirstFit(sha, shaLen, cur.n) < shaLen
  BY <1>1, <1>5
<1>10. pos' + cur.n <= shaLen
  <2>1. FirstFit(sha, shaLen, cur.n) + cur.n <= shaLen
    BY <1>1, <1>8, <1>9, FirstFitLeast
  <2>. QED  BY <1>1, <2>1
<1>11. PICK k \in a .. a + cur.n - 1 : sha[k] # 0
  <2>2. \A c \in Nat : c < FirstFit(sha, shaLen, cur.n) =>
            \E k \in c .. c + cur.n - 1 : sha[k] # 0
    BY <1>1, <1>8, <1>9, FirstFitLeast
  <2>. QED  BY <1>1, <1>2, <2>2
<1>12. CASE k < pos'
  <2>1. k \in ExtentAt(a)
    BY <1>1, <1>2, <1>3, <1>11, <1>12 DEF ExtentAt
  <2>. QED  BY <1>7, <1>11, <2>1
<1>13. CASE k >= pos'
  <2>1. k \in pos' .. pos' + cur.n - 1 /\ k \in Nat
    BY <1>1, <1>2, <1>11, <1>13
  <2>2. k < shaLen
    BY <1>1, <1>8, <1>10, <2>1, MaxBlocksAssumption
  <2>. QED  BY <1>1, <1>11, <2>1, <2>2
<1>. QED  BY <1>1, <1>2, <1>11, <1>12, <1>13

\* Then a header that is flagged has no other inside.
LEMMA RewriteAll ==
    ASSUME TypeInv, FilesInv, LateInv, ~late, NEW b, Rewritten(b)
    PROVE  Starts' = Starts
<1>1. /\ b \in Starts /\ b \in Starts'
      /\ \A k \in Starts' : k \in Starts
      /\ \A k \in Starts : k \notin ExtentAt(b) => k \in Starts'
  BY DEF Rewritten
<1>2. ASSUME NEW k \in Starts, k # b PROVE k \notin ExtentAt(b)
  <2>1. k \in Nat /\ shd[k].n \in Nat \ {0} /\ b \in Nat /\ shd[b].n \in Nat \ {0}
    BY <1>1, StartBlocks
  <2>2. (k < b => k + shd[k].n <= b) /\ (b < k => b + shd[b].n <= k)
    BY <1>1 DEF LateInv
  <2>. QED  BY <1>2, <2>1, <2>2 DEF ExtentAt
<1>. QED  BY <1>1, <1>2

LEMMA LateFrame ==
    ASSUME LateInv, ~late, Starts' = Starts, \A k \in Starts : shd'[k].n = shd[k].n,
           BlocksOf(idx') \subseteq Starts, dirty' => pc' \in {"idle", "fix"},
           pc' = "placed" => \A a \in Starts : a < pos' => a + shd[a].n <= pos'
    PROVE  LateInv'
<1>1. \A a, b \in Starts : a < b => a + shd'[a].n <= b
  BY DEF LateInv
<1>2. BlocksOf(idx)' \subseteq Starts'
  BY DEF BlocksOf
<1>3. pc' = "placed" => \A a \in Starts' : a < pos' => a + shd'[a].n <= pos'
  OBVIOUS
<1>. QED  BY <1>1, <1>2, <1>3 DEF LateInv

\* Whether a base is damaged when a process is at work on it.
LEMMA LateSteps ==
    ASSUME TypeInv, LateInv, ~late', [Straight]_vars
    PROVE  ~late /\ (dirty' => pc' \in {"idle", "fix"})
<1>. USE DEF datVars, hdrVars, idxVars, workVars, ghosts
<1>1. late \in BOOLEAN /\ dirty \in BOOLEAN
  BY DEF TypeInv, GhostTyped
<1>2. CASE \/ \E shape \in Shapes, n \in HdrBlocks : StoreText(shape, n)
           \/ \E e \in ListedIn(idx) : StraightFlag(e)
           \/ \E chosen \in SUBSET DOMAIN idx : MaintStart(chosen)
  <2>1. late' = (late \/ dirty) /\ dirty' = dirty
    BY <1>2 DEF StoreText, StraightFlag, MaintStart, StartWork
  <2>. QED  BY <1>1, <2>1
<1>3. CASE \/ Refuse \/ PlaceHeader \/ WriteHeader \/ WriteIndex \/ WriteStatus
           \/ FlagIndex \/ StraightPurge \/ StraightBadHeader \/ PurgeData \/ PurgeBlocks
           \/ TruncateIndex \/ RewriteIndex \/ MaintStatus
  <2>1. late' = late /\ dirty' = dirty /\ pc \notin {"idle", "fix"}
    BY <1>3 DEF Refuse, PlaceHeader, WriteHeader, WriteIndex, WriteStatus, FlagIndex, StraightPurge,
                StraightBadHeader, PurgeData, PurgeBlocks, TruncateIndex, RewriteIndex, MaintStatus
  <2>. QED  BY <2>1 DEF LateInv
<1>4. CASE (\E option \in BOOLEAN : FixStart(option)) \/ FixHeader \/ FixNoHeader
  <2>1. late' = late /\ pc' = "fix"
    BY <1>4 DEF FixStart, FixHeader, FixNoHeader
  <2>. QED  BY <2>1
<1>5. CASE FixEnd \/ Crash
  <2>1. late' = late /\ pc' = "idle"
    BY <1>5 DEF FixEnd, Crash
  <2>. QED  BY <2>1
<1>6. CASE UNCHANGED vars
  BY <1>6 DEF vars, LateInv
<1>. QED  BY <1>2, <1>3, <1>4, <1>5, <1>6 DEF Straight, AddMessage, StraightMaintain, Repair

LEMMA LateNext ==
    ASSUME TypeInv, WorkInv, FilesInv, HandInv, RecordsInv, ListInv, RunInv, LateInv, StaleInv,
           [Straight]_vars
    PROVE  LateInv'
<1>. SUFFICES ASSUME ~late' PROVE LateInv'
  BY DEF LateInv
<1>. USE DEF datVars, hdrVars, idxVars, workVars, ghosts
<1>1. ~late /\ (dirty' => pc' \in {"idle", "fix"})
  BY LateSteps
<1>2. BlocksOf(idx) \subseteq Starts /\ \A a, b \in Starts : a < b => a + shd[a].n <= b
  BY <1>1 DEF LateInv
\* The header file stays as it is.
<1>3. ASSUME shd' = shd, BlocksOf(idx') \subseteq Starts, pc' # "placed" PROVE LateInv'
  <2>1. Starts' = Starts /\ \A k \in Starts : shd'[k].n = shd[k].n
    BY <1>3 DEF Starts
  <2>. QED  BY <1>1, <1>3, <2>1, LateFrame
<1>4. CASE \/ \E shape \in Shapes, n \in HdrBlocks : StoreText(shape, n)
           \/ Refuse \/ WriteStatus \/ StraightBadHeader \/ PurgeData \/ PurgeBlocks \/ MaintStatus
           \/ \E chosen \in SUBSET DOMAIN idx : MaintStart(chosen)
           \/ FixNoHeader \/ Crash
  <2>1. shd' = shd /\ idx' = idx /\ (pc' = pc \/ pc' # "placed") /\ (pc' = pc => pc # "placed")
    BY <1>4 DEF StoreText, Refuse, WriteStatus, StraightBadHeader, PurgeData, PurgeBlocks,
                MaintStatus,
                MaintStart, FixNoHeader, Crash
  <2>2. BlocksOf(idx') = BlocksOf(idx)
    BY <2>1
  <2>. QED  BY <1>2, <1>3, <2>1, <2>2
<1>5. CASE FlagIndex
  <2>1. shd' = shd /\ idx' = IndexDeleted(Head(todo), cur) /\ pc' = "idle"
    BY <1>5 DEF FlagIndex
  <2>. QED  BY <1>2, <1>3, <2>1, FlagBlocks
<1>6. CASE TruncateIndex \/ \E option \in BOOLEAN : FixStart(option)
  <2>1. shd' = shd /\ idx' = <<>> /\ pc' \in {"rewrite", "fix"}
    BY <1>6 DEF TruncateIndex, FixStart
  <2>2. BlocksOf(idx') = {}
    BY <2>1 DEF BlocksOf
  <2>. QED  BY <1>3, <2>1, <2>2
<1>7. CASE RewriteIndex
  <2>1. shd' = shd /\ idx' = keep /\ pc = "rewrite" /\ pc' = "rewritten"
    BY <1>7 DEF RewriteIndex
  <2>2. Sound
    BY <1>1, <2>1 DEF LateInv, Sound
  <2>3. BlocksOf(keep) \subseteq Starts
    BY <2>1, <2>2 DEF RecordsInv, Used, Maintaining
  <2>. QED  BY <1>3, <2>1, <2>3
<1>8. CASE FixEnd
  <2>1. shd' = shd /\ pc' = "idle" /\ (idx' = idx \/ idx' \in Sorted)
    BY <1>8 DEF FixEnd
  <2>2. ListedIn(idx') = ListedIn(idx)
    BY <2>1, SortedType DEF TypeInv, IndexTyped
  <2>3. BlocksOf(idx') = BlocksOf(idx)
    BY <2>2, SameBlocks
  <2>. QED  BY <1>2, <1>3, <2>1, <2>3
<1>9. CASE WriteIndex
  <2>1. pc = "written" /\ pc' = "indexed" /\ shd' = shd /\ pos \in Starts /\ Used' = Used \cup {pos}
    BY <1>9, IndexParts
  <2>2. BlocksOf(idx') = BlocksOf(idx) \cup {pos}
    BY <2>1 DEF Used, Maintaining
  <2>. QED  BY <1>2, <1>3, <2>1, <2>2
<1>10. CASE PlaceHeader
  <2>1. pc = "stored" /\ pc' = "placed" /\ shd' = shd /\ idx' = idx
    BY <1>10 DEF PlaceHeader
  <2>2. Sound
    BY <1>1, <2>1 DEF LateInv, Sound
  <2>3. \A a \in Starts : a < pos' => a + shd[a].n <= pos'
    BY <1>1, <1>10, <2>2, PlaceBehind
  <2>4. Starts' = Starts /\ BlocksOf(idx') = BlocksOf(idx) /\ \A k \in Starts : shd'[k].n = shd[k].n
    BY <2>1 DEF Starts
  <2>. QED  BY <1>1, <1>2, <2>1, <2>3, <2>4, LateFrame
<1>11. CASE WriteHeader
  <2>1. /\ pc = "placed" /\ pc' = "written" /\ cur \in HeaderType /\ cur.n \in Nat \ {0}
        /\ pos \in Block /\ pos \in Nat
        /\ WriteHeaderAt(pos, cur) /\ idx' = idx
    BY <1>11, WriteParts
  <2>2. /\ pos \in Starts' /\ shd'[pos] = cur
        /\ \A k \in Starts' : k # pos =>
               k \in Starts /\ k \notin pos .. pos + cur.n - 1 /\ shd'[k] = shd[k]
    BY <2>1, WriteStarts
  <2>3. \A a \in Starts : a < pos => a + shd[a].n <= pos
    BY <1>1, <2>1 DEF LateInv
  <2>4. ASSUME NEW a \in Starts', NEW b \in Starts', a < b PROVE a + shd'[a].n <= b
    <3>1. CASE a # pos /\ b # pos
      BY <1>2, <2>2, <2>4, <3>1
    <3>2. CASE b = pos /\ a # pos
      BY <2>2, <2>3, <2>4, <3>2
    <3>3. CASE a = pos
      <4>1. b # pos
        BY <2>1, <2>4, <3>3
      <4>2. b \in Starts /\ b \in Nat /\ b \notin pos .. pos + cur.n - 1
        BY <2>2, <4>1, StartBlocks
      <4>3. pos + cur.n <= b
        BY <2>1, <2>4, <3>3, <4>2
      <4>. QED  BY <2>2, <3>3, <4>3
    <3>. QED  BY <3>1, <3>2, <3>3
  <2>5. BlocksOf(idx)' \subseteq Starts'
    <3>1. Sound /\ Used = BlocksOf(idx)
      BY <1>1, <2>1 DEF LateInv, Sound, Used, Maintaining
    <3>2. \A k \in Used : k \in Starts'
      BY <1>11, <3>1, WriteUsed
    <3>3. BlocksOf(idx)' = BlocksOf(idx)
      BY <2>1
    <3>. QED  BY <3>1, <3>2, <3>3
  <2>. QED  BY <1>1, <2>1, <2>4, <2>5 DEF LateInv
<1>12. ASSUME NEW e \in ListedIn(idx), StraightFlag(e) PROVE LateInv'
  <2>1. Rewritten(e.hblk) /\ idx' = idx /\ pc' = "flag"
    BY <1>12, FlagParts
  <2>2. Starts' = Starts
    BY <1>1, <2>1, RewriteAll
  <2>3. \A k \in Starts' : shd'[k].n = shd[k].n
    BY <2>1, RewriteKeeps
  <2>4. BlocksOf(idx') = BlocksOf(idx)
    BY <2>1
  <2>. QED  BY <1>1, <1>2, <2>1, <2>2, <2>3, <2>4, LateFrame
<1>13. CASE StraightPurge
  <2>1. PICK e : e = Head(todo)
    OBVIOUS
  <2>2. /\ Rewritten(e.hblk) /\ pc' = "purge data"
        /\ \E found \in ListedIn(idx) : idx' = IndexDeleted(found, cur')
    BY <1>13, <2>1, PurgeParts
  <2>3. Starts' = Starts
    BY <1>1, <2>2, RewriteAll
  <2>4. \A k \in Starts' : shd'[k].n = shd[k].n
    BY <2>2, RewriteKeeps
  <2>5. BlocksOf(idx') = BlocksOf(idx)
    BY <2>2, FlagBlocks
  <2>. QED  BY <1>1, <1>2, <2>2, <2>3, <2>4, <2>5, LateFrame
<1>14. CASE FixHeader
  <2>1. /\ pc = "fix" /\ pc' = "fix" /\ pos \in Starts
        /\ shd[pos].del => Used' = Used
        /\ ~shd[pos].del => Used' = Used \cup {pos}
    BY <1>14, FixHeaderUsed
  <2>2. Starts' = Starts /\ \A k \in Starts : shd'[k].n = shd[k].n
    BY <1>14, FixFits DEF FilesInv
  <2>3. Used = BlocksOf(idx) /\ Used' = BlocksOf(idx')
    BY <2>1 DEF Used, Maintaining
  <2>4. BlocksOf(idx') \subseteq Starts
    BY <1>2, <2>1, <2>3
  <2>. QED  BY <1>1, <2>1, <2>2, <2>4, LateFrame
<1>15. CASE UNCHANGED vars
  BY <1>15 DEF vars, LateInv, Starts, BlocksOf
<1>. QED  BY <1>4, <1>5, <1>6, <1>7, <1>8, <1>9, <1>10, <1>11, <1>12, <1>13, <1>14, <1>15
          DEF Straight, AddMessage, StraightMaintain, Repair, ListedIn

\* Steps of a process that has no header without a record in hand.
LEMMA StaleFrame ==
    ASSUME StaleInv, ~late, Sound, Starts' \subseteq Starts, Used \subseteq Used',
           pc \notin {"placed", "written", "fix"},
           \A a \in Starts' : /\ shd'[a].n = shd[a].n /\ (shd[a].del => shd'[a].del)
                              /\ \A k \in ExtentAt(a) : sha[k] = 0 => sha'[k] = 0
    PROVE  StaleInv'
<1>1. ASSUME NEW a \in Starts'
      PROVE  a \in Used' \/ (shd'[a].del /\ \A k \in ExtentAt(a)' : sha'[k] = 0)
  <2>1. a \in Used \/ (shd[a].del /\ \A k \in ExtentAt(a) : sha[k] = 0)
    BY <1>1 DEF StaleInv
  <2>2. ExtentAt(a)' = ExtentAt(a)
    BY <1>1 DEF ExtentAt
  <2>. QED  BY <1>1, <2>1, <2>2
<1>. QED  BY <1>1 DEF StaleInv

LEMMA StaleQuiet ==
    ASSUME TypeInv, WorkInv, FilesInv, HandInv, LengthInv, ListInv, StaleInv, Quiet, ~late, Sound'
    PROVE  StaleInv'
<1>. USE DEF datVars, hdrVars, idxVars, workVars, ghosts
<1>1. Sound /\ Used' = Used /\ UNCHANGED <<shd, sha>>
  BY QuietUsed
<1>2. Starts' = Starts /\ \A a \in Starts : ExtentAt(a)' = ExtentAt(a)
  BY <1>1 DEF Starts, ExtentAt
<1>3. CASE pc \notin {"placed", "written", "fix"}
  BY <1>1, <1>2, <1>3, StaleFrame
<1>4. CASE UNCHANGED vars
  <2>1. Run' = Run /\ UNCHANGED <<pc, pos, late>>
    BY <1>4 DEF vars, Run
  <2>. QED  BY <1>1, <1>2, <2>1 DEF StaleInv, Sound
<1>5. CASE pc = "fix" /\ ~UNCHANGED vars
  <2>1. FixNoHeader \/ FixEnd
    BY <1>5 DEF Quiet, StoreText, StartWork, Refuse, WriteStatus, FlagIndex, MaintStart, PurgeData,
                TruncateIndex, RewriteIndex, MaintStatus
  <2>2. pos \in Nat
    BY MaxBlocksAssumption DEF TypeInv, WorkTyped
  <2>3. ASSUME NEW a \in Starts
        PROVE  \/ a \in Used \/ (shd[a].del /\ \A k \in ExtentAt(a) : sha[k] = 0)
               \/ pc' = "fix" /\ a >= pos'
    <3>1. \/ a \in Used \/ (shd[a].del /\ \A k \in ExtentAt(a) : sha[k] = 0)
          \/ a >= pos
      BY <1>1, <1>5 DEF StaleInv
    <3>2. ASSUME a >= pos PROVE pc' = "fix" /\ a >= pos'
      <4>1. a \in Nat /\ a < shdLen
        BY StartBlocks
      <4>2. CASE FixNoHeader
        <5>1. a # pos /\ pos' = pos + 1 /\ pc' = "fix"
          BY <1>5, <4>2 DEF FixNoHeader, Starts
        <5>. QED  BY <2>2, <3>2, <4>1, <5>1
      <4>3. CASE FixEnd
        <5>1. pos >= shdLen /\ shdLen \in Nat
          BY <4>3, StartBlocks DEF FixEnd
        <5>. QED  BY <2>2, <3>2, <4>1, <5>1
      <4>. QED  BY <2>1, <4>2, <4>3
    <3>. QED  BY <3>1, <3>2
  <2>. QED  BY <1>1, <1>2, <2>3 DEF StaleInv
<1>6. CASE pc \in {"placed", "written"} /\ ~UNCHANGED vars
  BY <1>6 DEF Quiet, StoreText, StartWork, Refuse, WriteStatus, FlagIndex, MaintStart, PurgeData,
              TruncateIndex, RewriteIndex, MaintStatus, FixNoHeader, FixEnd
<1>. QED  BY <1>3, <1>4, <1>5, <1>6

LEMMA StalePosting ==
    ASSUME TypeInv, WorkInv, FilesInv, HandInv, RecordsInv, RunInv, LateInv, StaleInv, ~late,
           Sound',
           PlaceHeader \/ WriteHeader \/ WriteIndex
    PROVE  StaleInv'
<1>. USE DEF datVars, hdrVars, idxVars, workVars, ghosts
<1>1. CASE PlaceHeader
  <2>1. /\ pc = "stored" /\ pc' = "placed" /\ UNCHANGED <<shd, dirty, cur>> /\ Used' = Used
    BY <1>1, SameUsed DEF PlaceHeader
  <2>2. Sound
    BY <2>1 DEF Sound
  <2>3. /\ cur.n \in Nat \ {0} /\ pos' \in Nat
        /\ \A k \in Block : sha'[k] = IF k \in pos' .. pos' + cur.n - 1 THEN 1 ELSE sha[k]
    BY <1>1, PlaceParts
  <2>4. Starts' = Starts /\ \A a \in Starts : ExtentAt(a)' = ExtentAt(a)
    BY <2>1 DEF Starts, ExtentAt
  <2>5. Run' = pos' .. pos' + cur.n - 1
    BY <2>1 DEF Run
  <2>6. ASSUME NEW a \in Starts
        PROVE  a \in Used \/ (shd[a].del /\ ((\A k \in ExtentAt(a) : sha'[k] = 0) \/ a \in Run'))
    <3>1. a \in Used \/ (shd[a].del /\ \A k \in ExtentAt(a) : sha[k] = 0)
      BY <2>1, <2>2 DEF StaleInv
    <3>2. a \in Nat /\ shd[a].n \in Nat /\ \A k \in ExtentAt(a) : k \in Block /\ k \in Nat
      BY StartBlocks
    <3>3. a < pos' => a + shd[a].n <= pos'
      BY <1>1, <2>2, PlaceBehind
    <3>4. a \notin Run' => \A k \in ExtentAt(a) : k \notin Run'
      BY <2>3, <2>5, <3>2, <3>3 DEF ExtentAt
    <3>5. a \notin Run' => \A k \in ExtentAt(a) : sha'[k] = sha[k]
      BY <2>3, <2>5, <3>2, <3>4
    <3>. QED  BY <3>1, <3>5
  <2>. QED  BY <2>1, <2>4, <2>6 DEF StaleInv
<1>2. CASE WriteHeader
  <2>1. /\ pc = "placed" /\ pc' = "written" /\ UNCHANGED <<sha, dirty, pos>> /\ Used' = Used
        /\ cur \in HeaderType /\ pos \in Block /\ WriteHeaderAt(pos, cur)
    BY <1>2, WriteParts, SameUsed
  <2>2. Sound
    BY <2>1 DEF Sound
  <2>3. \A k \in Starts' : k # pos => k \in Starts /\ k \notin Run /\ shd'[k] = shd[k]
    BY <2>1, WriteStarts DEF Run
  <2>4. ASSUME NEW a \in Starts', a # pos
        PROVE  a \in Used \/ (shd'[a].del /\ \A k \in ExtentAt(a)' : sha'[k] = 0)
    <3>1. a \in Starts /\ a \notin Run /\ shd'[a] = shd[a] /\ ExtentAt(a)' = ExtentAt(a)
      BY <2>3, <2>4 DEF ExtentAt
    <3>2. a \in Used \/ (shd[a].del /\ \A k \in ExtentAt(a) : sha[k] = 0)
      BY <2>1, <2>2, <3>1 DEF StaleInv
    <3>. QED  BY <2>1, <3>1, <3>2
  <2>. QED  BY <2>1, <2>4 DEF StaleInv
<1>3. CASE WriteIndex
  <2>1. /\ pc = "written" /\ pc' = "indexed" /\ UNCHANGED <<shd, sha, dirty>>
        /\ Used' = Used \cup {pos}
    BY <1>3, IndexParts
  <2>2. Sound
    BY <2>1 DEF Sound
  <2>3. Starts' = Starts /\ \A a \in Starts : ExtentAt(a)' = ExtentAt(a)
    BY <2>1 DEF Starts, ExtentAt
  <2>4. ASSUME NEW a \in Starts
        PROVE  a \in Used' \/ (shd[a].del /\ \A k \in ExtentAt(a) : sha[k] = 0)
    BY <2>1, <2>2 DEF StaleInv
  <2>. QED  BY <2>1, <2>3, <2>4 DEF StaleInv
<1>. QED  BY <1>1, <1>2, <1>3

LEMMA StaleNext ==
    ASSUME TypeInv, WorkInv, FilesInv, HandInv, LengthInv, RecordsInv, ListInv, RunInv, FixInv,
           LateInv,
           StaleInv, [Straight]_vars
    PROVE  StaleInv'
<1>. SUFFICES ASSUME ~late', Sound' PROVE StaleInv'
  BY DEF StaleInv
<1>. USE DEF datVars, hdrVars, idxVars, workVars, ghosts
<1>0. ~late
  BY LateSteps
<1>1. CASE Quiet
  BY <1>0, <1>1, StaleQuiet
<1>2. CASE PlaceHeader \/ WriteHeader \/ WriteIndex
  BY <1>0, <1>2, StalePosting
<1>3. ASSUME NEW e \in ListedIn(idx), StraightFlag(e) PROVE StaleInv'
  <2>1. pc = "idle" /\ Rewritten(e.hblk) /\ sha' = sha /\ Used' = Used /\ Sound
    BY <1>3, FlagUsed, FlagParts, SameUsed
  <2>2. \A k \in Starts' : k \in Starts /\ shd'[k].n = shd[k].n /\ (shd[k].del => shd'[k].del)
    BY <2>1, RewriteKeeps
  <2>. QED  BY <1>0, <2>1, <2>2, StaleFrame
<1>4. CASE StraightPurge
  <2>1. PICK e : e = Head(todo)
    OBVIOUS
  <2>2. pc = "maint" /\ Rewritten(e.hblk) /\ sha' = sha /\ Used' = Used /\ Sound
    BY <1>4, <2>1, PurgeUsed, PurgeParts, SameUsed
  <2>3. \A k \in Starts' : k \in Starts /\ shd'[k].n = shd[k].n /\ (shd[k].del => shd'[k].del)
    BY <2>2, RewriteKeeps
  <2>. QED  BY <1>0, <2>2, <2>3, StaleFrame
<1>5. CASE StraightBadHeader
  <2>1. Sound
    BY <1>5 DEF StraightBadHeader, Sound
  <2>. QED  BY <1>5, <2>1, NoBadHeader
<1>6. CASE PurgeBlocks
  <2>1. Sound
    BY <1>6 DEF PurgeBlocks, Sound
  <2>2. /\ pc = "purge blocks" /\ pc' = "maint" /\ Used' = Used \ {pos}
        /\ ExtentAt(pos) = Run /\ shd[pos] = cur /\ cur.del /\ shd' = shd
        /\ \A k \in Block : sha'[k] = IF k \in Run THEN 0 ELSE sha[k]
    BY <1>6, <2>1, PurgeBlocksParts
  <2>3. Starts' = Starts /\ \A a \in Starts : ExtentAt(a)' = ExtentAt(a)
    BY <2>2 DEF Starts, ExtentAt
  <2>4. ASSUME NEW a \in Starts, a \notin Used'
        PROVE  shd[a].del /\ \A k \in ExtentAt(a) : sha'[k] = 0
    <3>1. \A k \in ExtentAt(a) : k \in Block
      BY StartBlocks
    <3>2. CASE a = pos
      BY <2>2, <3>1, <3>2
    <3>3. CASE a # pos
      <4>1. shd[a].del /\ \A k \in ExtentAt(a) : sha[k] = 0
        BY <1>0, <2>1, <2>2, <2>4, <3>3 DEF StaleInv
      <4>. QED  BY <2>2, <3>1, <4>1
    <3>. QED  BY <3>2, <3>3
  <2>. QED  BY <2>2, <2>3, <2>4 DEF StaleInv
<1>7. ASSUME NEW option, FixStart(option) PROVE StaleInv'
  <2>1. pc' = "fix" /\ pos' = 0
    BY <1>7, FixStartUsed
  <2>2. \A a \in Starts' : a \in Nat
    BY BlocksAreNumbers DEF Starts
  <2>. QED  BY <2>1, <2>2 DEF StaleInv
<1>8. CASE FixHeader
  <2>1. /\ pc = "fix" /\ pc' = "fix" /\ pos \in Starts /\ pos' = pos + shd[pos].n
        /\ shd[pos].del => Used' = Used
        /\ ~shd[pos].del => Used' = Used \cup {pos}
        /\ \A k \in Block : k \notin ExtentAt(pos) => sha'[k] = sha[k]
        /\ \A k \in Block : k \in ExtentAt(pos) => sha'[k] = IF shd[pos].del THEN 0 ELSE 1
    BY <1>8, FixHeaderUsed
  <2>2. /\ Starts' = Starts
        /\ \A k \in Starts : shd'[k].n = shd[k].n /\ shd'[k].del = shd[k].del
    BY <1>8, FixFits DEF FilesInv
  <2>3. Sound
    BY <2>1 DEF Sound
  <2>4. ASSUME NEW a \in Starts
        PROVE  a \in Used' \/ (shd[a].del /\ \A k \in ExtentAt(a) : sha'[k] = 0) \/ a >= pos'
    <3>1. /\ a \in Nat /\ shd[a].n \in Nat \ {0} /\ pos \in Nat /\ shd[pos].n \in Nat \ {0}
          /\ \A k \in ExtentAt(a) : k \in Block /\ k \in Nat
      BY <2>1, StartBlocks
    <3>2. CASE a = pos
      BY <2>1, <3>1, <3>2
    <3>3. CASE a > pos
      BY <1>0, <2>1, <3>3 DEF LateInv
    <3>4. CASE a < pos
      <4>1. a + shd[a].n <= pos
        BY <1>0, <2>1, <3>4 DEF LateInv
      <4>2. \A k \in ExtentAt(a) : k \notin ExtentAt(pos)
        BY <3>1, <4>1 DEF ExtentAt
      <4>3. \A k \in ExtentAt(a) : sha'[k] = sha[k]
        BY <2>1, <3>1, <4>2
      <4>4. a \in Used \/ (shd[a].del /\ \A k \in ExtentAt(a) : sha[k] = 0)
        BY <1>0, <2>1, <2>3, <3>1, <3>4 DEF StaleInv
      <4>. QED  BY <2>1, <4>3, <4>4
    <3>. QED  BY <3>1, <3>2, <3>3, <3>4
  <2>5. \A a \in Starts : ExtentAt(a)' = ExtentAt(a)
    BY <2>2 DEF ExtentAt
  <2>. QED  BY <2>1, <2>2, <2>4, <2>5 DEF StaleInv
<1>9. CASE Crash
  BY <1>9 DEF Crash, Sound
<1>. QED  BY <1>1, <1>2, <1>3, <1>4, <1>5, <1>6, <1>7, <1>8, <1>9
          DEF Straight, AddMessage, StraightMaintain, Repair, ListedIn, Quiet
-----------------------------------------------------------------------------
(* What the counters of the data allocation table count.                   *)

\* The texts are as FilesInv and PostInv say, and known by their numbers.
LEMMA TextsKnown ==
    ASSUME TypeInv, WorkInv, FilesInv, HandInv, RecordsInv, Sound
    PROVE  /\ \A b \in Holders : b \in Used /\ b \in Starts /\ shd[b].m \in Texts
           /\ \A m \in Texts : /\ m.blk \in Nat /\ m.body \in Nat /\ m.tail \in Nat
                               /\ m.text \in 1 .. posts
                               /\ OneField => m.tail = 0
                               /\ \A k \in Extent(m) : k < sdaLen
           /\ \A m, l \in Texts : m.text = l.text => m = l
<1>1. Holders \subseteq Used /\ Used \subseteq Starts
  BY DEF Holders, RecordsInv
<1>2. posts \in Nat
  BY RepairAssumption DEF TypeInv, GhostTyped
<1>3. ASSUME NEW b \in Holders
      PROVE  /\ shd[b].m.blk \in Nat /\ shd[b].m.body \in Nat /\ shd[b].m.tail \in Nat
             /\ shd[b].m.text \in 1 .. posts
             /\ OneField => shd[b].m.tail = 0
             /\ \A k \in Extent(shd[b].m) : k < sdaLen
  <2>1. b \in Starts /\ b \in Block
    BY <1>1 DEF Starts
  <2>2. shd[b] \in HeaderType
    BY <2>1, HeaderAt
  <2>3. shd[b].m \in TextType
    BY <2>2, HeaderHasFields
  <2>4. shd[b].m.blk \in Nat /\ shd[b].m.body \in Nat /\ shd[b].m.tail \in Nat
    BY <2>3, TextHasFields
  <2>. QED  BY <2>1, <2>4 DEF FilesInv, FitInv
<1>4. \A a, b \in Holders : shd[a].m.text = shd[b].m.text => shd[a].m = shd[b].m
  BY <1>1 DEF FilesInv, FitInv
<1>5. ASSUME NEW m \in InHand
      PROVE  /\ m = cur.m
             /\ m.blk \in Nat /\ m.body \in Nat /\ m.tail \in Nat
             /\ m.text = posts /\ posts > 0
             /\ OneField => m.tail = 0
             /\ \A k \in Extent(m) : k < sdaLen
  <2>1. m = cur.m /\ pc \in Posting
    BY <1>5 DEF InHand, Posting
  <2>2. cur \in HeaderType
    BY DEF TypeInv, WorkTyped
  <2>3. cur.m \in TextType
    BY <2>2, HeaderHasFields
  <2>4. cur.m.blk \in Nat /\ cur.m.body \in Nat /\ cur.m.tail \in Nat
    BY <2>3, TextHasFields
  <2>. QED  BY <2>1, <2>4 DEF WorkInv, PostInv
<1>6. ASSUME NEW b \in Holders, NEW m \in InHand, shd[b].m.text = m.text PROVE shd[b].m = m
  <2>1. m = cur.m /\ m.text = posts
    BY <1>5
  <2>2. b \in Starts
    BY <1>1
  <2>3. CASE pc \in {"stored", "placed"}
    BY <1>6, <2>1, <2>2, <2>3 DEF FilesInv, FitInv
  <2>4. CASE pc = "written"
    <3>1. shd[pos] = cur /\ pos \in Block
      <4>1. pos < MaxBlocks /\ shd[pos] = cur
        BY <2>4 DEF WorkInv, PlaceInv, HandInv
      <4>2. pos \in 0 .. MaxBlocks
        BY DEF TypeInv, WorkTyped
      <4>. QED  BY <4>1, <4>2, MaxBlocksAssumption DEF Block
    <3>2. cur \in HeaderType
      BY DEF TypeInv, WorkTyped
    <3>3. pos \in Starts
      BY <3>1, <3>2, HeaderAt
    <3>4. b = pos
      BY <1>6, <2>1, <2>2, <3>1, <3>3 DEF FilesInv, FitInv
    <3>. QED  BY <2>1, <3>1, <3>4
  <2>. QED  BY <1>6, <2>3, <2>4 DEF InHand
<1>7. ASSUME NEW m \in Texts PROVE (\E b \in Holders : m = shd[b].m) \/ m \in InHand
  BY DEF Texts
<1>8. ASSUME NEW m \in Texts
      PROVE  /\ m.blk \in Nat /\ m.body \in Nat /\ m.tail \in Nat
             /\ m.text \in 1 .. posts
             /\ OneField => m.tail = 0
             /\ \A k \in Extent(m) : k < sdaLen
  <2>1. CASE \E b \in Holders : m = shd[b].m
    BY <1>3, <2>1
  <2>2. CASE m \in InHand
    BY <1>2, <1>5, <2>2
  <2>. QED  BY <1>7, <2>1, <2>2
<1>9. ASSUME NEW m \in Texts, NEW l \in Texts, m.text = l.text PROVE m = l
  <2>1. CASE (\E b \in Holders : m = shd[b].m) /\ (\E b \in Holders : l = shd[b].m)
    BY <1>4, <1>9, <2>1
  <2>2. CASE m \in InHand /\ l \in InHand
    BY <1>5, <2>2
  <2>3. CASE (\E b \in Holders : m = shd[b].m) /\ l \in InHand
    BY <1>6, <1>9, <2>3
  <2>4. CASE m \in InHand /\ (\E b \in Holders : l = shd[b].m)
    <3>1. PICK b \in Holders : l = shd[b].m
      BY <2>4
    <3>2. shd[b].m.text = m.text
      BY <1>9, <3>1
    <3>. QED  BY <1>6, <2>4, <3>1, <3>2
  <2>. QED  BY <1>7, <2>1, <2>2, <2>3, <2>4
<1>10. \A b \in Holders : shd[b].m \in Texts
  BY DEF Texts
<1>. QED  BY <1>1, <1>8, <1>9, <1>10

\* Texts with numbers of their own are at most as many as the numbers.
LEMMA TextsFew ==
    ASSUME NEW S, NEW n \in Nat, \A m \in S : m.text \in 1 .. n,
           \A m, l \in S : m.text = l.text => m = l
    PROVE  IsFiniteSet(S) /\ Cardinality(S) \in Nat /\ Cardinality(S) <= n
<1>. DEFINE f == [m \in S |-> m.text]
<1>1. f \in Injection(S, 1 .. n)
  BY DEF Injection, IsInjective
<1>2. IsFiniteSet(1 .. n) /\ Cardinality(1 .. n) = n
  BY FS_Interval
<1>3. IsFiniteSet(S) /\ Cardinality(S) <= n
  BY <1>1, <1>2, FS_Injection
<1>. QED  BY <1>3, FS_CardinalityType

LEMMA UsersFinite ==
    ASSUME TypeInv, WorkInv, FilesInv, HandInv, RecordsInv, Sound, NEW b
    PROVE  IsFiniteSet(Users(b)) /\ Cardinality(Users(b)) \in Nat
<1>1. posts \in Nat
  BY RepairAssumption DEF TypeInv, GhostTyped
<1>2. \A m \in Users(b) : m \in Texts
  BY DEF Users
<1>3. /\ \A m \in Users(b) : m.text \in 1 .. posts
      /\ \A m, l \in Users(b) : m.text = l.text => m = l
  BY <1>2, TextsKnown
<1>. QED  BY <1>1, <1>3, TextsFew

LEMMA SameTexts ==
    ASSUME Holders' = Holders, \A b \in Holders : shd'[b].m = shd[b].m, InHand' = InHand
    PROVE  Texts' = Texts
BY DEF Texts

\* Nothing is counted and nothing stops being counted.
LEMMA CountFrame ==
    ASSUME CountInv, OneField, late => MaxPosts < RefModulus, Sound, Texts' = Texts, sda' = sda
    PROVE  CountInv'
<1>1. \A b \in Block : Users(b)' = Users(b)
  BY DEF Users
<1>2. \A b \in Block : sda[b] = Cardinality(Users(b))
  BY DEF CountInv
<1>. QED  BY <1>1, <1>2 DEF CountInv

LEMMA CountStore ==
    ASSUME TypeInv, WorkInv, FilesInv, HandInv, LengthInv, RecordsInv, ListInv, CountInv,
           OneField, late => MaxPosts < RefModulus, Sound',
           NEW shape \in Shapes, NEW n \in HdrBlocks, StoreText(shape, n)
    PROVE  CountInv'
<1>. USE DEF datVars, hdrVars, idxVars, workVars, ghosts
<1>1. Sound /\ Used' = Used /\ shd' = shd
  BY QuietUsed DEF Quiet
<1>2. pc = "idle" /\ pc' = "stored"
  BY DEF StoreText, StartWork
<1>3. Texts' = Texts \cup {cur'.m}
  <2>1. Holders = Used /\ Holders' = Used' /\ InHand = {} /\ InHand' = {cur'.m}
    BY <1>2 DEF Holders, InHand
  <2>2. {shd[b].m : b \in Holders}' = {shd[b].m : b \in Holders}
    BY <1>1, <2>1
  <2>. QED  BY <2>1, <2>2 DEF Texts
<1>4. /\ \A k \in Block : k < sdaLen /\ k \in Extent(cur'.m) => sda[k] = 0
      /\ \A k \in Block : sda'[k] = IF k \in Extent(cur'.m) THEN 1 ELSE sda[k]
  BY StoreWork
<1>5. \A b \in Block : sda[b] = Cardinality(Users(b))
  BY <1>1 DEF CountInv
<1>6. ASSUME NEW b \in Block PROVE sda'[b] = Cardinality(Users(b)')
  <2>1. Users(b)' = {m \in Texts \cup {cur'.m} : b \in Extent(m)}
    BY <1>3 DEF Users
  <2>2. IsFiniteSet(Users(b))
    BY <1>1, UsersFinite
  <2>3. CASE b \in Extent(cur'.m)
    <3>1. Users(b) = {}
      <4>1. CASE b < sdaLen
        <5>1. Cardinality(Users(b)) = 0
          BY <1>4, <1>5, <2>3, <4>1
        <5>. QED  BY <2>2, <5>1, FS_EmptySet
      <4>2. CASE ~(b < sdaLen)
        <5>1. \A m \in Texts : b \notin Extent(m)
          BY <1>1, <4>2, TextsKnown
        <5>. QED  BY <5>1 DEF Users
      <4>. QED  BY <4>1, <4>2
    <3>2. Users(b)' = {cur'.m}
      BY <2>1, <2>3, <3>1 DEF Users
    <3>3. Cardinality(Users(b)') = 1
      BY <3>2, FS_Singleton
    <3>. QED  BY <1>4, <2>3, <3>3
  <2>4. CASE b \notin Extent(cur'.m)
    <3>1. Users(b)' = Users(b)
      BY <2>1, <2>4 DEF Users
    <3>. QED  BY <1>4, <1>5, <2>4, <3>1
  <2>. QED  BY <2>3, <2>4
<1>. QED  BY <1>6 DEF CountInv

LEMMA CountPurgeData ==
    ASSUME TypeInv, WorkInv, FilesInv, HandInv, LengthInv, RecordsInv, ListInv, CountInv,
           OneField, late => MaxPosts < RefModulus, Sound', PurgeData
    PROVE  CountInv'
<1>. USE DEF datVars, hdrVars, idxVars, workVars, ghosts
<1>1. Sound /\ Used' = Used /\ shd' = shd
  BY QuietUsed DEF Quiet
<1>2. pc = "purge data" /\ pc' = "purge blocks" /\ pos' = pos /\ sda' = FreeFields(sda, cur.m)
  BY DEF PurgeData
<1>3. pos \in Used /\ shd[pos] = cur
  <2>1. todo # <<>> /\ Head(todo).hblk = pos /\ shd[pos] = cur
    BY <1>2 DEF WorkInv, PlaceInv, HandInv, Purging
  <2>2. pos \in BlocksOf(todo)
    BY <2>1, TailBlocks DEF TypeInv, WorkTyped
  <2>. QED  BY <1>2, <2>1, <2>2 DEF Used, Maintaining
<1>4. Holders = Used /\ Holders' = Used \ {pos} /\ InHand = {} /\ InHand' = {}
  BY <1>1, <1>2 DEF Holders, InHand
<1>5. cur.m \in Texts
  BY <1>1, <1>3, <1>4, TextsKnown
<1>6. \A a \in Used : shd[a].m = cur.m => a = pos
  <2>1. Used \subseteq Starts
    BY <1>1 DEF RecordsInv
  <2>. QED  BY <1>3, <2>1 DEF FilesInv, FitInv
<1>7. Texts' = Texts \ {cur.m}
  <2>1. {shd[b].m : b \in Holders}' = {shd[b].m : b \in Used \ {pos}}
    BY <1>1, <1>4
  <2>2. {shd[b].m : b \in Used \ {pos}} = {shd[b].m : b \in Used} \ {cur.m}
    BY <1>3, <1>6
  <2>. QED  BY <1>4, <2>1, <2>2 DEF Texts
<1>8. cur.m.blk \in Nat /\ cur.m.body \in Nat /\ cur.m.tail = 0
  BY <1>1, <1>5, TextsKnown
<1>9. \A b \in Block : sda[b] = Cardinality(Users(b))
  BY <1>1 DEF CountInv
<1>10. ASSUME NEW b \in Block PROVE sda'[b] = Cardinality(Users(b)')
  <2>1. Users(b)' = {m \in Texts \ {cur.m} : b \in Extent(m)}
    BY <1>7 DEF Users
  <2>2. IsFiniteSet(Users(b)) /\ Cardinality(Users(b)) \in Nat
    BY <1>1, UsersFinite
  <2>3. sda'[b] = IF b \in Extent(cur.m) /\ sda[b] > 0 THEN sda[b] - 1 ELSE sda[b]
    BY <1>2, <1>8, OneFieldFreed
  <2>4. CASE b \in Extent(cur.m)
    <3>1. cur.m \in Users(b) /\ Users(b)' = Users(b) \ {cur.m}
      BY <1>5, <2>1, <2>4 DEF Users
    <3>2. Cardinality(Users(b) \ {cur.m}) = Cardinality(Users(b)) - 1
      BY <2>2, <3>1, FS_RemoveElement
    <3>3. Cardinality(Users(b)) # 0
      BY <2>2, <3>1, FS_EmptySet
    <3>4. Cardinality(Users(b)') = Cardinality(Users(b)) - 1
      BY <3>1, <3>2
    <3>. QED  BY <1>9, <2>2, <2>3, <2>4, <3>3, <3>4
  <2>5. CASE b \notin Extent(cur.m)
    <3>1. Users(b)' = Users(b)
      BY <2>1, <2>5 DEF Users
    <3>. QED  BY <1>9, <2>3, <2>5, <3>1
  <2>. QED  BY <2>4, <2>5
<1>. QED  BY <1>10 DEF CountInv

\* The steps that only work on the index or the header allocation table.
LEMMA CountSame ==
    ASSUME TypeInv, WorkInv, FilesInv, HandInv, LengthInv, RecordsInv, ListInv, CountInv,
           OneField, late => MaxPosts < RefModulus, Sound',
           \/ WriteStatus \/ FlagIndex
           \/ \E chosen \in SUBSET DOMAIN idx : MaintStart(chosen)
           \/ TruncateIndex \/ RewriteIndex \/ MaintStatus
           \/ FixNoHeader \/ FixEnd \/ UNCHANGED vars
    PROVE  CountInv'
<1>. USE DEF datVars, hdrVars, idxVars, workVars, ghosts
<1>1. Sound /\ Used' = Used /\ shd' = shd
  BY QuietUsed DEF Quiet
<1>2. sda' = sda
  BY DEF WriteStatus, FlagIndex, MaintStart, TruncateIndex, RewriteIndex, MaintStatus,
         FixNoHeader, FixEnd, vars
<1>3. Holders' = Holders /\ InHand' = InHand
  <2>1. CASE UNCHANGED vars
    <3>1. UNCHANGED <<pc, pos, cur>>
      BY <2>1 DEF vars
    <3>. QED  BY <1>1, <3>1 DEF Holders, InHand
  <2>2. CASE ~UNCHANGED vars
    <3>1. {pc, pc'} \cap {"purge blocks", "stored", "placed", "written"} = {}
      BY <2>2 DEF WriteStatus, FlagIndex, MaintStart, StartWork, TruncateIndex, RewriteIndex,
                  MaintStatus, FixNoHeader, FixEnd
    <3>. QED  BY <1>1, <3>1 DEF Holders, InHand
  <2>. QED  BY <2>1, <2>2
<1>4. Texts' = Texts
  BY <1>1, <1>3, SameTexts
<1>. QED  BY <1>1, <1>2, <1>4, CountFrame

LEMMA CountPosting ==
    ASSUME TypeInv, WorkInv, FilesInv, HandInv, RecordsInv, RunInv, CountInv,
           OneField, late => MaxPosts < RefModulus, Sound,
           PlaceHeader \/ WriteHeader \/ WriteIndex
    PROVE  CountInv'
<1>. USE DEF datVars, hdrVars, idxVars, workVars, ghosts
<1>1. CASE PlaceHeader
  <2>1. pc = "stored" /\ pc' = "placed" /\ UNCHANGED <<sda, shd, cur>> /\ Used' = Used
    BY <1>1, SameUsed DEF PlaceHeader
  <2>2. Holders' = Holders /\ InHand' = InHand
    BY <2>1 DEF Holders, InHand
  <2>3. Texts' = Texts
    BY <2>1, <2>2, SameTexts
  <2>. QED  BY <2>1, <2>3, CountFrame
<1>2. CASE WriteHeader
  <2>1. pc = "placed" /\ pc' = "written" /\ UNCHANGED <<sda, cur>> /\ Used' = Used
    BY <1>2, SameUsed DEF WriteHeader
  <2>2. Holders = Used /\ Holders' = Holders /\ InHand' = InHand
    BY <2>1 DEF Holders, InHand
  <2>3. \A b \in Used : shd'[b] = shd[b]
    BY <1>2, WriteUsed
  <2>4. \A b \in Holders : shd'[b].m = shd[b].m
    BY <2>2, <2>3
  <2>5. Texts' = Texts
    BY <2>2, <2>4, SameTexts
  <2>. QED  BY <2>1, <2>5, CountFrame
<1>3. CASE WriteIndex
  <2>1. /\ pc = "written" /\ pc' = "indexed" /\ UNCHANGED <<sda, shd, cur>>
        /\ Used' = Used \cup {pos} /\ shd[pos] = cur
    BY <1>3, IndexParts
  <2>2. Holders = Used /\ Holders' = Used \cup {pos} /\ InHand = {cur.m} /\ InHand' = {}
    BY <2>1 DEF Holders, InHand
  <2>3. {shd[b].m : b \in Holders}' = {shd[b].m : b \in Used} \cup {cur.m}
    BY <2>1, <2>2
  <2>4. Texts' = Texts
    BY <2>2, <2>3 DEF Texts
  <2>. QED  BY <2>1, <2>4, CountFrame
<1>. QED  BY <1>1, <1>2, <1>3

LEMMA CountMaint ==
    ASSUME TypeInv, WorkInv, FilesInv, HandInv, RecordsInv, ListInv, CountInv,
           OneField, late => MaxPosts < RefModulus, Sound,
           (\E e \in ListedIn(idx) : StraightFlag(e)) \/ StraightPurge \/ PurgeBlocks
    PROVE  CountInv'
<1>. USE DEF datVars, hdrVars, idxVars, workVars, ghosts
<1>1. ASSUME NEW e \in ListedIn(idx), StraightFlag(e) PROVE CountInv'
  <2>1. pc = "idle" /\ pc' = "flag" /\ sda' = sda /\ Rewritten(e.hblk) /\ e.hblk \in Used
        /\ Used' = Used
    BY <1>1, FlagParts, FlagUsed, SameUsed
  <2>2. Holders = Used /\ Holders' = Holders /\ InHand' = InHand
    BY <2>1 DEF Holders, InHand
  <2>3. \A b \in Used : shd'[b].m = shd[b].m
    BY <2>1, RewriteUsed
  <2>4. Texts' = Texts
    BY <2>2, <2>3, SameTexts
  <2>. QED  BY <2>1, <2>4, CountFrame
<1>2. CASE StraightPurge
  <2>1. PICK e : e = Head(todo)
    OBVIOUS
  <2>2. /\ pc = "maint" /\ pc' = "purge data" /\ sda' = sda /\ Rewritten(e.hblk)
        /\ e.hblk \in Used /\ Used' = Used
    BY <1>2, <2>1, PurgeParts, PurgeUsed, SameUsed
  <2>3. Holders = Used /\ Holders' = Holders /\ InHand' = InHand
    BY <2>2 DEF Holders, InHand
  <2>4. \A b \in Used : shd'[b].m = shd[b].m
    BY <2>2, RewriteUsed
  <2>5. Texts' = Texts
    BY <2>3, <2>4, SameTexts
  <2>. QED  BY <2>2, <2>5, CountFrame
<1>3. CASE PurgeBlocks
  <2>1. /\ pc = "purge blocks" /\ pc' = "maint" /\ Used' = Used \ {pos}
        /\ UNCHANGED <<sda, shd, cur>>
    BY <1>3, PurgeBlocksParts
  <2>2. Holders' = Holders /\ InHand' = InHand
    BY <2>1 DEF Holders, InHand
  <2>3. Texts' = Texts
    BY <2>1, <2>2, SameTexts
  <2>. QED  BY <2>1, <2>3, CountFrame
<1>. QED  BY <1>1, <1>2, <1>3

LEMMA CountFixStart ==
    ASSUME NEW option, FixStart(option)
    PROVE  CountInv'
<1>1. Used' = {} /\ pc' = "fix" /\ \A b \in Block : sda'[b] = 0
  BY FixStartUsed
<1>2. Holders' = {} /\ InHand' = {}
  BY <1>1 DEF Holders, InHand
<1>3. Texts' = {}
  BY <1>2 DEF Texts
<1>4. \A b \in Block : Users(b)' = {}
  BY <1>3 DEF Users
<1>. QED  BY <1>1, <1>4, FS_EmptySet DEF CountInv

\* smb_incmsg_dfields() adds one to the blocks of a text without a tail, short
\* of the largest number a counter holds.
LEMMA OneFieldCounted ==
    ASSUME NEW table \in [Block -> Refs], NEW m, m.blk \in Nat, m.body \in Nat, m.tail = 0,
           NEW b \in Block
    PROVE  /\ b \notin Extent(m) => CountFields(table, m)[b] = table[b]
           /\ b \in Extent(m) /\ table[b] + 1 < RefModulus =>
                  CountFields(table, m)[b] = table[b] + 1
<1>1. FieldBlocks(m, "body") = Extent(m) /\ FieldBlocks(m, "tail") = {}
  BY OneFieldBlocks
<1>. DEFINE once == CountField(table, m, "body")
<1>2. once[b] = IF b \in Extent(m) THEN (table[b] + 1) % RefModulus ELSE table[b]
  BY <1>1 DEF CountField
<1>3. CountFields(table, m)[b] = once[b]
  BY <1>1 DEF CountFields, CountField
<1>. HIDE DEF once
<1>4. table[b] \in Nat /\ RefModulus \in Nat
  BY RefModulusAssumption DEF Refs
<1>5. \A x \in Nat, y \in Nat : x < y => x % y = x
  OBVIOUS
<1>6. table[b] + 1 < RefModulus => (table[b] + 1) % RefModulus = table[b] + 1
  BY <1>4, <1>5
<1>. QED  BY <1>2, <1>3, <1>6

LEMMA CountFixHeader ==
    ASSUME TypeInv, WorkInv, FilesInv, HandInv, RecordsInv, ListInv, FixInv, TextsInv, CountInv,
           OneField, late => MaxPosts < RefModulus, FixHeader
    PROVE  CountInv'
<1>. USE DEF datVars, hdrVars, idxVars, workVars, ghosts
<1>. DEFINE old == shd[pos]
<1>1. /\ pc = "fix" /\ pc' = "fix" /\ pos \in Starts /\ old \in HeaderType
      /\ old.del => Used' = Used
      /\ ~old.del => Used' = Used \cup {pos}
      /\ sda' = IF old.del THEN sda ELSE CountFields(sda, old.m)
  BY FixHeaderUsed
<1>2. Sound /\ Used \subseteq Starts
  BY <1>1 DEF Sound, RecordsInv
<1>3. \A b \in Starts : shd'[b].m = shd[b].m
  BY FixFits DEF FilesInv
<1>4. Holders = Used /\ Holders' = Used' /\ InHand = {} /\ InHand' = {}
  BY <1>1 DEF Holders, InHand
<1>5. CASE old.del
  <2>1. Holders' = Holders /\ InHand' = InHand /\ \A b \in Holders : shd'[b].m = shd[b].m
    BY <1>1, <1>2, <1>3, <1>4, <1>5
  <2>2. Texts' = Texts
    BY <2>1, SameTexts
  <2>. QED  BY <1>1, <1>2, <1>5, <2>2, CountFrame
<1>6. CASE ~old.del
  <2>1. Texts' = Texts \cup {old.m}
    <3>1. {shd[b].m : b \in Holders}' = {shd[b].m : b \in Used \cup {pos}}
      BY <1>1, <1>2, <1>3, <1>4, <1>6
    <3>. QED  BY <1>4, <3>1 DEF Texts
  <2>2. pos \notin Used
    <3>1. pos \in Nat /\ shd[pos].n \in Nat \ {0}
      BY <1>1, StartBlocks
    <3>. QED  BY <1>1, <3>1 DEF FixInv
  <2>3. /\ old.m.blk \in Nat /\ old.m.body \in Nat /\ old.m.tail = 0
        /\ old.m.text \in 1 .. posts
    <3>1. old.m.blk \in Nat /\ old.m.body \in Nat
      BY <1>1, HeaderHasFields, TextHasFields
    <3>. QED  BY <1>1, <3>1 DEF FilesInv, FitInv
  <2>4. \A m \in Texts : \E a \in Used : m = shd[a].m
    BY <1>4 DEF Texts
  <2>5. \A m \in Texts : m.text # old.m.text
    BY <1>1, <1>2, <2>2, <2>4 DEF FilesInv, FitInv
  <2>6. \A b \in Block : sda[b] = Cardinality(Users(b))
    BY <1>2 DEF CountInv
  <2>7. ASSUME NEW b \in Block PROVE sda'[b] = Cardinality(Users(b)')
    <3>1. Users(b)' = {m \in Texts \cup {old.m} : b \in Extent(m)}
      BY <2>1 DEF Users
    <3>2. IsFiniteSet(Users(b)) /\ Cardinality(Users(b)) \in Nat
      BY <1>2, UsersFinite
    <3>3. sda \in [Block -> Refs]
      BY DEF TypeInv, DataTyped
    <3>4. CASE b \notin Extent(old.m)
      <4>1. Users(b)' = Users(b)
        BY <3>1, <3>4 DEF Users
      <4>2. sda'[b] = sda[b]
        BY <1>1, <1>6, <2>3, <3>3, <3>4, OneFieldCounted
      <4>. QED  BY <2>6, <4>1, <4>2
    <3>5. CASE b \in Extent(old.m)
      <4>1. Users(b)' = Users(b) \cup {old.m} /\ old.m \notin Users(b)
        BY <2>5, <3>1, <3>5 DEF Users
      <4>2. Cardinality(Users(b) \cup {old.m}) = Cardinality(Users(b)) + 1
        BY <3>2, <4>1, FS_AddElement
      <4>3. CASE late
        <5>1. posts \in Nat /\ posts <= MaxPosts
          BY RepairAssumption DEF TypeInv, GhostTyped
        <5>2. \A m \in Users(b) \cup {old.m} : m = old.m \/ m \in Texts
          BY DEF Users
        <5>3. \A m \in Users(b) \cup {old.m} : m.text \in 1 .. posts
          BY <1>2, <2>3, <5>2, TextsKnown
        <5>4. \A m, l \in Users(b) \cup {old.m} : m.text = l.text => m = l
          BY <1>2, <2>5, <5>2, TextsKnown
        <5>5. Cardinality(Users(b) \cup {old.m}) <= posts
          BY <5>1, <5>3, <5>4, TextsFew
        <5>6. Cardinality(Users(b)) + 1 < RefModulus
          BY <3>2, <4>2, <4>3, <5>1, <5>5, RefModulusAssumption, RepairAssumption
        <5>7. sda[b] + 1 < RefModulus
          BY <2>6, <5>6
        <5>8. sda'[b] = sda[b] + 1
          BY <1>1, <1>6, <2>3, <3>3, <3>5, <5>7, OneFieldCounted
        <5>. QED  BY <2>6, <4>1, <4>2, <5>8
      <4>4. CASE ~late
        <5>1. ASSUME NEW a \in Used PROVE ~shd[a].del /\ a # pos
          <6>1. pc \notin Maintaining /\ todo = <<>> /\ Used = BlocksOf(idx)
            BY <1>1 DEF Used, Maintaining, WorkInv, TodoInv
          <6>2. PICK i \in DOMAIN idx : idx[i].hblk = a
            BY <6>1 DEF BlocksOf
          <6>3. idx[i] \in Records \ ListedIn(todo)
            BY <6>1 DEF Records, ListedIn
          <6>4. ~idx[i].del
            BY <1>1, <6>3 DEF FixInv
          <6>5. idx[i].del = HeaderOf(idx[i]).del
            BY <1>2, <6>1, <6>3 DEF ListInv
          <6>. QED  BY <2>2, <6>2, <6>4, <6>5 DEF HeaderOf
        <5>2. \A a \in Used : Extent(shd[a].m) \cap Extent(old.m) = {}
          BY <1>1, <1>2, <1>6, <4>4, <5>1 DEF TextsInv
        <5>3. Users(b) = {}
          BY <2>4, <3>5, <5>2 DEF Users
        <5>4. Cardinality(Users(b)) = 0
          BY <5>3, FS_EmptySet
        <5>5. sda[b] = 0
          BY <2>6, <5>4
        <5>6. sda[b] + 1 < RefModulus
          BY <5>5, RefModulusAssumption
        <5>7. sda'[b] = sda[b] + 1
          BY <1>1, <1>6, <2>3, <3>3, <3>5, <5>6, OneFieldCounted
        <5>. QED  BY <2>6, <4>1, <4>2, <5>7
      <4>. QED  BY <4>3, <4>4
    <3>. QED  BY <3>4, <3>5
  <2>. QED  BY <2>7 DEF CountInv
<1>. QED  BY <1>5, <1>6

LEMMA LateGrows ==
    ASSUME late, [Straight]_vars
    PROVE  late'
<1>. USE DEF datVars, hdrVars, idxVars, workVars, ghosts
<1>1. CASE \/ \E shape \in Shapes, n \in HdrBlocks : StoreText(shape, n)
           \/ \E e \in ListedIn(idx) : StraightFlag(e)
           \/ \E chosen \in SUBSET DOMAIN idx : MaintStart(chosen)
  <2>1. late' = (late \/ dirty)
    BY <1>1 DEF StoreText, StraightFlag, MaintStart, StartWork
  <2>. QED  BY <2>1
<1>2. CASE ~(\/ \E shape \in Shapes, n \in HdrBlocks : StoreText(shape, n)
             \/ \E e \in ListedIn(idx) : StraightFlag(e)
             \/ \E chosen \in SUBSET DOMAIN idx : MaintStart(chosen))
  <2>1. late' = late
    BY <1>2 DEF Straight, AddMessage, StraightMaintain, Repair, ListedIn, vars, Refuse,
                PlaceHeader, WriteHeader,
                WriteIndex, WriteStatus, FlagIndex, StraightPurge, StraightBadHeader, PurgeData,
                PurgeBlocks, TruncateIndex, RewriteIndex, MaintStatus, FixStart, FixHeader,
                FixNoHeader, FixEnd, Crash
  <2>. QED  BY <2>1
<1>. QED  BY <1>1, <1>2

LEMMA CountNext ==
    ASSUME TypeInv, WorkInv, FilesInv, HandInv, LengthInv, RecordsInv, ListInv, RunInv, FixInv,
           TextsInv,
           CountInv, [Straight]_vars
    PROVE  CountInv'
<1>. SUFFICES ASSUME OneField, late' => MaxPosts < RefModulus, Sound' PROVE CountInv'
  BY DEF CountInv
<1>. USE DEF datVars, hdrVars, idxVars, workVars, ghosts
<1>0. late => MaxPosts < RefModulus
  BY LateGrows
<1>1. ASSUME NEW shape \in Shapes, NEW n \in HdrBlocks, StoreText(shape, n) PROVE CountInv'
  BY <1>0, <1>1, CountStore
<1>2. CASE Refuse
  <2>1. pc = "stored" /\ pc' = "idle" /\ dirty' = dirty /\ Len(idx) # total
    BY <1>2 DEF Refuse, LengthAsExpected
  <2>2. ~dirty
    BY <2>1 DEF Sound
  <2>. QED  BY <2>1, <2>2 DEF LengthInv, Maintaining
<1>3. CASE PlaceHeader \/ WriteHeader \/ WriteIndex
  <2>1. Sound
    BY <1>3 DEF PlaceHeader, WriteHeader, WriteIndex, Sound
  <2>. QED  BY <1>0, <1>3, <2>1, CountPosting
<1>4. CASE (\E e \in ListedIn(idx) : StraightFlag(e)) \/ StraightPurge \/ PurgeBlocks
  <2>1. Sound
    BY <1>4 DEF StraightFlag, StartWork, StraightPurge, PurgeBlocks, Sound
  <2>. QED  BY <1>0, <1>4, <2>1, CountMaint
<1>5. CASE StraightBadHeader
  <2>1. Sound
    BY <1>5 DEF StraightBadHeader, Sound
  <2>. QED  BY <1>5, <2>1, NoBadHeader
<1>6. CASE PurgeData
  BY <1>0, <1>6, CountPurgeData
<1>7. CASE \/ WriteStatus \/ FlagIndex
           \/ \E chosen \in SUBSET DOMAIN idx : MaintStart(chosen)
           \/ TruncateIndex \/ RewriteIndex \/ MaintStatus
           \/ FixNoHeader \/ FixEnd \/ UNCHANGED vars
  BY <1>0, <1>7, CountSame
<1>8. ASSUME NEW option \in BOOLEAN, FixStart(option) PROVE CountInv'
  BY <1>8, CountFixStart
<1>9. CASE FixHeader
  BY <1>0, <1>9, CountFixHeader
<1>10. CASE Crash
  BY <1>10 DEF Crash, Sound
<1>. QED  BY <1>1, <1>2, <1>3, <1>4, <1>5, <1>6, <1>7, <1>8, <1>9, <1>10
          DEF Straight, AddMessage, StraightMaintain, Repair, ListedIn

-----------------------------------------------------------------------------
(* The texts of messages that are not deleted.                             *)

\* While nobody works, the blocks of the messages that are not deleted are
\* allocated.
LEMMA LiveCounted ==
    ASSUME TypeInv, WorkInv, FilesInv, HandInv, RecordsInv, StaleInv, CountInv, ~late, OneField,
           pc = "idle", Sound, NEW a \in Starts, ~shd[a].del, NEW k \in Block,
           k \in Extent(shd[a].m)
    PROVE  sda[k] # 0
<1>1. a \in Used
  BY DEF StaleInv
<1>2. a \in Holders
  BY <1>1 DEF Holders
<1>3. shd[a].m \in Users(k)
  BY <1>2 DEF Users, Texts
<1>4. IsFiniteSet(Users(k))
  BY UsersFinite
<1>5. Cardinality(Users(k)) # 0
  BY <1>3, <1>4, FS_EmptySet
<1>. QED  BY <1>5 DEF CountInv

LEMMA TextsFrame ==
    ASSUME TextsInv, ~late, OneField, Starts' \subseteq Starts,
           \A a \in Starts' : shd'[a].m = shd[a].m /\ (shd[a].del => shd'[a].del),
           pc' \in {"stored", "placed"} => pc \in {"stored", "placed"} /\ cur' = cur
    PROVE  TextsInv'
<1>1. \A a, b \in Starts' : a # b /\ ~shd'[a].del /\ ~shd'[b].del =>
          Extent(shd'[a].m) \cap Extent(shd'[b].m) = {}
  <2>1. \A a, b \in Starts : a # b /\ ~shd[a].del /\ ~shd[b].del =>
            Extent(shd[a].m) \cap Extent(shd[b].m) = {}
    BY DEF TextsInv
  <2>. QED  BY <2>1
<1>2. pc' \in {"stored", "placed"} =>
          \A a \in Starts' : ~shd'[a].del => Extent(shd'[a].m) \cap Extent(cur'.m) = {}
  <2>1. pc \in {"stored", "placed"} =>
            \A a \in Starts : ~shd[a].del => Extent(shd[a].m) \cap Extent(cur.m) = {}
    BY DEF TextsInv
  <2>. QED  BY <2>1
<1>. QED  BY <1>1, <1>2 DEF TextsInv

LEMMA TextsNext ==
    ASSUME TypeInv, WorkInv, FilesInv, HandInv, RecordsInv, LateInv, StaleInv, CountInv, TextsInv,
           [Straight]_vars
    PROVE  TextsInv'
<1>. SUFFICES ASSUME ~late', OneField PROVE TextsInv'
  BY DEF TextsInv
<1>. USE DEF datVars, hdrVars, idxVars, workVars, ghosts
<1>0. ~late
  BY LateSteps
<1>1. ASSUME NEW shape \in Shapes, NEW n \in HdrBlocks, StoreText(shape, n) PROVE TextsInv'
  <2>1. pc = "idle" /\ pc' = "stored" /\ shd' = shd /\ late' = (late \/ dirty)
    BY <1>1 DEF StoreText, StartWork
  <2>2. Sound
    BY <2>1 DEF Sound
  <2>3. /\ \A k \in Block : k < sdaLen /\ k \in Extent(cur'.m) => sda[k] = 0
        /\ \A k \in Extent(cur'.m) : k \in Block
    BY <1>1, StoreWork
  <2>4. \A a \in Starts : ~shd[a].del => Extent(shd[a].m) \cap Extent(cur'.m) = {}
    <3>. SUFFICES ASSUME NEW a \in Starts, ~shd[a].del, NEW k \in Extent(shd[a].m),
                         k \in Extent(cur'.m)
                  PROVE  FALSE
      OBVIOUS
    <3>1. k \in Block /\ k < sdaLen
      BY <2>3 DEF FilesInv, FitInv
    <3>2. sda[k] = 0
      BY <2>3, <3>1
    <3>. QED  BY <1>0, <2>1, <2>2, <3>1, <3>2, LiveCounted
  <2>5. \A a, b \in Starts : a # b /\ ~shd[a].del /\ ~shd[b].del =>
            Extent(shd[a].m) \cap Extent(shd[b].m) = {}
    BY <1>0 DEF TextsInv
  <2>6. Starts' = Starts
    BY <2>1 DEF Starts
  <2>. QED  BY <2>1, <2>4, <2>5, <2>6 DEF TextsInv
<1>2. CASE WriteHeader
  <2>1. pc = "placed" /\ pc' = "written" /\ cur \in HeaderType /\ pos \in Block
        /\ WriteHeaderAt(pos, cur)
    BY <1>2, WriteParts
  <2>2. /\ shd'[pos] = cur
        /\ \A k \in Starts' : k # pos => k \in Starts /\ shd'[k] = shd[k]
    BY <2>1, WriteStarts
  <2>3. \A a \in Starts : ~shd[a].del => Extent(shd[a].m) \cap Extent(cur.m) = {}
    BY <1>0, <2>1 DEF TextsInv
  <2>4. \A a, b \in Starts : a # b /\ ~shd[a].del /\ ~shd[b].del =>
            Extent(shd[a].m) \cap Extent(shd[b].m) = {}
    BY <1>0 DEF TextsInv
  <2>5. ASSUME NEW a \in Starts', NEW b \in Starts', a # b, ~shd'[a].del, ~shd'[b].del
        PROVE  Extent(shd'[a].m) \cap Extent(shd'[b].m) = {}
    <3>1. CASE a = pos
      <4>1. b \in Starts /\ shd'[b] = shd[b]
        BY <2>2, <2>5, <3>1
      <4>2. Extent(shd[b].m) \cap Extent(cur.m) = {}
        BY <2>3, <2>5, <4>1
      <4>. QED  BY <2>2, <3>1, <4>1, <4>2
    <3>2. CASE b = pos
      <4>1. a \in Starts /\ shd'[a] = shd[a]
        BY <2>2, <2>5, <3>2
      <4>2. Extent(shd[a].m) \cap Extent(cur.m) = {}
        BY <2>3, <2>5, <4>1
      <4>. QED  BY <2>2, <3>2, <4>1, <4>2
    <3>3. CASE a # pos /\ b # pos
      <4>1. a \in Starts /\ b \in Starts /\ shd'[a] = shd[a] /\ shd'[b] = shd[b]
        BY <2>2, <3>3
      <4>. QED  BY <2>4, <2>5, <4>1
    <3>. QED  BY <3>1, <3>2, <3>3
  <2>. QED  BY <2>1, <2>5 DEF TextsInv
<1>3. ASSUME NEW e \in ListedIn(idx), StraightFlag(e) PROVE TextsInv'
  <2>1. pc' = "flag" /\ Rewritten(e.hblk)
    BY <1>3, FlagParts
  <2>2. \A k \in Starts' : k \in Starts /\ shd'[k].m = shd[k].m /\ (shd[k].del => shd'[k].del)
    BY <2>1, RewriteKeeps
  <2>. QED  BY <1>0, <2>1, <2>2, TextsFrame
<1>4. CASE StraightPurge
  <2>1. PICK e : e = Head(todo)
    OBVIOUS
  <2>2. pc' = "purge data" /\ Rewritten(e.hblk)
    BY <1>4, <2>1, PurgeParts
  <2>3. \A k \in Starts' : k \in Starts /\ shd'[k].m = shd[k].m /\ (shd[k].del => shd'[k].del)
    BY <2>2, RewriteKeeps
  <2>. QED  BY <1>0, <2>2, <2>3, TextsFrame
<1>5. CASE FixHeader
  <2>1. pc' = "fix"
    BY <1>5, FixHeaderUsed
  <2>2. Starts' = Starts /\ \A k \in Starts : shd'[k].m = shd[k].m /\ shd'[k].del = shd[k].del
    BY <1>5, FixFits DEF FilesInv
  <2>. QED  BY <1>0, <2>1, <2>2, TextsFrame
<1>6. CASE /\ UNCHANGED shd
           /\ pc' \in {"stored", "placed"} => pc \in {"stored", "placed"} /\ cur' = cur
  <2>1. Starts' = Starts
    BY <1>6 DEF Starts
  <2>. QED  BY <1>0, <1>6, <2>1, TextsFrame
<1>7. CASE \/ Refuse \/ PlaceHeader \/ WriteIndex \/ WriteStatus \/ FlagIndex
           \/ \E chosen \in SUBSET DOMAIN idx : MaintStart(chosen)
           \/ StraightBadHeader \/ PurgeData \/ PurgeBlocks \/ TruncateIndex \/ RewriteIndex
           \/ MaintStatus \/ (\E option \in BOOLEAN : FixStart(option)) \/ FixNoHeader \/ FixEnd
           \/ Crash \/ UNCHANGED vars
  <2>1. UNCHANGED shd
    BY <1>7 DEF Refuse, PlaceHeader, WriteIndex, WriteStatus, FlagIndex, MaintStart,
                StraightBadHeader,
                PurgeData, PurgeBlocks, TruncateIndex, RewriteIndex, MaintStatus, FixStart,
                FixNoHeader, FixEnd, Crash, vars
  <2>2. pc' \in {"stored", "placed"} => pc \in {"stored", "placed"} /\ cur' = cur
    BY <1>7 DEF Refuse, PlaceHeader, WriteIndex, WriteStatus, FlagIndex, MaintStart,
                StraightBadHeader,
                PurgeData, PurgeBlocks, TruncateIndex, RewriteIndex, MaintStatus, FixStart,
                FixNoHeader, FixEnd, Crash, vars
  <2>. QED  BY <1>6, <2>1, <2>2
<1>. QED  BY <1>1, <1>2, <1>3, <1>4, <1>5, <1>7 DEF Straight, AddMessage, StraightMaintain,
                                                    Repair, ListedIn
-----------------------------------------------------------------------------
(* Messages that were posted and that nobody chose to delete.              *)

\* Headers that nobody chose to delete stay, whatever happens to the others.
LEMMA PostedFrame ==
    ASSUME PostedInv, ~late, posted' = posted, doomed \subseteq doomed',
           \A a \in Starts : ~shd[a].del /\ shd[a].m.text \notin doomed' =>
               a \in Starts' /\ ~shd'[a].del /\ shd'[a].m = shd[a].m,
           \A e \in ListedIn(todo') : \/ TextOf(e)'.text \in doomed'
                                      \/ e \in ListedIn(todo) /\ shd'[e.hblk].m = shd[e.hblk].m
    PROVE  PostedInv'
<1>1. ASSUME NEW t \in posted' \ doomed'
      PROVE  \E a \in Starts' : ~shd'[a].del /\ shd'[a].m.text = t
  <2>1. PICK a \in Starts : ~shd[a].del /\ shd[a].m.text = t
    BY DEF PostedInv
  <2>2. a \in Starts' /\ ~shd'[a].del /\ shd'[a].m = shd[a].m
    BY <1>1, <2>1
  <2>. QED  BY <2>1, <2>2
<1>2. ASSUME NEW e \in ListedIn(todo') PROVE TextOf(e)'.text \in doomed'
  <2>1. CASE e \in ListedIn(todo) /\ shd'[e.hblk].m = shd[e.hblk].m
    <3>1. TextOf(e).text \in doomed
      BY <2>1 DEF PostedInv
    <3>2. TextOf(e)' = TextOf(e)
      BY <2>1 DEF TextOf, HeaderOf
    <3>. QED  BY <3>1, <3>2
  <2>. QED  BY <1>2, <2>1
<1>. QED  BY <1>1, <1>2 DEF PostedInv, ListedIn

LEMMA PostedQuiet ==
    ASSUME TypeInv, WorkInv, PostedInv, ~late,
           \/ \E shape \in Shapes, n \in HdrBlocks : StoreText(shape, n)
           \/ Refuse \/ PlaceHeader \/ WriteIndex \/ FlagIndex
           \/ StraightBadHeader \/ PurgeData \/ PurgeBlocks \/ TruncateIndex \/ RewriteIndex
           \/ MaintStatus \/ (\E option \in BOOLEAN : FixStart(option)) \/ FixNoHeader \/ FixEnd
           \/ Crash \/ UNCHANGED vars
    PROVE  PostedInv'
<1>. USE DEF datVars, hdrVars, idxVars, workVars, ghosts
<1>1. UNCHANGED <<shd, posted, doomed>>
  BY DEF StoreText, Refuse, PlaceHeader, WriteIndex, FlagIndex, StraightBadHeader, PurgeData,
         PurgeBlocks, TruncateIndex, RewriteIndex, MaintStatus, FixStart, FixNoHeader, FixEnd,
         Crash, vars
<1>2. ASSUME FlagIndex \/ PurgeBlocks PROVE ListedIn(todo') \subseteq ListedIn(todo)
  <2>1. todo' = Tail(todo) /\ pc \in {"flag", "purge blocks"}
    BY <1>2 DEF FlagIndex, PurgeBlocks
  <2>2. todo # <<>>
    BY <2>1 DEF WorkInv, PlaceInv, HandInv, Purging
  <2>3. ListedIn(Tail(todo)) \subseteq ListedIn(todo)
    BY <2>2, TailBlocks DEF TypeInv, WorkTyped
  <2>. QED  BY <2>1, <2>3
<1>3. ASSUME StraightBadHeader \/ Crash PROVE ListedIn(todo') \subseteq ListedIn(todo)
  <2>1. todo' = <<>>
    BY <1>3 DEF StraightBadHeader, Crash
  <2>. QED  BY <2>1 DEF ListedIn
<1>4. ASSUME \/ \E shape \in Shapes, n \in HdrBlocks : StoreText(shape, n)
             \/ Refuse \/ PlaceHeader \/ WriteIndex \/ PurgeData \/ TruncateIndex \/ RewriteIndex
             \/ MaintStatus \/ (\E option \in BOOLEAN : FixStart(option)) \/ FixNoHeader \/ FixEnd
             \/ UNCHANGED vars
      PROVE  ListedIn(todo') \subseteq ListedIn(todo)
  <2>1. todo' = todo
    BY <1>4 DEF StoreText, Refuse, PlaceHeader, WriteIndex, PurgeData, TruncateIndex,
                RewriteIndex, MaintStatus, FixStart, FixNoHeader, FixEnd, vars
  <2>. QED  BY <2>1
<1>5. ListedIn(todo') \subseteq ListedIn(todo)
  BY <1>2, <1>3, <1>4
<1>6. Starts' = Starts
  BY <1>1 DEF Starts
<1>. QED  BY <1>1, <1>5, <1>6, PostedFrame

LEMMA PostedNext ==
    ASSUME TypeInv, WorkInv, FilesInv, HandInv, LengthInv, RecordsInv, RunInv, LateInv,
           StaleInv, PostedInv,
           [Straight]_vars
    PROVE  PostedInv'
<1>. SUFFICES ASSUME ~late' PROVE PostedInv'
  BY DEF PostedInv
<1>. USE DEF datVars, hdrVars, idxVars, workVars, ghosts
<1>0. ~late
  BY LateSteps
<1>1. CASE \/ \E shape \in Shapes, n \in HdrBlocks : StoreText(shape, n)
           \/ Refuse \/ PlaceHeader \/ WriteIndex \/ FlagIndex
           \/ StraightBadHeader \/ PurgeData \/ PurgeBlocks \/ TruncateIndex \/ RewriteIndex
           \/ MaintStatus \/ (\E option \in BOOLEAN : FixStart(option)) \/ FixNoHeader \/ FixEnd
           \/ Crash \/ UNCHANGED vars
  BY <1>0, <1>1, PostedQuiet
<1>2. CASE WriteHeader
  <2>1. /\ pc = "placed" /\ cur \in HeaderType /\ pos \in Block /\ WriteHeaderAt(pos, cur)
        /\ UNCHANGED <<posted, doomed, todo>>
    BY <1>2, WriteParts
  <2>2. Sound
    BY <1>0, <2>1 DEF LateInv, Sound
  <2>3. \A k \in Starts : k \notin Run => k \in Starts' /\ shd'[k] = shd[k]
    BY <2>1, WriteStarts DEF Run
  <2>4. ASSUME NEW a \in Starts, a \in Run PROVE shd[a].del
    <3>1. a \in ExtentAt(a)
      BY StartBlocks
    <3>2. a \notin Used
      BY <2>1, <2>2, <2>4, <3>1 DEF RunInv
    <3>. QED  BY <1>0, <2>1, <2>2, <3>2 DEF StaleInv
  <2>5. ListedIn(todo') = {}
    <3>1. todo = <<>>
      BY <2>1 DEF WorkInv, TodoInv, Maintaining
    <3>. QED  BY <2>1, <3>1 DEF ListedIn
  <2>. QED  BY <1>0, <2>1, <2>3, <2>4, <2>5, PostedFrame
<1>3. CASE WriteStatus
  <2>1. /\ pc = "indexed" /\ UNCHANGED <<shd, todo, doomed>> /\ posted' = posted \cup {cur.m.text}
    BY <1>3 DEF WriteStatus
  <2>2. shd[pos] = cur /\ pos \in Block /\ ~cur.del /\ cur \in HeaderType
    <3>1. pos < MaxBlocks /\ shd[pos] = cur /\ ~cur.del
      BY <2>1 DEF WorkInv, PlaceInv, HandInv, PostInv, Posting
    <3>2. pos \in 0 .. MaxBlocks /\ cur \in HeaderType
      BY DEF TypeInv, WorkTyped
    <3>. QED  BY <3>1, <3>2, MaxBlocksAssumption DEF Block
  <2>3. pos \in Starts
    BY <2>2, HeaderAt
  <2>4. Starts' = Starts /\ ListedIn(todo') = ListedIn(todo)
    BY <2>1 DEF Starts
  <2>5. ASSUME NEW t \in posted' \ doomed'
        PROVE  \E a \in Starts' : ~shd'[a].del /\ shd'[a].m.text = t
    <3>1. CASE t = cur.m.text
      BY <2>1, <2>2, <2>3, <2>4, <3>1
    <3>2. CASE t # cur.m.text
      <4>1. PICK a \in Starts : ~shd[a].del /\ shd[a].m.text = t
        BY <1>0, <2>1, <2>5, <3>2 DEF PostedInv
      <4>. QED  BY <2>1, <2>4, <4>1
    <3>. QED  BY <3>1, <3>2
  <2>6. \A e \in ListedIn(todo') : TextOf(e)'.text \in doomed'
    <3>1. \A e : TextOf(e)' = TextOf(e)
      BY <2>1 DEF TextOf, HeaderOf
    <3>. QED  BY <1>0, <2>1, <2>4, <3>1 DEF PostedInv
  <2>. QED  BY <2>5, <2>6 DEF PostedInv, ListedIn
<1>4. ASSUME NEW e \in ListedIn(idx), StraightFlag(e) PROVE PostedInv'
  <2>1. /\ Rewritten(e.hblk) /\ posted' = posted /\ todo' = <<e>>
        /\ doomed' = doomed \cup {shd[e.hblk].m.text}
    BY <1>4, FlagParts
  <2>2. Starts' = Starts
    BY <1>0, <2>1, RewriteAll
  <2>3. /\ e.hblk \in Starts
        /\ \A k \in Starts' : shd'[k].m = shd[k].m /\ (k # e.hblk => shd'[k] = shd[k])
    <3>1. \A k \in Starts' : shd'[k].m = shd[k].m
      BY <2>1, RewriteKeeps
    <3>2. e.hblk \in Starts /\ \A k \in Starts' : k # e.hblk => shd'[k] = shd[k]
      BY <2>1 DEF Rewritten
    <3>. QED  BY <3>1, <3>2
  <2>4. \A d \in ListedIn(todo') : d = e
    BY <2>1 DEF ListedIn
  <2>5. TextOf(e)'.text \in doomed'
    BY <2>1, <2>2, <2>3 DEF TextOf, HeaderOf
  <2>6. \A a \in Starts : ~shd[a].del /\ shd[a].m.text \notin doomed' =>
            a \in Starts' /\ ~shd'[a].del /\ shd'[a].m = shd[a].m
    BY <2>1, <2>2, <2>3
  <2>. QED  BY <1>0, <2>1, <2>4, <2>5, <2>6, PostedFrame
<1>5. CASE StraightPurge
  <2>1. PICK e : e = Head(todo)
    OBVIOUS
  <2>2. /\ pc = "maint" /\ Rewritten(e.hblk) /\ posted' = posted /\ todo' = todo /\ doomed' = doomed
        /\ todo # <<>>
    BY <1>5, <2>1, PurgeParts
  <2>3. Starts' = Starts
    BY <1>0, <2>2, RewriteAll
  <2>4. /\ e.hblk \in Starts
        /\ \A k \in Starts' : shd'[k].m = shd[k].m /\ (k # e.hblk => shd'[k] = shd[k])
    <3>1. \A k \in Starts' : shd'[k].m = shd[k].m
      BY <2>2, RewriteKeeps
    <3>2. e.hblk \in Starts /\ \A k \in Starts' : k # e.hblk => shd'[k] = shd[k]
      BY <2>2 DEF Rewritten
    <3>. QED  BY <3>1, <3>2
  <2>5. todo \in Seq(RecordType)
    BY DEF TypeInv, WorkTyped
  <2>6. shd[e.hblk].m.text \in doomed
    <3>1. e \in ListedIn(todo)
      BY <2>1, <2>2, <2>5, TailBlocks
    <3>. QED  BY <1>0, <3>1 DEF PostedInv, TextOf, HeaderOf
  <2>7. \A d \in ListedIn(todo) : d.hblk \in Starts
    <3>1. Sound
      BY <1>0, <2>2 DEF LateInv, Sound
    <3>2. BlocksOf(todo) \subseteq Starts
      BY <2>2, <3>1 DEF RecordsInv, Used, Maintaining
    <3>. QED  BY <2>5, <3>2, BlocksIn
  <2>8. \A a \in Starts : ~shd[a].del /\ shd[a].m.text \notin doomed' =>
            a \in Starts' /\ ~shd'[a].del /\ shd'[a].m = shd[a].m
    BY <2>2, <2>3, <2>4, <2>6
  <2>9. \A d \in ListedIn(todo') : d \in ListedIn(todo) /\ shd'[d.hblk].m = shd[d.hblk].m
    BY <2>2, <2>3, <2>4, <2>7
  <2>. QED  BY <1>0, <2>2, <2>8, <2>9, PostedFrame
<1>6. ASSUME NEW chosen, MaintStart(chosen) PROVE PostedInv'
  <2>1. PICK purge :
            /\ purge \subseteq DOMAIN idx /\ todo' \in InOrder(purge)
            /\ doomed' = doomed \cup {HeaderOf(idx[i]).m.text :
                                      i \in {j \in purge : IsHeader(HeaderOf(idx[j]))}}
            /\ UNCHANGED <<shd, posted>>
    BY <1>6, MaintParts
  <2>2. ListedIn(todo') = {idx[i] : i \in purge}
    BY <2>1, ListingType DEF TypeInv, IndexTyped
  <2>3. \A i \in DOMAIN idx : IsHeader(HeaderOf(idx[i]))
    BY <1>0 DEF LateInv, BlocksOf, Starts, HeaderOf
  <2>4. \A i \in purge : HeaderOf(idx[i]).m.text \in doomed'
    BY <2>1, <2>3
  <2>5. \A e : TextOf(e)' = HeaderOf(e).m
    BY <2>1 DEF TextOf, HeaderOf
  <2>6. \A e \in ListedIn(todo') : TextOf(e)'.text \in doomed'
    BY <2>2, <2>4, <2>5
  <2>7. Starts' = Starts
    BY <2>1 DEF Starts
  <2>. QED  BY <1>0, <2>1, <2>6, <2>7, PostedFrame
<1>7. CASE FixHeader
  <2>1. pc = "fix" /\ UNCHANGED <<todo, posted, doomed>>
    BY <1>7, FixHeaderUsed
  <2>2. Starts' = Starts /\ \A k \in Starts : shd'[k].m = shd[k].m /\ shd'[k].del = shd[k].del
    BY <1>7, FixFits DEF FilesInv
  <2>3. ListedIn(todo') = {}
    <3>1. todo = <<>>
      BY <2>1 DEF WorkInv, TodoInv, Maintaining
    <3>. QED  BY <2>1, <3>1 DEF ListedIn
  <2>. QED  BY <1>0, <2>1, <2>2, <2>3, PostedFrame
<1>. QED  BY <1>1, <1>2, <1>3, <1>4, <1>5, <1>6, <1>7 DEF Straight, AddMessage,
                                                          StraightMaintain, Repair, ListedIn
-----------------------------------------------------------------------------
(* The invariant.                                                          *)

\* As long as every search for a number has found the message that was meant.
StraightInv ==
    /\ TypeInv /\ WorkInv /\ FilesInv /\ HandInv /\ LengthInv /\ RecordsInv /\ ListInv
    /\ RunInv /\ FixInv /\ LateInv /\ StaleInv /\ TextsInv /\ CountInv /\ PostedInv

RepairInv ==
    /\ TypeInv /\ WorkInv /\ FitInv
    /\ misled => late
    /\ misled \/ StraightInv

LEMMA InitTyped == Init => TypeInv
<1>. SUFFICES ASSUME Init PROVE TypeInv
  OBVIOUS
<1>1. MaxBlocks \in Nat /\ MaxPosts \in Nat
  BY MaxBlocksAssumption, RepairAssumption
<1>2. DataTyped
  BY <1>1, ZeroTables DEF Init, DataTyped
<1>3. HeadTyped
  <2>1. shd \in [Block -> HeaderType \cup {NoHeader}]
    BY DEF Init
  <2>. QED  BY <1>1, <2>1, ZeroTables DEF Init, HeadTyped
<1>4. IndexTyped
  <2>1. <<>> \in Seq(RecordType)
    OBVIOUS
  <2>2. idx \in Seq(RecordType)
    BY <2>1 DEF Init
  <2>3. total \in Nat /\ lastMsg \in Nat
    BY DEF Init
  <2>. QED  BY <2>2, <2>3 DEF IndexTyped
<1>5. WorkTyped
  <2>1. <<>> \in Seq(RecordType)
    OBVIOUS
  <2>2. todo \in Seq(RecordType) /\ keep \in Seq(RecordType)
    BY <2>1 DEF Init
  <2>3. flagged \in 0 .. total /\ pos \in 0 .. MaxBlocks
    BY <1>1 DEF Init
  <2>4. cur \in HeaderType
    BY NoWorkType DEF Init
  <2>5. pc \in Labels /\ renumber \in BOOLEAN
    BY DEF Init, Labels
  <2>. QED  BY <2>2, <2>3, <2>4, <2>5 DEF WorkTyped
<1>6. GhostTyped
  <2>1. posts \in 0 .. MaxPosts
    BY <1>1 DEF Init
  <2>2. deleted \subseteq 1 .. posts
    BY DEF Init
  <2>3. dirty \in BOOLEAN /\ late \in BOOLEAN /\ misled \in BOOLEAN
    BY DEF Init
  <2>. QED  BY <2>1, <2>2, <2>3 DEF GhostTyped
<1>. QED  BY <1>2, <1>3, <1>4, <1>5, <1>6 DEF TypeInv

LEMMA InitInv == Init => RepairInv
<1>. SUFFICES ASSUME Init PROVE RepairInv
  OBVIOUS
<1>1. TypeInv
  BY InitTyped
<1>2. /\ pc = "idle" /\ idx = <<>> /\ todo = <<>> /\ keep = <<>> /\ flagged = 0 /\ total = 0
      /\ ~dirty /\ ~misled /\ posted = {} /\ copies = {} /\ shdLen = 0 /\ shaLen = 0
  BY DEF Init
<1>3. Starts = {}
  BY DEF Init, Starts, IsHeader
<1>4. ListedIn(idx) = {} /\ BlocksOf(idx) = {} /\ Records = {} /\ ListedIn(todo) = {}
  BY <1>2 DEF ListedIn, BlocksOf, Records
<1>5. Used = {} /\ Holders = {} /\ InHand = {}
  BY <1>2, <1>4 DEF Used, Holders, InHand, Maintaining
<1>6. WorkInv /\ HandInv
  <2>1. TodoInv
    BY <1>2 DEF TodoInv
  <2>2. PostInv
    BY <1>2 DEF PostInv, Posting
  <2>3. PlaceInv
    BY <1>2 DEF PlaceInv, Purging
  <2>4. HandInv
    BY <1>2 DEF HandInv, Purging
  <2>. QED  BY <2>1, <2>2, <2>3, <2>4 DEF WorkInv
<1>7. FitInv /\ FilesInv
  BY <1>2, <1>3 DEF FilesInv, FitInv
<1>8. LengthInv
  BY <1>2 DEF LengthInv, Maintaining
<1>9. RecordsInv
  BY <1>5 DEF RecordsInv
<1>10. ListInv
  BY <1>2, <1>4 DEF ListInv, Apart, Maintaining
<1>11. RunInv /\ FixInv
  BY <1>2 DEF RunInv, FixInv
<1>12. LateInv
  BY <1>2, <1>3, <1>4 DEF LateInv
<1>13. StaleInv
  BY <1>3 DEF StaleInv
<1>14. TextsInv
  BY <1>2, <1>3 DEF TextsInv
<1>15. CountInv
  <2>1. Texts = {}
    BY <1>5 DEF Texts
  <2>2. \A b \in Block : Users(b) = {}
    BY <2>1 DEF Users
  <2>3. \A b \in Block : sda[b] = 0
    BY DEF Init
  <2>. QED  BY <2>2, <2>3, FS_EmptySet DEF CountInv
<1>16. PostedInv
  BY <1>2, <1>4 DEF PostedInv
<1>. QED  BY <1>1, <1>2, <1>6, <1>7, <1>8, <1>9, <1>10, <1>11, <1>12, <1>13, <1>14, <1>15, <1>16
          DEF RepairInv, StraightInv

LEMMA StraightNext ==
    ASSUME StraightInv, [Straight]_vars, TypeInv', WorkInv', FitInv'
    PROVE  StraightInv'
<1>. USE DEF StraightInv
<1>1. FitInv
  BY DEF FilesInv
<1>2. FilesInv' /\ HandInv'
  BY NextFiles, NextHand
<1>3. LengthInv' /\ RecordsInv'
  BY <1>1, LengthNext, RecordsNext
<1>4. ListInv' /\ RunInv' /\ FixInv'
  BY ListNext, RunNext, FixNext
<1>5. LateInv' /\ StaleInv'
  BY LateNext, StaleNext
<1>6. TextsInv' /\ CountInv'
  BY TextsNext, CountNext
<1>7. PostedInv'
  BY PostedNext
<1>. QED  BY <1>2, <1>3, <1>4, <1>5, <1>6, <1>7

\* Whoever is misled works on a base that is not as it was.
LEMMA MisledNext ==
    ASSUME TypeInv, misled => late, [Next]_vars
    PROVE  misled' => late'
<1>. USE DEF datVars, hdrVars, idxVars, workVars, ghosts
<1>1. ASSUME NEW i \in DOMAIN idx, FlagMessage(idx[i]) PROVE misled' => late'
  <2>1. idx[i] \in ListedIn(idx)
    BY DEF ListedIn
  <2>2. PICK from \in ListedIn(idx), at \in ListedIn(idx), h \in HeaderType :
            Flags(idx[i], from, at, h)
    BY <1>1, <2>1, FlagTyped
  <2>. QED  BY <2>2 DEF Flags
<1>2. CASE PurgeHeader
  <2>1. PICK found \in ListedIn(idx), h \in HeaderType : Purges(found, h)
    BY <1>2, PurgeHeaderTyped
  <2>. QED  BY <2>1 DEF Purges, Astray
<1>3. CASE PurgeNotFound
  BY <1>3 DEF PurgeNotFound, Astray
<1>4. CASE PurgeBadHeader
  <2>1. PICK found \in Found(Head(todo).num) : Astray(found.hblk # Head(todo).hblk)
    BY <1>4 DEF PurgeBadHeader
  <2>. QED  BY <2>1 DEF Astray
<1>5. ASSUME \/ \E shape \in Shapes, n \in HdrBlocks : StoreText(shape, n)
             \/ \E chosen \in SUBSET DOMAIN idx : MaintStart(chosen)
      PROVE  misled' => late'
  <2>1. misled' = misled /\ late' = (late \/ dirty)
    BY <1>5 DEF StoreText, MaintStart, StartWork
  <2>. QED  BY <2>1
<1>6. CASE \/ Refuse \/ PlaceHeader \/ WriteHeader \/ WriteIndex \/ WriteStatus
           \/ FlagIndex \/ PurgeData \/ PurgeBlocks \/ TruncateIndex \/ RewriteIndex
           \/ MaintStatus \/ Repair \/ Crash \/ UNCHANGED vars
  <2>1. UNCHANGED <<misled, late>>
    BY <1>6 DEF Refuse, PlaceHeader, WriteHeader, WriteIndex, WriteStatus, FlagIndex, PurgeData,
                PurgeBlocks, TruncateIndex, RewriteIndex, MaintStatus, Repair, FixStart,
                FixHeader, FixNoHeader, FixEnd, Crash, vars
  <2>. QED  BY <2>1
<1>. QED  BY <1>1, <1>2, <1>3, <1>4, <1>5, <1>6 DEF Next, AddMessage, Maintain

LEMMA NextInv == RepairInv /\ [Next]_vars => RepairInv'
<1>. SUFFICES ASSUME RepairInv, [Next]_vars PROVE RepairInv'
  OBVIOUS
<1>1. TypeInv /\ WorkInv /\ FitInv /\ (misled => late) /\ (misled \/ StraightInv)
  BY DEF RepairInv
<1>2. TypeInv' /\ WorkInv' /\ FitInv'
  BY <1>1, NextTyped, NextWork, NextFits
<1>3. misled' => late'
  BY <1>1, MisledNext
<1>4. ASSUME ~misled' PROVE StraightInv'
  <2>1. misled \/ FilesInv
    BY <1>1 DEF StraightInv
  <2>2. ~misled /\ [Straight]_vars
    BY <1>1, <1>4, <2>1, GoesStraight
  <2>. QED  BY <1>1, <1>2, <2>2, StraightNext
<1>. QED  BY <1>2, <1>3, <1>4 DEF RepairInv

LEMMA AlwaysRepairInv == Spec => []RepairInv
BY InitInv, NextInv, PTL DEF Spec

-----------------------------------------------------------------------------
(* What it is good for.                                                    *)

\* The types, as TypeOK states them.
LEMMA InvTypes == RepairInv => TypeOK
<1>. SUFFICES ASSUME RepairInv PROVE TypeOK
  OBVIOUS
<1>1. TypeInv
  BY DEF RepairInv
<1>2. MaxBlocks \in Nat
  BY MaxBlocksAssumption
<1>3. sda \in [Block -> Refs] /\ sdaLen \in 0 .. MaxBlocks /\ sdtLen \in 0 .. MaxBlocks
  BY <1>1 DEF TypeInv, DataTyped
<1>4. /\ sha \in [Block -> {0, 1}] /\ shaLen \in 0 .. MaxBlocks
      /\ shd \in [Block -> HeaderType \cup {NoHeader}] /\ shdLen \in 0 .. MaxBlocks
  BY <1>1, <1>2 DEF TypeInv, HeadTyped
<1>5. ASSUME NEW i \in DOMAIN idx
      PROVE  idx[i] \in RecordType /\ (~late => IsHeader(HeaderOf(idx[i])))
  <2>1. idx[i] \in RecordType
    BY <1>1, RecordsIn
  <2>2. ASSUME ~late PROVE IsHeader(HeaderOf(idx[i]))
    BY <2>2 DEF RepairInv, StraightInv, LateInv, BlocksOf, Starts, HeaderOf
  <2>. QED  BY <2>1, <2>2
<1>6. total \in Nat /\ lastMsg \in Nat
  BY <1>1 DEF TypeInv, IndexTyped
<1>7. pc \in Labels /\ cur \in HeaderType /\ renumber \in BOOLEAN /\ flagged \in 0 .. total
  BY <1>1 DEF TypeInv, WorkTyped
<1>8. pos \in 0 .. MaxBlocks + 1
  <2>1. pos \in 0 .. MaxBlocks
    BY <1>1 DEF TypeInv, WorkTyped
  <2>. QED  BY <1>2, <2>1
<1>. QED  BY <1>3, <1>4, <1>5, <1>6, <1>7, <1>8 DEF TypeOK

\* The records of a sound base at rest: one for each header that is used, with
\* its MSG_DELETE.
LEMMA AtRest ==
    ASSUME StraightInv, pc = "idle", ~dirty
    PROVE  /\ Sound /\ Used = BlocksOf(idx) /\ Holders = Used /\ InHand = {}
           /\ Used \subseteq Starts /\ Apart(idx)
           /\ \A e \in Records : /\ e.hblk \in Used /\ e.hblk \in Starts
                                 /\ HeaderOf(e) = shd[e.hblk] /\ TextOf(e) = shd[e.hblk].m
                                 /\ e.del = shd[e.hblk].del
           /\ \A b \in Used : \E e \in Records : e.hblk = b
           /\ \A e, f \in Records : e # f => e.hblk # f.hblk
<1>1. Sound /\ Used = BlocksOf(idx) /\ Holders = Used /\ InHand = {}
  BY DEF Sound, Used, Holders, InHand, Maintaining
<1>2. Used \subseteq Starts
  BY <1>1 DEF StraightInv, RecordsInv
<1>3. Apart(idx)
  BY <1>1 DEF StraightInv, ListInv, Maintaining
<1>4. ListedIn(todo) = {}
  <2>1. todo = <<>>
    BY DEF StraightInv, WorkInv, TodoInv, Maintaining
  <2>. QED  BY <2>1 DEF ListedIn
<1>5. \A e \in Records : e.del = HeaderOf(e).del
  BY <1>1, <1>4 DEF StraightInv, ListInv, Maintaining
<1>6. \A e \in Records : e.hblk \in BlocksOf(idx)
  BY DEF Records, BlocksOf
<1>7. \A b \in Used : \E e \in Records : e.hblk = b
  BY <1>1 DEF Records, BlocksOf
<1>8. \A e, f \in Records : e # f => e.hblk # f.hblk
  BY <1>3 DEF Records, Apart
<1>. QED  BY <1>1, <1>2, <1>3, <1>5, <1>6, <1>7, <1>8 DEF HeaderOf, TextOf

\* fixsmb indexes no header that has MSG_DELETE.
LEMMA InvResurrected == RepairInv => misled \/ NothingResurrected
<1>. SUFFICES ASSUME StraightInv, pc = "idle", ~dirty, NEW e \in Readable
              PROVE  TextOf(e).text \notin deleted
  BY DEF NothingResurrected, RepairInv
<1>1. e \in Records /\ ~e.del
  BY DEF Readable
<1>2. e.hblk \in Starts /\ TextOf(e) = shd[e.hblk].m /\ ~shd[e.hblk].del
  BY <1>1, AtRest
<1>. QED  BY <1>2 DEF StraightInv, FilesInv

LEMMA InvLost == RepairInv => NothingLost
<1>. SUFFICES ASSUME RepairInv, Undisturbed, NEW t \in posted \ doomed
              PROVE  \E e \in Readable : TextOf(e).text = t
  BY DEF NothingLost
<1>1. pc = "idle" /\ ~dirty /\ ~late /\ StraightInv
  BY DEF Undisturbed, RepairInv
<1>2. PICK a \in Starts : ~shd[a].del /\ shd[a].m.text = t
  BY <1>1 DEF StraightInv, PostedInv
<1>3. Sound
  BY <1>1 DEF Sound
<1>4. a \in Used
  BY <1>1, <1>2, <1>3 DEF StraightInv, StaleInv
<1>5. PICK e \in Records : e.hblk = a
  BY <1>1, <1>4, AtRest
<1>6. TextOf(e) = shd[a].m /\ e.del = shd[a].del
  BY <1>1, <1>5, AtRest
<1>. QED  BY <1>2, <1>5, <1>6 DEF Readable

LEMMA InvTextsDisjoint ==
    ASSUME OneField, RepairInv
    PROVE  TextsDisjoint
<1>. SUFFICES ASSUME Undisturbed, NEW e \in Readable, NEW f \in Readable, e # f
              PROVE  Extent(TextOf(e)) \cap Extent(TextOf(f)) = {}
  BY DEF TextsDisjoint
<1>1. pc = "idle" /\ ~dirty /\ ~late /\ StraightInv
  BY DEF Undisturbed, RepairInv
<1>2. e \in Records /\ ~e.del /\ f \in Records /\ ~f.del
  BY DEF Readable
<1>3. /\ e.hblk \in Starts /\ TextOf(e) = shd[e.hblk].m /\ ~shd[e.hblk].del
      /\ f.hblk \in Starts /\ TextOf(f) = shd[f.hblk].m /\ ~shd[f.hblk].del
  BY <1>1, <1>2, AtRest
<1>4. e.hblk # f.hblk
  BY <1>1, <1>2, AtRest
<1>. QED  BY <1>1, <1>3, <1>4 DEF StraightInv, TextsInv

LEMMA InvCounters ==
    ASSUME OneField, RepairInv
    PROVE  CountersExact
<1>. SUFFICES ASSUME Undisturbed, NEW b \in Block
              PROVE  sda[b] = Cardinality({e \in Records : b \in Extent(TextOf(e))})
  BY DEF CountersExact
<1>1. pc = "idle" /\ ~dirty /\ ~late /\ StraightInv
  BY DEF Undisturbed, RepairInv
<1>2. Sound /\ Used \subseteq Starts /\ Holders = Used /\ InHand = {}
  BY <1>1, AtRest
<1>3. sda[b] = Cardinality(Users(b))
  BY <1>1, <1>2 DEF StraightInv, CountInv
<1>4. IsFiniteSet(Users(b))
  BY <1>1, <1>2, UsersFinite DEF StraightInv
<1>5. Texts = {shd[c].m : c \in Used}
  BY <1>2 DEF Texts
<1>. DEFINE S == {e \in Records : b \in Extent(TextOf(e))}
            f == [e \in S |-> TextOf(e)]
<1>6. ASSUME NEW e \in S PROVE f[e] \in Users(b)
  <2>1. e \in Records /\ b \in Extent(TextOf(e)) /\ f[e] = TextOf(e)
    OBVIOUS
  <2>2. e.hblk \in Used /\ TextOf(e) = shd[e.hblk].m
    BY <1>1, <2>1, AtRest
  <2>. QED  BY <1>5, <2>1, <2>2 DEF Users
<1>7. ASSUME NEW e \in S, NEW g \in S, f[e] = f[g] PROVE e = g
  <2>1. /\ e \in Records /\ e.hblk \in Starts /\ f[e] = shd[e.hblk].m
        /\ g \in Records /\ g.hblk \in Starts /\ f[g] = shd[g.hblk].m
    BY <1>1, AtRest
  <2>2. e.hblk = g.hblk
    BY <1>1, <1>7, <2>1 DEF StraightInv, FilesInv
  <2>. QED  BY <1>1, <2>1, <2>2, AtRest
<1>8. ASSUME NEW m \in Users(b) PROVE \E e \in S : f[e] = m
  <2>1. PICK c \in Used : m = shd[c].m
    BY <1>5 DEF Users
  <2>2. PICK e \in Records : e.hblk = c
    BY <1>1, <2>1, AtRest
  <2>3. TextOf(e) = m
    BY <1>1, <2>1, <2>2, AtRest
  <2>4. e \in S
    BY <2>2, <2>3 DEF Users
  <2>. QED  BY <2>3, <2>4
<1>9. f \in [S -> Users(b)] /\ DOMAIN f = S
  BY <1>6
<1>. HIDE DEF f
<1>10. f \in Injection(S, Users(b)) /\ f \in Surjection(S, Users(b))
  BY <1>7, <1>8, <1>9 DEF Injection, IsInjective, Surjection
<1>11. Cardinality(S) = Cardinality(Users(b))
  BY <1>4, <1>10, FS_Injection
<1>. QED  BY <1>3, <1>11

LEMMA InvUsable ==
    ASSUME OneField, MaxPosts < RefModulus, RepairInv
    PROVE  misled \/ RepairedUsable
<1>. SUFFICES ASSUME pc = "idle", ~dirty, StraightInv PROVE RepairedUsable
  BY DEF RepairedUsable, RepairInv
<1>1. total = Len(idx)
  BY DEF StraightInv, LengthInv, Maintaining
<1>2. Sound /\ Holders = Used
  BY AtRest
<1>3. \A e \in Readable : e \in Records
  BY DEF Readable
<1>4. \A e \in Records : HdrExtent(e) = ExtentAt(e.hblk) /\ e.hblk \in Used
  BY AtRest DEF HdrExtent, ExtentAt
<1>5. ASSUME NEW e \in Readable, NEW f \in Readable, e # f
      PROVE  HdrExtent(e) \cap HdrExtent(f) = {}
  <2>1. e.hblk # f.hblk
    BY <1>3, <1>5, AtRest
  <2>. QED  BY <1>2, <1>3, <1>4, <2>1 DEF StraightInv, RecordsInv
<1>6. ASSUME NEW e \in Readable PROVE \A b \in HdrExtent(e) : sha[b] = 1
  BY <1>2, <1>3, <1>4 DEF StraightInv, RecordsInv
<1>7. ASSUME NEW e \in Readable, NEW b \in Extent(TextOf(e)) PROVE sda[b] > 0
  <2>1. e.hblk \in Holders /\ TextOf(e) = shd[e.hblk].m
    BY <1>2, <1>3, AtRest
  <2>2. /\ TextOf(e) \in Texts /\ b < sdaLen
        /\ TextOf(e).blk \in Nat /\ TextOf(e).body \in Nat /\ TextOf(e).tail \in Nat
    BY <1>2, <2>1, TextsKnown DEF StraightInv
  <2>3. b \in Block
    <3>1. DatBlocks(TextOf(e).body + TextOf(e).tail) \in Nat
      BY <2>2, DatBlocksType
    <3>2. b \in Nat
      BY <2>2, <3>1 DEF Extent
    <3>3. sdaLen \in 0 .. MaxBlocks
      BY DEF StraightInv, TypeInv, DataTyped
    <3>. QED  BY <2>2, <3>2, <3>3, MaxBlocksAssumption DEF Block
  <2>4. TextOf(e) \in Users(b)
    BY <2>2 DEF Users
  <2>5. IsFiniteSet(Users(b)) /\ Cardinality(Users(b)) \in Nat
    BY <1>2, UsersFinite DEF StraightInv
  <2>6. Cardinality(Users(b)) # 0
    BY <2>4, <2>5, FS_EmptySet
  <2>7. sda[b] = Cardinality(Users(b))
    BY <1>2, <2>3 DEF StraightInv, CountInv
  <2>. QED  BY <2>5, <2>6, <2>7
<1>. QED  BY <1>1, <1>5, <1>6, <1>7 DEF RepairedUsable

-----------------------------------------------------------------------------

\* A process may die between any two writes, others may work on what it left, and
\* a search for a number may find another message: the files stay well-formed, and
\* as long as nothing of the kind has happened, every index record points at the
\* start of a header.
THEOREM TypesRight == Spec => []TypeOK
BY AlwaysRepairInv, InvTypes, PTL

\* fixsmb indexes the headers it finds but those with MSG_DELETE: what
\* smb_updatemsg() or maint() once deleted stays deleted, however often processes
\* died and others worked on what they left, until a search for a number misses
\* the message that was meant (its header may then be written over another's).
THEOREM DeletedStays == Spec => [](misled \/ NothingResurrected)
BY AlwaysRepairInv, InvResurrected, PTL

\* smb_addmsg() writes the header before the index and the status, maint() the
\* index at the end: a message it has posted is found again by fixsmb.
THEOREM PostedStays == Spec => []NothingLost
BY AlwaysRepairInv, InvLost, PTL

\* smb_addmsg() allocates blocks no message uses, after fixsmb's recount as before.
THEOREM TextsApart ==
    ASSUME OneField
    PROVE  Spec => []TextsDisjoint
BY AlwaysRepairInv, InvTextsDisjoint, PTL

\* smb_incmsg_dfields() of fixsmb counts what smb_addmsg() had counted.
THEOREM CountsRight ==
    ASSUME OneField
    PROVE  Spec => []CountersExact
BY AlwaysRepairInv, InvCounters, PTL

\* fixsmb makes a base that smb_addmsghdr() and the readers can go on with,
\* whatever was done to it before, unless a counter overflows or a search for a
\* number has missed the message that was meant.
THEOREM UsableAgain ==
    ASSUME OneField, MaxPosts < RefModulus
    PROVE  Spec => [](misled \/ RepairedUsable)
BY AlwaysRepairInv, InvUsable, PTL
=============================================================================
