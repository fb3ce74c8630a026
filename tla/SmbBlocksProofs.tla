-------------------------- MODULE SmbBlocksProofs ---------------------------
(* Facts about the operators of SmbBlocks: what the search for free blocks  *)
(* returns, which counters an operation on a data field changes.            *)
EXTENDS SmbBlocks, TLAPS, WellFoundedInduction

USE DEF Block

\* Every non-empty set of naturals has a least element.
LEMMA LeastNatural ==
    ASSUME NEW S \in SUBSET Nat, S # {}
    PROVE  \E x \in S : \A y \in S : x <= y
<1>. DEFINE R == OpToRel(<, Nat)
<1>1. \E x \in S : \A y \in S : ~(<<y, x>> \in R)
  BY NatLessThanWellFounded, WFMin, Zenon
<1>2. \A x, y \in Nat : y < x => <<y, x>> \in R
  BY DEF OpToRel
<1>. HIDE DEF R
<1>3. PICK x \in S : \A y \in S : ~(<<y, x>> \in R)
  BY <1>1
<1>4. \A y \in S : ~(y < x)
  BY <1>2, <1>3
<1>. QED  BY <1>3, <1>4

LEMMA DatBlocksType ==
    ASSUME NEW len \in Nat
    PROVE  DatBlocks(len) \in Nat
BY BlockLenAssumption DEF DatBlocks

LEMMA DatBlocksZero == DatBlocks(0) = 0
BY BlockLenAssumption DEF DatBlocks

\* What first fit returns: a block number up to the end of the table such that
\* the n blocks from there on are free or beyond the end.
LEMMA FirstFitFree ==
    ASSUME NEW table \in [Block -> Nat], NEW len \in 0 .. MaxBlocks, NEW n \in Nat
    PROVE  /\ FirstFit(table, len, n) \in 0 .. len
           /\ \A k \in FirstFit(table, len, n) .. FirstFit(table, len, n) + n - 1 :
                 k < len => table[k] = 0
<1>. DEFINE runs == {b \in 0 .. len - n : \A k \in b .. b + n - 1 : table[k] = 0}
<1>0. len \in Nat
  BY MaxBlocksAssumption
<1>1. CASE runs = {}
  <2>1. FirstFit(table, len, n) = len
    BY <1>1 DEF FirstFit
  <2>. QED  BY <2>1, <1>0
<1>2. CASE runs # {}
  <2>1. runs \in SUBSET Nat
    BY <1>0
  <2>2. \E b \in runs : \A c \in runs : b <= c
    BY <2>1, <1>2, LeastNatural
  <2>3. FirstFit(table, len, n) = CHOOSE b \in runs : \A c \in runs : b <= c
    BY <1>2 DEF FirstFit
  <2>4. FirstFit(table, len, n) \in runs
    BY <2>2, <2>3
  <2>. QED  BY <2>4, <1>0
<1>. QED  BY <1>1, <1>2

\* Inside the table it is the lowest run there is.
LEMMA FirstFitLeast ==
    ASSUME NEW table \in [Block -> Nat], NEW len \in 0 .. MaxBlocks, NEW n \in Nat,
           FirstFit(table, len, n) < len
    PROVE  /\ FirstFit(table, len, n) + n <= len
           /\ \A c \in Nat : c < FirstFit(table, len, n) =>
                  \E k \in c .. c + n - 1 : table[k] # 0
<1>. DEFINE runs == {b \in 0 .. len - n : \A k \in b .. b + n - 1 : table[k] = 0}
<1>1. len \in Nat
  BY MaxBlocksAssumption
<1>2. runs # {}
  <2>1. runs = {} => FirstFit(table, len, n) = len
    BY DEF FirstFit
  <2>. QED  BY <1>1, <2>1
<1>3. FirstFit(table, len, n) = CHOOSE b \in runs : \A c \in runs : b <= c
  BY <1>2 DEF FirstFit
<1>4. \E b \in runs : \A c \in runs : b <= c
  <2>1. runs \in SUBSET Nat
    BY <1>1
  <2>. QED  BY <2>1, <1>2, LeastNatural
<1>5. FirstFit(table, len, n) \in runs /\ \A c \in runs : FirstFit(table, len, n) <= c
  BY <1>3, <1>4
<1>6. ASSUME NEW c \in Nat, c < FirstFit(table, len, n)
      PROVE  \E k \in c .. c + n - 1 : table[k] # 0
  <2>1. c \in 0 .. len - n /\ c \notin runs
    BY <1>1, <1>5, <1>6
  <2>. QED  BY <2>1
<1>7. FirstFit(table, len, n) + n <= len
  BY <1>1, <1>5
<1>. QED  BY <1>6, <1>7

LEMMA LargerOfType ==
    ASSUME NEW a \in 0 .. MaxBlocks, NEW b \in 0 .. MaxBlocks
    PROVE  /\ LargerOf(a, b) \in 0 .. MaxBlocks
           /\ LargerOf(a, b) >= a /\ LargerOf(a, b) >= b
BY MaxBlocksAssumption DEF LargerOf

\* The three ways to place n blocks agree in this: the blocks from there on are
\* free or beyond the end of what is in use.
LEMMA PlaceFree ==
    ASSUME NEW table \in [Block -> Nat], NEW len \in 0 .. MaxBlocks,
           NEW fileLen \in 0 .. MaxBlocks, NEW mode, NEW n \in Nat
    PROVE  LET p == Place(table, len, fileLen, mode, n)
           IN  /\ p \in 0 .. MaxBlocks
               /\ Hyper => p = fileLen
               /\ ~Hyper => \A k \in p .. p + n - 1 : k < len => table[k] = 0
<1>1. CASE Hyper
  BY <1>1 DEF Place
<1>2. CASE ~Hyper /\ mode = "fast"
  BY <1>2, MaxBlocksAssumption DEF Place
<1>3. CASE ~Hyper /\ mode # "fast"
  <2>1. Place(table, len, fileLen, mode, n) = FirstFit(table, len, n)
    BY <1>3 DEF Place
  <2>a. FirstFit(table, len, n) \in 0 .. len
    BY FirstFitFree
  <2>2. FirstFit(table, len, n) \in 0 .. MaxBlocks
    BY <2>a, MaxBlocksAssumption
  <2>. QED  BY <2>1, <2>2, <1>3, FirstFitFree
<1>. QED  BY <1>1, <1>2, <1>3

LEMMA MarkUsedValue ==
    ASSUME NEW table, DOMAIN table = Block, NEW first, NEW n
    PROVE  \A b \in Block : MarkUsed(table, first, n)[b] =
               IF b \in first .. first + n - 1 THEN 1 ELSE table[b]
BY DEF MarkUsed

LEMMA MarkUsedType ==
    ASSUME NEW T, 1 \in T, NEW table \in [Block -> T], NEW first, NEW n
    PROVE  MarkUsed(table, first, n) \in [Block -> T]
BY DEF MarkUsed

LEMMA FreeFieldType ==
    ASSUME NEW table \in [Block -> Refs], NEW m, NEW field
    PROVE  FreeField(table, m, field) \in [Block -> Refs]
BY RefModulusAssumption DEF FreeField, Refs

LEMMA FreeFieldsType ==
    ASSUME NEW table \in [Block -> Refs], NEW m
    PROVE  FreeFields(table, m) \in [Block -> Refs]
BY FreeFieldType DEF FreeFields

-----------------------------------------------------------------------------
(* Data fields.                                                            *)

\* Division: what is needed of it to count blocks.
LEMMA DivBelow ==
    ASSUME NEW B \in Nat \ {0}, NEW a \in Nat
    PROVE  a \div B \in Nat /\ B * (a \div B) <= a /\ a < B * (a \div B) + B
OBVIOUS

LEMMA TimesLess ==
    ASSUME NEW B \in Nat \ {0}, NEW j \in Nat, NEW k \in Nat, j < k
    PROVE  B * j + B <= B * k
<1>1. B * (j + 1) <= B * k
  OBVIOUS
<1>. QED  BY <1>1

LEMMA DivAtLeast ==
    ASSUME NEW B \in Nat \ {0}, NEW a \in Nat, NEW k \in Nat, B * k <= a
    PROVE  k <= a \div B
<1>. DEFINE j == a \div B
<1>1. j \in Nat /\ a < B * j + B
  BY DivBelow
<1>. HIDE DEF j
<1>2. j < k => B * j + B <= B * k
  BY <1>1, TimesLess
<1>. DEFINE x == B * j
            y == B * k
<1>3. x \in Nat /\ y \in Nat
  BY <1>1
<1>. HIDE DEF x, y
<1>4. ~(j < k)
  <2>1. j < k => x + B <= y
    BY <1>2 DEF x, y
  <2>2. a < x + B /\ y <= a
    BY <1>1 DEF x, y
  <2>. QED  BY <1>3, <2>1, <2>2
<1>. QED  BY <1>1, <1>4 DEF j

\* No data field ends behind the text, wherever in its blocks it starts.
LEMMA FieldEnds ==
    ASSUME NEW body \in Nat, NEW tail \in Nat
    PROVE  /\ body \div BlockLen + DatBlocks(tail) <= DatBlocks(body + tail)
           /\ DatBlocks(body) <= DatBlocks(body + tail)
           /\ body \div BlockLen \in Nat
<1>. DEFINE B == BlockLen
            q == body \div B
            t == DatBlocks(tail)
            d == DatBlocks(body)
<1>0. B \in Nat \ {0}
  BY BlockLenAssumption
<1>1. q \in Nat /\ B * q <= body
  BY <1>0, DivBelow
<1>2. t \in Nat /\ B * t <= tail + B - 1
  <2>1. tail + B - 1 \in Nat
    BY <1>0
  <2>. QED  BY <1>0, <2>1, DivBelow DEF DatBlocks
<1>3. d \in Nat /\ B * d <= body + B - 1
  <2>1. body + B - 1 \in Nat
    BY <1>0
  <2>. QED  BY <1>0, <2>1, DivBelow DEF DatBlocks
<1>. HIDE DEF q, t, d, B
<1>4. B * (q + t) = B * q + B * t
  BY <1>0, <1>1, <1>2
<1>5. B * q \in Nat /\ B * t \in Nat /\ B * d \in Nat
  BY <1>0, <1>1, <1>2, <1>3
<1>. DEFINE l == body + tail + B - 1
<1>6. l \in Nat /\ B * (q + t) <= l /\ B * d <= l /\ q + t \in Nat
  BY <1>0, <1>1, <1>2, <1>3, <1>4, <1>5
<1>. HIDE DEF l
<1>7. q + t <= l \div B /\ d <= l \div B
  BY <1>0, <1>3, <1>6, DivAtLeast
<1>. QED  BY <1>1, <1>7 DEF q, t, d, l, B, DatBlocks

\* With one data field, the blocks that are freed are the blocks of the text.
LEMMA OneFieldBlocks ==
    ASSUME NEW m, m.blk \in Nat, m.body \in Nat, m.tail = 0
    PROVE  FieldBlocks(m, "body") = Extent(m) /\ FieldBlocks(m, "tail") = {}
<1>2. FieldBlocks(m, "body") = Extent(m)
  <2>1. m.body + m.tail = m.body
    OBVIOUS
  <2>. QED  BY <2>1 DEF FieldBlocks, Extent
<1>3. FieldBlocks(m, "tail") = {}
  <2>1. m.blk + m.body \div BlockLen \in Int
    BY BlockLenAssumption
  <2>2. \A k \in Int : k .. k + 0 - 1 = {}
    OBVIOUS
  <2>. QED  BY <2>1, <2>2, DatBlocksZero DEF FieldBlocks
<1>. QED  BY <1>2, <1>3

LEMMA FreeFieldNothing ==
    ASSUME NEW table \in [Block -> Refs], NEW m, NEW field, FieldBlocks(m, field) = {}
    PROVE  FreeField(table, m, field) = table
BY DEF FreeField

\* smb_freemsgdat() changes no counter outside of the text.
LEMMA FieldInside ==
    ASSUME NEW m, m.blk \in Nat, m.body \in Nat, m.tail \in Nat,
           NEW field \in {"body", "tail"}
    PROVE  FieldBlocks(m, field) \subseteq Extent(m)
<1>. DEFINE q == m.body \div BlockLen
            d == DatBlocks(m.body)
            t == DatBlocks(m.tail)
            all == DatBlocks(m.body + m.tail)
<1>2. q + t <= all /\ d <= all /\ q \in Nat
  BY FieldEnds
<1>3. d \in Nat /\ t \in Nat /\ all \in Nat
  BY DatBlocksType
<1>4. Extent(m) = m.blk .. m.blk + all - 1
  BY DEF Extent
<1>5. /\ field = "body" => FieldBlocks(m, field) = m.blk .. m.blk + d - 1
      /\ field = "tail" => FieldBlocks(m, field) = m.blk + q .. m.blk + q + t - 1
  BY DEF FieldBlocks
<1>. HIDE DEF q, d, t, all
<1>6. m.blk .. m.blk + d - 1 \subseteq m.blk .. m.blk + all - 1
  BY <1>2, <1>3
<1>7. m.blk + q .. m.blk + q + t - 1 \subseteq m.blk .. m.blk + all - 1
  BY <1>2, <1>3
<1>. QED  BY <1>4, <1>5, <1>6, <1>7

LEMMA FieldsInside ==
    ASSUME NEW table \in [Block -> Refs], NEW m, m.blk \in Nat, m.body \in Nat,
           m.tail \in Nat, NEW b \in Block, b \notin Extent(m)
    PROVE  /\ FreeField(table, m, "body")[b] = table[b]
           /\ FreeField(table, m, "tail")[b] = table[b]
           /\ FreeFields(table, m)[b] = table[b]
<1>1. b \notin FieldBlocks(m, "body") /\ b \notin FieldBlocks(m, "tail")
  BY FieldInside
<1>. QED  BY <1>1 DEF FreeField, FreeFields
\* With one data field, each block of the text loses one reference.
LEMMA OneFieldFreed ==
    ASSUME NEW table, NEW m, m.blk \in Nat, m.body \in Nat, m.tail = 0, NEW b \in Block
    PROVE  FreeFields(table, m)[b] =
               IF b \in Extent(m) /\ table[b] > 0 THEN table[b] - 1 ELSE table[b]
<1>1. FieldBlocks(m, "body") = Extent(m) /\ FieldBlocks(m, "tail") = {}
  BY OneFieldBlocks
<1>2. FreeFields(table, m)[b] = FreeField(table, m, "body")[b]
  BY <1>1 DEF FreeFields, FreeField
<1>. QED  BY <1>1, <1>2 DEF FreeField
=============================================================================
