----------------------------- MODULE SmbBlocks ------------------------------
(***************************************************************************)
(* Blocks of a message base, data fields, and the search for a run of free *)
(* blocks: what the functions of src/smblib/smballoc.c compute from their  *)
(* arguments and an allocation table.  A block is known by its number,     *)
(* where the code has offsets that are multiples of the block length.      *)
(***************************************************************************)
EXTENDS Integers

CONSTANTS
    BlockLen,     \* SDT_BLOCK_LEN, 256 in the code
    RefModulus,   \* 2^16: the counters of the .sda file are uint16_t
    MaxBlocks,    \* bound: the data and header files have at most so many blocks
    Hyper         \* TRUE when the base has the SMB_HYPERALLOC attribute

ASSUME BlockLenAssumption == BlockLen \in Nat \ {0}
ASSUME RefModulusAssumption == RefModulus \in Nat /\ RefModulus > 1
ASSUME MaxBlocksAssumption == MaxBlocks \in Nat
ASSUME HyperAssumption == Hyper \in BOOLEAN

Block == 0 .. MaxBlocks - 1
Refs == 0 .. RefModulus - 1
LargerOf(a, b) == IF a > b THEN a ELSE b

\* smb_datblocks(): the number of blocks that hold len bytes.
DatBlocks(len) == (len + BlockLen - 1) \div BlockLen

\* The blocks in which the bytes of a text lie: body and tail follow each other.
Extent(m) == m.blk .. m.blk + DatBlocks(m.body + m.tail) - 1

\* Mistakes a change to the loop bounds could make (for the mutants): one block
\* too many for a field that fills its last block, one too few otherwise.
FieldBlocksOneMore(m, field) ==
    LET first == IF field = "body" THEN m.blk ELSE m.blk + m.body \div BlockLen
        len   == IF field = "body" THEN m.body ELSE m.tail
    IN  first .. first + len \div BlockLen

FieldBlocksOneLess(m, field) ==
    LET first == IF field = "body" THEN m.blk ELSE m.blk + m.body \div BlockLen
        len   == IF field = "body" THEN m.body ELSE m.tail
    IN  first .. first + len \div BlockLen - 1

\* Mutant: every field is taken to start a block.
FieldBlocksAligned(m, field) ==
    LET first == IF field = "body" THEN m.blk ELSE m.blk + DatBlocks(m.body)
        len   == IF field = "body" THEN m.body ELSE m.tail
    IN  first .. first + DatBlocks(len) - 1

\* The blocks smb_freemsgdat() and smb_incdat() visit for a data field: the
\* field starts at the sum of the lengths before it (smb_dfield()), and as many
\* blocks are visited as a field of its length needs if it starts a block.
FieldBlocks(m, field) ==
    LET first == IF field = "body" THEN m.blk ELSE m.blk + m.body \div BlockLen
        len   == IF field = "body" THEN m.body ELSE m.tail
    IN  first .. first + DatBlocks(len) - 1

\* Mutant: the counter is decremented without the look at its value.
FreeFieldUnchecked(table, m, field) ==
    [b \in Block |-> IF b \in FieldBlocks(m, field) THEN table[b] - 1 ELSE table[b]]

\* smb_freemsgdat() with refs = 1: a counter that is already 0 stays 0.
FreeField(table, m, field) ==
    [b \in Block |-> IF b \in FieldBlocks(m, field) /\ table[b] > 0
                     THEN table[b] - 1 ELSE table[b]]

\* smb_freemsg_dfields() with refs = 1.
FreeFields(table, m) == FreeField(FreeField(table, m, "body"), m, "tail")

\* Mutant: the search stops one record before the run is long enough.
FirstFitShort(table, len, n) ==
    LET runs == {b \in 0 .. len - n : \A k \in b .. b + n - 2 : table[k] = 0}
    IN  IF runs = {} THEN len
        ELSE CHOOSE b \in runs : \A c \in runs : b <= c

\* The first block of a free run, as smb_allocdat() and smb_allochdr() find it:
\* the lowest run of n zero records, or the end of the table when there is none
\* (free records at the very end of the table are not extended into a run).
FirstFit(table, len, n) ==
    LET runs == {b \in 0 .. len - n : \A k \in b .. b + n - 1 : table[k] = 0}
    IN  IF runs = {} THEN len
        ELSE CHOOSE b \in runs : \A c \in runs : b <= c

\* Where n blocks go: smb_allocdat()/smb_allochdr(), smb_fallocdat()/
\* smb_fallochdr() or smb_hallocdat()/smb_hallochdr().
Place(table, len, fileLen, mode, n) ==
    IF Hyper THEN fileLen
    ELSE IF mode = "fast" THEN len
    ELSE FirstFit(table, len, n)

MarkUsed(table, first, n) ==
    [b \in DOMAIN table |-> IF b \in first .. first + n - 1 THEN 1 ELSE table[b]]
=============================================================================
