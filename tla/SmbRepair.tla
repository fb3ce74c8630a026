------------------------------ MODULE SmbRepair ------------------------------
(***************************************************************************)
(* Crashes and repair.  A message base is four files that smb_addmsg()     *)
(* (src/smblib/smbadd.c, smblib.c) and maint() (src/sbbs3/smbutil.c) write *)
(* one after the other with the base locked; a process that dies between   *)
(* two writes leaves them inconsistent, and fixsmb (src/sbbs3/fixsmb.c)    *)
(* rebuilds the index and both allocation tables from the headers.         *)
(*                                                                         *)
(* The lock leaves one process at work at a time, so there is one program  *)
(* counter; other processes only see the states in which it is "idle".     *)
(***************************************************************************)
EXTENDS SmbBlocks, Sequences, FiniteSets, Functions

CONSTANTS
    Shapes,        \* the [body, tail] lengths a message may have
    HdrBlocks,     \* the numbers of blocks a header may need
    MaxPosts,      \* bound: smb_addmsg is called at most so often
    MaxCrashes     \* bound: at most so many crashes

ASSUME RepairAssumption ==
    /\ Shapes \subseteq [body : Nat, tail : Nat]
    /\ HdrBlocks \subseteq Nat \ {0}
    /\ MaxPosts \in Nat /\ MaxCrashes \in Nat

VARIABLES
    sda, sdaLen,      \* the data allocation table and its number of records
    sha, shaLen,      \* the header allocation table and its number of records
    sdtLen,           \* the length of the data file, in blocks
    shd, shdLen,      \* the header file: what is in each block, and its length
    idx,              \* the index: records with number, header block, MSG_DELETE
    total, lastMsg,   \* smb->status.total_msgs and last_msg
    pc,               \* where the process at work is
    cur,              \* the message in its memory
    todo, keep,       \* maint(): the records to purge and those to write back
    flagged,          \* maint(): how many records it leaves out
    pos, renumber,    \* fixsmb: the header block it is at, and its option
    dirty,            \* ghost: damaged, by a crash or a misled search, and not repaired
    late,             \* ghost: somebody worked on the base while it was dirty, or
                      \* was misled
    misled,           \* ghost: a search for a number missed the message that was meant
    posted,           \* ghost: the texts whose smb_addmsg() returned success
    doomed,           \* ghost: the texts somebody started to delete
    deleted,          \* ghost: the texts whose header was written MSG_DELETE in its place
    copies,           \* ghost: the blocks where it was written over another header
    posts, crashes    \* ghost: the numbers of posts and crashes so far

datVars == <<sda, sdaLen, sdtLen>>
hdrVars == <<sha, shaLen, shd, shdLen>>
idxVars == <<idx, total, lastMsg>>
workVars == <<cur, todo, keep, flagged, pos, renumber>>
ghosts == <<dirty, late, misled, posted, doomed, deleted, copies, posts, crashes>>
vars == <<datVars, hdrVars, idxVars, workVars, pc, ghosts>>

-----------------------------------------------------------------------------
\* What a block of the header file holds: the start of a header, or bytes that
\* smb_getmsghdr() does not take for one.
NoHeader == [num |-> 0]
NoText == [text |-> 0, blk |-> 0, body |-> 0, tail |-> 0]
IsHeader(h) == h # NoHeader

HeaderOf(e) == shd[e.hblk]

WriteHeaderAt(b, h) ==
    shd' = [k \in Block |-> IF k = b THEN h
                            ELSE IF k \in b + 1 .. b + h.n - 1 THEN NoHeader
                            ELSE shd[k]]

FreeRun(table, b, n) ==
    [k \in Block |-> IF k \in b .. b + n - 1 THEN 0 ELSE table[k]]

\* smb_incmsg_dfields() with refs = 1.
CountField(table, m, field) ==
    [k \in Block |-> IF k \in FieldBlocks(m, field) THEN (table[k] + 1) % RefModulus
                     ELSE table[k]]
CountFields(table, m) == CountField(CountField(table, m, "body"), m, "tail")

NoWork == [num |-> 0, n |-> 1, del |-> FALSE, m |-> NoText]

Init ==
    /\ sda = [b \in Block |-> 0] /\ sdaLen = 0 /\ sdtLen = 0
    /\ sha = [b \in Block |-> 0] /\ shaLen = 0
    /\ shd = [b \in Block |-> NoHeader] /\ shdLen = 0
    /\ idx = <<>> /\ total = 0 /\ lastMsg = 0
    /\ pc = "idle"
    /\ cur = NoWork /\ todo = <<>> /\ keep = <<>> /\ flagged = 0 /\ pos = 0 /\ renumber = FALSE
    /\ dirty = FALSE /\ late = FALSE /\ misled = FALSE
    /\ posted = {} /\ doomed = {} /\ deleted = {} /\ copies = {} /\ posts = 0 /\ crashes = 0

\* A process starts to work on the base, be it damaged.
StartWork == pc = "idle" /\ late' = (late \/ dirty)

-----------------------------------------------------------------------------
(* smb_addmsg() and smb_addmsghdr().                                       *)

StoreText(shape, n) ==
    LET k == DatBlocks(shape.body + shape.tail)
        b == FirstFit(sda, sdaLen, k)
    IN  /\ StartWork /\ posts < MaxPosts
        /\ b + k <= MaxBlocks
        /\ posts' = posts + 1
        /\ sda' = MarkUsed(sda, b, k)
        /\ sdaLen' = LargerOf(sdaLen, b + k)
        /\ sdtLen' = LargerOf(sdtLen, b + k)
        /\ cur' = [num |-> lastMsg + 1, n |-> n, del |-> FALSE,
                   m |-> [text |-> posts + 1, blk |-> b,
                          body |-> shape.body, tail |-> shape.tail]]
        /\ pc' = "stored"
        /\ UNCHANGED <<hdrVars, idxVars, todo, keep, flagged, pos, renumber, dirty, misled,
                       posted, doomed, deleted, copies, crashes>>

\* The index has as many records as the status says.
LengthAsExpected == Len(idx) = total

\* SMB_ERR_FILE_LEN: the data fields are freed again.
Refuse ==
    /\ pc = "stored" /\ ~LengthAsExpected
    /\ sda' = FreeFields(sda, cur.m)
    /\ pc' = "idle"
    /\ UNCHANGED <<sdaLen, sdtLen, hdrVars, idxVars, workVars, ghosts>>

PlaceHeader ==
    LET b == FirstFit(sha, shaLen, cur.n)
    IN  /\ pc = "stored" /\ LengthAsExpected
        /\ b + cur.n <= MaxBlocks
        /\ sha' = MarkUsed(sha, b, cur.n)
        /\ shaLen' = LargerOf(shaLen, b + cur.n)
        /\ pos' = b
        /\ pc' = "placed"
        /\ UNCHANGED <<datVars, shd, shdLen, idxVars, cur, todo, keep, flagged, renumber, ghosts>>

WriteHeader ==
    /\ pc = "placed"
    /\ WriteHeaderAt(pos, cur)
    /\ shdLen' = LargerOf(shdLen, pos + cur.n)
    /\ copies' = copies \ (pos .. pos + cur.n - 1)
    /\ pc' = "written"
    /\ UNCHANGED <<datVars, sha, shaLen, idxVars, workVars,
                   dirty, late, misled, posted, doomed, deleted, posts, crashes>>

WriteIndex ==
    /\ pc = "written"
    /\ idx' = Append(idx, [num |-> cur.num, hblk |-> pos, del |-> FALSE])
    /\ pc' = "indexed"
    /\ UNCHANGED <<datVars, hdrVars, total, lastMsg, workVars, ghosts>>

WriteStatus ==
    /\ pc = "indexed"
    /\ lastMsg' = lastMsg + 1 /\ total' = total + 1
    /\ posted' = posted \cup {cur.m.text}
    /\ pc' = "idle"
    /\ UNCHANGED <<datVars, hdrVars, idx, workVars,
                   dirty, late, misled, doomed, deleted, copies, posts, crashes>>

AddMessage ==
    \/ \E shape \in Shapes, n \in HdrBlocks : StoreText(shape, n)
    \/ Refuse \/ PlaceHeader \/ WriteHeader \/ WriteIndex \/ WriteStatus

-----------------------------------------------------------------------------
(* Deletion: smb_updatemsg() flags a message, maint() purges.              *)

\* Mutant: the attribute is set in the index only.
SetDeletedNowhere(h) == h

SetDeleted(h) == [num |-> h.num, n |-> h.n, del |-> TRUE, m |-> h.m]

\* smb_init_idx() gives the record the number and attributes of the header.
IndexDeleted(e, h) ==
    [i \in DOMAIN idx |-> IF idx[i] = e THEN [num |-> h.num, hblk |-> e.hblk, del |-> TRUE]
                          ELSE idx[i]]

\* smb_getmsgidx() searches the index for a number.  It comes upon one of the
\* records with it (a number may be given again after a crash), and may miss
\* them all where fixsmb died before it had sorted the index.
Records == {idx[i] : i \in DOMAIN idx}
Found(num) == {e \in Records : e.num = num}
MayMiss(num) ==
    Found(num) = {} \/ \E i, j \in DOMAIN idx : i < j /\ idx[i].num > idx[j].num

TextsOf(records) == {HeaderOf(e).m.text : e \in {f \in records : IsHeader(HeaderOf(f))}}

\* loadmsg() read the header of record "from", by its offset or after a search
\* for the number of the message e that is meant; smb_updatemsg() searches again
\* for the number in the header and smb_putmsg() writes it at the record found,
\* the index record next (under the base's lock there is no second search).
FlagMessage(e) ==
    /\ pc = "idle" /\ ~e.del
    /\ \E from \in {e} \cup Found(e.num) : \E at \in {from} \cup Found(HeaderOf(from).num) :
        LET h == SetDeleted(HeaderOf(from))
            other == at.hblk # from.hblk
        IN  /\ IsHeader(HeaderOf(from))
            /\ at.hblk + h.n <= MaxBlocks
            /\ WriteHeaderAt(at.hblk, h)
            /\ shdLen' = LargerOf(shdLen, at.hblk + h.n)
            /\ cur' = h /\ pos' = at.hblk /\ todo' = <<at>>
            /\ dirty' = (dirty \/ other)
            /\ misled' = (misled \/ other \/ from.hblk # e.hblk)
            /\ late' = (late \/ dirty \/ other \/ from.hblk # e.hblk)
            /\ deleted' = IF other \/ at.hblk \in copies THEN deleted
                          ELSE deleted \cup {h.m.text}
            /\ copies' = IF other
                         THEN (copies \ (at.hblk .. at.hblk + h.n - 1)) \cup {at.hblk}
                         ELSE copies
    /\ doomed' = doomed \cup TextsOf({e})
    /\ pc' = "flag"
    /\ UNCHANGED <<datVars, sha, shaLen, idxVars, keep, flagged, renumber, posted, posts, crashes>>

FlagIndex ==
    /\ pc = "flag"
    /\ idx' = IndexDeleted(Head(todo), cur)
    /\ todo' = Tail(todo)
    /\ pc' = "idle"
    /\ UNCHANGED <<datVars, hdrVars, total, lastMsg, cur, keep, flagged, pos, renumber, ghosts>>

\* The records of the index in another order, or some of them.
Reordered(at) == [i \in DOMAIN at |-> idx[at[i]]]

\* The records at some places of the index, one after the other.
InOrder(places) ==
    {Reordered(at) : at \in {f \in Surjection(1 .. Cardinality(places), places) :
                            \A i, j \in DOMAIN f : i < j => f[i] < f[j]}}

\* maint() loads as many records as the status says and picks the flagged ones
\* and any others (too old, too many).
MaintStart(chosen) ==
    LET loaded == {i \in DOMAIN idx : i <= total}
        purge  == {i \in loaded : idx[i].del \/ i \in chosen}
    IN  /\ StartWork /\ purge # {}
        /\ todo' \in InOrder(purge)
        /\ keep' \in InOrder(loaded \ purge)
        /\ doomed' = doomed \cup TextsOf({idx[i] : i \in purge})
        /\ flagged' = Cardinality(purge)
        /\ pc' = "maint"
        /\ UNCHANGED <<datVars, hdrVars, idxVars, cur, pos, renumber,
                       dirty, misled, posted, deleted, copies, posts, crashes>>

\* The search went astray: a record is left out of the index and its message
\* has not been freed, another's may have been.
Astray(wrong) ==
    dirty' = (dirty \/ wrong) /\ late' = (late \/ wrong) /\ misled' = (misled \/ wrong)

\* The number of each record is searched, and the message found is flagged and
\* freed, though the index is written back without the record searched for.
PurgeHeader ==
    /\ pc = "maint" /\ todo # <<>>
    /\ \E found \in Found(Head(todo).num) :
        LET h == SetDeleted(HeaderOf(found))
        IN  /\ IsHeader(HeaderOf(found))
            /\ WriteHeaderAt(found.hblk, h)
            /\ cur' = h /\ pos' = found.hblk
            /\ idx' = IndexDeleted(found, h)
            /\ Astray(found.hblk # Head(todo).hblk)
            /\ deleted' = IF found.hblk \in copies THEN deleted ELSE deleted \cup {h.m.text}
    /\ pc' = "purge data"
    /\ UNCHANGED <<datVars, sha, shaLen, shdLen, total, lastMsg, todo, keep, flagged, renumber,
                   posted, doomed, copies, posts, crashes>>

\* A number that is not found is passed over.
PurgeNotFound ==
    /\ pc = "maint" /\ todo # <<>>
    /\ MayMiss(Head(todo).num)
    /\ Astray(TRUE)
    /\ todo' = Tail(todo)
    /\ UNCHANGED <<datVars, hdrVars, idxVars, cur, keep, flagged, pos, renumber, pc,
                   posted, doomed, deleted, copies, posts, crashes>>

\* A header that cannot be read ends the loop.
PurgeBadHeader ==
    /\ pc = "maint" /\ todo # <<>>
    /\ \E found \in Found(Head(todo).num) :
          ~IsHeader(HeaderOf(found)) /\ Astray(found.hblk # Head(todo).hblk)
    /\ todo' = <<>>
    /\ UNCHANGED <<datVars, hdrVars, idxVars, cur, keep, flagged, pos, renumber, pc,
                   posted, doomed, deleted, copies, posts, crashes>>

PurgeData ==
    /\ pc = "purge data"
    /\ sda' = FreeFields(sda, cur.m)
    /\ pc' = "purge blocks"
    /\ UNCHANGED <<sdaLen, sdtLen, hdrVars, idxVars, workVars, ghosts>>

PurgeBlocks ==
    /\ pc = "purge blocks"
    /\ sha' = FreeRun(sha, pos, cur.n)
    /\ todo' = Tail(todo)
    /\ pc' = "maint"
    /\ UNCHANGED <<datVars, shaLen, shd, shdLen, idxVars, cur, keep, flagged, pos, renumber, ghosts>>

TruncateIndex ==
    /\ pc = "maint" /\ todo = <<>>
    /\ idx' = <<>>
    /\ pc' = "rewrite"
    /\ UNCHANGED <<datVars, hdrVars, total, lastMsg, workVars, ghosts>>

RewriteIndex ==
    /\ pc = "rewrite"
    /\ idx' = keep
    /\ pc' = "rewritten"
    /\ UNCHANGED <<datVars, hdrVars, total, lastMsg, workVars, ghosts>>

MaintStatus ==
    /\ pc = "rewritten"
    /\ total' = total - flagged
    /\ keep' = <<>> /\ flagged' = 0
    /\ pc' = "idle"
    /\ UNCHANGED <<datVars, hdrVars, idx, lastMsg, cur, todo, pos, renumber, ghosts>>

Maintain ==
    \/ \E i \in DOMAIN idx : FlagMessage(idx[i])
    \/ FlagIndex
    \/ \E chosen \in SUBSET DOMAIN idx : MaintStart(chosen)
    \/ PurgeHeader \/ PurgeNotFound \/ PurgeBadHeader \/ PurgeData \/ PurgeBlocks
    \/ TruncateIndex \/ RewriteIndex \/ MaintStatus

-----------------------------------------------------------------------------
(* fixsmb.                                                                 *)

\* The index and both tables are emptied, the tables filled with zeros.
FixStart(option) ==
    /\ pc = "idle"
    /\ sda' = [b \in Block |-> 0] /\ sdaLen' = sdtLen
    /\ sha' = [b \in Block |-> 0] /\ shaLen' = shdLen
    /\ idx' = <<>>
    /\ pos' = 0 /\ renumber' = option
    /\ pc' = "fix"
    /\ UNCHANGED <<sdtLen, shd, shdLen, total, lastMsg, cur, todo, keep, flagged, ghosts>>

\* Mutant: the data blocks of a header are counted whether or not it is deleted.
FixCountsAll(h) == CountFields(sda, h.m)

\* smb_incmsg_dfields() for a header that is not deleted.
FixCounts(h) == IF h.del THEN sda ELSE CountFields(sda, h.m)

\* The next header: it is indexed and its blocks are counted, unless it is
\* deleted.  Its length says where the search for the next one goes on.
FixHeader ==
    LET old == shd[pos]
        num == IF renumber THEN Len(idx) + 1 ELSE old.num
        h   == [num |-> num, n |-> old.n, del |-> old.del, m |-> old.m]
    IN  /\ pc = "fix" /\ pos < shdLen /\ IsHeader(old)
        /\ sda' = FixCounts(old)
        /\ IF old.del
           THEN /\ sha' = FreeRun(sha, pos, old.n)
                /\ UNCHANGED <<shd, idx>>
           ELSE /\ sha' = MarkUsed(sha, pos, old.n)
                /\ shd' = [shd EXCEPT ![pos] = h]
                /\ idx' = Append(idx, [num |-> num, hblk |-> pos, del |-> FALSE])
        /\ pos' = pos + old.n
        /\ UNCHANGED <<sdaLen, sdtLen, shaLen, shdLen, total, lastMsg, pc,
                       cur, todo, keep, flagged, renumber, ghosts>>

\* Mutant: a block without a header is taken for the first of two.
FixNoHeaderByTwo ==
    /\ pc = "fix" /\ pos < shdLen /\ ~IsHeader(shd[pos])
    /\ pos' = IF pos + 2 > shdLen THEN shdLen ELSE pos + 2
    /\ UNCHANGED <<datVars, hdrVars, idxVars, pc, cur, todo, keep, flagged, renumber, ghosts>>

FixNoHeader ==
    /\ pc = "fix" /\ pos < shdLen /\ ~IsHeader(shd[pos])
    /\ pos' = pos + 1
    /\ UNCHANGED <<datVars, hdrVars, idxVars, pc, cur, todo, keep, flagged, renumber, ghosts>>

\* sort_index(): qsort() leaves open how records of one number follow each other.
Sorted ==
    {Reordered(at) : at \in {f \in Bijection(DOMAIN idx, DOMAIN idx) :
                            \A i, j \in DOMAIN f : i < j => idx[f[i]].num <= idx[f[j]].num}}

\* The status is written; the index is sorted unless it was renumbered.
FixEnd ==
    /\ pc = "fix" /\ pos >= shdLen
    /\ total' = Len(idx)
    /\ IF renumber
       THEN /\ lastMsg' = Len(idx)
            /\ UNCHANGED idx
       ELSE /\ idx' \in Sorted
            /\ UNCHANGED lastMsg
    /\ dirty' = FALSE
    /\ pc' = "idle"
    /\ UNCHANGED <<datVars, hdrVars, workVars,
                   late, misled, posted, doomed, deleted, copies, posts, crashes>>

Repair ==
    \/ \E option \in BOOLEAN : FixStart(option)
    \/ FixHeader \/ FixNoHeader \/ FixEnd

\* The process at work dies; the operating system drops its locks.
Crash ==
    /\ pc # "idle" /\ crashes < MaxCrashes
    /\ crashes' = crashes + 1
    /\ dirty' = TRUE
    /\ cur' = NoWork /\ todo' = <<>> /\ keep' = <<>> /\ flagged' = 0
    /\ pos' = 0 /\ renumber' = FALSE
    /\ pc' = "idle"
    /\ UNCHANGED <<datVars, hdrVars, idxVars, late, misled, posted, doomed, deleted, copies, posts>>

Next == AddMessage \/ Maintain \/ Repair \/ Crash

Spec == Init /\ [][Next]_vars

-----------------------------------------------------------------------------
(* Properties.                                                             *)

Labels == {"idle", "stored", "placed", "written", "indexed", "flag", "maint",
           "purge data", "purge blocks", "rewrite", "rewritten", "fix"}
TextType == [text : 0 .. MaxPosts, blk : 0 .. MaxBlocks, body : Nat, tail : Nat]
HeaderType == [num : Nat, n : HdrBlocks \cup {1}, del : BOOLEAN, m : TextType]
RecordType == [num : Nat \ {0}, hblk : Block, del : BOOLEAN]

\* The files hold well-formed records, the status never goes below zero and has
\* all the messages maint() takes out of the index, and
\* every index record points at the start of a header (when nobody works on a
\* damaged base).
TypeOK ==
    /\ sda \in [Block -> Refs] /\ sdaLen \in 0 .. MaxBlocks /\ sdtLen \in 0 .. MaxBlocks
    /\ sha \in [Block -> {0, 1}] /\ shaLen \in 0 .. MaxBlocks
    /\ shd \in [Block -> HeaderType \cup {NoHeader}] /\ shdLen \in 0 .. MaxBlocks
    /\ \A i \in DOMAIN idx : /\ idx[i] \in RecordType
                            /\ ~late => IsHeader(HeaderOf(idx[i]))
    /\ total \in Nat /\ lastMsg \in Nat
    /\ pc \in Labels /\ cur \in HeaderType /\ renumber \in BOOLEAN
    /\ pos \in 0 .. MaxBlocks + 1 /\ flagged \in 0 .. total

Readable == {e \in Records : ~e.del}
TextOf(e) == HeaderOf(e).m
HdrExtent(e) == e.hblk .. e.hblk + HeaderOf(e).n - 1

\* Nobody works, each crash was followed by fixsmb before anything else, and no
\* search for a number that was given twice has found another message.
Undisturbed == pc = "idle" /\ ~dirty /\ ~late

\* The texts of two messages a reader can reach have no block in common.
TextsDisjoint ==
    Undisturbed => \A e, f \in Readable :
        e # f => Extent(TextOf(e)) \cap Extent(TextOf(f)) = {}

\* The rest of the code can go on with a repaired base, even when others worked
\* on it between the crash and the repair, or purged another message than they
\* meant: the status has the number of index records smb_addmsghdr() insists on,
\* no two headers overlap, and the blocks of every message are allocated in both
\* tables.
RepairedUsable ==
    pc = "idle" /\ ~dirty =>
        /\ total = Len(idx)
        /\ \A e, f \in Readable : e # f => HdrExtent(e) \cap HdrExtent(f) = {}
        /\ \A e \in Readable : /\ \A b \in HdrExtent(e) : sha[b] = 1
                               /\ \A b \in Extent(TextOf(e)) : sda[b] > 0

\* A message that was posted and that nobody chose to delete can be read, when
\* every crash was followed by a repair and no search found another message.
NothingLost ==
    Undisturbed => \A t \in posted \ doomed : \E e \in Readable : TextOf(e).text = t

\* fixsmb does not bring back a message whose header was once written as deleted
\* where it lies, though the header stays in the header file until its blocks are
\* used again, and though crashes and misled searches came in between.
NothingResurrected ==
    pc = "idle" /\ ~dirty => \A e \in Readable : TextOf(e).text \notin deleted

\* Unless work has gone wrong every data block has as many references as headers use it: no
\* reader's text lies in a free block, and no block is allocated for nothing.
CountersExact ==
    Undisturbed => \A b \in Block :
        sda[b] = Cardinality({e \in Records : b \in Extent(TextOf(e))})
=============================================================================
