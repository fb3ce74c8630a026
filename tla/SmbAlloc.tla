------------------------------ MODULE SmbAlloc ------------------------------
(***************************************************************************)
(* The block allocation tables of one message base (src/smblib/smballoc.c) *)
(* and the three kinds of step that change them: a process that adds a     *)
(* message with smb_addmsg (src/smblib/smbadd.c), the failure path of that *)
(* function, and the maintenance that purges messages flagged for deletion *)
(* (maint() of src/sbbs3/smbutil.c, delmail() of src/sbbs3/mail.cpp).      *)
(*                                                                         *)
(* A message base keeps its texts in NAME.sdt and its headers in NAME.shd, *)
(* both divided into blocks.  NAME.sda holds one 16 bit counter for each   *)
(* data block, NAME.sha one byte for each header block.  Blocks are        *)
(* numbered from 0 here; the code multiplies by the block length.          *)
(*                                                                         *)
(* The lock on the base header is an abstract mutex in this module (module *)
(* SmbLock models how it is built), and an open of the .sda file, which    *)
(* the code opens with SH_DENYRW, excludes every other open of it.         *)
(***************************************************************************)
EXTENDS SmbBlocks, FiniteSets

CONSTANTS
    Clients,      \* the processes that have the message base open
    NoClient,     \* "nobody", for the lock on the base header
    Shapes,       \* the [body, tail] lengths a message may have
    HdrBlocks,    \* the numbers of blocks a header may need
    Modes,        \* the storage modes used: "selfpack", "fast"
    MaxPosts,     \* bound: smb_addmsg is called at most so often
    MaxFaults     \* bound: at most so many calls fail or clients die

ASSUME ShapesAssumption == Shapes \subseteq [body : Nat, tail : Nat]
ASSUME HdrBlocksAssumption == HdrBlocks \subseteq Nat \ {0}
ASSUME ModesAssumption == Modes \subseteq {"selfpack", "fast"} /\ Modes # {}
ASSUME BoundsAssumption == MaxPosts \in Nat /\ MaxFaults \in Nat
ASSUME NoClientAssumption == NoClient \notin Clients

VARIABLES
    sda, sdaLen,  \* the data allocation table and its number of records
    sha, shaLen,  \* the header allocation table and its number of records
    sdtLen,       \* the length of the data file, in blocks
    shdLen,       \* the length of the header file, in blocks
    idx,          \* the messages in the index (.sid), with their headers
    lock,         \* which client has the base header locked
    pc,           \* where each client is
    msg,          \* the smbmsg_t in the memory of each client
    todo,         \* the messages a maintenance run still has to purge
    posts,        \* ghost: the number of texts stored so far
    faults,       \* ghost: the number of failures so far
    left          \* ghost: the references to a data block that nobody will take
                  \* away any more, because a failure left them behind

tables == <<sda, sdaLen, sha, shaLen, sdtLen, shdLen>>
vars == <<tables, idx, lock, pc, msg, todo, posts, faults, left>>

-----------------------------------------------------------------------------
\* A message in memory or on disk: the text it identifies (a ghost), the first
\* block of the text, and the lengths of its two data fields, 0 for a field it
\* does not have.
MsgType == [text : 0 .. MaxPosts, blk : 0 .. MaxBlocks, body : Nat, tail : Nat,
            mode : Modes]

\* The header blocks of an index entry.
HdrExtent(e) == e.hblk .. e.hblk + e.hlen - 1

\* Mutant: one record too many is zeroed.
FreeHeaderOneMore(table, e) ==
    [b \in Block |-> IF b \in e.hblk .. e.hblk + e.hlen THEN 0 ELSE table[b]]

\* smb_freemsghdr().
FreeHeader(table, e) ==
    [b \in Block |-> IF b \in HdrExtent(e) THEN 0 ELSE table[b]]

EntryType == [m : MsgType, hblk : 0 .. MaxBlocks, hlen : HdrBlocks,
              del : BOOLEAN, freed : BOOLEAN]

-----------------------------------------------------------------------------
NoMsg == [text |-> 0, blk |-> 0, body |-> 0, tail |-> 0,
          mode |-> CHOOSE m \in Modes : TRUE]

Init ==
    /\ sda = [b \in Block |-> 0] /\ sdaLen = 0
    /\ sha = [b \in Block |-> 0] /\ shaLen = 0
    /\ sdtLen = 0 /\ shdLen = 0
    /\ idx = {}
    /\ lock = NoClient
    /\ pc = [c \in Clients |-> "idle"]
    /\ msg = [c \in Clients |-> NoMsg]
    /\ todo = {}
    /\ posts = 0 /\ faults = 0
    /\ left = [b \in Block |-> 0]

Goto(c, label) == pc' = [pc EXCEPT ![c] = label]

\* Between the allocation of its blocks and the return of smb_addmsg, a client
\* is adding a message; until its text is freed again, the text has blocks.
Busy(c) == pc[c] \in {"stored", "undo body", "undo tail"}
Counted(c) == pc[c] \in {"stored", "undo body"}

\* The texts that have blocks: those of the messages maint() has not freed, and
\* those of the posts in progress.
Kept == {e \in idx : ~e.freed}
Owners == {e.m : e \in Kept} \cup {msg[c] : c \in {d \in Clients : Counted(d)}}

\* The failure of a step leaves behind one reference to each block of these texts.
LeftBehind(ms) ==
    [b \in Block |-> IF \E m \in ms : b \in Extent(m) THEN left[b] + 1 ELSE left[b]]

\* The .sda file is open, deny-all, while a maintenance run frees blocks.
SdaOpen == \E c \in Clients : pc[c] = "maint"

(***************************************************************************)
(* smb_addmsg up to the point where the text is in the data file: the base *)
(* is locked, the blocks are allocated with one reference and the text is  *)
(* written.                                                                *)
(***************************************************************************)
StoreText(c, shape, mode) ==
    LET n == DatBlocks(shape.body + shape.tail)
        b == Place(sda, sdaLen, sdtLen, mode, n)
    IN  /\ pc[c] = "idle" /\ lock = NoClient
        /\ posts < MaxPosts
        /\ b + n <= MaxBlocks
        /\ lock' = c
        /\ posts' = posts + 1
        /\ msg' = [msg EXCEPT ![c] = [text |-> posts + 1, blk |-> b, mode |-> mode,
                                      body |-> shape.body, tail |-> shape.tail]]
        /\ sda' = IF Hyper THEN sda ELSE MarkUsed(sda, b, n)
        /\ sdaLen' = IF Hyper THEN sdaLen ELSE LargerOf(sdaLen, b + n)
        /\ sdtLen' = LargerOf(sdtLen, b + n)
        /\ Goto(c, "stored")
        /\ UNCHANGED <<sha, shaLen, shdLen, idx, todo, faults, left>>

\* The header blocks smb_addmsghdr() takes for the message of client c.
PlaceHeader(c, n) == Place(sha, shaLen, shdLen, msg[c].mode, n)

TakeHeaderBlocks(b, n) ==
    /\ sha' = IF Hyper THEN sha ELSE MarkUsed(sha, b, n)
    /\ shaLen' = IF Hyper THEN shaLen ELSE LargerOf(shaLen, b + n)

\* smb_addmsghdr() succeeds: header and index record written, base unlocked.
AddHeader(c, n) ==
    LET b == PlaceHeader(c, n)
    IN  /\ pc[c] = "stored"
        /\ b + n <= MaxBlocks
        /\ TakeHeaderBlocks(b, n)
        /\ shdLen' = LargerOf(shdLen, b + n)
        /\ idx' = idx \cup {[m |-> msg[c], hblk |-> b, hlen |-> n,
                             del |-> FALSE, freed |-> FALSE]}
        /\ lock' = NoClient
        /\ Goto(c, "idle")
        /\ UNCHANGED <<sda, sdaLen, sdtLen, msg, todo, posts, faults, left>>

\* smb_addmsghdr() fails before it takes header blocks (the index length is
\* wrong, the hash file or the .sha file cannot be opened): base unlocked.
AddHeaderRefused(c) ==
    /\ pc[c] = "stored" /\ faults < MaxFaults
    /\ faults' = faults + 1
    /\ lock' = NoClient
    /\ Goto(c, "undo body")
    /\ UNCHANGED <<tables, idx, msg, todo, posts, left>>

\* smb_addmsghdr() fails in smb_putmsg(): the header blocks stay allocated.
AddHeaderUnwritten(c, n) ==
    LET b == PlaceHeader(c, n)
    IN  /\ pc[c] = "stored" /\ faults < MaxFaults
        /\ b + n <= MaxBlocks
        /\ faults' = faults + 1
        /\ TakeHeaderBlocks(b, n)
        /\ lock' = NoClient
        /\ Goto(c, "undo body")
        /\ UNCHANGED <<sda, sdaLen, sdtLen, shdLen, idx, msg, todo, posts, left>>

Recorded(m, fields) ==
    [text |-> m.text, blk |-> m.blk, mode |-> m.mode,
     body |-> IF "body" \in fields THEN m.body ELSE 0,
     tail |-> IF "tail" \in fields THEN m.tail ELSE 0]

\* An error while smb_addmsg writes the text.  Only the data fields recorded by
\* smb_dfield() so far are freed afterwards; the base stays locked meanwhile.
\* A body not yet recorded keeps its references for ever.
TextUnwritten(c, fields) ==
    /\ pc[c] = "stored" /\ faults < MaxFaults
    /\ faults' = faults + 1
    /\ msg' = [msg EXCEPT ![c] = Recorded(@, fields)]
    /\ left' = IF "body" \in fields THEN left ELSE LeftBehind({msg[c]})
    /\ Goto(c, "undo body")
    /\ UNCHANGED <<tables, idx, lock, todo, posts>>

\* The finally clause of smb_addmsg: smb_freemsg_dfields() opens the .sda file
\* anew for each data field.
UndoBody(c) ==
    /\ pc[c] = "undo body" /\ ~SdaOpen
    /\ sda' = IF Hyper THEN sda ELSE FreeField(sda, msg[c], "body")
    /\ Goto(c, "undo tail")
    /\ UNCHANGED <<sdaLen, sha, shaLen, sdtLen, shdLen, idx, lock, msg, todo,
                   posts, faults, left>>

\* Mutant: the second data field takes the references of the first once more.
UndoTailTwice(c) ==
    /\ pc[c] = "undo tail" /\ ~SdaOpen
    /\ sda' = IF Hyper THEN sda ELSE FreeFields(sda, msg[c])
    /\ lock' = IF lock = c THEN NoClient ELSE lock
    /\ Goto(c, "idle")
    /\ UNCHANGED <<sdaLen, sha, shaLen, sdtLen, shdLen, idx, msg, todo, posts,
                   faults, left>>

UndoTail(c) ==
    /\ pc[c] = "undo tail" /\ ~SdaOpen
    /\ sda' = IF Hyper THEN sda ELSE FreeField(sda, msg[c], "tail")
    /\ lock' = IF lock = c THEN NoClient ELSE lock
    /\ Goto(c, "idle")
    /\ UNCHANGED <<sdaLen, sha, shaLen, sdtLen, shdLen, idx, msg, todo, posts,
                   faults, left>>

(***************************************************************************)
(* Deletion.  A reader flags a message (smb_updatemsg(), under the lock);  *)
(* maintenance locks the base, purges the flagged messages and those too   *)
(* old or too many, and rewrites the index without them.                   *)
(***************************************************************************)
Flagged(e, freed) ==
    [m |-> e.m, hblk |-> e.hblk, hlen |-> e.hlen, del |-> TRUE, freed |-> freed]

FlagDeleted(e) ==
    /\ lock = NoClient /\ ~e.del
    /\ idx' = (idx \ {e}) \cup {Flagged(e, FALSE)}
    /\ UNCHANGED <<tables, lock, pc, msg, todo, posts, faults, left>>

MaintStart(c, doomed) ==
    /\ pc[c] = "idle" /\ lock = NoClient
    /\ doomed # {}
    /\ {e.m.text : e \in {f \in idx : f.del}} \subseteq doomed
    /\ lock' = c
    /\ todo' = doomed
    /\ Goto(c, "maint")
    /\ UNCHANGED <<tables, idx, msg, posts, faults, left>>

\* smb_putmsg() with MSG_DELETE set, then smb_freemsg().
Purge(c, e) ==
    /\ pc[c] = "maint" /\ e.m.text \in todo
    /\ todo' = todo \ {e.m.text}
    /\ idx' = (idx \ {e}) \cup {Flagged(e, TRUE)}
    /\ sda' = IF Hyper THEN sda ELSE FreeFields(sda, e.m)
    /\ sha' = IF Hyper THEN sha ELSE FreeHeader(sha, e)
    /\ UNCHANGED <<sdaLen, shaLen, sdtLen, shdLen, lock, pc, msg, posts, faults, left>>

\* The loop over the doomed messages ends, with the last of them or early on an
\* error, and the index is rewritten without any of them: those it did not come
\* to leave their references behind.
MaintEnd(c) ==
    /\ pc[c] = "maint"
    /\ \/ todo = {} /\ UNCHANGED faults
       \/ todo # {} /\ faults < MaxFaults /\ faults' = faults + 1
    /\ todo' = {}
    /\ left' = LeftBehind({e.m : e \in {f \in idx : f.m.text \in todo}})
    /\ idx' = {e \in idx : ~e.del /\ e.m.text \notin todo}
    /\ lock' = NoClient
    /\ Goto(c, "idle")
    /\ UNCHANGED <<tables, msg, posts>>

\* A process dies while it adds a message: its locks go with it, and the blocks
\* it has not freed stay as they are.
PosterDies(c) ==
    /\ pc[c] \in {"stored", "undo body", "undo tail"} /\ faults < MaxFaults
    /\ faults' = faults + 1
    /\ lock' = IF lock = c THEN NoClient ELSE lock
    /\ left' = IF Counted(c) THEN LeftBehind({msg[c]}) ELSE left
    /\ Goto(c, "idle")
    /\ UNCHANGED <<tables, idx, msg, todo, posts>>

AddMessage(c) ==
    \/ \E shape \in Shapes, mode \in Modes : StoreText(c, shape, mode)
    \/ \E n \in HdrBlocks : AddHeader(c, n)
    \/ AddHeaderRefused(c)
    \/ \E n \in HdrBlocks : AddHeaderUnwritten(c, n)
    \/ \E fields \in {{}, {"body"}, {"body", "tail"}} : TextUnwritten(c, fields)
    \/ UndoBody(c)
    \/ UndoTail(c)
    \/ PosterDies(c)

Maintain(c) ==
    \/ \E doomed \in SUBSET {e.m.text : e \in idx} : MaintStart(c, doomed)
    \/ \E e \in idx : Purge(c, e)
    \/ MaintEnd(c)

Next ==
    \/ \E c \in Clients : AddMessage(c) \/ Maintain(c)
    \/ \E e \in idx : FlagDeleted(e)

Spec == Init /\ [][Next]_vars

-----------------------------------------------------------------------------
(* Properties.                                                             *)

\* The state is well-typed: every counter fits its uint16_t, every table its
\* bound, and the bookkeeping of smb_addmsg and maint() stays in its types.
TablesOK ==
    /\ sda \in [Block -> Refs] /\ sdaLen \in 0 .. MaxBlocks
    /\ sha \in [Block -> {0, 1}] /\ shaLen \in 0 .. MaxBlocks
    /\ sdtLen \in 0 .. MaxBlocks /\ shdLen \in 0 .. MaxBlocks

MessagesOK ==
    /\ idx \subseteq EntryType
    /\ msg \in [Clients -> MsgType]
    /\ todo \subseteq 0 .. MaxPosts

ControlOK ==
    /\ lock \in Clients \cup {NoClient}
    /\ pc \in [Clients -> {"idle", "stored", "undo body", "undo tail", "maint"}]
    /\ posts \in 0 .. MaxPosts /\ faults \in 0 .. MaxFaults

GhostOK == left \in [Block -> Nat]

TypeOK == TablesOK /\ MessagesOK /\ ControlOK /\ GhostOK

\* The messages a reader can reach.
Readable == {e \in idx : ~e.del}

\* The texts of two messages a reader can reach lie in different blocks of the
\* data file, whatever was posted, undone and purged before: smb_allocdat()
\* never hands out a block that still holds somebody's text.
TextsDisjoint ==
    \A e, f \in Readable :
        e.m.text # f.m.text => Extent(e.m) \cap Extent(f.m) = {}

\* A block with the text of a reachable message has a counter other than 0:
\* "A value of 0 indicates a free block" (smb.src), so no live block is free.
LiveBlocksCounted ==
    ~Hyper => \A e \in Readable : \A b \in Extent(e.m) : sda[b] > 0

\* No two messages share a header block, and the .sha file has the blocks of
\* every reachable message marked as allocated.
HeadersDisjoint ==
    /\ \A e, f \in Readable :
           e.m.text # f.m.text => HdrExtent(e) \cap HdrExtent(f) = {}
    /\ ~Hyper => \A e \in Readable : \A b \in HdrExtent(e) : sha[b] = 1

\* At every moment, each counter is the number of messages whose text lies in that
\* block ("the number of message header records associated with this message
\* data"), in the index or still being posted, and what failures left behind: a
\* failed post gives back exactly what it took, though it does so after it has
\* unlocked the base, and with it no reference of another post.
CountersExact ==
    ~Hyper => \A b \in Block :
        sda[b] = left[b] + Cardinality({m \in Owners : b \in Extent(m)})

\* No step lowers the counter of a block that holds the text of a message which
\* can be reached before and after the step: what smb_freemsg_dfields() frees is
\* never part of somebody else's message.
OnlyOwnBlocksFreed ==
    [][~Hyper => \A e \in Readable :
          (\E f \in Readable' : f.m = e.m) =>
              \A b \in Extent(e.m) : sda'[b] >= sda[b]]_vars

-----------------------------------------------------------------------------
(* What the safety properties rest on: the inductive invariant.            *)

DataEnd == IF Hyper THEN sdtLen ELSE sdaLen
HeaderEnd == IF Hyper THEN shdLen ELSE shaLen

\* A client is in one of the critical sections only with the base locked.
LockInv == \A c \in Clients : pc[c] \in {"stored", "maint"} => lock = c

\* A text belongs to one message, in the index or in the hands of one client.
TextInv ==
    /\ \A e \in idx : e.m.text \in 1 .. posts
    /\ \A e, f \in idx : e.m.text = f.m.text => e = f
    /\ \A c \in Clients : Busy(c) => msg[c].text \in 1 .. posts
    /\ \A c \in Clients : Busy(c) => \A e \in idx : e.m.text # msg[c].text
    /\ \A c, d \in Clients :
           Busy(c) /\ Busy(d) /\ msg[c].text = msg[d].text => c = d

\* A message whose blocks are freed stays in the index only during maintenance.
FreedInv ==
    \A e \in idx : e.freed => /\ e.del /\ e.m.text \notin todo
                              /\ \E c \in Clients : pc[c] = "maint"

\* The header blocks of the messages not yet purged.
HeaderInv ==
    /\ \A e, f \in Kept : e.m.text # f.m.text => HdrExtent(e) \cap HdrExtent(f) = {}
    /\ \A e \in Kept : \A b \in HdrExtent(e) :
           b < HeaderEnd /\ (~Hyper => sha[b] = 1)

\* The data blocks of every text that is stored and not yet freed.
DataInv ==
    /\ \A m, k \in Owners : m.text # k.text => Extent(m) \cap Extent(k) = {}
    /\ \A m \in Owners : \A b \in Extent(m) :
           b < DataEnd /\ (~Hyper => sda[b] > 0)

\* As savemsg() makes them: messages without a tail.
OneField == \A shape \in Shapes : shape.tail = 0
OneFieldInv == \A c \in Clients : Busy(c) => msg[c].tail = 0
OneFieldIdx == \A e \in idx : e.m.tail = 0

\* Only a failure has something to undo.
NothingUndone == \A c \in Clients : pc[c] \notin {"undo body", "undo tail"}

FieldInv ==
    /\ OneField => OneFieldInv /\ OneFieldIdx
    /\ faults = 0 => NothingUndone

\* Maintenance purges every message that is flagged.
DoomedInv ==
    (\E c \in Clients : pc[c] = "maint") =>
        \A e \in idx : e.del => e.freed \/ e.m.text \in todo

\* The blocks in use are those of the texts and those left behind, and no block
\* is used twice.
CountersInv == ~Hyper =>
    \A b \in Block :
        LET used == \E m \in Owners : b \in Extent(m)
        IN  /\ sda[b] = IF used THEN 1 ELSE left[b]
            /\ left[b] \in {0, 1}
            /\ left[b] = 1 => ~used /\ b < sdaLen

HeaderIndInv == TypeOK /\ LockInv /\ TextInv /\ FreedInv /\ HeaderInv
DataIndInv == HeaderIndInv /\ FieldInv /\ DataInv
CounterIndInv == DataIndInv /\ DoomedInv /\ CountersInv
=============================================================================
