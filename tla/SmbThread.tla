------------------------------ MODULE SmbThread ------------------------------
(***************************************************************************)
(* Threads of messages, message ids and the search of the index.           *)
(*                                                                         *)
(* smb_addmsg() (src/smblib/smbadd.c) links a reply to its original before *)
(* the reply is written: it works with the number the reply is going to    *)
(* have.  smb_updatethread() (smblib.c) extends the chain of replies, the  *)
(* hashes of smbhash.c find a message by its id and refuse duplicates, and *)
(* smb_getmsgidx() searches the index, for readers without a lock.  Other  *)
(* parts see the links: readmsgs.cpp walks them and writes headers back    *)
(* that were read long before, smbutil.c purges, fixsmb.c renumbers.       *)
(*                                                                         *)
(* The lock of the base (SmbLock) makes an action of each writer.          *)
(***************************************************************************)
EXTENDS Integers, Sequences, FiniteSets

CONSTANTS
    Ids,           \* the message ids: numbers, new ones are taken in order
    HdrBlocks,     \* the numbers of blocks a header may need
    MaxHashes,     \* max_hashes: the ids of so many messages maint() keeps
    MaxBlocks,     \* bound: blocks of the header file
    MaxPosts,      \* bound: smb_addmsg is called at most so often
    MaxFailures,   \* bound: so many posts fail, or find a header locked
    Renumber       \* TRUE when fixsmb is run with -renumber

ASSUME ThreadAssumption ==
    /\ Ids \subseteq Nat \ {0}
    /\ HdrBlocks \subseteq Nat \ {0} /\ MaxHashes \in Nat
    /\ MaxBlocks \in Nat /\ MaxPosts \in Nat /\ MaxFailures \in Nat
    /\ Renumber \in BOOLEAN

VARIABLES
    hdrs,       \* the headers in use, by number
    index,      \* the index: the numbers, in the order of the records
    lastMsg,    \* smb->status.last_msg
    hashes,     \* the hash file: records of an id and the number it was given
    keep,       \* maint(): the records to write back to the truncated index
    reader,     \* a reader of the base: its search and the header it holds
    posts, failures,   \* how often smb_addmsg was called, and failed
    hurt        \* ghost: what has happened that links or ids do not survive unhurt

baseVars == <<hdrs, index, lastMsg, hashes, keep>>
vars == <<baseVars, reader, posts, failures, hurt>>

-----------------------------------------------------------------------------
Existing == DOMAIN hdrs

NoId == 0
NoIndex == <<0>>
Idle == [at |-> "idle"]
BaseFree == keep = NoIndex

Init ==
    /\ hdrs = [n \in {} |-> 0]
    /\ index = <<>> /\ lastMsg = 0 /\ hashes = <<>>
    /\ keep = NoIndex /\ reader = Idle
    /\ posts = 0 /\ failures = 0 /\ hurt = {}

-----------------------------------------------------------------------------
(* smb_addmsg(): duplicates, the original, the links.                      *)

HashesOf(i) == {k \in DOMAIN hashes : hashes[k].id = i}
Hashed(i) == HashesOf(i) # {}

\* smb_findhash() stops at the first record that matches.
NumberOfId(i) == hashes[CHOOSE k \in HashesOf(i) : \A j \in HashesOf(i) : k <= j].num

\* The number the message replies to: as its sender says, or that of the id its
\* sender names, if such a message is found.  0 for none.
Original(back, ref) ==
    IF back # 0 THEN back
    ELSE IF Hashed(ref) /\ NumberOfId(ref) \in Existing THEN NumberOfId(ref)
    ELSE 0

\* The last of the replies, starting with reply m: the loop of smb_updatethread().
\* It gives up (0) at a reply that is gone or cannot be locked.
LastReply(busy, m) ==
    LET last[k \in Nat] ==
            IF k \notin Existing \/ k \in busy THEN 0
            ELSE IF hdrs[k].next \in {0, k} THEN k
            ELSE IF hdrs[k].next > k THEN last[hdrs[k].next]
            ELSE 0
    IN  last[m]

\* Mutant: the reply becomes the first, whatever was there.
LinkedAsFirst(orig, num, busy) ==
    [n \in Existing |-> IF n = orig THEN [hdrs[n] EXCEPT !.first = num] ELSE hdrs[n]]

\* Mutant: the chain is that of the thread's first message.
LinkedToThread(orig, num, busy) ==
    [n \in Existing |->
        IF n = hdrs[orig].tid /\ hdrs[n].first = 0 THEN [hdrs[n] EXCEPT !.first = num]
        ELSE hdrs[n]]

\* Mutant: the last reply is linked back to the original.
LinkedInCircle(orig, num, busy) ==
    [n \in Existing |->
        IF n = orig /\ hdrs[orig].first = 0 THEN [hdrs[n] EXCEPT !.first = num]
        ELSE IF hdrs[orig].first # 0 /\ n = LastReply(busy, hdrs[orig].first)
             THEN [hdrs[n] EXCEPT !.next = orig]
        ELSE hdrs[n]]

\* smb_updatethread(): the original gets its first reply or the last reply of the
\* original gets its next.
Linked(orig, num, busy) ==
    [n \in Existing |->
        IF n = orig /\ hdrs[orig].first = 0 THEN [hdrs[n] EXCEPT !.first = num]
        ELSE IF hdrs[orig].first # 0 /\ n = LastReply(busy, hdrs[orig].first)
             THEN [hdrs[n] EXCEPT !.next = num]
        ELSE hdrs[n]]

\* The original is there and its header can be locked.
CanLink(orig, busy) == orig \in Existing /\ orig \notin busy

Relinked(orig, num, busy) ==
    IF CanLink(orig, busy) THEN Linked(orig, num, busy) ELSE hdrs

\* The blocks of the header file that are in use, and the first free run of n.
BlocksUsed == UNION {hdrs[k].blk .. hdrs[k].blk + hdrs[k].n - 1 : k \in Existing}
FreeRuns(n) == {b \in 0 .. MaxBlocks - n : b .. b + n - 1 \cap BlocksUsed = {}}
FirstFree(n) == CHOOSE b \in FreeRuns(n) : \A c \in FreeRuns(n) : b <= c

NewHeader(i, orig, num, busy, n) ==
    [id |-> i, back |-> orig,
     tid |-> IF CanLink(orig, busy) THEN hdrs[orig].tid ELSE num,
     first |-> 0, next |-> 0, blk |-> FirstFree(n), n |-> n]

\* Mutant: a message is taken for new whatever the hash file says.
NeverDuplicate(i) == FALSE

\* smb_findhash() finds the id: smb_addmsg() returns SMB_DUPE_MSG and changes
\* nothing.
Duplicate(i) == Hashed(i)

\* What smb_addmsg() has done when it calls smb_addmsghdr(): the links and the
\* hashes have the number the message is going to have.  busy are the headers
\* that it could not lock in time.
Announce(i, orig, busy) ==
    /\ BaseFree /\ posts < MaxPosts /\ ~Duplicate(i)
    /\ failures + Cardinality(busy) <= MaxFailures
    /\ posts' = posts + 1
    /\ hashes' = Append(hashes, [id |-> i, num |-> lastMsg + 1])

Post(i, back, ref, busy, n) ==
    LET orig == Original(back, ref)
        num  == lastMsg + 1
        old  == Relinked(orig, num, busy)
    IN  /\ Announce(i, orig, busy)
        /\ FreeRuns(n) # {}
        /\ hdrs' = [k \in Existing \cup {num} |->
                       IF k = num THEN NewHeader(i, orig, num, busy, n) ELSE old[k]]
        /\ index' = Append(index, num)
        /\ lastMsg' = num
        /\ failures' = failures + Cardinality(busy)
        /\ hurt' = hurt \cup (IF busy = {} THEN {} ELSE {"busy"})
        /\ UNCHANGED <<keep, reader>>

\* smb_addmsghdr() refuses the message: its header is too long, the index has the
\* wrong length, the disk is full.
PostFails(i, back, ref) ==
    LET orig == Original(back, ref)
    IN  /\ Announce(i, orig, {})
        /\ failures < MaxFailures
        /\ hdrs' = Relinked(orig, lastMsg + 1, {})
        /\ failures' = failures + 1
        /\ hurt' = hurt \cup {"failed"}
        /\ UNCHANGED <<index, lastMsg, keep, reader>>

Busy == {{}} \cup {{k} : k \in Existing}

\* Ids are used again, or the next new one is; the number (0: none) or the id
\* (NoId: none, or one nobody knows) of the original are given.
KnownIds == {hashes[k].id : k \in DOMAIN hashes}
UsedIds == KnownIds \cup {hdrs[n].id : n \in Existing}
ChosenIds == {i \in Ids : \A j \in Ids : j < i => j \in UsedIds}
Referred == (0 .. lastMsg) \X {NoId} \cup {0} \X KnownIds

AddMessage ==
    \E i \in ChosenIds, r \in Referred :
        \/ \E busy \in Busy, n \in HdrBlocks : Post(i, r[1], r[2], busy, n)
        \/ PostFails(i, r[1], r[2])

-----------------------------------------------------------------------------
(* maint() and fixsmb.                                                     *)

\* Records a reader is looking for may have been moved.
Disturbed == IF reader.at = "search" THEN [reader EXCEPT !.due = FALSE] ELSE reader

\* Mutant: the records of purged messages are written back too.
KeptAll(gone) == index

\* The records of the others, one after the other.
Kept(gone) ==
    LET kept[k \in 0 .. Len(index)] ==
            IF k = 0 THEN <<>>
            ELSE IF index[k] \in gone THEN kept[k - 1]
            ELSE Append(kept[k - 1], index[k])
    IN  kept[Len(index)]

\* Mutant: the beginning of the hash file is kept, not the end.
OldHashesKept(dropped) ==
    /\ dropped \in 0 .. Len(hashes)
    /\ dropped = 0 \/ dropped <= Len(hashes) - MaxHashes
    /\ hashes' = SubSeq(hashes, 1, Len(hashes) - dropped)

\* maint() first empties the hash file (MaxHashes = 0) or keeps its end.  A message
\* has up to SMB_HASH_SOURCE_TYPES records there: MaxHashes ids or more remain.
HashesTrimmed(dropped) ==
    /\ dropped \in 0 .. Len(hashes)
    /\ dropped = 0 \/ dropped <= Len(hashes) - MaxHashes
    /\ hashes' = SubSeq(hashes, dropped + 1, Len(hashes))

TrimHarm(dropped) == IF dropped = 0 THEN {} ELSE {"trimmed"}

\* maint() frees the blocks of the messages and truncates the index ...
Purge(gone, dropped) ==
    /\ BaseFree /\ gone # {}
    /\ HashesTrimmed(dropped)
    /\ hdrs' = [n \in Existing \ gone |-> hdrs[n]]
    /\ index' = <<>>
    /\ keep' = Kept(gone)
    /\ hurt' = hurt \cup {"purged"} \cup TrimHarm(dropped)
    /\ reader' = Disturbed
    /\ UNCHANGED <<lastMsg, posts, failures>>

\* ... or finds no message to delete.
PurgeNothing(dropped) ==
    /\ BaseFree
    /\ HashesTrimmed(dropped)
    /\ hurt' = hurt \cup TrimHarm(dropped)
    /\ UNCHANGED <<hdrs, index, lastMsg, keep, reader, posts, failures>>

\* ... and writes the records of the others back.
WriteIndex ==
    /\ ~BaseFree
    /\ index' = keep
    /\ keep' = NoIndex
    /\ UNCHANGED <<hdrs, lastMsg, hashes, reader, posts, failures, hurt>>

\* fixsmb -renumber numbers the headers as they lie in the header file.  It does
\* not change the links, and adds hashes, with the old numbers, of the ids that
\* have none any more.
Renumbered(n) == Cardinality({k \in Existing : hdrs[k].blk <= hdrs[n].blk})

LiesBefore(k, n) == hdrs[k].blk < hdrs[n].blk
Unhashed ==
    {n \in Existing : /\ ~Hashed(hdrs[n].id)
                      /\ \A k \in Existing : hdrs[k].id = hdrs[n].id => ~LiesBefore(k, n)}

FixRenumber ==
    LET total  == Cardinality(Existing)
        old(n) == CHOOSE k \in Existing : Renumbered(k) = n
    IN  /\ BaseFree /\ Renumber
        /\ hdrs' = [n \in 1 .. total |-> hdrs[old(n)]]
        /\ index' = [n \in 1 .. total |-> n]
        /\ lastMsg' = total
        /\ \E s \in [1 .. Cardinality(Unhashed) -> Unhashed] :
               /\ \A j, k \in DOMAIN s : j < k => LiesBefore(s[j], s[k])
               /\ hashes' = hashes \o [k \in DOMAIN s |-> [id |-> hdrs[s[k]].id, num |-> s[k]]]
        /\ hurt' = hurt \cup {IF "renumbered" \in hurt THEN "twice" ELSE "renumbered"}
        /\ reader' = Disturbed
        /\ UNCHANGED <<keep, posts, failures>>

-----------------------------------------------------------------------------
(* A reader: loadmsg() searches the index for a number and reads the header *)
(* at the place it finds; the operator's comment is written later with     *)
(* smb_updatemsg(), from the header as it was read.                        *)

\* Half of the records between bot and top.
Half(bot, top) == (top - bot) \div 2

\* due: the record was there when the search began, and nobody has moved it.
SearchStart(n) ==
    /\ reader = Idle /\ index # <<>>
    /\ reader' = [at |-> "search", want |-> n, total |-> Len(index),
                  bot |-> 0, top |-> Len(index), l |-> Len(index) \div 2,
                  due |-> \E k \in DOMAIN index : index[k] = n]
    /\ UNCHANGED <<baseVars, posts, failures, hurt>>

Read(l) == index[l + 1]
Searching == reader.at = "search"

\* The record to look at is behind the end of the index, as it was or as it is,
\* or it is the last one left and has another number.
InIndex == reader.l < reader.total /\ reader.l < Len(index)

\* Mutant: the last record left is not looked at.
LastUnread == InIndex => reader.bot = reader.top - 1

\* Mutant: the search does not notice that one record is left.
NeverLast == ~InIndex

Exhausted == InIndex => reader.bot = reader.top - 1 /\ Read(reader.l) # reader.want

SearchFails ==
    /\ Searching /\ Exhausted
    /\ reader' = Idle
    /\ UNCHANGED <<baseVars, posts, failures, hurt>>

LowerHalf ==
    /\ Searching /\ ~Exhausted
    /\ Read(reader.l) > reader.want
    /\ reader' = [reader EXCEPT !.top = reader.l,
                                !.l = reader.bot + Half(reader.bot, reader.l)]
    /\ UNCHANGED <<baseVars, posts, failures, hurt>>

UpperHalf ==
    /\ Searching /\ ~Exhausted
    /\ Read(reader.l) < reader.want
    /\ reader' = [reader EXCEPT !.bot = reader.l,
                                !.l = reader.top - Half(reader.l, reader.top)]
    /\ UNCHANGED <<baseVars, posts, failures, hurt>>

\* The record has the place of the header.
SearchFinds ==
    /\ Searching /\ ~Exhausted
    /\ Read(reader.l) = reader.want
    /\ reader' = [at |-> "found", blk |-> hdrs[reader.want].blk]
    /\ UNCHANGED <<baseVars, posts, failures, hurt>>

Search == SearchFails \/ LowerHalf \/ UpperHalf \/ SearchFinds

\* Whatever header is there now is read; a purged one is of no further use.
LoadHeader ==
    /\ reader.at = "found"
    /\ reader' = IF \E k \in Existing : hdrs[k].blk = reader.blk
                 THEN LET k == CHOOSE m \in Existing : hdrs[m].blk = reader.blk
                      IN  [at |-> "loaded", num |-> k, hdr |-> hdrs[k]]
                 ELSE Idle
    /\ UNCHANGED <<baseVars, posts, failures, hurt>>

CloseMessage ==
    /\ reader.at = "loaded"
    /\ reader' = Idle
    /\ UNCHANGED <<baseVars, posts, failures, hurt>>

\* smb_updatemsg() looks the number up again and writes the whole header.
WriteComment ==
    /\ reader.at = "loaded" /\ BaseFree
    /\ reader.num \in Existing
    /\ hdrs' = [hdrs EXCEPT ![reader.num] =
                    [reader.hdr EXCEPT !.blk = hdrs[reader.num].blk]]
    /\ hurt' = hurt \cup (IF hdrs' = hdrs THEN {} ELSE {"stale"})
    /\ reader' = Idle
    /\ UNCHANGED <<index, lastMsg, hashes, keep, posts, failures>>

Reader ==
    \/ \E n \in 1 .. lastMsg : SearchStart(n)
    \/ Search \/ LoadHeader \/ CloseMessage \/ WriteComment

Next ==
    \/ AddMessage
    \/ \E dropped \in 0 .. Len(hashes) :
           \/ \E gone \in SUBSET Existing : Purge(gone, dropped)
           \/ PurgeNothing(dropped)
    \/ WriteIndex \/ FixRenumber
    \/ Reader

Spec == Init /\ [][Next]_vars

\* The reader's loop goes on, and maint() writes the index it has truncated.
FairSpec == Spec /\ WF_vars(Search) /\ WF_vars(WriteIndex)

-----------------------------------------------------------------------------
(* Properties.                                                             *)

HeaderType == [id : Ids, back : Nat, tid : Nat, first : Nat,
               next : Nat, blk : Nat, n : HdrBlocks]
ReaderType ==
    {Idle} \cup [at : {"search"}, want : Nat, total : Nat, bot : Nat, top : Nat,
                 l : Nat, due : BOOLEAN]
    \cup [at : {"found"}, blk : Nat]
    \cup [at : {"loaded"}, num : Nat, hdr : HeaderType]

\* Headers have numbers that were given, and the index names each once, in order.
TypeOK ==
    /\ Existing \subseteq 1 .. lastMsg /\ lastMsg \in Nat
    /\ \A n \in Existing : hdrs[n] \in HeaderType
    /\ \A k \in DOMAIN hashes : hashes[k] \in [id : Ids, num : Nat \ {0}]
    /\ LET recs == IF BaseFree THEN index ELSE keep
       IN  /\ {recs[k] : k \in DOMAIN recs} = Existing
           /\ \A j, k \in DOMAIN recs : j < k => recs[j] < recs[k]
    /\ reader \in ReaderType
    /\ posts \in 0 .. MaxPosts /\ failures \in 0 .. MaxFailures

Intact(harm) == hurt \cap harm = {}

\* Links lead to higher numbers, whatever fails, is purged, written back or (if
\* headers have one size) renumbered once: show_thread() and smb_last_in_branch(),
\* which follow them without a look at where they have been, come to an end.
\* When messages are posted and the base is renumbered once more they may not.
LinksAscend ==
    Intact({"twice"}) =>
        \A n \in Existing : \A m \in {hdrs[n].first, hdrs[n].next} : m # 0 => m > n

\* When no post has failed and nothing was renumbered, a link leads to a reply to
\* the right message, or to one that was purged: never to another message.
LinksRight ==
    Intact({"failed", "renumbered"}) =>
        \A n \in Existing :
            /\ hdrs[n].first \in Existing => hdrs[hdrs[n].first].back = n
            /\ hdrs[n].next \in Existing => hdrs[hdrs[n].next].back = hdrs[n].back

\* smb_first_in_thread(): the message with the thread's number, or the oldest one
\* there is on the way back from the message.
FirstInThread(n) ==
    LET oldest[k \in Nat] ==
            IF hdrs[k].back \in Existing /\ hdrs[k].back < k
            THEN oldest[hdrs[k].back] ELSE k
    IN  IF hdrs[n].back = 0 THEN n
        ELSE IF hdrs[n].tid \in Existing THEN hdrs[n].tid
        ELSE oldest[n]

\* show_thread(): the messages the links reach from n.
ShownFrom(n) ==
    LET step(S) == S \cup {m \in Existing : \E k \in S : m \in {hdrs[k].first, hdrs[k].next}}
        shown[k \in 0 .. MaxPosts] == IF k = 0 THEN {n} ELSE step(shown[k - 1])
    IN  shown[MaxPosts]

\* The thread a reader is shown has the message he is at, unless links were
\* lost to a failure, a locked header, a purge or a header written back late.
ThreadShown ==
    hurt \subseteq {"trimmed"} => \A n \in Existing : n \in ShownFrom(FirstInThread(n))

\* Until a renumbering lets a header be written back over another's:
\*  - an id does not find an older message than one that has it, and if maint()
\*    has not trimmed the hash file, finds the only message that has it;
\*  - if no post has failed, an id finds no message with another id, and the last
\*    MaxHashes messages can be found by theirs, however often maint() was run.
IdsRight ==
    Intact({"renumbered"}) =>
        /\ \A n \in Existing : Hashed(hdrs[n].id) => NumberOfId(hdrs[n].id) >= n
        /\ Intact({"trimmed"}) => \A n \in Existing :
               /\ Hashed(hdrs[n].id) /\ NumberOfId(hdrs[n].id) = n
               /\ \A m \in Existing : m # n => hdrs[m].id # hdrs[n].id
        /\ Intact({"failed"}) =>
               /\ \A i \in KnownIds : NumberOfId(i) \in Existing => hdrs[NumberOfId(i)].id = i
               /\ \A n \in Existing : n > lastMsg - MaxHashes =>
                      Hashed(hdrs[n].id) /\ NumberOfId(hdrs[n].id) = n

\* The search gives up only on a message that was not there when it began, or
\* when the index was purged or renumbered meanwhile; posts do not confuse it.
SearchRight ==
    [][Searching /\ reader' = Idle => ~reader.due]_vars

\* smb_getmsgidx(): the search ends, whatever posts, maint() and fixsmb do to the
\* index under it.
SearchEnds == Searching ~> ~Searching
=============================================================================
