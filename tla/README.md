# Specifications of Synchronet BBS

TLA+ specifications of parts of the Synchronet bulletin board system
(`src/sbbs3`, `src/smblib`, `src/xpdev`), with instances for TLC and proofs for
TLAPS. Three parts are specified so far: the **message base library** and the
programs that write to it, the **output of the web server**, and the **transfer
of a file by XMODEM**.

* [The system](#the-system): its components, what they keep and what they do
* [The modules](#the-modules): what each stands for in the code
* [The runs](#the-runs): what TLC checks, and within which bounds
* [The proofs](#the-proofs): what TLAPS proves, from what, and how
* [Where code and documents disagree](#where-code-and-documents-disagree)
* [What is left out](#what-is-left-out)
* [The plan](#the-plan)

To check: `tlc -config SmbAllocTails.cfg MCSmbAlloc` (each `.cfg` belongs to the
`MC` module named after its component), `tlapm SmbAllocProofs.tla`.

## The system

Synchronet is one process with a thread for each server, each session and each
service, and any number of other processes (the FidoNet tosser, the maintenance
tools, doors, a second BBS on a shared disk) that work on the same files. There is no
database: everything is in files that are locked region by region.

| Component | State | Operations | Hard because |
| --- | --- | --- | --- |
| message base allocation (`smballoc.c`) | `.sda`, a 16-bit reference counter for each data block; `.sha`, a byte for each header block | allocate first fit, fast (at the end) or hyper (no tables); count and free references | the two tables have different locks; one step of several fails; lengths at block boundaries |
| message base (`smblib.c`, `smbadd.c`) | `.shd` headers and status, `.sid` index, `.sdt` texts | `smb_addmsg`, `smb_updatemsg`, `smb_getmsghdr`, `smb_updatethread` | four files written one after the other; stale index positions; retries |
| `lock()`, `unlock()` (`filewrap.c`) | `fcntl()` locks of a process, `flock()` locks of an open file | two system calls each | the two kinds have different owners and different extents |
| shared mail (`bulkmail.cpp`, `mailsrvr.c`, `netmail.cpp`, `js_msgbase.c`) | one text, a header for each recipient | store, add recipients, count references | done in three parts, with the base unlocked in between |
| threads of messages (`smbadd.c`, `smblib.c`, `readmsgs.cpp`) | links from a message to its first reply and to the next reply beside it | link, follow, write a header back | links are set before the reply exists; headers are held for minutes |
| maintenance and repair (`smbutil.c`, `fixsmb.c`, `mail.cpp`) | the same files | `maint()`, `delmail()`, `fixsmb()` | may die at any write; runs on what the others left |
| duplicate checking (`smbhash.c`) | `.hash`, `.sch` | record, find | recorded before the message is |
| ring buffers (`ringbuf.c`) | head, tail, semaphores, event | write, read, fill level, peek | callers check for room themselves |
| web server (`websrvr.c`) | session, request, buffer, chunked framing | a session and an output thread | framing is switched while the other thread sends |
| terminal server (`main.cpp`, `answer.cpp`, ...) | node, input and output buffers | input, output, passthru threads | threads share buffers that are reset while in use |
| nodes and users (`userdat.c`, `getnode.cpp`, ...) | `node.dab`, `user.dat` | locked records | read, unlocked, written later |
| telnet (`telnet.c`) | options of both ends | negotiate | loops of requests and answers |
| mail, FTP, services (`mailsrvr.c`, `ftpsrvr.c`, `services.c`) | sessions, sockets, shared flags | serve, recycle, stop | shutdown with threads at work |
| event thread (`main.cpp`) | timed and exclusive events, semaphore files | run, wait for nodes, recycle | several nodes wait for each other |
| file transfer (`zmodem.c`, `xmodem.c`, `sexyz.c`) | sender and receiver machines | blocks, acknowledgements, crash recovery | a lossy line, time-outs |
| JavaScript (`js_rtpool.c`, `js_queue.c`) | runtimes, queues | get, release, read, write | shared between threads |
| lists, queues, events (`link_list.c`, `msg_queue.c`, `xpevent.c`, `semfile.c`, ...) | nodes, counts, semaphores | push, pop, wait, signal | used by several threads |
| FidoNet tosser, QWK | packets, bundles | import, export | sequential, except for busy files |
| configuration, access strings, shells | parsed files | load, evaluate | sequential |
| everything else under `src/` | | | screens, toolkits, doors, tools |

How they interact: all programs call the message base library in their own
process and meet in the files only, through `lock()`. The threads of a
session meet in a ring buffer. The servers meet in the node and user files.

What makes the modelled components right:

* no text or header that can be read lies in blocks that are free or that
  another message has been given; nothing frees a block of another message;
* the counters are exactly the number of texts that use a block, and what failures
  have left behind; the blocks of a shared text are counted for each of its
  headers, unless the counting failed;
* one handle at a time works on the index; message numbers are unique; the place
  found in the index is good until it is used; nobody reads half a header;
  and every call returns;
* a repair brings back what was there, no more, and leaves a base that works,
  until a search for a number that was given twice finds the wrong message;
* links of a thread lead to replies of the right message and always onwards, so
  following them ends; a message id names one message; a search finds what is there;
* a received file is the file that was sent, or somebody is told that it is not;
* bytes reach the client of a web session in order and framed as their part of
  the response says, whatever the two threads do, and no thread waits for ever.

`PROJECT.json` lists all the components, and under `hazards` the places in the
code where one of these could go wrong and a test would hardly show it.

## The modules

```
SmbBlocks          tables, extents, first fit, counters     (operators only)
 ├─ SmbBlocksProofs      the lemmas about them
 ├─ SmbAlloc       posting, undoing, purging: two tables, two locks
 │   ├─ MCSmbAlloc       SmbAllocProofs
 ├─ SmbBulk        one text with many recipients
 │   ├─ MCSmbBulk        SmbBulkProofs
 └─ SmbRepair      crashes at every write, fixsmb
     ├─ MCSmbRepair      SmbRepairProofs
SmbLock            the lock of the base, call by call
 ├─ implements MsgLedger
 ├─ MCSmbLock            SmbLockProofs
SmbThread          links, message ids, the search of the index
 ├─ MCSmbThread          SmbThreadProofs
Xmodem             a sender, a receiver and the line between them
 ├─ implements FileCopy
 ├─ MCXmodem             XmodemProofs
RingBuf            the ring buffer                          (operators only)
 └─ WebOutput      the two threads of a web session
     ├─ MCWebOutput      WebOutputProofs
     └─ implements ByteStream
```

**SmbBlocks** has the pure part of `smballoc.c` and of the extents in
`smb_addmsg`: `DatBlocks` (`smb_datblocks`), `Extent` (the blocks a text really
lies in), `FieldBlocks` (the blocks `smb_incdat` and `smb_freemsgdat` visit for one
data field, which is not always the same), `FirstFit`, `Place`, `MarkUsed`,
`FreeField`. Blocks have `BlockLen` bytes instead of 256 and counters wrap at
`RefModulus` instead of 65536.

**SmbAlloc** has one action for each section of the code that another process
cannot come between. `StoreText` is `smb_addmsg` up to the end of writing the
text: the `.sda` file is open deny-all while blocks are searched and marked.
`AddHeader` is `smb_addmsghdr`, all of it under the lock of the base;
`AddHeaderRefused` and `AddHeaderUnwritten` are its two ways to fail, and
`TextUnwritten` the failure before it. `UndoBody` and `UndoTail` are the loop of
`smb_freemsg_dfields` in the failure path, one open of the `.sda` file each, when
the base is no longer locked. `PosterDies` ends a process anywhere.
`MaintStart`, `Purge` and `MaintEnd` are `maint()` with the base locked and the
`.sda` file open throughout. `FlagDeleted` is `smb_updatemsg` setting
`MSG_DELETE`. The lock of the base is a mutex here: `SmbLock` shows what makes
it one. The ghost `left` counts the references that a process which died, or a
`maint()` broken off, has left in a block.

**SmbBulk** has a sender of each kind: `StoreText` (one reference), a header for
each recipient with the base unlocked in between, then `References` more
references, or none and the text freed. `CountReferences` is `smb_incmsg_dfields`
going through; `CountingStops` is its failure at the first block or a later one,
which none of the four programs looks at, `smb_open_da` failing before it
(`bulkmail.cpp:152`), or the death of the sender in it, and `SenderDies` his death
before. The ghost `uncounted` has the texts left that way, and `spent` becomes TRUE when
a deleted copy of such a text has freed a block that another copy needs. `Delete` is
`delmail()`: it purges a recipient's copy. `EarlyDeletes` says whether recipients may
do that before the sender has finished.

**SmbRepair** has an action for each write: index, status, headers and tables of
`smb_addmsg`, `smb_updatemsg`, `maint()` and `fixsmb`, with `Crash` between any
two of them, `fixsmb` included. The lock leaves one process at work, so there is
one program counter. The header file is kept block by block, with the headers of
freed messages still in it, since `fixsmb` finds messages by scanning it.
Numbers are bounded by `MaxPosts`. `fixsmb` is modelled with and without
`-renumber`; `-undelete` is not. After a crash and `fixsmb` two messages may have one
number, and `smb_updatemsg`, `loadmsg` and `maint()` look for their record by number: `Found`
is whatever record such a search may come upon, `MayMiss` when it may find none (the
index out of order, or the number gone). `FlagMessage` searches for the
header and again for the place to write it, `PurgeHeader` for the header to free;
`PurgeNotFound` and `PurgeBadHeader` are the two ways it fails. The ghost `misled` becomes
TRUE when a search has found another message than the one meant: the base counts as
damaged from then on (`Astray`), until `fixsmb` is run. `copies` are the
headers written over another one.

**SmbLock** has the system calls of `lock()` and `unlock()`, `fcntl()` for a
region (the process owns it) and `flock()` for the file (the open file owns
it), as steps of their own, with the undo of an attempt that failed half way and
the time limits of `smb_locksmbhdr` and `smb_lockmsghdr`. A handle is a thread
with the base open. `call` is the next system call of the lock or unlock it
is in, `tried` stands for `start` in the code (an attempt failed, so the
clock runs), `locked` for `smb->locked`. Under the lock it reads
the status, reads or writes the index, writes the status, each a step. Handles
post, reply (which locks the header of the original inside the base's lock),
update, purge and read. There is a region for the base header and one for a
message header.

**MsgLedger** is what that lock is for: an index which grows at its end by a higher
number, and from which entries are taken out.

**SmbThread** takes the base's lock for granted: each writer is one action, and
`Purge` and `WriteIndex` are two, because readers search the index without a
lock and may find it truncated. `Post` is all of `smb_addmsg`: the duplicate check
(`Duplicate`), the original, by number or by id (`Original`), the links
(`Linked`, with the loop of `smb_updatethread` as `LastReply`; `busy` is a header
it could not lock in time), the hash of the id, the header and the
index. `PostFails` is the same up to `smb_addmsghdr`, which refuses: links and hash
stay. The reader's search is step by step as in `smb_getmsgidx`, `total`, `bot`, `top`
and `l` being the variables of the code; `LoadHeader` reads the
header that is at the place by then; `WriteComment` is the operator's comment
in `readmsgs.cpp`, which writes back the header read earlier. Headers keep their
place in the header file (`blk`), since `fixsmb -renumber` numbers them in that order, as often
as it is run. `Purge` also trims or empties the hash file (`HashesTrimmed`; `MaxHashes` is
`max_msgs`, or 0 for a base without hashes). `hurt` records what has happened that links or ids do not survive:
`"renumbered"`, `"twice"` (a second time), `"trimmed"` and the others; the properties
say which of it each of them survives.

**Xmodem** has a sender (`xmodem_send_file` with `xmodem_get_mode`,
`xmodem_put_block`, `xmodem_get_ack` and `xmodem_put_eot`) and a receiver
(`xmodem_get_block` in the loop of `receive_files`). A block is acknowledged (`Accept`)
before it is written (`Write`), and `fwrite()` may fail (`WriteFails`); in between the block is
`unwritten`. Each reads one message at a
time or runs into the time-out of its `getcom()`; `Flushed` is a flush that
takes what has come by then. `r.pass` is `errors` of `xmodem_get_block`, `r.errors` that
of `receive_files`, `s.tries` the loop of `xmodem_get_ack`. The line loses and damages
messages, at its head, after any delay; it does not reorder. `trouble` counts what line
and clocks do wrong: a time-out counts too, unless nobody was going to
send (`SenderAlone`, `ReceiverAlone`), which uses that the receiver's timers (3 s, 10 s)
are never longer than the sender's (10 s). `ackVain` is a ghost: an ACK was lost,
damaged or thrown away, or the block it was for could not be written.

**FileCopy** is what a transfer promises: the file grows along the one that is
sent, by any number of units at a time, the receiver reports success when it has all of it, and the sender after the
receiver.

**RingBuf** has `RingBufWrite`, `RingBufRead`, `RingBufFull` and `RingBufFree`
on a record of head, tail and places, the one that stays unused
included. Each runs with the buffer's mutex locked.

**WebOutput** has the session thread of `websrvr.c` from the moment its
output thread is started: whether the client is let in, requests, headers, bodies,
trailers, `writebuf` (which looks for room and uses it in two steps),
`drain_outbuf` (three steps: empty, mutex there, mutex free), the end of the
connection; `ReadFails`, which closes the socket with no draining when a request cannot
be read, whatever is left in the buffer (`DrainClosed` is `drain_outbuf` returning at once afterwards);
and the output thread: its wait for data and for the high-water
mark, the read of `write_chunked`, the mutex, the read of the buffer, the send,
its end. A byte is its number and the framing that its part of the response
is meant to have. `spc` and `opc` are the places of the threads, `cont` where the
session thread returns to. A script ends a chunked response with a second
`send_headers` (`LastHeaders`), other responses do not.

**ByteStream** is what a buffer promises: what arrives is what was written, in
order, each byte once.

Operators named as mutants in a comment are faulty versions of the one they
stand before. No specification uses them: put in its place they show
that a property can tell them from the real one.

## The runs

Sizes are distinct states.

| Run | Instance | Shows |
| --- | --- | --- |
| SmbAllocTails (125 000) | 2 processes, 3 posts, 5 blocks of 2 bytes, body and tail | no allocation hands out a block in use, no purge frees a foreign one, even with tails that straddle blocks |
| SmbAllocFaults (2 210 000) | the same with one data field, 2 failures or deaths | counters are exact at every moment, whatever fails: the undo without the lock gives back what the post took and nothing else |
| SmbBulkShared (5 481 000) | 2 senders, 3 recipients, 3 texts, 1 counting that fails or sender that dies | the last copy to be deleted frees the text, and no other, until a copy of a text that was not counted takes the last reference |
| SmbBulkEarlyDelete (finding) | an SMTP sender, deletes allowed at once | it does not, if a recipient is fast enough |
| SmbRepair (4 711 000) | 3 posts, a crash at any write, `fixsmb` at once or after others have worked on the damaged base, searches for numbers given twice | repaired at once, and until a search has misled: nothing lost, tables exact; in any case a usable base after `fixsmb` and nothing back from the dead |
| SmbThread (1 273 000) | 3 posts, 1 failure or locked header, purges that trim the hash file to `MaxHashes = 1`, renumberings, one reader | links lead on until a second renumbering, to the right replies, and show the thread; ids name one message until their hashes are dropped, and never an older one; the search is right and ends |
| SmbLockProcesses (164 000) | 2 processes, all five jobs, 2 messages | the lock excludes, the index is a ledger, every call returns |
| SmbLockThreads (651 000) | 2 threads of one process and another process | `flock()` keeps the threads apart, while nobody locks two headers |
| SmbLockReply (finding) | the same, with replies | it does not when somebody does |
| Xmodem (449 000) | 8 units in 2 blocks of 3 and 2 of 1, numbered modulo 3, 5 errors, 2 tries, 6 troubles, a write that may fail, no falling back | the file arrives whole or is reported as failed, for a reason; both sides end |
| XmodemFallback (finding) | 3 units, a block of 2 at first | the file may have bytes twice and both sides report success |
| WebOutput (538 000) | 2 requests, the reading of either may fail, a buffer of 3 bytes, high-water mark 2, bodies of 2 bytes | order, framing, draining while the socket is open, no empty chunk, no endless wait |

**Why the bounds are enough.** A block of two bytes lets a field end inside a
block, at its end, and straddle one; five blocks let the first fit find a hole
in front of, between and behind messages. Three posts are one that leaves a
hole, one that fills it, and one that is hurt. Header sizes of one and two blocks
make overlaps possible. `RefModulus = 4` is larger than the number of
references the instances reach: wrap-around of counters is not examined. One crash
reaches every pair of writes, and the repair it hits as well. Two processes
are enough for every conflict over one lock; two threads and a process are
the smallest case where the two kinds of lock differ; with two messages a purge
moves a record somebody has found. A buffer of three bytes has four places, so
pieces of up to three bytes wrap, fill it and have to be cut; the high-water
mark of two makes the output thread hold bytes back, and send less than it
has; two requests let bytes of one response meet the headers of the next. In SmbThread three posts
are an original with two replies, side by side or one to the other, and a search of three records
takes every branch; a failed post is followed by others that take its number; with one hash
to keep an id is forgotten, known, or accepted again, and three blocks are what renumbering, a reply
and renumbering again need. One counting that fails, at any block or before it, leaves texts
with too few references beside others that have enough. One crash and `fixsmb` give a number
twice, and flags and purges then search for it. Four blocks modulo 3 let an old block
meet the next of its number; six troubles are more than five errors, so that each side
can use up its own and the other's, and MaxErrors \div 3 and the two tries are reached
on the way. `FallsBackAt` is one more than the errors that can be counted, so large
blocks stay large up to the end of the file; what the falling back does
is the other run's question. `Recovers` allows failure from
`2 * trouble >= MaxErrors` on, since one trouble may cost two errors: the first EOT
is refused by design, and an EOT that is damaged is refused, with the next one, once more. In XmodemFallback
`Large` is 2 units instead of 8; numbers and tries are those of the code.

Symmetry (`MCSymmetry`, `EitherThread`) is used only where the processes or
threads are alike and no liveness is checked. Deadlock is not checked where
posts, texts or requests run out and the system may stop; the lock runs check
it (the two that pass).

**Fairness.** `SmbLock` and its `FairSpec`: each handle's thread goes on (weak
fairness of its step), and a call that has failed an attempt and goes on failing
meets its time limit in the end (strong fairness of `Timeout`: attempt
and undo alternate, so the guard of the time limit comes and goes, while the
clock of the code runs on). The scheduler gives the first, `time(NULL)`
compared with `retry_time` the second. Nothing is assumed about who wins the
lock. `WebOutput`: both threads go on (weak fairness of each). All their
waits have a time limit in the code and are followed by another look, and a
send ends by the `select()` in `sess_sendbuf`, limited by `max_inactivity`.
Nothing is assumed of the client. `SmbThread`: the reader's loop goes on, and
`maint()` writes the index it has truncated. `Xmodem`: both programs go on
(weak fairness of each), because every `getcom()` has a time limit; nothing is assumed
of the line.

## The proofs

Each `...Proofs` module extends the specification of its name; the theorems are
listed in `PROJECT.json`. All hold for every value of the constants, whatever
the bounds, except for what is assumed below. Where the inductive invariant needs
formulas that only the proof uses, they stand at the end of the specification
or at the head of the proof module.

**`SmbBlocksProofs`** has the lemmas about the operators of `SmbBlocks`: `FirstFit`
returns a place up to the end of the table from where on the blocks wanted are
free or beyond the end, which blocks `MarkUsed` and `FreeFields` change, and how far the
fields of a message reach: always inside its extent (`FieldsInside`), and all of it
when there is one field (`OneFieldBlocks`).

**`SmbAllocProofs`** (any set of clients, block length, shapes, header sizes,
storage modes, with and without hyper allocation):

* `TypeCorrect`: the type invariant. `TypeOK` is made of three named parts, one
  lemma each.
* `HeadersSafe`: readable messages share no header blocks and these stay
  marked. `HeadersDisjoint` is not inductive: a header block may be given to a
  new message when it is not marked, so one must know that those of every
  message in the index and not yet purged are marked, and below the end of the
  table and of the file (`HeaderInv`); that a process between its text and its
  header, or in maintenance, has the lock (`LockInv`); that a text belongs to one
  message (`TextInv`); and that a message with freed blocks stays in the index
  during maintenance only (`FreedInv`). `HeaderIndInv` is their conjunction.
* `TextsSafe`, `TextsCounted`, `OnlyOwnFreed`: texts of readable messages do not
  overlap, lie in counted blocks, and lose a reference only in the step that deletes
  them. Assumed is `Undoable`: messages have one data field, as those `savemsg()` makes, **or**
  nothing fails (`MaxFaults = 0`), and then tails may straddle blocks.
  Without it they are false (the undo without the lock, below). The invariant,
  `DataIndInv`, says of all owners (headers in the index, and processes with a text
  in hand) that they are disjoint, lie before the end and are counted (`DataInv`), and
  that only a failure leaves anything to undo (`FieldInv`).
* `CountersSafe`: with one field, whatever fails or dies, each counter is at every moment the
  number of texts in its block, in the index or in a post's hands, and of the references left
  behind. `CounterIndInv` says that a counter is 1 in the blocks of an owner and `left` elsewhere
  (`CountersInv`), and that maintenance will purge everything that is flagged (`DoomedInv`).

**`SmbBulkProofs`** (any senders, recipients, texts and lengths), assuming
`LateDeletes`: nobody deletes a copy while its sender is at work, since otherwise
they are false (SmbBulkEarlyDelete), and a message has fewer recipients than
a counter of 16 bits can count. Senders may fail to count, or die; all three hold until a
copy of a text so left has taken the last reference from another one (`spent`), after which they
are false as well:

* `SharedTextsSafe`, `RecipientsCounted`, `SharedBlocksCounted` (`[](spent \/ LiveBlocksCounted)`):
  texts do not overlap, and every recipient may delete the message once, or the blocks are
  counted at least if the counting failed. That counters are high enough holds while
  nobody is sending; in between a text has one reference and any number of headers. `BulkInv`
  therefore says it of the blocks without a sender at work (`CountedInv`), and that a
  text in hand has exactly one reference and headers only for the recipients
  it has been counted for (`SendingInv`), which is what the sender adds in the end.

**`SmbRepairProofs`** (any number of posts and crashes, any shapes and header sizes). What
holds of all steps, those of misled searches included, is little: types, what the process at work has in
hand, and that a header fits the file (`TypeInv`, `WorkInv`, `FitInv`), and that a misled search
leaves the base `late`. The rest is `StraightInv`, which holds while no search has missed its message:
a step goes straight (`GoesStraight`) when the record found is the one meant, and in a sound
base it always is, since there each number is given once and the index is in order. Its first parts hold
whatever else happens, the next ones whenever the base
is sound (no crash since the last repair, or `fixsmb` is at work and has it half rebuilt), the last
ones as long as nobody has worked on a damaged base:

* `TypesRight`, `DeletedStays` (`[](misled \/ NothingResurrected)`): types, and nothing comes back. `FilesInv`: every header in
  the header file, those of freed messages included, has a text of its own, and one that
  was written with `MSG_DELETE` keeps it. `RecordsInv`, `ListInv`: in a sound base each record
  points at a header with blocks of its own and has its `MSG_DELETE`; `RunInv` keeps
  the blocks of a header about to be written out of this, `FixInv` says how far `fixsmb`
  has got, and that all behind it is free.
* `PostedStays`: `StaleInv` says of every header in the file that it has its record, or is deleted
  and lies in free blocks; so a scan finds no more than the index had, and a message nobody
  chose to delete (`PostedInv`) has its record. It needs that headers do not overlap,
  the freed ones included (`LateInv`), or a scan that goes from header to header would
  miss one. That rests on first fit: a run of free blocks is the lowest there is
  (`FirstFitLeast`), so a new header begins behind the end of a freed one or at its start.
* `TextsApart`, `CountsRight`, `UsableAgain`, assuming `OneField` (messages have no tail; with
  one, `fixsmb` counts too few blocks, below): `CountInv` says that each counter is the number
  of texts not yet freed that use its block, at every step of all programs, of a post between two
  writes and of `fixsmb` half done. `TextsInv` and `CountInv` need each other: a block
  with counter 0 has no text in it, so a new text gets its own; and as texts are
  disjoint, `fixsmb` counts no block twice. `UsableAgain` is `[](misled \/ RepairedUsable)`. When others have worked on the damaged
  base texts may overlap, and then `UsableAgain` needs that the number of posts
  fits in a counter (`MaxPosts < RefModulus`).

**`SmbLockProofs`** (any handles and jobs, with or without `flock()`), assuming
`OneHandleEach`: `fcntl()` is there and each process has one handle:

* `ProcessesExcluded`, `HeadersWhole`: at most one handle works on the index, and no header is
  read while it is written. The invariant (`LockInv`) says at which stages and
  calls the handle's process owns the region; the undo of a failed attempt and the
  unlock in the retry loop make up most of the cases.
* `LockTypeCorrect`: types, among them that `total_msgs` does not
  fall below zero, which needs the whole of the next invariant.
* `NumbersSafe`: numbers are unique and `smb_addmsghdr()` never finds the index
  of the wrong length. `FileInv` says, for each stage of the handle that has the
  base, how far index, status and its copy of the status have got.
* `IndexKept`: the index stands still between the search for a record and its use.
* `IndexSafe`: the specification implements `MsgLedger`: each step maps to a post, a purge
  or a stutter.

**`SmbThreadProofs`** (any ids and header sizes):

* `LinksLeadOn`, assuming that the base is never renumbered or that headers have one size, and
  until it is renumbered a second time (it is
  false otherwise, see below): a link leads to a higher number. A
  header held by a reader is written back, so `LinkInv` says the same of that one, and that
  numbers in use are at most `last_msg`, so that a new one is higher than all. For
  `fixsmb -renumber`, which changes numbers and leaves links, `SlotInv`: headers lie in slots of
  their size, and message `n` in one of the first `n`, because the first free slot is
  taken and at most `n - 1` headers were there (`FirstFreeSlot`, `NewSlot`). So at most `n` headers
  lie at or before its place, and its new number, which is how many do, is no higher
  (`RenumberDown`).
* `LinksLeadRight`, `IdsFindMessages`: a link leads to a reply to the right message, and an id finds no
  message older than the newest that has it, which is the only one until `maint()` drops hashes; the
  last `MaxHashes` messages are found whatever it drops; under the conditions
  their properties name (no post failed, nothing renumbered). `ThreadInv` adds the hashes (`HashInv`: each id once, each
  header's id with its number), that a header read long ago is still of the message
  of its number (`LoadedInv`), and that both links of every header, that one
  included, are right (`LinksInv`). Which reply a new one is linked to is the loop of
  `smb_updatethread`, the recursive function `LastReply`. `RepliesEnd` shows that it
  has a value, as links ascend, and `LastReplyBack` that what it finds answers
  the same original.
* `SearchSafe`: the search never gives up on a record that was there when it began and
  has not been moved. `IndexInv`: the index, or what `maint()` is about to write, has
  the existing numbers in order. `SearchInv`: while the record is due it is in
  the part that is left.
* `SearchShrinks`: that part has a record at least, gets smaller with each step of the search
  and never larger, whatever happens to the index. `NarrowInv`: the record looked at is strictly
  inside, or there is one left (`HalfOf`), when the next step ends the search. `SearchEnds`
  adds only that the search takes its steps.
* `TypesRight`: types, among them that renumbering finds a header for every new
  number (`Ranks`: the headers lie at different places, so each number up to
  their count is the rank of one of them), and that what `maint()` writes is an index
  (`KeptRight`, on the recursive function `Kept`).
* `ThreadsShown`: the thread a reader is shown has the message he is at, while nothing has hurt
  the links (the trimming of hashes does not). `ShownInv`: all numbers up to `last_msg` exist and links lead to them;
  a reply has the thread of the older message it replies to; and each reply has a link to it
  from an older message of its thread. A post keeps that because the loop of
  `smb_updatethread` ends at a reply without a next one (`LastReplyIsThere`), so that the link
  that is set led nowhere before (`OneLinkMore`). Going up the numbers, the links from the message
  with the thread's number then reach all messages of the thread (`ThreadFollows`, with
  `ShownRuns` on the recursive function in `ShownFrom`).

`LoopsRun` is what makes the recursive functions usable: a function
defined by recursion on the naturals exists, proved from the definition of `CHOOSE`
and natural induction for the sets at hand.

**`WebOutputProofs`** (any high-water mark, buffer size, requests and bodies). First `RingBuf`:
a buffer holds the sequence `Held`; `WriteAppends`: a write with room for it appends, in one
piece or around the end; `ReadTakes`: a read takes off the front. From those two and one
invariant, `WebInv`:

* `FramingSafe`: the output thread reads `write_chunked` before it locks the mutex
  and reads the buffer; all the same each byte is framed as its response wants. `FramingInv`
  says at which stages the flag has which value and that it has not changed
  since it was read; `WantInv` that all bytes under way, in the session's hands, in the buffer
  or in the output thread's, want that value, because the session thread drains before it
  changes it.
* `DrainSafe` (while the socket is open), `ChunksSafe`, `MutexSafe`: what `drain_outbuf()` has found out stays true between
  its three looks (`DrainInv`), so nothing is under way when it returns and its mutex is
  there; what the output thread saw in the buffer is there when it reads (`OutputInv`).
* `StreamInOrder`: the implementation of `ByteStream`. `StreamInv` numbers all bytes from
  the wire back to those not yet written.

**`XmodemProofs`** (any file length, modulus above 1, error limits and any amount of
trouble, blocks of any size), as long as `KeepsSize` holds: the sender never counts the errors
on block 1 at which it falls back to small blocks (`xmodem.c:578`), or it has small ones
only. The copy is wrong otherwise (XmodemFallback), so the falling back is
the one thing that breaks it. `KeepsSize` is a condition on the behaviour,
`Spec /\ []KeepsSize => ...`; `SmallBlocks` draws the conclusion for `Large = 1`, where it
always holds:

* `CopySafe`: the receiver's file is always the beginning of the file sent, and what
  the sender takes for acknowledged is in it, but for a block the receiver has in hand or could
  not write. `CopyInv` speaks of all that was taken (`Taken`, the file and what is unwritten; `HandInv`: nothing
  is unwritten but before a write or after one that failed). It says how the two counts, the blocks
  and the answers under way hang together: the receiver has as many blocks as the sender
  knows of (`Level`) or one more (`Ahead`), in number and in length; an ACK is under way
  only for that one or for the end of the text, and never two; the blocks on the
  line are the last one written or the next (`LastBlock`, `NextBlock`), in order, which is
  why any modulus above 1 will do; an EOT is sent when all is acknowledged. How long a
  block is depends on where it starts and on nothing else (`LenAt`), so the one that is
  sent again is the one that was lost: this is what falling back puts an end to.
* `CopyImplements`: every step is one of `FileCopy` or a stutter.
* `TroubleRecovered`: a side gives up only if an ACK was in vain (lost, damaged, thrown away, or for a
  block that could not be written), if the sides
  took different modes, or if at least half as much went wrong as errors are allowed.
  No error counter alone is bounded by the trouble: a message damaged now is an error when it
  is read. `RecoverInv` counts the errors bound to come with those already made. While none of
  the three has happened (`Calm`), an ACK that is due is under way, no CAN is, and four sums
  hold. The receiver's errors, with the noise on the line to it and the silence it waits
  in, are no more than the troubles (`ErrorsInv`). All that is under way, with the passes spent
  on it, is one more than the troubles at most: one message goes round, and each trouble
  may add one (`TokenInv`); so no pass is the last. The sender's errors, with the requests
  under way to it and all that will make the receiver ask, are no more than the
  troubles while blocks are sent (`TextInv`), and than twice the troubles, and one more, when the
  text has ended, since the first EOT is refused by design (`EndInv`).

Only model-checked: all liveness (`EveryCallReturns`, `SearchEnds`, `BothEnd` and
the others; it is out of the prover's reach, as is `ENABLED`, so of `SearchEnds` the proof has
the measure and TLC the rest), and threads of one process, where
what keeps them apart is false in general.

## Where code and documents disagree

Each is a run that ends in a counterexample.

1. **SmbBulkEarlyDelete** (`mailsrvr.c:3964`). References for further recipients
   are added after their headers; a recipient's copy purged by then takes the
   only reference. A block with counter 0, "a free block" according to
   `src/sbbs2/smb/docs/smb.src:1248`, holds a text that can be read.
2. **SmbLockReply** (`smblib.c:1180`). Unlocking the original's header gives up
   `flock()` for the whole file while the base is meant to be locked; two threads
   post under one number, which is not the "unique serial number" of line 1149.
3. **XmodemFallback** (`xmodem.c:578`). A receiver that waits asks every three
   seconds; the sender takes what is left of its requests for answers to the first large
   block and, at the third, starts again with small ones. The ACK of the large
   block then passes for that of the small one ("Returns ACK if ack received",
   `xmodem.c:351`); bytes are written twice.

Known and without a run of their own:

* A post that is refused frees the data fields one after the other with the base
  unlocked (`smbadd.c:312`); body and tail share a block; between the two somebody
  else may be given it and lose the reference. (`SmbAllocTails.cfg` with
  `MaxFaults = 1` shows it.)
* No sender looks at what the counting of the recipients returns, and bulk mail leaves it out
  when the `.sda` file cannot be opened (`bulkmail.cpp:152`, `mailsrvr.c:3964`, `netmail.cpp:1195`,
  `js_msgbase.c:2679`): the first copy to be deleted frees the text of the others, whose blocks
  can be given to another message.
* Counting anew visits too few blocks of a tail that starts inside a block; after
  `fixsmb` its last block is free (`fixsmb.c:249`).
* `fixsmb -renumber` leaves links and hashes as they are. If headers have several
  sizes, one may lie in front of an older one, and a link may lead to its own message
  afterwards: `show_thread()` then calls itself for ever. (`SmbThread.cfg` with
  `HdrBlocks = {1, 2}`, `MaxPosts = 4` and `MaxBlocks = 5` violates `LinksAscend`.) With one size it takes a second
  renumbering: of three messages the first two are purged, the third becomes number 1, is
  answered by number 2 in a block before it, and the next run exchanges their numbers (`fixsmb.c:220`). A search under way may look at one record for
  ever too, until it is right again (`smblib.c:506`).
* A post that fails leaves its links and its hash with the number that the next post
  takes (`smbadd.c:292`): replies show up in other threads, and an id finds
  another message.
* A header written back late (`readmsgs.cpp:1218`) takes away links it has got meanwhile,
  and after a renumbering overwrites another message's.
* `maint()` keeps the end of the hash file (`smbutil.c:644`), or none of it: a message whose
  hash is dropped is no longer found by its id, and another with the same id is accepted.
* `smb_first_in_thread()` says "Find oldest *existing* message in the thread"
  (`smblib.c:2054`), and stops at the first gap on the way back.
* A repeated XMODEM block is not acknowledged again (`xmodem.c:296`), so one lost ACK
  ends the transfer; `xmodem_put_eot` throws away a late ACK (`xmodem.c:456`) and the sender
  reports a failure for a file that arrived; a receiver that falls back to checksums
  (`sexyz.c:1294`) may leave behind a sender that has taken a stale "C".
* A tail that starts inside a block keeps its last block for ever, since
  `smb_freemsgdat` visits too few (`smballoc.c:146`); the block leaks.
* Net mail whose first recipient is refused leaves a stored text with a
  reference (`netmail.cpp:1194`); it leaks.
* `maint()` run again after it died, instead of `fixsmb`, frees the same blocks a
  second time (`smbutil.c:770`).
* Without `-renumber` `fixsmb` leaves `last_msg` alone, so after a crash between
  index and status the number of the rescued message is given again
  (`fixsmb.c:256`). A search by number then finds either of the two
  (`smblib.c:506`): the wrong message is flagged, the header of one is written over
  the other's (`smblib.c:1619`), or `maint()` frees one instead of the other (`smbutil.c:774`).
* A request that cannot be read closes the socket at once (`websrvr.c:2119`, `2135`, `2253`), and
  `drain_outbuf()` then returns with what is left of the response before it. A client that has
  closed its own side and still reads does not get the rest; with TLS the close waits for it.
* A block is acknowledged before it is written (`sexyz.c:1302`). If the write fails, the
  sender takes for received what is not in the file until it reads the CAN.
* A thread whose attempt on a message header fails undoes it with `unlock()`, which
  gives up `flock()` for the whole file (`smblib.c:434`), like 2.

## What is left out

* In the modelled parts: contents of headers and texts, translation and
  compression, hashes of texts and the CRC history, votes; the steps of the
  search of the index outside `SmbThread` (`SmbRepair` has its outcomes where it may find a wrong
  record or none, elsewhere a record is found if it is there); in `SmbThread`, `fixsmb` without
  `-renumber` and the ids of deleted headers that `fixsmb` hashes again; attributes other than `MSG_DELETE`;
  short writes other than a crash between two writes. A call that fails does so at
  the points named above. A record of the index or the status is written
  at once.
* In the web server: parsing, authentication, CGI processes, scripts, HTTP/0.9,
  TLS (whose close waits and unlocks in its own way), and a `pthread_mutex_init`
  that fails. The semaphores and the event of the buffer are not modelled: all
  waits on them have a time limit and are followed by another look, so the
  model, which may look at any time, has more behaviours. Internal redirects are
  part of a request.
* Of file transfers: G mode, the headers and batches of YMODEM, ZMODEM, a limit on
  the file's size, hang-up, an abort by the user, single CANs (a CAN stands for the eight
  that are sent), checksums that match by accident, what the C library still holds of a file after `fwrite()` (the results of the
  `fflush()` and `fclose()` at the end are not looked at), and the threads and buffers of
  `sexyz`.
* Undefined behaviour is not modelled: what unlocking a mutex
  does that was never initialised (`websrvr.c:1026`).
* Components with status `not_modelled` in `PROJECT.json`: some are in the plan,
  others are screens, conversions or separate programs whose state is
  nobody else's.

## The plan

In order; the first lines come first because everything else stores its work in
message bases.

1. Done: `SmbBlocks`, `SmbAlloc`, `SmbBulk`, `SmbRepair`, `SmbLock` with
   `MsgLedger`, `SmbThread`, `RingBuf`, `WebOutput` with `ByteStream`, `Xmodem` with
   `FileCopy`; proofs of all of them.
2. Message bases: `SmbPack` (`packmsgs()`), votes, the history of CRCs.
3. Sessions: `TermOutput` (the output thread of `main.cpp` and the resets of its
   buffer; the one of `sexyz.c` with its event), with `RingBuf`; peeking
   and re-initialising of the buffer.
4. Shared records: `NodeDab` and `UserDat` (read, unlock, write later).
5. Queues and waiting: `LinkList`, `MsgQueue` implementing a queue, `XpEvent`,
   `Semfile`; `JsRtPool`; stop and recycle of the services.
6. Protocols: `Telnet` negotiation (it must come to an end); the headers and batches of YMODEM
   in `Xmodem`, `Zmodem` implementing `FileCopy`; timed and exclusive events over nodes.
7. Proofs: what `SmbAlloc` and `SmbRepair` keep for messages with a tail.

Runs answer one question each. When a component grows, its instances are merged
rather than added to.
