------------------------------- MODULE SmbLock -------------------------------
(***************************************************************************)
(* The locks of a message base: src/smblib/smblib.c on top of lock() and   *)
(* unlock() of src/xpdev/filewrap.c.                                       *)
(*                                                                         *)
(* A lock is two system calls: fcntl() on a region of the header file,     *)
(* owned by the process, and flock() on the whole file, owned by the open  *)
(* file.  The base header and each message header have regions of their    *)
(* own, but every unlock() of any region gives up the whole-file lock, and *)
(* so does every failed attempt, which the callers undo with unlock().     *)
(*                                                                         *)
(* A handle is a thread of a process with the base open (a smb_t).  It     *)
(* posts ("add"), posts a reply ("reply", which locks the header of the    *)
(* original in between), updates a message ("update", at the place in the  *)
(* index where it found it), takes deleted mail out of the index ("purge") *)
(* or reads a message ("read").  What they allocate and free: SmbAlloc.    *)
(***************************************************************************)
EXTENDS Naturals, SequencesExt

CONSTANTS
    Handles,   \* the open message bases, each used by one thread
    Processes, \* the processes those threads are of
    Proc,      \* the process of each handle
    None,      \* no process, no handle
    Jobs,      \* what handles do: "add", "reply", "update", "purge", "read"
    Fcntl,     \* lock() calls fcntl(): all builds but the BSDs'
    Flock,     \* lock() calls flock(): all builds but Solaris' and QNX's
    MaxMsgs    \* bound: no post begins after so many messages

ASSUME LockAssumption ==
    /\ Proc \in [Handles -> Processes]
    /\ None \notin Handles /\ None \notin Processes
    /\ Jobs \subseteq {"add", "reply", "update", "purge", "read"}
    /\ Fcntl \in BOOLEAN /\ Flock \in BOOLEAN /\ (Fcntl \/ Flock)
    /\ MaxMsgs \in Nat

Regions == {"base", "hdr"}   \* the base header, and one message's header

VARIABLES
    region,   \* fcntl(): the process that has each region locked
    whole,    \* flock(): the handle that has the file locked
    job,      \* what each handle is doing
    pc,       \* where it is in that job
    call,     \* the next system call of the lock() or unlock() it is in
    tried,    \* "start" is set: an attempt of this lock call has failed
    locked,   \* the handles whose smb->locked is TRUE
    status,   \* last_msg and total_msgs in the file
    view,     \* smb->status: the copy of them a handle works with
    index,    \* the index file: the number of each message and who posted it
    found,    \* the message each handle updates: its entry and its place
    given     \* ghost: the numbers given to messages, in order

locks == <<region, whole>>
vars == <<region, whole, job, pc, call, tried, locked,
          status, view, index, found, given>>
files == <<status, view, index, found, given>>

Status == [last : Nat, total : Nat]
Entry == [number : Nat, by : Handles]
FirstCall == IF Fcntl THEN "fcntl" ELSE "flock"
LockStages == {"lockBase", "lockHdr"}
UnlockStages == {"unlockBase", "unlockHdr"}
\* With the base locked, and with a message's header locked.
BaseStages == {"getStatus", "putIndex", "putStatus", "putRest", "putLess", "getIdx"}
HdrStages == {"putHdr", "getHdr"}
Stages == {"idle"} \cup LockStages \cup UnlockStages \cup BaseStages \cup HdrStages

TypeLocks ==
    /\ region \in [Regions -> Processes \cup {None}]
    /\ whole \in Handles \cup {None}
    /\ job \in [Handles -> Jobs \cup {"none"}]
    /\ pc \in [Handles -> Stages]
    /\ call \in [Handles -> {"fcntl", "flock", "undoFcntl", "undoFlock"}]
    /\ tried \in [Handles -> BOOLEAN]
    /\ locked \subseteq Handles

TypeFiles ==
    /\ status \in Status
    /\ view \in [Handles -> Status]
    /\ index \in Seq(Entry)
    /\ found \in [Handles -> [at : Nat, entry : Entry \cup {None}]]
    /\ given \in Seq(Nat)

TypeOK == TypeLocks /\ TypeFiles

NoStatus == [last |-> 0, total |-> 0]
NotFound == [at |-> 0, entry |-> None]

Init ==
    /\ region = [r \in Regions |-> None] /\ whole = None
    /\ job = [h \in Handles |-> "none"]
    /\ pc = [h \in Handles |-> "idle"]
    /\ call = [h \in Handles |-> FirstCall]
    /\ tried = [h \in Handles |-> FALSE]
    /\ locked = {}
    /\ status = NoStatus
    /\ view = [h \in Handles |-> NoStatus]
    /\ index = <<>>
    /\ found = [h \in Handles |-> NotFound]
    /\ given = <<>>

\* The next stage starts its lock() or unlock(), if it is one, from its first call.
Goto(h, stage) ==
    /\ pc' = [pc EXCEPT ![h] = stage]
    /\ job' = IF stage = "idle" THEN [job EXCEPT ![h] = "none"] ELSE job
    /\ call' = [call EXCEPT ![h] = FirstCall]
    /\ tried' = [tried EXCEPT ![h] = FALSE]

Region(h) == IF pc[h] \in {"lockBase", "unlockBase"} THEN "base" ELSE "hdr"

\* Where each job goes on once it has the lock it is waiting for.
AfterLock(h) ==
    CASE pc[h] = "lockBase" /\ job[h] \in {"reply", "update"} -> "getIdx"
      [] pc[h] = "lockBase" /\ job[h] \in {"add", "purge"}    -> "getStatus"
      [] pc[h] = "lockHdr"  /\ job[h] \in {"reply", "update"} -> "putHdr"
      [] OTHER                                                -> "getHdr"

\* smb_unlockmsghdr() and smb_unlocksmbhdr() are followed by these.
AfterUnlock(h) ==
    CASE pc[h] = "unlockHdr" /\ job[h] = "reply"  -> "getStatus"
      [] pc[h] = "unlockHdr" /\ job[h] = "update" -> "unlockBase"
      [] OTHER                                    -> "idle"

\* Mutant: smb_updatemsg() does not look at what smb_lockmsghdr() returned.
AfterTimeoutWrite(h) == IF pc[h] = "lockHdr" /\ job[h] = "update" THEN "putHdr"
                        ELSE IF pc[h] = "lockHdr" /\ job[h] = "reply" THEN "getStatus"
                        ELSE "idle"

\* A timeout on the base ends the job; on the header of the original of a
\* reply it is ignored, and smb_updatemsg() goes on to unlock the base.
AfterTimeout(h) ==
    CASE pc[h] = "lockHdr" /\ job[h] = "reply"  -> "getStatus"
      [] pc[h] = "lockHdr" /\ job[h] = "update" -> "unlockBase"
      [] OTHER                                  -> "idle"

-----------------------------------------------------------------------------
(* The jobs. *)

\* A call of smb_addmsg(), smb_updatemsg(), or smb_lockmsghdr() to read.
Begin(h, j) ==
    /\ pc[h] = "idle"
    /\ j \in {"add", "reply"} => status.last < MaxMsgs
    /\ job' = [job EXCEPT ![h] = j]
    /\ pc' = [pc EXCEPT ![h] = IF j = "read" THEN "lockHdr" ELSE "lockBase"]
    /\ call' = [call EXCEPT ![h] = FirstCall]
    /\ tried' = [tried EXCEPT ![h] = FALSE]
    /\ UNCHANGED <<locks, locked, files>>

\* lock() has succeeded; smb_locksmbhdr() sets smb->locked.
HasLock(h) ==
    /\ Goto(h, AfterLock(h))
    /\ locked' = IF pc[h] = "lockBase" THEN locked \cup {h} ELSE locked

\* Mutant: the region is locked for reading (F_RDLCK), which everyone may.
MayLockRegionShared(h) == TRUE

\* fcntl() has conflicts with other processes only.
MayLockRegion(h) == region[Region(h)] \in {None, Proc[h]}

\* Mutant: the file is locked for reading (LOCK_SH), which everyone may.
MayLockWholeShared(h) == TRUE

\* flock() has conflicts with other open files only.
MayLockWhole(h) == whole \in {None, h}

\* fcntl(F_SETLK) in lock().
LockRegion(h) ==
    /\ pc[h] \in LockStages /\ call[h] = "fcntl"
    /\ MayLockRegion(h)
    /\ region' = [region EXCEPT ![Region(h)] = Proc[h]]
    /\ IF Flock
       THEN /\ call' = [call EXCEPT ![h] = "flock"]
            /\ UNCHANGED <<pc, tried, job, locked>>
       ELSE HasLock(h)
    /\ UNCHANGED <<whole, files>>

\* flock(LOCK_EX|LOCK_NB) in lock().
LockWhole(h) ==
    /\ pc[h] \in LockStages /\ call[h] = "flock"
    /\ MayLockWhole(h)
    /\ whole' = h
    /\ HasLock(h)
    /\ UNCHANGED <<region, files>>

\* lock() has failed: the region or the file is locked by another.
Refused(h) ==
    /\ pc[h] \in LockStages
    /\ \/ call[h] = "fcntl" /\ ~ MayLockRegion(h)
       \/ call[h] = "flock" /\ ~ MayLockWhole(h)

\* Mutant: the time of the first attempt is taken anew in every round.
UndoRestart(h) ==
    /\ Refused(h)
    /\ call' = [call EXCEPT ![h] = IF Fcntl THEN "undoFcntl" ELSE "undoFlock"]
    /\ UNCHANGED <<locks, job, pc, tried, locked, files>>

\* Too early for retry_time to have passed, so unlock() "in case we've already
\* locked it": its first call is fcntl() where there is one.
Undo(h) ==
    /\ Refused(h)
    /\ call' = [call EXCEPT ![h] = IF Fcntl THEN "undoFcntl" ELSE "undoFlock"]
    /\ tried' = [tried EXCEPT ![h] = TRUE]
    /\ UNCHANGED <<locks, job, pc, locked, files>>

\* retry_time has passed.  The region stays locked when only flock() failed.
Timeout(h) ==
    /\ Refused(h) /\ tried[h]
    /\ Goto(h, AfterTimeout(h))
    /\ found' = [found EXCEPT ![h] = NotFound]
    /\ UNCHANGED <<locks, locked, status, view, index, given>>

\* unlock(), of a region that was locked or after a failed attempt.
UnlockRegion(h) ==
    /\ \/ pc[h] \in LockStages /\ call[h] = "undoFcntl"
       \/ pc[h] \in UnlockStages /\ call[h] = "fcntl"
    /\ region' = IF region[Region(h)] = Proc[h]
                 THEN [region EXCEPT ![Region(h)] = None] ELSE region
    /\ IF Flock
       THEN /\ call' = [call EXCEPT ![h] =
                            IF pc[h] \in LockStages THEN "undoFlock" ELSE "flock"]
            /\ UNCHANGED <<pc, tried, job, locked>>
       ELSE IF pc[h] \in LockStages
       THEN /\ call' = [call EXCEPT ![h] = "fcntl"]
            /\ UNCHANGED <<pc, tried, job, locked>>
       ELSE /\ Goto(h, AfterUnlock(h))
            /\ locked' = IF pc[h] = "unlockBase" THEN locked \ {h} ELSE locked
    /\ UNCHANGED <<whole, files>>

\* flock(LOCK_UN): the whole file, whichever region was unlocked.
UnlockWhole(h) ==
    /\ \/ pc[h] \in LockStages /\ call[h] = "undoFlock"
       \/ pc[h] \in UnlockStages /\ call[h] = "flock"
    /\ whole' = IF whole = h THEN None ELSE whole
    /\ IF pc[h] \in LockStages
       THEN /\ call' = [call EXCEPT ![h] = FirstCall]
            /\ UNCHANGED <<pc, tried, job, locked>>
       ELSE /\ Goto(h, AfterUnlock(h))
            /\ locked' = IF pc[h] = "unlockBase" THEN locked \ {h} ELSE locked
    /\ UNCHANGED <<region, files>>

\* smb_getstatus() in smb_addmsghdr(), and its check of the index file's length;
\* smb_getstatus() in delmail().
GetStatus(h) ==
    /\ pc[h] = "getStatus"
    /\ LET fails == IF job[h] = "purge" THEN status.total = 0
                    ELSE Len(index) # status.total
       IN  /\ Goto(h, IF fails THEN "unlockBase"
                      ELSE IF job[h] = "purge" THEN "putRest" ELSE "putIndex")
           /\ view' = [view EXCEPT ![h] = IF fails THEN NoStatus ELSE status]
    /\ UNCHANGED <<locks, locked, status, index, found, given>>

\* Writing record at of a file of records: at most one behind its last.
PutAt(file, at, entry) ==
    IF at > Len(file) THEN Append(file, entry) ELSE [file EXCEPT ![at] = entry]

\* smb_putmsgidx(): the record at total_msgs, with the number last_msg + 1.
PutIndex(h) ==
    /\ pc[h] = "putIndex"
    /\ IF view[h].total > Len(index)
       THEN /\ Goto(h, "unlockBase")
            /\ view' = [view EXCEPT ![h] = NoStatus]
            /\ UNCHANGED index
       ELSE /\ index' = PutAt(index, view[h].total + 1,
                              [number |-> view[h].last + 1, by |-> h])
            /\ Goto(h, "putStatus")
            /\ UNCHANGED view
    /\ UNCHANGED <<locks, locked, status, found, given>>

\* smb_putstatus() with last_msg and total_msgs one more than were read.
PutStatus(h) ==
    /\ pc[h] = "putStatus"
    /\ status' = [last |-> view[h].last + 1, total |-> view[h].total + 1]
    /\ view' = [view EXCEPT ![h] = NoStatus]
    /\ given' = Append(given, view[h].last + 1)
    /\ Goto(h, "unlockBase")
    /\ UNCHANGED <<locks, locked, index, found>>

\* delmail() reads the records of the index, one of which is of a deleted
\* message, and writes the others back.
PutRest(h) ==
    /\ pc[h] = "putRest"
    /\ \E i \in 1 .. Len(index) : index' = RemoveAt(index, i)
    /\ Goto(h, "putLess")
    /\ UNCHANGED <<locks, locked, status, view, found, given>>

\* Mutant: the messages deleted are taken off a total that is already without them.
PutLessTwice(h) ==
    /\ pc[h] = "putLess"
    /\ status' = [view[h] EXCEPT !.total = @ - 2]
    /\ view' = [view EXCEPT ![h] = NoStatus]
    /\ Goto(h, "unlockBase")
    /\ UNCHANGED <<locks, locked, index, found, given>>

\* smb_putstatus() in delmail(): total_msgs is the number of records written.
PutLess(h) ==
    /\ pc[h] = "putLess"
    /\ status' = [view[h] EXCEPT !.total = @ - 1]
    /\ view' = [view EXCEPT ![h] = NoStatus]
    /\ Goto(h, "unlockBase")
    /\ UNCHANGED <<locks, locked, index, found, given>>

\* smb_getmsgidx() in smb_updatemsg(), and in smb_addmsg() for the original of a
\* reply: the place of the message in the index, "for later update by
\* smb_putmsgidx", unless it is not there any more.
GetIdx(h) ==
    /\ pc[h] = "getIdx"
    /\ \/ /\ Goto(h, IF job[h] = "reply" THEN "getStatus" ELSE "unlockBase")
          /\ UNCHANGED found
       \/ /\ \E i \in 1 .. Len(index) :
                 found' = [found EXCEPT ![h] = [at |-> i, entry |-> index[i]]]
          /\ Goto(h, "lockHdr")
    /\ UNCHANGED <<locks, locked, status, view, index, given>>

\* smb_putmsg() in smb_updatemsg(), and in smb_updatethread() for a first reply,
\* ends: the header is written, and the record of the index, unless the file is
\* shorter now.  For a later reply smb_putmsghdr() leaves the index alone.
PutHdr(h) ==
    /\ pc[h] = "putHdr"
    /\ \/ index' = IF found[h].at > Len(index) + 1 THEN index
                   ELSE PutAt(index, found[h].at, found[h].entry)
       \/ job[h] = "reply" /\ UNCHANGED index
    /\ found' = [found EXCEPT ![h] = NotFound]
    /\ Goto(h, "unlockHdr")
    /\ UNCHANGED <<locks, locked, status, view, given>>

\* A header has been read.
HdrDone(h) ==
    /\ pc[h] = "getHdr"
    /\ Goto(h, "unlockHdr")
    /\ UNCHANGED <<locks, locked, files>>

\* smb_close() when nothing is going on: close() gives up all the locks that
\* the process has on the file, and those of the open file.
Close(h) ==
    /\ pc[h] = "idle"
    /\ \E r \in Regions : region[r] = Proc[h]
    /\ region' = [r \in Regions |-> IF region[r] = Proc[h] THEN None ELSE region[r]]
    /\ whole' = IF whole = h THEN None ELSE whole
    /\ UNCHANGED <<job, pc, call, tried, locked, files>>

\* The call a handle is in goes on.
Step(h) ==
    \/ LockRegion(h) \/ LockWhole(h) \/ Undo(h)
    \/ UnlockRegion(h) \/ UnlockWhole(h)
    \/ GetStatus(h) \/ PutIndex(h) \/ PutStatus(h) \/ PutRest(h) \/ PutLess(h)
    \/ GetIdx(h) \/ PutHdr(h) \/ HdrDone(h)

Next == \E h \in Handles :
    \/ \E j \in Jobs : Begin(h, j)
    \/ Step(h)
    \/ Timeout(h)
    \/ Close(h)

Spec == Init /\ [][Next]_vars

\* The scheduler runs every thread, and time passes: a call that keeps being
\* refused the lock finds, in some round, that retry_time is over.
FairSpec == Spec /\ \A h \in Handles : WF_vars(Step(h)) /\ SF_vars(Timeout(h))

-----------------------------------------------------------------------------
(* Properties. *)

\* While a handle that has locked the base reads the status or the index, or
\* writes the index or a header, no other does: smb_addmsg(), delmail(),
\* smb_updatemsg().
Working(h) == pc[h] \in BaseStages \cup {"putHdr"}
IndexAlone == \A h, k \in Handles : Working(h) /\ Working(k) => h = k

\* No two messages get the same number: smb_addmsghdr() gives last_msg + 1.
NumbersUnique == \A i, j \in 1 .. Len(given) : given[i] = given[j] => i = j

\* From smb_getmsgidx() to smb_putmsgidx() in smb_updatemsg(), or for the original
\* of a reply in smb_addmsg(), nobody else changes the index: the place found is
\* still the message's when it is used.
IndexStill == [][\A h \in Handles :
    job[h] \in {"reply", "update"} /\ pc[h] \in {"lockHdr", "putHdr"} /\ pc'[h] = pc[h]
        => index' = index]_vars

\* Nobody reads a header (smb_getmsghdr() with the header locked) while it is
\* being written: smb_updatemsg(), smb_updatethread().
NoTornRead == \A h, k \in Handles :
    ~ (pc[h] = "getHdr" /\ pc[k] = "putHdr")

\* smb_addmsghdr() never finds the index and the status of different lengths:
\* the check that makes it fail with SMB_ERR_FILE_LEN is for damaged bases.
IndexFits == \A h \in Handles : pc[h] = "getStatus" => Len(index) = status.total

\* Seen from outside, posting appends to the index, purging takes entries out,
\* and updating leaves it as it is: module MsgLedger.
Ledger == INSTANCE MsgLedger WITH ledger <- index
IndexIsLedger == Ledger!Spec

\* Every call comes back, with the lock or with SMB_ERR_TIMEOUT: the loops of
\* smb_locksmbhdr() and smb_lockmsghdr(), which never sleep between attempts.
EveryCallReturns == \A h \in Handles : pc[h] # "idle" ~> pc[h] = "idle"
=============================================================================
