---------------------------- MODULE SmbLockProofs ----------------------------
(***************************************************************************)
(* Proofs about SmbLock, for processes with one handle each and a lock()   *)
(* that calls fcntl(): any number of processes, with or without flock().   *)
(***************************************************************************)
EXTENDS SmbLock, TLAPS

OneHandleEach ==
    /\ Fcntl
    /\ \A h, k \in Handles : Proc[h] = Proc[k] => h = k

\* A job takes the stages that are its own.
StageOfJob(h) ==
    /\ pc[h] = "getHdr" => job[h] = "read"
    /\ pc[h] \in {"putHdr", "getIdx"} => job[h] \in {"reply", "update"}
    /\ pc[h] \in {"putRest", "putLess"} => job[h] = "purge"
    /\ pc[h] \in {"putIndex", "putStatus"} => job[h] \in {"add", "reply"}
    /\ pc[h] = "getStatus" => job[h] \in {"add", "reply", "purge"}
    /\ pc[h] \in {"lockHdr", "unlockHdr"} => job[h] \in {"reply", "update", "read"}
    /\ pc[h] \in {"lockBase", "unlockBase"} => job[h] \in {"add", "reply", "update", "purge"}

JobOfStage == \A h \in Handles : StageOfJob(h)

\* Between fcntl() locking the base and fcntl() unlocking it.
KeepsBase(h) ==
    \/ pc[h] \in BaseStages \cup {"putHdr"}
    \/ pc[h] \in {"lockHdr", "unlockHdr"} /\ job[h] \in {"reply", "update"}
    \/ pc[h] = "lockBase" /\ call[h] = "flock"
    \/ pc[h] = "unlockBase" /\ call[h] = "fcntl"

\* Between fcntl() locking a message's header and fcntl() unlocking it.
KeepsHdr(h) ==
    \/ pc[h] \in HdrStages
    \/ pc[h] = "lockHdr" /\ call[h] = "flock"
    \/ pc[h] = "unlockHdr" /\ call[h] = "fcntl"

RegionsKept == \A h \in Handles :
    /\ KeepsBase(h) => region["base"] = Proc[h]
    /\ KeepsHdr(h) => region["hdr"] = Proc[h]

LockInv == TypeLocks /\ JobOfStage /\ RegionsKept

LEMMA LockInvInit == ASSUME OneHandleEach PROVE Init => LockInv
BY LockAssumption DEF Init, LockInv, TypeLocks, JobOfStage, StageOfJob, RegionsKept, KeepsBase,
   KeepsHdr, FirstCall, OneHandleEach, Regions, Stages, LockStages, UnlockStages, BaseStages, HdrStages

\* What Goto() does, for a job and a stage that go together.
LEMMA GotoType ==
    ASSUME TypeLocks, NEW h \in Handles, NEW stage \in Stages, Goto(h, stage)
    PROVE  /\ job' \in [Handles -> Jobs \cup {"none"}]
           /\ pc' \in [Handles -> Stages]
           /\ call' \in [Handles -> {"fcntl", "flock", "undoFcntl", "undoFlock"}]
           /\ tried' \in [Handles -> BOOLEAN]
BY DEF Goto, TypeLocks, FirstCall

\* The stages that follow a lock, an unlock and a timeout.
LEMMA NextStages ==
    ASSUME JobOfStage, NEW h \in Handles
    PROVE  /\ pc[h] \in LockStages => AfterLock(h) \in Stages
           /\ pc[h] \in LockStages => AfterTimeout(h) \in Stages
           /\ pc[h] \in UnlockStages => AfterUnlock(h) \in Stages
<1>. USE DEF Stages, LockStages, UnlockStages, BaseStages, HdrStages
<1>1. pc[h] \in LockStages => AfterLock(h) \in Stages
  <2>1. ASSUME pc[h] = "lockBase" PROVE AfterLock(h) \in Stages
    <3>1. job[h] \in {"add", "reply", "update", "purge"}
      BY <2>1 DEF JobOfStage, StageOfJob
    <3>. QED  BY <2>1, <3>1 DEF AfterLock
  <2>2. ASSUME pc[h] = "lockHdr" PROVE AfterLock(h) \in Stages
    BY <2>2 DEF AfterLock
  <2>. QED  BY <2>1, <2>2
<1>2. AfterTimeout(h) \in Stages
  BY DEF AfterTimeout
<1>3. AfterUnlock(h) \in Stages
  BY DEF AfterUnlock
<1>. QED  BY <1>1, <1>2, <1>3

\* The work done under a lock: it moves on to another stage and leaves the locks.
LEMMA WorkSteps ==
    ASSUME NEW h \in Handles,
           GetStatus(h) \/ PutIndex(h) \/ PutStatus(h) \/ PutRest(h) \/ PutLess(h)
             \/ GetIdx(h) \/ PutHdr(h) \/ HdrDone(h)
    PROVE \E stage \in Stages : Goto(h, stage) /\ UNCHANGED <<locks, locked>>
<1>. USE DEF Stages, LockStages, UnlockStages, BaseStages, HdrStages
<1>1. CASE GetStatus(h)
  <2>. DEFINE fails == IF job[h] = "purge" THEN status.total = 0
                       ELSE Len(index) # status.total
  <2>1. Goto(h, IF fails THEN "unlockBase"
                ELSE IF job[h] = "purge" THEN "putRest" ELSE "putIndex")
    BY <1>1 DEF GetStatus
  <2>2. UNCHANGED <<locks, locked>>
    BY <1>1 DEF GetStatus
  <2>. HIDE DEF fails
  <2>. QED  BY <2>1, <2>2
<1>2. CASE PutIndex(h)
  BY <1>2 DEF PutIndex
<1>3. CASE PutStatus(h)
  BY <1>3 DEF PutStatus
<1>4. CASE PutRest(h)
  BY <1>4 DEF PutRest
<1>5. CASE PutLess(h)
  BY <1>5 DEF PutLess
<1>6. CASE GetIdx(h)
  BY <1>6 DEF GetIdx
<1>7. CASE PutHdr(h)
  BY <1>7 DEF PutHdr
<1>8. CASE HdrDone(h)
  BY <1>8 DEF HdrDone
<1>. QED  BY <1>1, <1>2, <1>3, <1>4, <1>5, <1>6, <1>7, <1>8

LEMMA LockTypeStep == LockInv /\ [Next]_vars => TypeLocks'
<1>. SUFFICES ASSUME LockInv, [Next]_vars PROVE TypeLocks'
  OBVIOUS
<1>. USE LockAssumption DEF LockInv, Stages, LockStages, UnlockStages, BaseStages, HdrStages
<1>1. ASSUME NEW h \in Handles, NEW j \in Jobs, Begin(h, j) PROVE TypeLocks'
  BY <1>1 DEF TypeLocks, Begin, locks, FirstCall
<1>2. ASSUME NEW h \in Handles, HasLock(h), pc[h] \in LockStages
      PROVE /\ locked' \subseteq Handles
            /\ job' \in [Handles -> Jobs \cup {"none"}] /\ pc' \in [Handles -> Stages]
            /\ call' \in [Handles -> {"fcntl", "flock", "undoFcntl", "undoFlock"}]
            /\ tried' \in [Handles -> BOOLEAN]
  <2>1. AfterLock(h) \in Stages
    BY <1>2, NextStages
  <2>2. locked' \subseteq Handles
    BY <1>2 DEF HasLock, TypeLocks
  <2>. QED  BY <1>2, <2>1, <2>2, GotoType DEF HasLock
<1>3. ASSUME NEW h \in Handles, LockRegion(h) PROVE TypeLocks'
  <2>1. region' \in [Regions -> Processes \cup {None}]
    BY <1>3 DEF LockRegion, TypeLocks
  <2>2. whole' = whole
    BY <1>3 DEF LockRegion
  <2>3. CASE Flock
    BY <1>3, <2>1, <2>2, <2>3 DEF LockRegion, TypeLocks
  <2>4. CASE ~ Flock
    <3>1. HasLock(h) /\ pc[h] \in LockStages
      BY <1>3, <2>4 DEF LockRegion
    <3>. QED  BY <3>1, <1>2, <2>1, <2>2 DEF TypeLocks
  <2>. QED  BY <2>3, <2>4
<1>4. ASSUME NEW h \in Handles, LockWhole(h) PROVE TypeLocks'
  <2>1. HasLock(h) /\ pc[h] \in LockStages /\ whole' = h /\ region' = region
    BY <1>4 DEF LockWhole
  <2>. QED  BY <2>1, <1>2 DEF TypeLocks
<1>5. ASSUME NEW h \in Handles, Undo(h) PROVE TypeLocks'
  BY <1>5 DEF Undo, TypeLocks, locks
<1>6. ASSUME NEW h \in Handles, Timeout(h) PROVE TypeLocks'
  <2>1. AfterTimeout(h) \in Stages /\ Goto(h, AfterTimeout(h))
    BY <1>6, NextStages DEF Timeout, Refused
  <2>. QED  BY <1>6, <2>1, GotoType DEF Timeout, TypeLocks, locks
<1>7. ASSUME NEW h \in Handles, UnlockRegion(h) PROVE TypeLocks'
  <2>1. region' \in [Regions -> Processes \cup {None}] /\ whole' = whole
    BY <1>7 DEF UnlockRegion, TypeLocks
  <2>2. CASE Flock \/ pc[h] \in LockStages
    BY <1>7, <2>1, <2>2 DEF UnlockRegion, TypeLocks
  <2>3. CASE ~ (Flock \/ pc[h] \in LockStages)
    <3>1. AfterUnlock(h) \in Stages /\ Goto(h, AfterUnlock(h)) /\ locked' \subseteq Handles
      BY <1>7, <2>3, NextStages DEF UnlockRegion, TypeLocks
    <3>. QED  BY <3>1, <2>1, GotoType DEF TypeLocks
  <2>. QED  BY <2>2, <2>3
<1>8. ASSUME NEW h \in Handles, UnlockWhole(h) PROVE TypeLocks'
  <2>1. whole' \in Handles \cup {None} /\ region' = region
    BY <1>8 DEF UnlockWhole, TypeLocks
  <2>2. CASE pc[h] \in LockStages
    BY <1>8, <2>1, <2>2 DEF UnlockWhole, TypeLocks, FirstCall
  <2>3. CASE pc[h] \notin LockStages
    <3>1. AfterUnlock(h) \in Stages /\ Goto(h, AfterUnlock(h)) /\ locked' \subseteq Handles
      BY <1>8, <2>3, NextStages DEF UnlockWhole, TypeLocks
    <3>. QED  BY <3>1, <2>1, GotoType DEF TypeLocks
  <2>. QED  BY <2>2, <2>3
<1>9. ASSUME NEW h \in Handles, NEW stage \in Stages, Goto(h, stage),
             UNCHANGED <<locks, locked>>
      PROVE TypeLocks'
  BY <1>9, GotoType DEF TypeLocks, locks
<1>10. ASSUME NEW h \in Handles,
              GetStatus(h) \/ PutIndex(h) \/ PutStatus(h) \/ PutRest(h) \/ PutLess(h)
                \/ GetIdx(h) \/ PutHdr(h) \/ HdrDone(h)
       PROVE TypeLocks'
  BY <1>10, <1>9, WorkSteps
<1>11. ASSUME NEW h \in Handles, Close(h) PROVE TypeLocks'
  BY <1>11 DEF Close, TypeLocks
<1>12. ASSUME UNCHANGED vars PROVE TypeLocks'
  BY <1>12 DEF vars, TypeLocks
<1>. QED
  BY <1>1, <1>3, <1>4, <1>5, <1>6, <1>7, <1>8, <1>9, <1>10, <1>11, <1>12 DEF Next, Step

\* What handle h does changes no other handle's place.
LEMMA OthersStay ==
    ASSUME TypeLocks, NEW h \in Handles,
           (\E j \in Jobs : Begin(h, j)) \/ Step(h) \/ Timeout(h) \/ Close(h),
           NEW k \in Handles, k # h
    PROVE  pc'[k] = pc[k] /\ job'[k] = job[k] /\ call'[k] = call[k]
<1>. DEFINE Same == pc'[k] = pc[k] /\ job'[k] = job[k] /\ call'[k] = call[k]
<1>0. \A S, x : \A f \in [Handles -> S] : [f EXCEPT ![h] = x][k] = f[k]
  OBVIOUS
<1>t. /\ job \in [Handles -> Jobs \cup {"none"}]
      /\ pc \in [Handles -> Stages]
      /\ call \in [Handles -> {"fcntl", "flock", "undoFcntl", "undoFlock"}]
  BY DEF TypeLocks
<1>1. ASSUME NEW stage, Goto(h, stage) PROVE Same
  <2>1. pc'[k] = pc[k] /\ call'[k] = call[k]
    BY <1>1, <1>t, <1>0 DEF Goto
  <2>2. job'[k] = job[k]
    BY <1>1, <1>t, <1>0 DEF Goto
  <2>. QED  BY <2>1, <2>2
<1>2. ASSUME NEW c, call' = [call EXCEPT ![h] = c], UNCHANGED <<pc, job>> PROVE Same
  BY <1>2, <1>t, <1>0
<1>3. CASE \E j \in Jobs : Begin(h, j)
  BY <1>3, <1>t, <1>0 DEF Begin
<1>4. CASE LockRegion(h)
  BY <1>4, <1>1, <1>2 DEF LockRegion, HasLock
<1>5. CASE LockWhole(h)
  BY <1>5, <1>1 DEF LockWhole, HasLock
<1>6. CASE Undo(h)
  BY <1>6, <1>2 DEF Undo
<1>7. CASE Timeout(h)
  BY <1>7, <1>1 DEF Timeout
<1>8. CASE UnlockRegion(h)
  BY <1>8, <1>1, <1>2 DEF UnlockRegion
<1>9. CASE UnlockWhole(h)
  BY <1>9, <1>1, <1>2 DEF UnlockWhole
<1>10. CASE Close(h)
  BY <1>10 DEF Close
<1>11. CASE GetStatus(h) \/ PutIndex(h) \/ PutStatus(h) \/ PutRest(h) \/ PutLess(h)
             \/ GetIdx(h) \/ PutHdr(h) \/ HdrDone(h)
  <2>1. \E stage \in Stages : Goto(h, stage)
    BY <1>11, WorkSteps
  <2>. QED  BY <2>1, <1>1
<1>. QED
  BY <1>3, <1>4, <1>5, <1>6, <1>7, <1>8, <1>9, <1>10, <1>11 DEF Step

\* It changes only regions that are free or locked by its own process.
LEMMA OwnRegionsOnly ==
    ASSUME TypeLocks, NEW h \in Handles,
           (\E j \in Jobs : Begin(h, j)) \/ Step(h) \/ Timeout(h) \/ Close(h),
           NEW x \in Regions, region[x] \notin {None, Proc[h]}
    PROVE  region'[x] = region[x]
<1>t. region \in [Regions -> Processes \cup {None}]
  BY DEF TypeLocks
<1>1. CASE LockRegion(h)
  <2>1. region' = [region EXCEPT ![Region(h)] = Proc[h]] /\ MayLockRegion(h)
    BY <1>1 DEF LockRegion
  <2>2. Region(h) # x
    BY <2>1 DEF MayLockRegion
  <2>. QED  BY <2>1, <2>2, <1>t
<1>2. CASE UnlockRegion(h)
  <2>1. region' = IF region[Region(h)] = Proc[h]
                  THEN [region EXCEPT ![Region(h)] = None] ELSE region
    BY <1>2 DEF UnlockRegion
  <2>2. CASE region[Region(h)] = Proc[h]
    BY <2>1, <2>2, <1>t
  <2>. QED  BY <2>1, <2>2
<1>3. CASE Close(h)
  BY <1>3, <1>t DEF Close
<1>4. CASE \/ \E j \in Jobs : Begin(h, j)
           \/ LockWhole(h) \/ Undo(h) \/ Timeout(h) \/ UnlockWhole(h)
  BY <1>4 DEF Begin, LockWhole, Undo, Timeout, UnlockWhole, locks
<1>5. CASE GetStatus(h) \/ PutIndex(h) \/ PutStatus(h) \/ PutRest(h) \/ PutLess(h)
             \/ GetIdx(h) \/ PutHdr(h) \/ HdrDone(h)
  <2>1. UNCHANGED locks
    BY <1>5, WorkSteps
  <2>. QED  BY <2>1 DEF locks
<1>. QED  BY <1>1, <1>2, <1>3, <1>4, <1>5 DEF Step

\* Where handle h is after a step of its own, and what it has locked.
LEMMA OwnPlace ==
    ASSUME OneHandleEach, LockInv, NEW h \in Handles,
           (\E j \in Jobs : Begin(h, j)) \/ Step(h) \/ Timeout(h) \/ Close(h)
    PROVE  /\ StageOfJob(h)'
           /\ KeepsBase(h)' => region'["base"] = Proc[h]
           /\ KeepsHdr(h)' => region'["hdr"] = Proc[h]
<1>. USE DEF Stages, LockStages, UnlockStages, BaseStages, HdrStages
<1>. DEFINE Place == /\ StageOfJob(h)'
                     /\ KeepsBase(h)' => region'["base"] = Proc[h]
                     /\ KeepsHdr(h)' => region'["hdr"] = Proc[h]
<1>t. /\ region \in [Regions -> Processes \cup {None}]
      /\ job \in [Handles -> Jobs \cup {"none"}]
      /\ pc \in [Handles -> Stages]
      /\ call \in [Handles -> {"fcntl", "flock", "undoFcntl", "undoFlock"}]
  BY DEF LockInv, TypeLocks
<1>i. /\ StageOfJob(h)
      /\ KeepsBase(h) => region["base"] = Proc[h]
      /\ KeepsHdr(h) => region["hdr"] = Proc[h]
  BY DEF LockInv, JobOfStage, RegionsKept
<1>f. FirstCall = "fcntl" /\ Proc[h] # None
  BY LockAssumption DEF OneHandleEach, FirstCall
<1>g. ASSUME NEW stage, Goto(h, stage)
      PROVE  /\ pc'[h] = stage /\ call'[h] = "fcntl"
             /\ stage # "idle" => job'[h] = job[h]
  BY <1>g, <1>t, <1>f DEF Goto
<1>1. ASSUME NEW j \in Jobs, Begin(h, j) PROVE Place
  <2>1. /\ pc'[h] = (IF j = "read" THEN "lockHdr" ELSE "lockBase")
        /\ call'[h] = "fcntl" /\ job'[h] = j
    BY <1>1, <1>t, <1>f DEF Begin
  <2>. QED  BY <2>1, LockAssumption DEF StageOfJob, KeepsBase, KeepsHdr
<1>2. ASSUME pc[h] \in LockStages, HasLock(h),
             pc[h] = "lockBase" => region'["base"] = Proc[h],
             pc[h] = "lockHdr" => region'["hdr"] = Proc[h] /\ region'["base"] = region["base"]
      PROVE Place
  <2>1. pc'[h] = AfterLock(h) /\ call'[h] = "fcntl"
    BY <1>2, <1>g DEF HasLock
  <2>2. CASE pc[h] = "lockBase"
    <3>1. job[h] \in {"add", "reply", "update", "purge"}
      BY <2>2, <1>i DEF StageOfJob
    <3>2. AfterLock(h) = CASE job[h] \in {"reply", "update"} -> "getIdx"
                           [] job[h] \in {"add", "purge"} -> "getStatus"
      BY <2>2, <3>1 DEF AfterLock
    <3>3. job'[h] = job[h]
      BY <3>1, <3>2, <1>2, <1>g DEF HasLock
    <3>. QED  BY <2>1, <2>2, <3>1, <3>2, <3>3, <1>2 DEF StageOfJob, KeepsBase, KeepsHdr
  <2>3. CASE pc[h] = "lockHdr"
    <3>1. job[h] \in {"reply", "update", "read"}
      BY <2>3, <1>i DEF StageOfJob
    <3>2. AfterLock(h) = CASE job[h] \in {"reply", "update"} -> "putHdr"
                           [] job[h] = "read" -> "getHdr"
      BY <2>3, <3>1 DEF AfterLock
    <3>3. job'[h] = job[h]
      BY <3>1, <3>2, <1>2, <1>g DEF HasLock
    <3>4. job[h] \in {"reply", "update"} => region["base"] = Proc[h]
      BY <2>3, <1>i DEF KeepsBase
    <3>. QED  BY <2>1, <2>3, <3>1, <3>2, <3>3, <3>4, <1>2
              DEF StageOfJob, KeepsBase, KeepsHdr
  <2>. QED  BY <1>2, <2>2, <2>3
<1>3. CASE LockRegion(h)
  <2>1. /\ region' = [region EXCEPT ![Region(h)] = Proc[h]]
        /\ pc[h] \in LockStages
    BY <1>3 DEF LockRegion
  <2>2. /\ pc[h] = "lockBase" => region'["base"] = Proc[h]
        /\ pc[h] = "lockHdr" => region'["hdr"] = Proc[h]
                                 /\ region'["base"] = region["base"]
    BY <2>1, <1>t DEF Region, Regions
  <2>3. CASE Flock
    <3>1. call'[h] = "flock" /\ pc' = pc /\ job' = job
      BY <1>3, <2>3, <1>t DEF LockRegion
    <3>. QED  BY <3>1, <2>1, <2>2, <1>i DEF StageOfJob, KeepsBase, KeepsHdr
  <2>4. CASE ~ Flock
    <3>1. HasLock(h)
      BY <1>3, <2>4 DEF LockRegion
    <3>. QED  BY <3>1, <2>1, <2>2, <1>2
  <2>. QED  BY <2>3, <2>4
<1>4. CASE LockWhole(h)
  <2>1. pc[h] \in LockStages /\ call[h] = "flock" /\ HasLock(h) /\ region' = region
    BY <1>4 DEF LockWhole
  <2>. QED  BY <2>1, <1>2, <1>i DEF KeepsBase, KeepsHdr
<1>5. CASE Undo(h)
  <2>1. /\ pc[h] \in LockStages /\ call'[h] = "undoFcntl"
        /\ UNCHANGED <<pc, job, region>>
    BY <1>5, <1>t DEF Undo, Refused, OneHandleEach, locks
  <2>. QED  BY <2>1, <1>i DEF StageOfJob, KeepsBase, KeepsHdr
<1>6. CASE Timeout(h)
  <2>1. pc[h] \in LockStages /\ Goto(h, AfterTimeout(h)) /\ region' = region
    BY <1>6 DEF Timeout, Refused, locks
  <2>2. pc'[h] = AfterTimeout(h) /\ call'[h] = "fcntl"
    BY <2>1, <1>g
  <2>3. CASE pc[h] = "lockHdr" /\ job[h] \in {"reply", "update"}
    <3>1. AfterTimeout(h) = IF job[h] = "reply" THEN "getStatus" ELSE "unlockBase"
      BY <2>3 DEF AfterTimeout
    <3>2. job'[h] = job[h]
      BY <3>1, <2>1, <1>g
    <3>3. region["base"] = Proc[h]
      BY <2>3, <1>i DEF KeepsBase
    <3>. QED  BY <2>1, <2>2, <2>3, <3>1, <3>2, <3>3 DEF StageOfJob, KeepsBase, KeepsHdr
  <2>4. CASE ~ (pc[h] = "lockHdr" /\ job[h] \in {"reply", "update"})
    <3>1. AfterTimeout(h) = "idle"
      BY <2>4 DEF AfterTimeout
    <3>. QED  BY <2>2, <3>1 DEF StageOfJob, KeepsBase, KeepsHdr
  <2>. QED  BY <2>3, <2>4
<1>7. ASSUME pc[h] \in UnlockStages, Goto(h, AfterUnlock(h)),
             pc[h] = "unlockHdr" => region'["base"] = region["base"]
      PROVE Place
  <2>1. pc'[h] = AfterUnlock(h) /\ call'[h] = "fcntl"
    BY <1>7, <1>g
  <2>2. CASE pc[h] = "unlockHdr" /\ job[h] \in {"reply", "update"}
    <3>1. AfterUnlock(h) = IF job[h] = "reply" THEN "getStatus" ELSE "unlockBase"
      BY <2>2 DEF AfterUnlock
    <3>2. job'[h] = job[h]
      BY <3>1, <1>7, <1>g
    <3>3. region["base"] = Proc[h]
      BY <2>2, <1>i DEF KeepsBase
    <3>. QED  BY <1>7, <2>1, <2>2, <3>1, <3>2, <3>3 DEF StageOfJob, KeepsBase, KeepsHdr
  <2>3. CASE ~ (pc[h] = "unlockHdr" /\ job[h] \in {"reply", "update"})
    <3>1. AfterUnlock(h) = "idle"
      BY <2>3 DEF AfterUnlock
    <3>. QED  BY <2>1, <3>1 DEF StageOfJob, KeepsBase, KeepsHdr
  <2>. QED  BY <2>2, <2>3
<1>8. CASE UnlockRegion(h)
  <2>1. /\ \/ pc[h] \in LockStages /\ call[h] = "undoFcntl"
           \/ pc[h] \in UnlockStages /\ call[h] = "fcntl"
        /\ region' = IF region[Region(h)] = Proc[h]
                     THEN [region EXCEPT ![Region(h)] = None] ELSE region
    BY <1>8 DEF UnlockRegion
  <2>2. pc[h] \in {"lockHdr", "unlockHdr"} => region'["base"] = region["base"]
    BY <2>1, <1>t DEF Region, Regions
  <2>3. CASE Flock \/ pc[h] \in LockStages
    <3>1. UNCHANGED <<pc, job>>
      BY <1>8, <2>3 DEF UnlockRegion
    <3>2. call'[h] = IF pc[h] \in LockStages
                     THEN IF Flock THEN "undoFlock" ELSE "fcntl" ELSE "flock"
      BY <1>8, <2>3, <1>t DEF UnlockRegion
    <3>. QED  BY <2>1, <2>2, <3>1, <3>2, <1>i DEF StageOfJob, KeepsBase, KeepsHdr
  <2>4. CASE ~ (Flock \/ pc[h] \in LockStages)
    <3>1. Goto(h, AfterUnlock(h))
      BY <1>8, <2>4 DEF UnlockRegion
    <3>. QED  BY <3>1, <2>1, <2>2, <2>4, <1>7
  <2>. QED  BY <2>3, <2>4
<1>9. CASE UnlockWhole(h)
  <2>1. /\ \/ pc[h] \in LockStages /\ call[h] = "undoFlock"
           \/ pc[h] \in UnlockStages /\ call[h] = "flock"
        /\ region' = region
    BY <1>9 DEF UnlockWhole
  <2>2. CASE pc[h] \in LockStages
    <3>1. UNCHANGED <<pc, job>> /\ call'[h] = "fcntl"
      BY <1>9, <2>2, <1>t, <1>f DEF UnlockWhole
    <3>. QED  BY <2>1, <2>2, <3>1, <1>i DEF StageOfJob, KeepsBase, KeepsHdr
  <2>3. CASE pc[h] \notin LockStages
    <3>1. Goto(h, AfterUnlock(h))
      BY <1>9, <2>3 DEF UnlockWhole
    <3>. QED  BY <3>1, <2>1, <2>3, <1>7
  <2>. QED  BY <2>2, <2>3
<1>10. CASE Close(h)
  BY <1>10 DEF Close, StageOfJob, KeepsBase, KeepsHdr
<1>11. ASSUME NEW stage, Goto(h, stage), region' = region, KeepsBase(h),
              stage \in {"unlockBase", "putIndex", "putRest", "putStatus", "putLess",
                         "lockHdr", "getStatus"},
              stage \in {"putIndex", "putStatus"} => job[h] \in {"add", "reply"},
              stage \in {"putRest", "putLess"} => job[h] = "purge",
              stage = "lockHdr" => job[h] \in {"reply", "update"},
              stage = "getStatus" => job[h] = "reply",
              job[h] \in {"add", "reply", "update", "purge"}
       PROVE Place
  BY <1>11, <1>g, <1>i DEF StageOfJob, KeepsBase, KeepsHdr
<1>12. CASE GetStatus(h)
  <2>. DEFINE fails == IF job[h] = "purge" THEN status.total = 0
                       ELSE Len(index) # status.total
  <2>1. /\ pc[h] = "getStatus" /\ region' = region
        /\ Goto(h, IF fails THEN "unlockBase"
                  ELSE IF job[h] = "purge" THEN "putRest" ELSE "putIndex")
    BY <1>12 DEF GetStatus, locks
  <2>. HIDE DEF fails
  <2>2. job[h] \in {"add", "reply", "purge"} /\ KeepsBase(h)
    BY <2>1, <1>i DEF StageOfJob, KeepsBase
  <2>3. CASE fails
    <3>1. Goto(h, "unlockBase")
      BY <2>1, <2>3
    <3>. QED  BY <3>1, <2>1, <2>2, <1>11
  <2>4. CASE ~ fails /\ job[h] = "purge"
    <3>1. Goto(h, "putRest")
      BY <2>1, <2>4
    <3>. QED  BY <3>1, <2>1, <2>4, <2>2, <1>11
  <2>5. CASE ~ fails /\ job[h] # "purge"
    <3>1. Goto(h, "putIndex")
      BY <2>1, <2>5
    <3>. QED  BY <3>1, <2>1, <2>5, <2>2, <1>11
  <2>. QED  BY <2>3, <2>4, <2>5
<1>13. CASE PutIndex(h) \/ PutStatus(h) \/ PutRest(h) \/ PutLess(h) \/ GetIdx(h)
  <2>1. KeepsBase(h)
    BY <1>13 DEF PutIndex, PutStatus, PutRest, PutLess, GetIdx, KeepsBase
  <2>2. region' = region
    BY <1>13 DEF PutIndex, PutStatus, PutRest, PutLess, GetIdx, locks
  <2>3. CASE PutIndex(h)
    <3>1. job[h] \in {"add", "reply"}
      BY <2>3, <1>i DEF PutIndex, StageOfJob
    <3>2. Goto(h, "unlockBase") \/ Goto(h, "putStatus")
      BY <2>3 DEF PutIndex
    <3>. QED  BY <3>1, <3>2, <2>1, <2>2, <1>11
  <2>4. CASE PutStatus(h)
    <3>1. job[h] \in {"add", "reply"} /\ Goto(h, "unlockBase")
      BY <2>4, <1>i DEF PutStatus, StageOfJob
    <3>. QED  BY <3>1, <2>1, <2>2, <1>11
  <2>5. CASE PutRest(h)
    <3>1. job[h] = "purge" /\ Goto(h, "putLess")
      BY <2>5, <1>i DEF PutRest, StageOfJob
    <3>. QED  BY <3>1, <2>1, <2>2, <1>11
  <2>6. CASE PutLess(h)
    <3>1. job[h] = "purge" /\ Goto(h, "unlockBase")
      BY <2>6, <1>i DEF PutLess, StageOfJob
    <3>. QED  BY <3>1, <2>1, <2>2, <1>11
  <2>7. CASE GetIdx(h)
    <3>1. job[h] \in {"reply", "update"}
      BY <2>7, <1>i DEF GetIdx, StageOfJob
    <3>2. \/ Goto(h, "unlockBase") \/ Goto(h, "lockHdr")
          \/ job[h] = "reply" /\ Goto(h, "getStatus")
      BY <2>7 DEF GetIdx
    <3>. QED  BY <3>1, <3>2, <2>1, <2>2, <1>11
  <2>. QED  BY <1>13, <2>3, <2>4, <2>5, <2>6, <2>7
<1>14. CASE PutHdr(h) \/ HdrDone(h)
  <2>1. /\ pc[h] \in HdrStages /\ Goto(h, "unlockHdr") /\ region' = region
    BY <1>14 DEF PutHdr, HdrDone, locks
  <2>2. pc'[h] = "unlockHdr" /\ call'[h] = "fcntl" /\ job'[h] = job[h]
    BY <2>1, <1>g
  <2>. QED  BY <2>1, <2>2, <1>i DEF StageOfJob, KeepsBase, KeepsHdr
<1>. QED
  BY <1>1, <1>3, <1>4, <1>5, <1>6, <1>8, <1>9, <1>10, <1>12, <1>13, <1>14 DEF Step

LEMMA LockInvStep == ASSUME OneHandleEach PROVE LockInv /\ [Next]_vars => LockInv'
<1>. SUFFICES ASSUME LockInv, [Next]_vars PROVE LockInv'
  OBVIOUS
<1>1. TypeLocks'
  BY LockTypeStep
<1>2. CASE UNCHANGED vars
  <2>1. JobOfStage'
    BY <1>2 DEF LockInv, JobOfStage, StageOfJob, vars
  <2>2. RegionsKept'
    BY <1>2 DEF LockInv, RegionsKept, KeepsBase, KeepsHdr, vars
  <2>. QED  BY <1>1, <2>1, <2>2 DEF LockInv
<1>3. ASSUME NEW h \in Handles,
             (\E j \in Jobs : Begin(h, j)) \/ Step(h) \/ Timeout(h) \/ Close(h),
             NEW k \in Handles
      PROVE  /\ StageOfJob(k)'
             /\ KeepsBase(k)' => region'["base"] = Proc[k]
             /\ KeepsHdr(k)' => region'["hdr"] = Proc[k]
  <2>1. CASE k = h
    BY <1>3, <2>1, OwnPlace
  <2>2. CASE k # h
    <3>1. pc'[k] = pc[k] /\ job'[k] = job[k] /\ call'[k] = call[k]
      BY <1>3, <2>2, OthersStay DEF LockInv
    <3>2. /\ StageOfJob(k)' <=> StageOfJob(k)
          /\ KeepsBase(k)' <=> KeepsBase(k)
          /\ KeepsHdr(k)' <=> KeepsHdr(k)
      BY <3>1 DEF StageOfJob, KeepsBase, KeepsHdr
    <3>3. /\ StageOfJob(k)
          /\ KeepsBase(k) => region["base"] = Proc[k]
          /\ KeepsHdr(k) => region["hdr"] = Proc[k]
      BY DEF LockInv, JobOfStage, RegionsKept
    <3>4. Proc[k] \notin {None, Proc[h]}
      BY <2>2, LockAssumption DEF OneHandleEach
    <3>5. ASSUME NEW x \in Regions, region[x] = Proc[k] PROVE region'[x] = Proc[k]
      BY <3>4, <3>5, <1>3, OwnRegionsOnly DEF LockInv
    <3>. QED  BY <3>2, <3>3, <3>5 DEF Regions
  <2>. QED  BY <2>1, <2>2
<1>4. CASE Next
  <2>1. PICK h \in Handles :
            (\E j \in Jobs : Begin(h, j)) \/ Step(h) \/ Timeout(h) \/ Close(h)
    BY <1>4 DEF Next
  <2>2. JobOfStage' /\ RegionsKept'
    BY <2>1, <1>3 DEF JobOfStage, RegionsKept
  <2>. QED  BY <1>1, <2>2 DEF LockInv
<1>. QED  BY <1>2, <1>4

LEMMA LockInvAlways == ASSUME OneHandleEach PROVE Spec => []LockInv
BY LockInvInit, LockInvStep, PTL DEF Spec

LEMMA LockInvExcludes == ASSUME OneHandleEach PROVE LockInv => IndexAlone /\ NoTornRead
BY DEF OneHandleEach, LockInv, RegionsKept, KeepsBase, KeepsHdr, IndexAlone, Working,
   NoTornRead, BaseStages, HdrStages

\* With one handle in each process, with or without flock(), no two handles work
\* on the index at a time: smb_addmsg(), delmail(), smb_updatemsg().
THEOREM ProcessesExcluded ==
    ASSUME OneHandleEach PROVE Spec => []IndexAlone
BY LockInvAlways, LockInvExcludes, PTL

\* No header is read while it is written: smb_lockmsghdr() and smb_getmsghdr()
\* against smb_updatemsg() and smb_updatethread().
THEOREM HeadersWhole ==
    ASSUME OneHandleEach PROVE Spec => []NoTornRead
BY LockInvAlways, LockInvExcludes, PTL

-----------------------------------------------------------------------------
(* The files. *)

\* What a handle in the middle of its work has read is what the files hold.
ViewIsCurrent(h) ==
    /\ pc[h] \in {"putIndex", "putRest", "putStatus", "putLess"} => view[h] = status
    /\ pc[h] \in {"putRest", "putLess"} => status.total > 0
    /\ pc[h] = "putStatus" => /\ Len(index) = status.total + 1
                              /\ Last(index).number = status.last + 1
    /\ pc[h] = "putLess" => Len(index) = status.total - 1
    /\ job[h] \in {"reply", "update"} /\ pc[h] \in {"lockHdr", "putHdr"} =>
           /\ found[h].at \in 1 .. Len(index)
           /\ found[h].entry = index[found[h].at]

AllCurrent == \A h \in Handles : ViewIsCurrent(h)

\* Between posts and purges the index is as long as the status says.
LengthsAgree ==
    (\A h \in Handles : pc[h] \notin {"putStatus", "putLess"}) => Len(index) = status.total

\* The numbers in the index ascend up to last_msg, or to the one being given.
NumbersAscend ==
    /\ \A i, j \in 1 .. Len(index) : i < j => index[i].number < index[j].number
    /\ \A i \in 1 .. Len(index) : index[i].number > status.last =>
           \E h \in Handles : pc[h] = "putStatus"

GivenAscend ==
    /\ \A i, j \in 1 .. Len(given) : i < j => given[i] < given[j]
    /\ \A i \in 1 .. Len(given) : given[i] <= status.last

FileInv == TypeFiles /\ AllCurrent /\ LengthsAgree /\ NumbersAscend /\ GivenAscend

\* SequencesExt's RemoveAt() is one element shorter and keeps the order.
LEMMA RemoveAtFacts ==
    ASSUME NEW S, NEW s \in Seq(S), NEW i \in 1 .. Len(s)
    PROVE  /\ RemoveAt(s, i) \in Seq(S)
           /\ Len(RemoveAt(s, i)) = Len(s) - 1
           /\ \A j \in 1 .. Len(s) - 1 :
                  RemoveAt(s, i)[j] = IF j < i THEN s[j] ELSE s[j + 1]
<1>. DEFINE front == SubSeq(s, 1, i - 1)
            back  == SubSeq(s, i + 1, Len(s))
<1>1. front \in Seq(S) /\ Len(front) = i - 1 /\ \A j \in 1 .. i - 1 : front[j] = s[j]
  OBVIOUS
<1>2. /\ back \in Seq(S) /\ Len(back) = Len(s) - i
      /\ \A j \in 1 .. Len(s) - i : back[j] = s[i + j]
  OBVIOUS
<1>. DEFINE cat == front \o back
<1>3. RemoveAt(s, i) = cat
  BY DEF RemoveAt
<1>. HIDE DEF front, back
<1>4. cat \in Seq(S) /\ Len(cat) = Len(s) - 1
  BY <1>1, <1>2
<1>5. \A j \in 1 .. Len(s) - 1 :
          cat[j] = IF j <= Len(front) THEN front[j] ELSE back[j - Len(front)]
  BY <1>1, <1>2
<1>. HIDE DEF cat
<1>6. ASSUME NEW j \in 1 .. Len(s) - 1, j < i PROVE cat[j] = s[j]
  BY <1>1, <1>5, <1>6
<1>7. ASSUME NEW j \in 1 .. Len(s) - 1, ~ (j < i) PROVE cat[j] = s[j + 1]
  <2>1. j - Len(front) = j - i + 1 /\ j - i + 1 \in 1 .. Len(s) - i /\ ~ (j <= Len(front))
    BY <1>7, <1>1
  <2>2. back[j - i + 1] = s[j + 1]
    BY <2>1, <1>2
  <2>. QED  BY <2>1, <2>2, <1>5
<1>. QED  BY <1>3, <1>4, <1>6, <1>7

\* Only one handle keeps the base locked.
LEMMA BaseKeptByOne ==
    ASSUME OneHandleEach, LockInv, NEW h \in Handles, NEW k \in Handles,
           KeepsBase(h), KeepsBase(k)
    PROVE  h = k
BY DEF OneHandleEach, LockInv, RegionsKept

\* Every handle whose view matters keeps the base locked.
LEMMA CurrentWithoutBase ==
    ASSUME LockInv, NEW h \in Handles, ~ KeepsBase(h)
    PROVE  ViewIsCurrent(h) /\ pc[h] \notin {"putStatus", "putLess"}
BY DEF LockInv, KeepsBase, ViewIsCurrent, BaseStages, TypeLocks

LEMMA FileInvInit == Init => FileInv
<1>. SUFFICES ASSUME Init PROVE FileInv
  OBVIOUS
<1>1. index = <<>> /\ given = <<>> /\ status = NoStatus /\ \A h \in Handles : pc[h] = "idle"
  BY DEF Init
<1>2. TypeFiles
  BY DEF Init, TypeFiles, NoStatus, NotFound, Status
<1>. QED  BY <1>1, <1>2 DEF FileInv, AllCurrent, ViewIsCurrent, LengthsAgree,
               NumbersAscend, GivenAscend, NoStatus

\* A step of h that leaves the files alone, before or after the work on them.
LEMMA FileInvElsewhere ==
    ASSUME TypeLocks, FileInv, NEW h \in Handles,
           UNCHANGED <<status, view, index, given>>,
           \A k \in Handles \ {h} :
               pc'[k] = pc[k] /\ job'[k] = job[k] /\ found'[k] = found[k],
           found' \in [Handles -> [at : Nat, entry : Entry \cup {None}]],
           pc[h] \notin {"putStatus", "putLess"},
           pc'[h] \notin {"putIndex", "putRest", "putStatus", "putLess"},
           job'[h] \in {"reply", "update"} /\ pc'[h] \in {"lockHdr", "putHdr"} =>
               job[h] \in {"reply", "update"} /\ pc[h] \in {"lockHdr", "putHdr"} /\ found'[h] = found[h]
    PROVE  FileInv'
<1>1. TypeFiles'
  BY DEF FileInv, TypeFiles
<1>2. AllCurrent'
  <2>1. SUFFICES ASSUME NEW k \in Handles PROVE ViewIsCurrent(k)'
    BY DEF AllCurrent
  <2>2. ViewIsCurrent(k) /\ ViewIsCurrent(h)
    BY DEF FileInv, AllCurrent
  <2>3. CASE k # h
    BY <2>2, <2>3 DEF ViewIsCurrent
  <2>4. CASE k = h
    BY <2>2, <2>4 DEF ViewIsCurrent
  <2>. QED  BY <2>3, <2>4
<1>3. \A k \in Handles : /\ pc'[k] = "putStatus" <=> pc[k] = "putStatus"
                         /\ pc'[k] = "putLess" <=> pc[k] = "putLess"
  OBVIOUS
<1>4. LengthsAgree'
  BY <1>3 DEF FileInv, LengthsAgree
<1>5. NumbersAscend'
  BY <1>3 DEF FileInv, NumbersAscend
<1>6. GivenAscend'
  BY DEF FileInv, GivenAscend
<1>. QED  BY <1>1, <1>2, <1>4, <1>5, <1>6 DEF FileInv

LEMMA FileInvLockSteps ==
    ASSUME OneHandleEach, LockInv, FileInv, NEW h \in Handles,
           (\E j \in Jobs : Begin(h, j)) \/ LockRegion(h) \/ LockWhole(h) \/ Undo(h)
             \/ Timeout(h) \/ UnlockRegion(h) \/ UnlockWhole(h) \/ HdrDone(h) \/ Close(h)
    PROVE  FileInv'
<1>. USE DEF LockStages, UnlockStages
<1>t. /\ TypeLocks
      /\ job \in [Handles -> Jobs \cup {"none"}] /\ pc \in [Handles -> Stages]
      /\ found \in [Handles -> [at : Nat, entry : Entry \cup {None}]]
  BY DEF LockInv, TypeLocks, FileInv, TypeFiles
<1>j. StageOfJob(h)
  BY DEF LockInv, JobOfStage
<1>o. \A k \in Handles \ {h} : pc'[k] = pc[k] /\ job'[k] = job[k]
  BY <1>t, OthersStay DEF Step
<1>g. ASSUME NEW stage, Goto(h, stage)
      PROVE  /\ pc'[h] = stage
             /\ stage # "idle" => job'[h] = job[h]
  BY <1>g, <1>t DEF Goto
<1>e. ASSUME UNCHANGED files,
             pc[h] \notin {"putStatus", "putLess"},
             pc'[h] \notin {"putIndex", "putRest", "putStatus", "putLess"},
             job'[h] \in {"reply", "update"} /\ pc'[h] \in {"lockHdr", "putHdr"} =>
                 job[h] \in {"reply", "update"} /\ pc[h] \in {"lockHdr", "putHdr"}
      PROVE  FileInv'
  <2>1. UNCHANGED <<status, view, index, given>> /\ found' = found
    BY <1>e DEF files
  <2>. QED  BY <1>e, <2>1, <1>t, <1>o, FileInvElsewhere
<1>1. CASE \E j \in Jobs : Begin(h, j)
  <2>1. PICK j \in Jobs : Begin(h, j)
    BY <1>1
  <2>2. /\ pc[h] = "idle" /\ UNCHANGED files
        /\ pc'[h] = (IF j = "read" THEN "lockHdr" ELSE "lockBase") /\ job'[h] = j
    BY <2>1, <1>t DEF Begin
  <2>. QED  BY <2>2, <1>e
<1>2. ASSUME pc[h] \in LockStages, HasLock(h), UNCHANGED files PROVE FileInv'
  <2>1. pc'[h] = AfterLock(h)
    BY <1>2, <1>g DEF HasLock
  <2>2. CASE pc[h] = "lockBase"
    <3>1. job[h] \in {"add", "reply", "update", "purge"}
      BY <2>2, <1>j DEF StageOfJob
    <3>2. AfterLock(h) = CASE job[h] \in {"reply", "update"} -> "getIdx"
                           [] job[h] \in {"add", "purge"} -> "getStatus"
      BY <2>2, <3>1 DEF AfterLock
    <3>3. job'[h] = job[h]
      BY <3>1, <3>2, <1>2, <1>g DEF HasLock
    <3>. QED  BY <2>1, <2>2, <3>1, <3>2, <3>3, <1>2, <1>e
  <2>3. CASE pc[h] = "lockHdr"
    <3>1. job[h] \in {"reply", "update", "read"}
      BY <2>3, <1>j DEF StageOfJob
    <3>2. AfterLock(h) = CASE job[h] \in {"reply", "update"} -> "putHdr"
                           [] job[h] = "read" -> "getHdr"
      BY <2>3, <3>1 DEF AfterLock
    <3>3. job'[h] = job[h]
      BY <3>1, <3>2, <1>2, <1>g DEF HasLock
    <3>. QED  BY <2>1, <2>3, <3>1, <3>2, <3>3, <1>2, <1>e
  <2>. QED  BY <1>2, <2>2, <2>3
<1>3. ASSUME pc[h] \in LockStages \cup UnlockStages \cup {"idle"},
             UNCHANGED <<pc, job, files>>
      PROVE FileInv'
  BY <1>3, <1>e
<1>4. CASE LockRegion(h)
  BY <1>4, <1>2, <1>3 DEF LockRegion
<1>5. CASE LockWhole(h)
  BY <1>5, <1>2 DEF LockWhole
<1>6. CASE Undo(h)
  BY <1>6, <1>3 DEF Undo, Refused
<1>7. CASE Timeout(h)
  <2>1. /\ pc[h] \in LockStages /\ Goto(h, AfterTimeout(h))
        /\ UNCHANGED <<status, view, index, given>>
        /\ found' = [found EXCEPT ![h] = NotFound]
    BY <1>7 DEF Timeout, Refused
  <2>2. pc'[h] \in {"getStatus", "unlockBase", "idle"}
    BY <2>1, <1>g DEF AfterTimeout
  <2>3. found' \in [Handles -> [at : Nat, entry : Entry \cup {None}]]
    BY <2>1, <1>t DEF NotFound
  <2>4. \A k \in Handles \ {h} : found'[k] = found[k]
    BY <2>1, <1>t
  <2>. QED  BY <2>1, <2>2, <2>3, <2>4, <1>t, <1>o, FileInvElsewhere
<1>8. ASSUME pc[h] \in UnlockStages, Goto(h, AfterUnlock(h)), UNCHANGED files
      PROVE FileInv'
  <2>1. pc'[h] \in {"getStatus", "unlockBase", "idle"}
    BY <1>8, <1>g DEF AfterUnlock
  <2>. QED  BY <2>1, <1>8, <1>e
<1>9. CASE UnlockRegion(h)
  BY <1>9, <1>3, <1>8 DEF UnlockRegion
<1>10. CASE UnlockWhole(h)
  BY <1>10, <1>3, <1>8 DEF UnlockWhole
<1>11. CASE HdrDone(h)
  <2>1. pc[h] = "getHdr" /\ pc'[h] = "unlockHdr" /\ UNCHANGED files
    BY <1>11, <1>g DEF HdrDone
  <2>. QED  BY <2>1, <1>e
<1>12. CASE Close(h)
  BY <1>12, <1>3 DEF Close
<1>. QED
  BY <1>1, <1>4, <1>5, <1>6, <1>7, <1>9, <1>10, <1>11, <1>12

\* While h works on the index with the base locked, nobody else's view matters
\* and nobody else is in the middle of writing.
LEMMA WorkingAlone ==
    ASSUME OneHandleEach, LockInv, NEW h \in Handles, KeepsBase(h), Step(h)
    PROVE  \A k \in Handles \ {h} :
               /\ ~ KeepsBase(k) /\ ~ KeepsBase(k)'
               /\ pc'[k] = pc[k] /\ job'[k] = job[k]
               /\ pc[k] \notin BaseStages
               /\ ~ (job[k] \in {"reply", "update"} /\ pc[k] \in {"lockHdr", "putHdr"})
<1>1. SUFFICES ASSUME NEW k \in Handles \ {h}
               PROVE  /\ ~ KeepsBase(k) /\ ~ KeepsBase(k)'
                      /\ pc'[k] = pc[k] /\ job'[k] = job[k]
                      /\ pc[k] \notin BaseStages
                      /\ ~ (job[k] \in {"reply", "update"} /\ pc[k] \in {"lockHdr", "putHdr"})
  OBVIOUS
<1>2. ~ KeepsBase(k)
  BY BaseKeptByOne
<1>3. pc'[k] = pc[k] /\ job'[k] = job[k] /\ call'[k] = call[k]
  BY OthersStay DEF LockInv
<1>4. ~ KeepsBase(k)'
  BY <1>2, <1>3 DEF KeepsBase
<1>5. /\ pc[k] \notin BaseStages
      /\ ~ (job[k] \in {"reply", "update"} /\ pc[k] \in {"lockHdr", "putHdr"})
  BY <1>2 DEF KeepsBase
<1>. QED  BY <1>2, <1>3, <1>4, <1>5

\* What is left to show of such a step: the types, what h itself has to do with
\* the files, and the numbers.
LEMMA FileInvWork ==
    ASSUME OneHandleEach, LockInv, NEW h \in Handles, KeepsBase(h), Step(h),
           TypeFiles', ViewIsCurrent(h)', GivenAscend',
           pc'[h] \notin {"putStatus", "putLess"} => Len(index') = status'.total,
           \A i, j \in 1 .. Len(index') : i < j => index'[i].number < index'[j].number,
           pc'[h] # "putStatus" =>
               \A i \in 1 .. Len(index') : index'[i].number <= status'.last
    PROVE  FileInv'
<1>1. AllCurrent'
  <2>1. SUFFICES ASSUME NEW k \in Handles, k # h PROVE ViewIsCurrent(k)'
    BY DEF AllCurrent
  <2>2. /\ pc'[k] \notin BaseStages
        /\ ~ (job'[k] \in {"reply", "update"} /\ pc'[k] \in {"lockHdr", "putHdr"})
    <3>1. \A x \in Handles \ {h} :
              /\ pc'[x] = pc[x] /\ job'[x] = job[x] /\ pc[x] \notin BaseStages
              /\ ~ (job[x] \in {"reply", "update"} /\ pc[x] \in {"lockHdr", "putHdr"})
      BY WorkingAlone
    <3>. QED  BY <3>1, <2>1
  <2>. QED  BY <2>2 DEF ViewIsCurrent, BaseStages
<1>2. LengthsAgree'
  BY DEF LengthsAgree
<1>3. NumbersAscend'
  <2>1. ASSUME NEW i \in 1 .. Len(index'), index'[i].number > status'.last
        PROVE  pc'[h] = "putStatus"
    <3>1. index' \in Seq(Entry) /\ status' \in Status
      BY DEF TypeFiles
    <3>2. index'[i] \in Entry
      BY <3>1
    <3>3. index'[i].number \in Nat /\ status'.last \in Nat
      BY <3>1, <3>2 DEF Entry, Status
    <3>. QED  BY <2>1, <3>3
  <2>. QED  BY <2>1 DEF NumbersAscend
<1>. QED  BY <1>1, <1>2, <1>3 DEF FileInv

\* Before it writes, the handle that keeps the base finds index and status agreed.
LEMMA BaseQuiet ==
    ASSUME OneHandleEach, LockInv, FileInv, NEW h \in Handles, KeepsBase(h),
           pc[h] \notin {"putStatus", "putLess"}
    PROVE  /\ Len(index) = status.total
           /\ \A i \in 1 .. Len(index) : index[i].number <= status.last
<1>1. \A k \in Handles : pc[k] \notin {"putStatus", "putLess"}
  BY BaseKeptByOne DEF KeepsBase, BaseStages
<1>2. Len(index) = status.total
  BY <1>1 DEF FileInv, LengthsAgree
<1>3. ASSUME NEW i \in 1 .. Len(index) PROVE index[i].number <= status.last
  <2>1. index \in Seq(Entry) /\ status \in Status
    BY DEF FileInv, TypeFiles
  <2>2. index[i] \in Entry
    BY <2>1
  <2>3. index[i].number \in Nat /\ status.last \in Nat
    BY <2>1, <2>2 DEF Entry, Status
  <2>4. ~ (index[i].number > status.last)
    BY <1>1 DEF FileInv, NumbersAscend
  <2>. QED  BY <2>3, <2>4
<1>. QED  BY <1>2, <1>3

LEMMA FileInvGetStatus ==
    ASSUME OneHandleEach, LockInv, FileInv, NEW h \in Handles, GetStatus(h) PROVE FileInv'
<1>. DEFINE fails == IF job[h] = "purge" THEN status.total = 0
                     ELSE Len(index) # status.total
            next  == IF fails THEN "unlockBase"
                     ELSE IF job[h] = "purge" THEN "putRest" ELSE "putIndex"
<1>1. /\ pc[h] = "getStatus" /\ Goto(h, next)
      /\ view' = [view EXCEPT ![h] = IF fails THEN NoStatus ELSE status]
      /\ UNCHANGED <<status, index, found, given>>
  BY DEF GetStatus
<1>2. KeepsBase(h)
  BY <1>1 DEF KeepsBase, BaseStages
<1>3. status \in Status /\ NoStatus \in Status /\ view \in [Handles -> Status]
      /\ pc \in [Handles -> Stages]
  BY DEF FileInv, TypeFiles, NoStatus, Status, LockInv, TypeLocks
<1>4. pc'[h] = next
  BY <1>1, <1>3 DEF Goto
<1>5. TypeFiles'
  BY <1>1, <1>3 DEF FileInv, TypeFiles
<1>6. ViewIsCurrent(h)'
  <2>1. pc'[h] \in {"putIndex", "putRest"} => view'[h] = status
    BY <1>1, <1>3, <1>4
  <2>2. pc'[h] = "putRest" => status.total > 0
    BY <1>3, <1>4 DEF Status
  <2>3. pc'[h] \in {"unlockBase", "putIndex", "putRest"}
    BY <1>4
  <2>. QED  BY <2>1, <2>2, <2>3, <1>1 DEF ViewIsCurrent
<1>7. GivenAscend'
  BY <1>1 DEF FileInv, GivenAscend
<1>8. \A i, j \in 1 .. Len(index) : i < j => index[i].number < index[j].number
  BY DEF FileInv, NumbersAscend
<1>9. /\ Len(index) = status.total
      /\ \A i \in 1 .. Len(index) : index[i].number <= status.last
  BY <1>1, <1>2, BaseQuiet
<1>. QED
  BY <1>1, <1>2, <1>5, <1>6, <1>7, <1>8, <1>9, FileInvWork DEF Step

LEMMA FileInvGetIdx ==
    ASSUME OneHandleEach, LockInv, FileInv, NEW h \in Handles, GetIdx(h) PROVE FileInv'
<1>. DEFINE back == IF job[h] = "reply" THEN "getStatus" ELSE "unlockBase"
<1>1. /\ pc[h] = "getIdx" /\ UNCHANGED <<status, view, index, given>>
      /\ \/ Goto(h, back) /\ UNCHANGED found
         \/ /\ Goto(h, "lockHdr")
            /\ \E i \in 1 .. Len(index) :
                   found' = [found EXCEPT ![h] = [at |-> i, entry |-> index[i]]]
  BY DEF GetIdx
<1>2. KeepsBase(h)
  BY <1>1 DEF KeepsBase, BaseStages
<1>3. /\ found \in [Handles -> [at : Nat, entry : Entry \cup {None}]]
      /\ index \in Seq(Entry) /\ pc \in [Handles -> Stages]
  BY DEF FileInv, TypeFiles, LockInv, TypeLocks
<1>4. /\ found' \in [Handles -> [at : Nat, entry : Entry \cup {None}]]
      /\ \/ pc'[h] \in {"unlockBase", "getStatus"}
         \/ /\ pc'[h] = "lockHdr" /\ found'[h].at \in 1 .. Len(index)
            /\ found'[h].entry = index[found'[h].at]
  <2>1. CASE Goto(h, back) /\ UNCHANGED found
    BY <2>1, <1>3 DEF Goto
  <2>2. ASSUME Goto(h, "lockHdr"), NEW i \in 1 .. Len(index),
               found' = [found EXCEPT ![h] = [at |-> i, entry |-> index[i]]]
        PROVE  /\ found' \in [Handles -> [at : Nat, entry : Entry \cup {None}]]
               /\ pc'[h] = "lockHdr" /\ found'[h].at \in 1 .. Len(index)
               /\ found'[h].entry = index[found'[h].at]
    <3>1. index[i] \in Entry /\ i \in Nat
      BY <1>3
    <3>2. [at |-> i, entry |-> index[i]] \in [at : Nat, entry : Entry \cup {None}]
      BY <3>1
    <3>3. found'[h] = [at |-> i, entry |-> index[i]]
      BY <2>2, <1>3
    <3>. QED  BY <2>2, <3>2, <3>3, <1>3 DEF Goto
  <2>. QED  BY <1>1, <2>1, <2>2
<1>5. TypeFiles'
  BY <1>1, <1>4 DEF FileInv, TypeFiles
<1>6. ViewIsCurrent(h)'
  BY <1>1, <1>4 DEF ViewIsCurrent
<1>7. GivenAscend'
  BY <1>1 DEF FileInv, GivenAscend
<1>8. \A i, j \in 1 .. Len(index) : i < j => index[i].number < index[j].number
  BY DEF FileInv, NumbersAscend
<1>9. /\ Len(index) = status.total
      /\ \A i \in 1 .. Len(index) : index[i].number <= status.last
  BY <1>1, <1>2, BaseQuiet
<1>. QED
  BY <1>1, <1>2, <1>5, <1>6, <1>7, <1>8, <1>9, FileInvWork DEF Step

\* smb_putmsg() in smb_updatemsg() and smb_updatethread() finds the message still
\* at the place it had.
LEMMA PutHdrInPlace ==
    ASSUME OneHandleEach, LockInv, FileInv, NEW h \in Handles, PutHdr(h)
    PROVE  index' = index
<1>1. /\ pc[h] = "putHdr"
      /\ \/ index' = IF found[h].at > Len(index) + 1 THEN index
                     ELSE PutAt(index, found[h].at, found[h].entry)
         \/ UNCHANGED index
  BY DEF PutHdr
<1>2. job[h] \in {"reply", "update"}
  BY <1>1 DEF LockInv, JobOfStage, StageOfJob
<1>3. found[h].at \in 1 .. Len(index) /\ found[h].entry = index[found[h].at]
  BY <1>1, <1>2 DEF FileInv, AllCurrent, ViewIsCurrent
<1>4. index \in Seq(Entry)
  BY DEF FileInv, TypeFiles
<1>5. ~ (found[h].at > Len(index))
  BY <1>3, <1>4
<1>6. index' = index \/ index' = [index EXCEPT ![found[h].at] = index[found[h].at]]
  <2>1. ~ (found[h].at > Len(index) + 1)
    BY <1>3, <1>4
  <2>. QED  BY <1>1, <1>3, <1>5, <2>1 DEF PutAt
<1>. QED  BY <1>3, <1>4, <1>6

LEMMA FileInvPutHdr ==
    ASSUME OneHandleEach, LockInv, FileInv, NEW h \in Handles, PutHdr(h) PROVE FileInv'
<1>1. /\ pc[h] = "putHdr" /\ UNCHANGED <<status, view, given>>
      /\ Goto(h, "unlockHdr") /\ found' = [found EXCEPT ![h] = NotFound]
  BY DEF PutHdr
<1>2. KeepsBase(h) /\ index' = index
  BY <1>1, PutHdrInPlace DEF KeepsBase
<1>3. /\ found \in [Handles -> [at : Nat, entry : Entry \cup {None}]]
      /\ pc \in [Handles -> Stages]
  BY DEF FileInv, TypeFiles, LockInv, TypeLocks
<1>4. pc'[h] = "unlockHdr" /\ found' \in [Handles -> [at : Nat, entry : Entry \cup {None}]]
  BY <1>1, <1>3 DEF Goto, NotFound
<1>5. TypeFiles'
  BY <1>1, <1>2, <1>4 DEF FileInv, TypeFiles
<1>6. ViewIsCurrent(h)'
  BY <1>4 DEF ViewIsCurrent
<1>7. GivenAscend'
  BY <1>1 DEF FileInv, GivenAscend
<1>8. \A i, j \in 1 .. Len(index) : i < j => index[i].number < index[j].number
  BY DEF FileInv, NumbersAscend
<1>9. /\ Len(index) = status.total
      /\ \A i \in 1 .. Len(index) : index[i].number <= status.last
  BY <1>1, <1>2, BaseQuiet
<1>. QED
  BY <1>1, <1>2, <1>5, <1>6, <1>7, <1>8, <1>9, FileInvWork DEF Step

\* smb_putmsgidx() in smb_addmsghdr() appends, with a number above all others.
LEMMA PutIndexAppends ==
    ASSUME OneHandleEach, LockInv, FileInv, NEW h \in Handles, PutIndex(h)
    PROVE  /\ index' = Append(index, [number |-> status.last + 1, by |-> h])
           /\ Goto(h, "putStatus") /\ UNCHANGED <<view, status, given, found>>
           /\ view[h] = status /\ Len(index) = status.total
           /\ \A i \in 1 .. Len(index) : index[i].number <= status.last
<1>1. pc[h] = "putIndex"
  BY DEF PutIndex
<1>2. view[h] = status
  BY <1>1 DEF FileInv, AllCurrent, ViewIsCurrent
<1>3. /\ Len(index) = status.total
      /\ \A i \in 1 .. Len(index) : index[i].number <= status.last
  BY <1>1, BaseQuiet DEF KeepsBase, BaseStages
<1>4. status.total \in Nat
  BY DEF FileInv, TypeFiles, Status
<1>5. ~ (view[h].total > Len(index))
  BY <1>2, <1>3, <1>4
<1>6. /\ index' = PutAt(index, view[h].total + 1, [number |-> view[h].last + 1, by |-> h])
      /\ Goto(h, "putStatus") /\ UNCHANGED <<view, status, given, found>>
  BY <1>5 DEF PutIndex
<1>7. status.total + 1 > Len(index)
  BY <1>3, <1>4
<1>8. index' = Append(index, [number |-> status.last + 1, by |-> h])
  BY <1>2, <1>6, <1>7 DEF PutAt
<1>. QED  BY <1>2, <1>3, <1>6, <1>8

LEMMA FileInvPutIndex ==
    ASSUME OneHandleEach, LockInv, FileInv, NEW h \in Handles, PutIndex(h) PROVE FileInv'
<1>. DEFINE e == [number |-> status.last + 1, by |-> h]
<1>0. pc[h] = "putIndex" /\ KeepsBase(h)
  BY DEF PutIndex, KeepsBase, BaseStages
<1>1. /\ index' = Append(index, e)
      /\ Goto(h, "putStatus") /\ UNCHANGED <<view, status, given, found>>
      /\ view[h] = status /\ Len(index) = status.total
      /\ \A i \in 1 .. Len(index) : index[i].number <= status.last
  BY PutIndexAppends
<1>2. index \in Seq(Entry) /\ status \in Status /\ pc \in [Handles -> Stages]
  BY DEF FileInv, TypeFiles, LockInv, TypeLocks
<1>3. status.last \in Nat /\ status.total \in Nat
  BY <1>2 DEF Status
<1>4. e \in Entry /\ e.number = status.last + 1
  BY <1>3 DEF Entry
<1>5. pc'[h] = "putStatus"
  BY <1>1, <1>2 DEF Goto
<1>. HIDE DEF e
<1>6. /\ index' \in Seq(Entry) /\ Len(index') = Len(index) + 1
      /\ index'[Len(index')] = e
      /\ \A i \in 1 .. Len(index) : index'[i] = index[i]
  BY <1>1, <1>2, <1>4
<1>7. TypeFiles'
  BY <1>1, <1>6 DEF FileInv, TypeFiles
<1>8. ViewIsCurrent(h)'
  <2>1. Last(index') = e
    BY <1>6 DEF Last
  <2>. QED  BY <2>1, <1>1, <1>4, <1>5, <1>6 DEF ViewIsCurrent
<1>9. GivenAscend'
  BY <1>1 DEF FileInv, GivenAscend
<1>10. ASSUME NEW i \in 1 .. Len(index'), NEW j \in 1 .. Len(index'), i < j
       PROVE  index'[i].number < index'[j].number
  <2>1. i \in 1 .. Len(index) /\ index'[i] = index[i] /\ index[i] \in Entry
    BY <1>2, <1>6, <1>10
  <2>2. CASE j = Len(index')
    <3>1. index[i].number \in Nat /\ index[i].number <= status.last
      BY <2>1, <1>1 DEF Entry
    <3>2. index'[j].number = status.last + 1
      BY <2>2, <1>4, <1>6
    <3>. QED  BY <2>1, <3>1, <3>2, <1>3
  <2>3. CASE j # Len(index')
    <3>1. j \in 1 .. Len(index) /\ index'[j] = index[j]
      BY <2>3, <1>2, <1>6
    <3>. QED  BY <2>1, <3>1, <1>10 DEF FileInv, NumbersAscend
  <2>. QED  BY <2>2, <2>3
<1>. QED
  BY <1>0, <1>1, <1>5, <1>7, <1>8, <1>9, <1>10, FileInvWork DEF Step

LEMMA FileInvPutStatus ==
    ASSUME OneHandleEach, LockInv, FileInv, NEW h \in Handles, PutStatus(h) PROVE FileInv'
<1>1. /\ pc[h] = "putStatus" /\ Goto(h, "unlockBase") /\ UNCHANGED <<index, found>>
      /\ status' = [last |-> view[h].last + 1, total |-> view[h].total + 1]
      /\ view' = [view EXCEPT ![h] = NoStatus]
      /\ given' = Append(given, view[h].last + 1)
  BY DEF PutStatus
<1>2. /\ view[h] = status /\ Len(index) = status.total + 1
      /\ Last(index).number = status.last + 1
  BY <1>1 DEF FileInv, AllCurrent, ViewIsCurrent
<1>3. /\ index \in Seq(Entry) /\ given \in Seq(Nat) /\ pc \in [Handles -> Stages]
      /\ status.last \in Nat /\ status.total \in Nat
      /\ view \in [Handles -> Status] /\ NoStatus \in Status
  BY DEF FileInv, TypeFiles, LockInv, TypeLocks, Status, NoStatus
<1>4. KeepsBase(h) /\ pc'[h] = "unlockBase"
  BY <1>1, <1>3 DEF KeepsBase, BaseStages, Goto
<1>5. /\ status'.last = status.last + 1 /\ status'.total = status.total + 1
      /\ given' = Append(given, status.last + 1)
      /\ status' \in Status
  BY <1>1, <1>2, <1>3 DEF Status
<1>6. TypeFiles'
  <2>1. view' \in [Handles -> Status]
    BY <1>1, <1>3
  <2>2. given' \in Seq(Nat)
    BY <1>5, <1>3
  <2>. QED  BY <2>1, <2>2, <1>1, <1>5 DEF FileInv, TypeFiles
<1>7. ViewIsCurrent(h)'
  BY <1>4 DEF ViewIsCurrent
<1>8. GivenAscend'
  <2>1. /\ \A i, j \in 1 .. Len(given) : i < j => given[i] < given[j]
        /\ \A i \in 1 .. Len(given) : given[i] <= status.last /\ given[i] \in Nat
    BY <1>3 DEF FileInv, GivenAscend
  <2>2. /\ Len(given') = Len(given) + 1
        /\ given'[Len(given')] = status.last + 1
        /\ \A i \in 1 .. Len(given) : given'[i] = given[i]
    BY <1>5, <1>3
  <2>3. ASSUME NEW i \in 1 .. Len(given')
        PROVE  i \in 1 .. Len(given) \/ i = Len(given')
    BY <2>2, <1>3
  <2>4. ASSUME NEW i \in 1 .. Len(given'), NEW j \in 1 .. Len(given'), i < j
        PROVE  given'[i] < given'[j]
    <3>1. i \in 1 .. Len(given)
      BY <2>2, <2>4, <1>3
    <3>2. CASE j = Len(given')
      BY <3>1, <3>2, <2>1, <2>2, <1>3
    <3>3. CASE j \in 1 .. Len(given)
      BY <3>1, <3>3, <2>1, <2>2, <2>4
    <3>. QED  BY <2>3, <3>2, <3>3
  <2>5. ASSUME NEW i \in 1 .. Len(given') PROVE given'[i] <= status'.last
    BY <2>1, <2>2, <2>3, <1>3, <1>5
  <2>. QED  BY <2>4, <2>5 DEF GivenAscend
<1>9. \A i, j \in 1 .. Len(index) : i < j => index[i].number < index[j].number
  BY DEF FileInv, NumbersAscend
<1>10. ASSUME NEW i \in 1 .. Len(index) PROVE index[i].number <= status'.last
  <2>0. index[i] \in Entry
    BY <1>3
  <2>1. index[i].number \in Nat
    BY <2>0 DEF Entry
  <2>2. CASE i = Len(index)
    BY <2>1, <2>2, <1>2, <1>5, <1>3 DEF Last
  <2>3. CASE i # Len(index)
    <3>1. Len(index) \in 1 .. Len(index) /\ i < Len(index)
      BY <2>3, <1>3
    <3>2. index[i].number < Last(index).number
      BY <3>1, <1>9 DEF Last
    <3>. QED  BY <3>2, <2>1, <1>2, <1>3, <1>5
  <2>. QED  BY <2>2, <2>3
<1>. QED
  BY <1>1, <1>2, <1>4, <1>5, <1>6, <1>7, <1>8, <1>9, <1>10, FileInvWork DEF Step

LEMMA FileInvPutRest ==
    ASSUME OneHandleEach, LockInv, FileInv, NEW h \in Handles, PutRest(h) PROVE FileInv'
<1>1. /\ pc[h] = "putRest" /\ Goto(h, "putLess") /\ UNCHANGED <<status, view, given, found>>
      /\ \E i \in 1 .. Len(index) : index' = RemoveAt(index, i)
  BY DEF PutRest
<1>2. PICK r \in 1 .. Len(index) : index' = RemoveAt(index, r)
  BY <1>1
<1>3. index \in Seq(Entry) /\ pc \in [Handles -> Stages] /\ status.total \in Nat
  BY DEF FileInv, TypeFiles, LockInv, TypeLocks, Status
<1>4. KeepsBase(h) /\ pc'[h] = "putLess"
  BY <1>1, <1>3 DEF KeepsBase, BaseStages, Goto
<1>5. /\ index' \in Seq(Entry) /\ Len(index') = Len(index) - 1
      /\ \A j \in 1 .. Len(index) - 1 :
             index'[j] = IF j < r THEN index[j] ELSE index[j + 1]
  BY <1>2, <1>3, RemoveAtFacts
<1>6. /\ Len(index) = status.total
      /\ \A i \in 1 .. Len(index) : index[i].number <= status.last
  BY <1>1, <1>4, BaseQuiet
<1>7. view[h] = status /\ status.total > 0
  BY <1>1 DEF FileInv, AllCurrent, ViewIsCurrent
<1>8. TypeFiles'
  BY <1>1, <1>5 DEF FileInv, TypeFiles
<1>9. ViewIsCurrent(h)'
  BY <1>1, <1>4, <1>5, <1>6, <1>7 DEF ViewIsCurrent
<1>10. GivenAscend'
  BY <1>1 DEF FileInv, GivenAscend
<1>. DEFINE old(j) == IF j < r THEN j ELSE j + 1
<1>11. \A j \in 1 .. Len(index') : old(j) \in 1 .. Len(index) /\ index'[j] = index[old(j)]
  <2>1. Len(index) \in Nat /\ Len(index') = Len(index) - 1
    BY <1>3, <1>5
  <2>. TAKE j \in 1 .. Len(index')
  <2>2. j \in 1 .. Len(index) - 1
    BY <2>1
  <2>3. index'[j] = IF j < r THEN index[j] ELSE index[j + 1]
    BY <1>5, <2>2
  <2>4. old(j) \in 1 .. Len(index)
    BY <2>1, <2>2
  <2>5. index'[j] = index[old(j)]
    BY <2>3
  <2>. QED  BY <2>4, <2>5
<1>12. \A i, j \in 1 .. Len(index') : i < j => old(i) < old(j)
  OBVIOUS
<1>. HIDE DEF old
<1>13. \A i, j \in 1 .. Len(index') : i < j => index'[i].number < index'[j].number
  BY <1>11, <1>12 DEF FileInv, NumbersAscend
<1>14. \A i \in 1 .. Len(index') : index'[i].number <= status'.last
  BY <1>1, <1>6, <1>11
<1>. QED
  BY <1>1, <1>4, <1>8, <1>9, <1>10, <1>13, <1>14, FileInvWork DEF Step

LEMMA FileInvPutLess ==
    ASSUME OneHandleEach, LockInv, FileInv, NEW h \in Handles, PutLess(h) PROVE FileInv'
<1>1. /\ pc[h] = "putLess" /\ Goto(h, "unlockBase") /\ UNCHANGED <<index, found, given>>
      /\ status' = [view[h] EXCEPT !.total = @ - 1]
      /\ view' = [view EXCEPT ![h] = NoStatus]
  BY DEF PutLess
<1>2. view[h] = status /\ Len(index) = status.total - 1 /\ status.total > 0
  BY <1>1 DEF FileInv, AllCurrent, ViewIsCurrent
<1>3. /\ index \in Seq(Entry) /\ pc \in [Handles -> Stages] /\ status \in Status
      /\ view \in [Handles -> Status] /\ NoStatus \in Status
  BY DEF FileInv, TypeFiles, LockInv, TypeLocks, Status, NoStatus
<1>4. KeepsBase(h) /\ pc'[h] = "unlockBase"
  BY <1>1, <1>3 DEF KeepsBase, BaseStages, Goto
<1>5. status'.last = status.last /\ status'.total = status.total - 1 /\ status' \in Status
  BY <1>1, <1>2, <1>3 DEF Status
<1>6. TypeFiles'
  <2>1. view' \in [Handles -> Status]
    BY <1>1, <1>3
  <2>. QED  BY <2>1, <1>1, <1>5 DEF FileInv, TypeFiles
<1>7. ViewIsCurrent(h)'
  BY <1>4 DEF ViewIsCurrent
<1>8. GivenAscend'
  BY <1>1, <1>5 DEF FileInv, GivenAscend
<1>9. \A i, j \in 1 .. Len(index) : i < j => index[i].number < index[j].number
  BY DEF FileInv, NumbersAscend
<1>10. ASSUME NEW i \in 1 .. Len(index) PROVE index[i].number <= status'.last
  <2>1. \A k \in Handles : pc[k] # "putStatus"
    BY <1>1, <1>4, BaseKeptByOne DEF KeepsBase, BaseStages
  <2>2. ~ (index[i].number > status.last)
    BY <2>1 DEF FileInv, NumbersAscend
  <2>3. index[i] \in Entry
    BY <1>3
  <2>4. index[i].number \in Nat /\ status.last \in Nat
    BY <1>3, <2>3 DEF Entry, Status
  <2>. QED  BY <2>2, <2>4, <1>5
<1>. QED
  BY <1>1, <1>2, <1>4, <1>5, <1>6, <1>7, <1>8, <1>9, <1>10, FileInvWork DEF Step

LEMMA FileInvStep ==
    ASSUME OneHandleEach PROVE LockInv /\ FileInv /\ [Next]_vars => FileInv'
<1>. SUFFICES ASSUME LockInv, FileInv, [Next]_vars PROVE FileInv'
  OBVIOUS
<1>1. CASE UNCHANGED vars
  <2>1. AllCurrent'
    BY <1>1 DEF FileInv, AllCurrent, ViewIsCurrent, vars
  <2>. QED  BY <1>1, <2>1 DEF FileInv, TypeFiles, LengthsAgree, NumbersAscend,
               GivenAscend, vars
<1>2. ASSUME NEW h \in Handles,
             (\E j \in Jobs : Begin(h, j)) \/ Step(h) \/ Timeout(h) \/ Close(h)
      PROVE  FileInv'
  BY <1>2, FileInvLockSteps, FileInvGetStatus, FileInvGetIdx, FileInvPutHdr,
     FileInvPutIndex, FileInvPutStatus, FileInvPutRest, FileInvPutLess DEF Step
<1>. QED  BY <1>1, <1>2 DEF Next

LEMMA InvAlways == ASSUME OneHandleEach PROVE Spec => [](LockInv /\ FileInv)
BY LockInvInit, LockInvStep, FileInvInit, FileInvStep, PTL DEF Spec

\* Types, for one handle in each process: the status never goes below zero and
\* every record written to the index is a whole one.
THEOREM LockTypeCorrect == ASSUME OneHandleEach PROVE Spec => []TypeOK
<1>1. LockInv /\ FileInv => TypeOK
  BY DEF LockInv, FileInv, TypeOK
<1>. QED  BY <1>1, InvAlways, PTL

\* No number is given to two messages, and smb_addmsghdr() never refuses a post
\* because of an index file of the wrong length.
THEOREM NumbersSafe == ASSUME OneHandleEach PROVE Spec => [](NumbersUnique /\ IndexFits)
<1>1. FileInv => NumbersUnique
  <2>. SUFFICES ASSUME FileInv, NEW i \in 1 .. Len(given), NEW j \in 1 .. Len(given),
                       given[i] = given[j]
                PROVE  i = j
    BY DEF NumbersUnique
  <2>1. given \in Seq(Nat) /\ given[i] \in Nat /\ given[j] \in Nat
    BY DEF FileInv, TypeFiles
  <2>2. (i < j => given[i] < given[j]) /\ (j < i => given[j] < given[i])
    BY DEF FileInv, GivenAscend
  <2>. QED  BY <2>1, <2>2
<1>2. ASSUME LockInv, FileInv PROVE IndexFits
  <2>. SUFFICES ASSUME NEW h \in Handles, pc[h] = "getStatus" PROVE Len(index) = status.total
    BY DEF IndexFits
  <2>1. KeepsBase(h)
    BY DEF KeepsBase, BaseStages
  <2>. QED  BY <1>2, <2>1, BaseQuiet
<1>. QED  BY <1>1, <1>2, InvAlways, PTL

\* The only steps that change the index are those of a handle that keeps the base.
LEMMA IndexSteps ==
    ASSUME OneHandleEach, LockInv, FileInv, [Next]_vars
    PROVE  \/ UNCHANGED index
           \/ \E h \in Handles : KeepsBase(h) /\ (PutIndex(h) \/ PutRest(h))
<1>1. ASSUME NEW h \in Handles, Step(h), ~ PutIndex(h), ~ PutRest(h) PROVE UNCHANGED index
  BY <1>1, PutHdrInPlace
     DEF Step, LockRegion, LockWhole, Undo, UnlockRegion, UnlockWhole, GetStatus,
         PutStatus, PutLess, GetIdx, HdrDone, files
<1>2. ASSUME NEW h \in Handles, (\E j \in Jobs : Begin(h, j)) \/ Timeout(h) \/ Close(h)
      PROVE UNCHANGED index
  BY <1>2 DEF Begin, Timeout, Close, files
<1>3. ASSUME NEW h \in Handles, PutIndex(h) \/ PutRest(h) PROVE KeepsBase(h)
  BY <1>3 DEF PutIndex, PutRest, KeepsBase, BaseStages
<1>. QED  BY <1>1, <1>2, <1>3 DEF Next, vars

\* From smb_getmsgidx() to smb_putmsgidx() in smb_updatemsg() and smb_addmsg(),
\* nobody else changes the index: the place found is the message's when it is used.
THEOREM IndexKept == ASSUME OneHandleEach PROVE Spec => IndexStill
<1>1. ASSUME LockInv, FileInv, [Next]_vars, NEW h \in Handles,
             job[h] \in {"reply", "update"}, pc[h] \in {"lockHdr", "putHdr"}, pc'[h] = pc[h]
      PROVE  index' = index
  <2>1. SUFFICES ASSUME NEW k \in Handles, KeepsBase(k), PutIndex(k) \/ PutRest(k)
                 PROVE  FALSE
    BY <1>1, IndexSteps
  <2>2. KeepsBase(h)
    BY <1>1 DEF KeepsBase
  <2>3. k = h
    BY <2>1, <2>2, <1>1, BaseKeptByOne
  <2>. QED  BY <2>1, <2>3, <1>1 DEF PutIndex, PutRest
<1>2. LockInv /\ FileInv /\ [Next]_vars =>
          [\A h \in Handles :
              job[h] \in {"reply", "update"} /\ pc[h] \in {"lockHdr", "putHdr"} /\ pc'[h] = pc[h]
                  => index' = index]_vars
  BY <1>1
<1>. QED  BY <1>2, InvAlways, PTL DEF Spec, IndexStill

\* The index is a ledger: posts append, with ever higher numbers, purges take
\* out, updates leave it as it is.
THEOREM IndexSafe == ASSUME OneHandleEach PROVE Spec => IndexIsLedger
<1>1. Init => Ledger!Init
  BY DEF Init, Ledger!Init
<1>2. ASSUME LockInv, FileInv, [Next]_vars PROVE [Ledger!Post \/ Ledger!Purge]_index
  <2>1. ASSUME NEW h \in Handles, PutIndex(h) PROVE Ledger!Post
    <3>. DEFINE e == [number |-> status.last + 1, by |-> h]
    <3>1. /\ index' = Append(index, e)
          /\ \A i \in 1 .. Len(index) : index[i].number <= status.last
      BY <1>2, <2>1, PutIndexAppends
    <3>2. index \in Seq(Entry) /\ status.last \in Nat
      BY <1>2 DEF FileInv, TypeFiles, Status
    <3>3. e.number = status.last + 1 /\ e \in Entry
      BY <3>2 DEF Entry
    <3>. HIDE DEF e
    <3>4. /\ index' \in Seq(Entry) /\ Len(index') = Len(index) + 1
          /\ index'[Len(index')] = e
          /\ \A i \in 1 .. Len(index) : index'[i] = index[i]
      BY <3>1, <3>2, <3>3
    <3>5. SubSeq(index', 1, Len(index)) = SubSeq(index, 1, Len(index))
      BY <3>2, <3>4
    <3>6. ASSUME NEW i \in 1 .. Len(index) PROVE index[i].number < index'[Len(index')].number
      <4>1. index[i] \in Entry
        BY <3>2
      <4>2. index[i].number \in Nat
        BY <4>1 DEF Entry
      <4>. QED  BY <4>2, <3>1, <3>2, <3>3, <3>4
    <3>7. Ledger!IsPrefix(index, index')
      BY <3>2, <3>4, <3>5 DEF Ledger!IsPrefix
    <3>8. Ledger!Last(index') = index'[Len(index')]
      BY DEF Ledger!Last
    <3>. QED  BY <3>4, <3>6, <3>7, <3>8 DEF Ledger!Post
  <2>2. ASSUME NEW h \in Handles, PutRest(h) PROVE Ledger!Purge
    <3>1. \A i \in 1 .. Len(index) : Ledger!RemoveAt(index, i) = RemoveAt(index, i)
      BY DEF Ledger!RemoveAt, RemoveAt
    <3>. QED  BY <2>2, <3>1 DEF PutRest, Ledger!Purge
  <2>. QED  BY IndexSteps, <1>2, <2>1, <2>2
<1>3. LockInv /\ FileInv /\ [Next]_vars => [Ledger!Post \/ Ledger!Purge]_index
  BY <1>2
<1>. QED  BY <1>1, <1>3, InvAlways, PTL DEF Spec, IndexIsLedger, Ledger!Spec
=============================================================================
