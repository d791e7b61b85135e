------------------------- MODULE TokenRefreshProofs -------------------------
(***************************************************************************)
(* Proofs about ConfigLock and TokenRefresh, for any numbers of callers    *)
(* and locations and for any bounds.                                       *)
(*                                                                         *)
(* LockInv is inductive under LockHypothesis, and that is where the code's *)
(* lock ends: with a third process, or with a live holder whose lock grows *)
(* old, a waiter may unlink a lock that is not the one it looked at.       *)
(* FileInv adds what the grants of the callers have to do with each other  *)
(* and with the file, SentInv what a caller that asks the issuer holds;    *)
(* both need LockInv in every step: who reads the file and later writes it *)
(* is alone.                                                               *)
(***************************************************************************)
EXTENDS TokenRefresh, FiniteSetTheorems, TLAPS

\* Of any three processes two are the same one.
TwoProcs == \A p, q, r \in Procs : p = q \/ q = r \/ p = r

\* Holders are quick, and either nobody is killed or there is no third process.
LockHypothesis == ~Slow /\ (MaxCrashes = 0 \/ TwoProcs)

-----------------------------------------------------------------------------
(* The invariants *)

\* Only a killed process leaves its lock to grow old.
OldIsDead == lockOld => lock \in crashed

\* The lock file names whoever is in the critical section.
InsideHolds == \A c \in Callers : pc[c] \in Inside => lock = ProcOf[c]

\* While a waiter reaps, the lock is still that of a killed process.
ReapedIsDead == \A c \in Callers : pc[c] \in Reaping => lock \in crashed

DeadAreGone == \A c \in Callers : pc[c] # "dead" => ProcOf[c] \notin crashed

NoneKilled == MaxCrashes = 0 => crashed = {}

LockInv ==
    /\ LockTypeOK
    /\ OldIsDead
    /\ InsideHolds
    /\ ReapedIsDead
    /\ DeadAreGone
    /\ NoneKilled
    /\ MutualExclusion

\* c has a grant from the issuer that it has yet to write.
Refreshing(c) == pc[c] \in {"granted", "write"} /\ ~signingIn[c]

\* c has a grant of a sign-in that it has yet to write; it may wait for the lock.
SavingSignIn(c) == signingIn[c] /\ pc[c] \in Synchronous

\* TypeOK of the tokens without the bounds on grants and faults.
TokenTypes ==
    /\ disk \in [Locations -> Nat]
    /\ snapshot \in [Callers -> [Locations -> Nat]]
    /\ held \in [Callers -> Nat] /\ live \in [Callers -> BOOLEAN]
    /\ pending \in [Callers -> Nat] /\ signingIn \in [Callers -> BOOLEAN]
    /\ issued \in [Locations -> Nat]
    /\ unspent \in [Locations -> SUBSET Nat]
    /\ fresh \in [Locations -> 0 .. MaxExpired]
    /\ faults \in Nat
    /\ rewound \subseteq Locations

\* Every grant was made by the issuer.
NoneAhead ==
    /\ \A l \in Locations : disk[l] <= issued[l]
    /\ \A c \in Callers : held[c] <= issued[LocOf[c]] /\ pending[c] <= issued[LocOf[c]]

\* What was read of the file is what is in it until it is written.
SnapshotCurrent == \A c \in Callers : pc[c] = "write" => snapshot[c] = disk

\* A grant on its way to the file is honoured, and later than the one there.
RefreshIsNewest ==
    \A c \in Callers :
        Refreshing(c) => pending[c] \in unspent[LocOf[c]] /\ pending[c] > disk[LocOf[c]]

\* The grant of a sign-in is honoured until it is written, because nobody else
\* has it: neither the file, nor a caller that could spend it.
SignInIsOwn ==
    \A c \in Callers :
        SavingSignIn(c) =>
            /\ pending[c] \in unspent[LocOf[c]]
            /\ pending[c] # disk[LocOf[c]]
            /\ \A d \in Callers : LocOf[d] = LocOf[c] =>
                /\ held[d] # pending[c]
                /\ d # c /\ (Refreshing(d) \/ SavingSignIn(d)) => pending[d] # pending[c]

\* The grant in the file is honoured, or the one that replaces it is on its way
\* to the file or died with its process.
DiskGood(l) ==
    \/ disk[l] \in unspent[l]
    \/ DiedWithGrant(l)
    \/ \E c \in Callers : LocOf[c] = l /\ Refreshing(c)

DiskIsGood == \A l \in Locations : DiskGood(l)

\* A sign-in asks the issuer for nothing.
AsksToRefresh == \A c \in Callers : pc[c] \in {"request", "granted"} => ~signingIn[c]

FileInv ==
    /\ TokenTypes
    /\ NoneAhead
    /\ AsksToRefresh
    /\ SnapshotCurrent
    /\ RefreshIsNewest
    /\ SignInIsOwn
    /\ DiskIsGood

\* A caller holds no later grant than the file, unless it is about to write it
\* or a sign-in was saved over a later one.
HeldNotAhead ==
    \A c \in Callers :
        \/ LocOf[c] \in rewound \/ pc[c] = "dead"
        \/ pc[c] = "write" /\ ~signingIn[c]
        \/ held[c] <= disk[LocOf[c]]

\* The refresh token that is sent is the one in the file, unless the file's
\* grant has expired and was not adopted for that.
SentIsOnDisk ==
    \A c \in Callers :
        pc[c] = "request" =>
            \/ LocOf[c] \in rewound
            \/ disk[LocOf[c]] < fresh[LocOf[c]]
            \/ held[c] = disk[LocOf[c]]

SentInv == HeldNotAhead /\ SentIsOnDisk

Inv == LockInv /\ FileInv /\ SentInv
-----------------------------------------------------------------------------
(* The lock *)

\* A step of c that leaves the lock alone and enters neither the critical
\* section nor the reaping of a lock whose holder lives.
LEMMA MoveKeepsLock ==
    ASSUME LockInv, NEW c \in Callers, NEW step \in Acquiring \cup Inside \cup Resting,
           Goto(c, step), pc[c] # "dead", step # "dead",
           step \in Inside => pc[c] \in Inside,
           step \in Reaping => lock \in crashed,
           UNCHANGED <<lock, lockOld, crashed>>,
           pidRead' \in [Callers -> Procs \cup {NoProc}]
    PROVE  LockInv'
<1>1. LockTypeOK'
  BY DEF LockInv, LockTypeOK, Goto
<1>2. \A d \in Callers : d # c => pc'[d] = pc[d]
  BY DEF LockInv, LockTypeOK, Goto
<1>3. pc'[c] = step
  BY DEF LockInv, LockTypeOK, Goto
<1>4. OldIsDead' /\ NoneKilled'
  BY DEF LockInv, OldIsDead, NoneKilled
<1>5. InsideHolds'
  BY <1>2, <1>3 DEF LockInv, InsideHolds
<1>6. ReapedIsDead'
  BY <1>2, <1>3 DEF LockInv, ReapedIsDead
<1>7. DeadAreGone'
  BY <1>2, <1>3 DEF LockInv, DeadAreGone
<1>8. MutualExclusion'
  BY <1>2, <1>3 DEF LockInv, MutualExclusion
<1> QED
  BY <1>1, <1>4, <1>5, <1>6, <1>7, <1>8 DEF LockInv

\* A step that frees the lock: nobody but c may be in the critical section,
\* and nobody but c may be reaping.
LEMMA FreeingKeepsLock ==
    ASSUME LockInv, NEW c \in Callers, NEW step \in {"create", "idle"},
           Goto(c, step), pc[c] # "dead",
           lock' = NoProc, lockOld' = FALSE, UNCHANGED <<pidRead, crashed>>,
           \A d \in Callers : pc[d] \in Inside \cup Reaping => d = c
    PROVE  LockInv'
<1>1. LockTypeOK'
  BY DEF LockInv, LockTypeOK, Goto, Acquiring, Resting
<1>2. \A d \in Callers : d # c => pc'[d] = pc[d] /\ pc[d] \notin Inside \cup Reaping
  BY DEF LockInv, LockTypeOK, Goto
<1>3. pc'[c] = step
  BY DEF LockInv, LockTypeOK, Goto
<1>4. OldIsDead' /\ NoneKilled'
  BY DEF LockInv, OldIsDead, NoneKilled
<1>5. step \notin Inside \cup Reaping
  BY DEF Inside, Reaping
<1>6. InsideHolds' /\ ReapedIsDead' /\ MutualExclusion'
  BY <1>2, <1>3, <1>5 DEF InsideHolds, ReapedIsDead, MutualExclusion
<1>7. DeadAreGone'
  BY <1>2, <1>3 DEF LockInv, DeadAreGone
<1> QED
  BY <1>1, <1>4, <1>6, <1>7 DEF LockInv

\* Nobody is in the critical section while somebody reaps: the lock of the one
\* would be a dead process's.
LEMMA NobodyInsideOfDead ==
    ASSUME LockInv, lock \in crashed, NEW c \in Callers
    PROVE  pc[c] \notin Inside
<1> SUFFICES ASSUME pc[c] \in Inside PROVE FALSE
  OBVIOUS
<1>1. lock = ProcOf[c]
  BY DEF LockInv, InsideHolds
<1>2. pc[c] # "dead"
  BY DEF Inside
<1> QED
  BY <1>1, <1>2 DEF LockInv, DeadAreGone

\* The lock is free when it is made, so nobody is inside and nobody reaps.
LEMMA CreateKeepsLock ==
    ASSUME LockInv, NEW c \in Callers, CreateLock(c)
    PROVE  LockInv'
<1>1. pc[c] = "create"
  BY DEF CreateLock, At
<1>2. CASE lock # NoProc
  <2>1. UNCHANGED <<lock, lockOld, pidRead, crashed>> /\ Goto(c, "stat")
    BY <1>2 DEF CreateLock
  <2> QED
    BY <1>1, <2>1, MoveKeepsLock DEF LockInv, LockTypeOK, Acquiring, Inside, Reaping
<1>3. CASE lock = NoProc
  <2>1. /\ lock' = ProcOf[c] /\ lockOld' = FALSE
        /\ Goto(c, "inside") /\ UNCHANGED <<pidRead, crashed>>
    BY <1>3 DEF CreateLock
  <2>2. \A d \in Callers : ProcOf[d] \in Procs /\ ProcOf[d] # NoProc
    BY LockAssumption
  <2>3. \A d \in Callers : pc[d] \notin Inside /\ pc[d] \notin Reaping
    BY <1>3, <2>2, LockAssumption DEF LockInv, InsideHolds, ReapedIsDead, LockTypeOK
  <2>4. \A d \in Callers : d # c => pc'[d] = pc[d]
    BY <2>1 DEF LockInv, LockTypeOK, Goto
  <2>5. pc'[c] = "inside"
    BY <2>1 DEF LockInv, LockTypeOK, Goto
  <2>6. LockTypeOK'
    BY <2>1, <2>2 DEF LockInv, LockTypeOK, Goto, Inside
  <2>7. InsideHolds' /\ MutualExclusion'
    BY <2>1, <2>3, <2>4 DEF InsideHolds, MutualExclusion
  <2>8. ReapedIsDead'
    BY <2>3, <2>4, <2>5 DEF ReapedIsDead, Reaping
  <2>9. DeadAreGone'
    BY <1>1, <2>1, <2>4 DEF LockInv, DeadAreGone
  <2>10. OldIsDead' /\ NoneKilled'
    BY <2>1 DEF LockInv, OldIsDead, NoneKilled
  <2> QED
    BY <2>6, <2>7, <2>8, <2>9, <2>10 DEF LockInv
<1> QED
  BY <1>2, <1>3

\* The reaper is alive and so is of the process that is not the lock's; another
\* reaper would be of the same process, whose event loop the first one has.
LEMMA UnlinkKeepsLock ==
    ASSUME LockInv, LockHypothesis, NEW c \in Callers, UnlinkLock(c)
    PROVE  LockInv'
<1>1. /\ pc[c] = "unlink"
      /\ \A d \in Callers \ {c} : ProcOf[d] = ProcOf[c] => pc[d] \notin Synchronous
  BY DEF UnlinkLock, At
<1>2. lock \in crashed
  BY <1>1 DEF LockInv, ReapedIsDead, Reaping
<1>3. TwoProcs
  BY <1>2 DEF LockInv, NoneKilled, LockHypothesis
<1>4. ASSUME NEW d \in Callers, pc[d] \in Inside \cup Reaping PROVE d = c
  <2>1. pc[d] \in Reaping
    BY <1>2, <1>4, NobodyInsideOfDead
  <2>2. pc[c] # "dead" /\ pc[d] # "dead" /\ pc[d] \in Synchronous
    BY <1>1, <2>1 DEF Reaping, Synchronous, Acquiring
  <2>3. ProcOf[c] \notin crashed /\ ProcOf[d] \notin crashed
    BY <2>2 DEF LockInv, DeadAreGone
  <2>4. ProcOf[c] \in Procs /\ ProcOf[d] \in Procs /\ lock \in Procs
    BY <1>2, LockAssumption DEF LockInv, LockTypeOK
  <2>5. ProcOf[c] = ProcOf[d]
    BY <1>2, <1>3, <2>3, <2>4 DEF TwoProcs
  <2> QED
    BY <1>1, <2>2, <2>5
<1> QED
  BY <1>1, <1>4, FreeingKeepsLock DEF UnlinkLock, Unlinked

\* Who releases is alive: nobody reaps its lock.
LEMMA ReleaseKeepsLock ==
    ASSUME LockInv, NEW c \in Callers, ReleaseLock(c)
    PROVE  LockInv'
<1>1. pc[c] = "release"
  BY DEF ReleaseLock, At
<1>2. \A d \in Callers : pc[d] \in Inside => d = c
  BY <1>1 DEF LockInv, MutualExclusion, Inside
<1>3. lock \notin crashed
  BY <1>1, NobodyInsideOfDead DEF Inside
<1>4. \A d \in Callers : pc[d] \notin Reaping
  BY <1>3 DEF LockInv, ReapedIsDead
<1> QED
  BY <1>1, <1>2, <1>4, FreeingKeepsLock DEF ReleaseLock, Unlinked

\* A kill leaves the lock file and takes its callers out of the section.
LEMMA CrashKeepsLock ==
    ASSUME LockInv, NEW p \in Procs, Crash(p)
    PROVE  LockInv'
<1>1. \A d \in Callers : pc'[d] = IF ProcOf[d] = p THEN "dead" ELSE pc[d]
  BY DEF Crash
<1>2. LockTypeOK'
  BY DEF LockInv, LockTypeOK, Crash, Resting
<1>3. UNCHANGED <<lock, lockOld>> /\ crashed' = crashed \cup {p}
  BY DEF Crash
<1>4. OldIsDead'
  BY <1>3 DEF LockInv, OldIsDead
<1>5. "dead" \notin Inside /\ "dead" \notin Reaping
  BY DEF Inside, Reaping
<1>6. \A d \in Callers : pc'[d] \in Inside \cup Reaping => pc'[d] = pc[d]
  BY <1>1, <1>5
<1>7. InsideHolds' /\ ReapedIsDead' /\ MutualExclusion'
  BY <1>3, <1>6 DEF LockInv, InsideHolds, ReapedIsDead, MutualExclusion
<1>8. DeadAreGone'
  BY <1>1, <1>3 DEF LockInv, DeadAreGone
<1>9. NoneKilled'
  <2> SUFFICES ASSUME MaxCrashes = 0 PROVE FALSE
    BY DEF NoneKilled
  <2>1. crashed = {}
    BY DEF LockInv, NoneKilled
  <2>2. Cardinality(crashed) < 0
    BY DEF Crash
  <2> QED
    BY <2>1, <2>2, FS_EmptySet
<1> QED
  BY <1>2, <1>4, <1>7, <1>8, <1>9 DEF LockInv

\* Only the lock of a killed process grows old.
LEMMA AgeKeepsLock ==
    ASSUME LockInv, LockHypothesis, LockAges
    PROVE  LockInv'
BY DEF LockInv, LockHypothesis, LockAges, LockTypeOK, OldIsDead, InsideHolds,
       ReapedIsDead, DeadAreGone, NoneKilled, MutualExclusion

\* The steps of acquireLock.
LEMMA AcquireKeepsLock ==
    ASSUME LockInv, LockHypothesis, NEW c \in Callers, AcquireStep(c)
    PROVE  LockInv'
<1> USE DEF Acquiring, Inside, Reaping
<1>1. CASE CreateLock(c)
  BY <1>1, CreateKeepsLock
<1>2. CASE StatLock(c)
  <2> PICK step \in {"create", "readPid", "wait"} :
         /\ Goto(c, step) /\ pc[c] = "stat"
         /\ step = "readPid" => lock \in crashed
         /\ UNCHANGED <<lock, lockOld, pidRead, crashed>>
    BY <1>2 DEF StatLock, At, LockInv, OldIsDead
  <2> QED
    BY MoveKeepsLock DEF LockInv, LockTypeOK
<1>3. CASE ReadPid(c)
  <2>1. lock \in crashed
    BY <1>3 DEF ReadPid, At, LockInv, ReapedIsDead
  <2>2. pidRead' \in [Callers -> Procs \cup {NoProc}]
    BY <1>3 DEF ReadPid, LockInv, LockTypeOK
  <2> QED
    BY <1>3, <2>1, <2>2, MoveKeepsLock DEF ReadPid, At
<1>4. CASE KillPid(c)
  <2>1. lock \in crashed
    BY <1>4 DEF KillPid, At, LockInv, ReapedIsDead
  <2> PICK step \in {"unlink", "wait"} :
         /\ Goto(c, step) /\ pc[c] = "kill"
         /\ UNCHANGED <<lock, lockOld, pidRead, crashed>>
    BY <1>4 DEF KillPid, At
  <2> QED
    BY <2>1, MoveKeepsLock DEF LockInv, LockTypeOK
<1>5. CASE UnlinkLock(c)
  BY <1>5, UnlinkKeepsLock
<1>6. CASE Sleep(c)
  BY <1>6, MoveKeepsLock DEF Sleep, At, LockInv, LockTypeOK
<1> QED
  BY <1>1, <1>2, <1>3, <1>4, <1>5, <1>6 DEF AcquireStep

\* Every step of the specification.
LEMMA NextKeepsLock ==
    ASSUME LockInv, LockHypothesis, [Next]_vars
    PROVE  LockInv'
<1> USE DEF Acquiring, Inside, Reaping, Resting
<1>p. pidRead \in [Callers -> Procs \cup {NoProc}]
  BY DEF LockInv, LockTypeOK
<1>1. CASE UNCHANGED vars
  BY <1>1 DEF vars, lockVars, LockInv, LockTypeOK, OldIsDead, InsideHolds, ReapedIsDead,
              DeadAreGone, NoneKilled, MutualExclusion
<1>2. ASSUME NEW c \in Callers, NEW forceRefreshToken \in BOOLEAN, Fetch(c, forceRefreshToken)
      PROVE  LockInv'
  BY <1>p, <1>2, MoveKeepsLock DEF Fetch, AtRest, At
<1>3. ASSUME NEW c \in Callers, SignIn(c) PROVE LockInv'
  BY <1>p, <1>3, MoveKeepsLock DEF SignIn, AtRest, At
<1>4. ASSUME NEW c \in Callers, Step(c) PROVE LockInv'
  <2>1. CASE Acquire(c)
    BY <2>1, AcquireKeepsLock DEF Acquire
  <2>2. CASE Adopt(c)
    BY <1>p, <2>2, MoveKeepsLock DEF Adopt, At
  <2>3. CASE Request(c)
    BY <1>p, <2>3, MoveKeepsLock DEF Request, At
  <2>4. CASE Issue(c)
    <3> PICK step \in {"granted", "refused"} :
           /\ Goto(c, step) /\ pc[c] = "request"
           /\ UNCHANGED <<lock, lockOld, pidRead, crashed>>
      BY <2>4 DEF Issue
    <3> QED
      BY <1>p, MoveKeepsLock
  <2>5. CASE Granted(c)
    BY <1>p, <2>5, MoveKeepsLock DEF Granted, At
  <2>6. CASE Refused(c)
    BY <1>p, <2>6, MoveKeepsLock DEF Refused, At
  <2>7. CASE BeginSave(c)
    BY <1>p, <2>7, MoveKeepsLock DEF BeginSave, At
  <2>8. CASE Write(c)
    BY <1>p, <2>8, MoveKeepsLock DEF Write, At
  <2>9. CASE Release(c)
    BY <2>9, ReleaseKeepsLock DEF Release
  <2> QED
    BY <1>4, <2>1, <2>2, <2>3, <2>4, <2>5, <2>6, <2>7, <2>8, <2>9 DEF Step
<1>5. ASSUME NEW c \in Callers, GiveUp(c) PROVE LockInv'
  BY <1>p, <1>5, MoveKeepsLock DEF GiveUp, Timeout, At
<1>6. ASSUME NEW c \in Callers, LoseRequest(c) PROVE LockInv'
  BY <1>p, <1>6, MoveKeepsLock DEF LoseRequest
<1>7. ASSUME NEW c \in Callers, WriteFails(c) PROVE LockInv'
  BY <1>p, <1>7, MoveKeepsLock DEF WriteFails, At
<1>8. ASSUME NEW p \in Procs, Crash(p) PROVE LockInv'
  BY <1>8, CrashKeepsLock
<1>9. CASE LockAges
  BY <1>9, AgeKeepsLock
<1>10. ASSUME NEW l \in Locations, Expire(l) PROVE LockInv'
  BY <1>10 DEF Expire, lockVars, LockInv, LockTypeOK, OldIsDead, InsideHolds, ReapedIsDead,
               DeadAreGone, NoneKilled, MutualExclusion
<1> QED
  BY <1>1, <1>2, <1>3, <1>4, <1>5, <1>6, <1>7, <1>8, <1>9, <1>10 DEF Next

\* No lock file, and everybody idle.
LEMMA InitKeepsLock == Init => LockInv
<1> SUFFICES ASSUME Init PROVE LockInv
  OBVIOUS
<1> USE DEF Init, LockInit
<1>1. \A c \in Callers : pc[c] = "idle"
  OBVIOUS
<1>2. LockTypeOK
  BY DEF LockTypeOK, Resting
<1>3. InsideHolds /\ ReapedIsDead /\ MutualExclusion
  BY <1>1 DEF InsideHolds, ReapedIsDead, MutualExclusion, Inside, Reaping
<1>4. OldIsDead /\ DeadAreGone /\ NoneKilled
  BY DEF OldIsDead, DeadAreGone, NoneKilled
<1> QED
  BY <1>2, <1>3, <1>4 DEF LockInv

\* The lock's inductive invariant holds, whatever is lost or fails to be written.
THEOREM LockInvCorrect == LockHypothesis /\ Spec => []LockInv
<1>1. LockHypothesis /\ LockInv /\ [Next]_vars => LockInv'
  BY NextKeepsLock
<1>2. LockHypothesis => LockHypothesis'
  BY DEF LockHypothesis, TwoProcs
<1> QED
  BY <1>1, <1>2, InitKeepsLock, PTL DEF Spec

\* Two callers are never between acquireLock and releaseLock together, in any
\* number of processes while none is killed, and in two processes whatever is
\* killed.
THEOREM MutualExclusionCorrect == LockHypothesis /\ Spec => []MutualExclusion
<1>1. LockInv => MutualExclusion
  BY DEF LockInv
<1> QED
  BY <1>1, LockInvCorrect, PTL

-----------------------------------------------------------------------------
(* Slow holders: what is left of the lock without LockHypothesis *)

\* What c looked at when it found an old lock is still there.
Current(c) == pc[c] \in Reaping /\ c \notin replaced

\* Then c read the pid in that lock, and goes on to unlink it if it is a dead one.
ReapInv ==
    /\ pc \in [Callers -> Acquiring \cup Inside \cup Resting]
    /\ lock \in Procs \cup {NoProc}
    /\ pidRead \in [Callers -> Procs \cup {NoProc}]
    /\ \A c \in Callers : Current(c) =>
        /\ lock # NoProc
        /\ pc[c] # "readPid" => pidRead[c] = lock
        /\ pc[c] = "unlink" => lock \in crashed

\* A step of c that leaves lock file and history alone, and does not reap.
LEMMA MoveKeepsReap ==
    ASSUME ReapInv, NEW c \in Callers, NEW step \in (Acquiring \cup Inside \cup Resting) \ Reaping,
           Goto(c, step), UNCHANGED <<lock, pidRead, crashed, replaced>>
    PROVE  ReapInv'
<1>1. pc'[c] = step /\ \A d \in Callers : d # c => pc'[d] = pc[d]
  BY DEF ReapInv, Goto
<1>2. pc' \in [Callers -> Acquiring \cup Inside \cup Resting]
  BY DEF ReapInv, Goto
<1>3. \A d \in Callers : Current(d)' => Current(d) /\ pc'[d] = pc[d]
  BY <1>1 DEF Current
<1> QED
  BY <1>2, <1>3 DEF ReapInv

\* A step that removes the lock file: nobody looks at a current lock any more.
LEMMA UnlinkedKeepsReap ==
    ASSUME ReapInv, NEW c \in Callers, NEW step \in {"create", "idle"},
           Goto(c, step), Unlinked(c), UNCHANGED <<pidRead, crashed>>
    PROVE  ReapInv'
<1>1. pc'[c] = step /\ \A d \in Callers : d # c => pc'[d] = pc[d]
  BY DEF ReapInv, Goto
<1>2. pc' \in [Callers -> Acquiring \cup Inside \cup Resting]
  BY DEF ReapInv, Goto, Acquiring, Resting
<1>3. \A d \in Callers : ~Current(d)'
  BY <1>1 DEF Current, Unlinked, Reaping
<1> QED
  BY <1>2, <1>3 DEF ReapInv, Unlinked

\* The steps of acquireLock.
LEMMA AcquireKeepsReap ==
    ASSUME ReapInv, NEW c \in Callers, AcquireStep(c)
    PROVE  ReapInv'
<1> USE DEF Acquiring, Inside, Reaping
<1>0. /\ \A step : Goto(c, step) => pc'[c] = step /\ \A d \in Callers : d # c => pc'[d] = pc[d]
      /\ \A step \in Acquiring \cup Inside \cup Resting :
            Goto(c, step) => pc' \in [Callers -> Acquiring \cup Inside \cup Resting]
  BY DEF ReapInv, Goto
<1>1. CASE CreateLock(c)
  <2>1. CASE lock = NoProc
    <3>1. /\ \A d \in Callers : ~Current(d)
          /\ Goto(c, "inside") /\ UNCHANGED <<pidRead, crashed, replaced>>
      BY <1>1, <2>1 DEF CreateLock, ReapInv
    <3>2. \A d \in Callers : ~Current(d)'
      BY <1>0, <3>1 DEF Current
    <3>3. lock' \in Procs \cup {NoProc}
      BY <1>1, <2>1, LockAssumption DEF CreateLock
    <3> QED
      BY <1>0, <3>1, <3>2, <3>3 DEF ReapInv
  <2>2. CASE lock # NoProc
    BY <1>1, <2>2, MoveKeepsReap DEF CreateLock
  <2> QED
    BY <2>1, <2>2
<1>2. CASE StatLock(c)
  <2>1. CASE lock # NoProc /\ lockOld
    <3>1. Goto(c, "readPid") /\ UNCHANGED <<lock, pidRead, crashed, replaced>>
      BY <1>2, <2>1 DEF StatLock
    <3>2. \A d \in Callers \ {c} : Current(d)' => Current(d) /\ pc'[d] = pc[d]
      BY <1>0, <3>1 DEF Current
    <3> QED
      BY <1>0, <2>1, <3>1, <3>2 DEF ReapInv
  <2>2. CASE ~(lock # NoProc /\ lockOld)
    <3> PICK step \in {"create", "wait"} : Goto(c, step)
      BY <1>2, <2>2 DEF StatLock
    <3> QED
      BY <1>2, MoveKeepsReap DEF StatLock
  <2> QED
    BY <2>1, <2>2
<1>3. CASE ReadPid(c)
  <2>1. /\ Goto(c, "kill") /\ UNCHANGED <<lock, crashed, replaced>> /\ pc[c] = "readPid"
        /\ pidRead' = [pidRead EXCEPT ![c] = lock]
    BY <1>3 DEF ReadPid, At
  <2>2. /\ pidRead'[c] = lock
        /\ \A d \in Callers : d # c => pidRead'[d] = pidRead[d]
    BY <2>1 DEF ReapInv
  <2>3. \A d \in Callers : Current(d)' => Current(d)
    BY <1>0, <2>1 DEF Current
  <2>4. pidRead' \in [Callers -> Procs \cup {NoProc}]
    BY <2>1, <1>3 DEF ReadPid, ReapInv
  <2> QED
    BY <1>0, <2>1, <2>2, <2>3, <2>4 DEF ReapInv
<1>4. CASE KillPid(c)
  <2>1. pc[c] = "kill" /\ UNCHANGED <<lock, pidRead, crashed>>
    BY <1>4 DEF KillPid, At
  <2>2. CASE pidRead[c] \in crashed \cup {NoProc}
    <3>1. Goto(c, "unlink") /\ UNCHANGED replaced
      BY <1>4, <2>2 DEF KillPid
    <3>2. \A d \in Callers : Current(d)' => Current(d)
      BY <1>0, <2>1, <3>1 DEF Current
    <3>3. Current(c) => lock \in crashed
      BY <2>1, <2>2 DEF ReapInv
    <3> QED
      BY <1>0, <2>1, <3>1, <3>2, <3>3 DEF ReapInv
  <2>3. CASE pidRead[c] \notin crashed \cup {NoProc}
    <3>1. Goto(c, "wait") /\ replaced' = replaced \ {c}
      BY <1>4, <2>3 DEF KillPid
    <3>2. \A d \in Callers : Current(d)' => Current(d) /\ pc'[d] = pc[d]
      BY <1>0, <3>1 DEF Current
    <3> QED
      BY <1>0, <2>1, <3>1, <3>2 DEF ReapInv
  <2> QED
    BY <2>2, <2>3
<1>5. CASE UnlinkLock(c)
  BY <1>5, UnlinkedKeepsReap DEF UnlinkLock
<1>6. CASE Sleep(c)
  BY <1>6, MoveKeepsReap DEF Sleep
<1> QED
  BY <1>1, <1>2, <1>3, <1>4, <1>5, <1>6 DEF AcquireStep

\* Every step of the specification.
LEMMA NextKeepsReap ==
    ASSUME ReapInv, [Next]_vars
    PROVE  ReapInv'
<1> USE DEF Acquiring, Inside, Reaping, Resting
<1>1. CASE UNCHANGED <<lock, pc, pidRead, crashed, replaced>>
  BY <1>1 DEF ReapInv, Current
<1>2. ASSUME NEW c \in Callers, NEW forceRefreshToken \in BOOLEAN, Fetch(c, forceRefreshToken)
      PROVE  ReapInv'
  BY <1>2, MoveKeepsReap DEF Fetch
<1>3. ASSUME NEW c \in Callers, SignIn(c) PROVE ReapInv'
  BY <1>3, MoveKeepsReap DEF SignIn
<1>4. ASSUME NEW c \in Callers, Step(c) PROVE ReapInv'
  <2>1. CASE Acquire(c)
    BY <2>1, AcquireKeepsReap DEF Acquire
  <2>2. CASE Adopt(c)
    BY <2>2, MoveKeepsReap DEF Adopt
  <2>3. CASE Request(c)
    BY <2>3, MoveKeepsReap DEF Request
  <2>4. CASE Issue(c)
    <3> PICK step \in {"granted", "refused"} :
           Goto(c, step) /\ UNCHANGED <<lock, pidRead, crashed, replaced>>
      BY <2>4 DEF Issue
    <3> QED
      BY MoveKeepsReap
  <2>5. CASE Granted(c)
    BY <2>5, MoveKeepsReap DEF Granted
  <2>6. CASE Refused(c)
    BY <2>6, MoveKeepsReap DEF Refused
  <2>7. CASE BeginSave(c)
    BY <2>7, MoveKeepsReap DEF BeginSave
  <2>8. CASE Write(c)
    BY <2>8, MoveKeepsReap DEF Write
  <2>9. CASE Release(c)
    BY <2>9, UnlinkedKeepsReap DEF Release, ReleaseLock
  <2> QED
    BY <1>4, <2>1, <2>2, <2>3, <2>4, <2>5, <2>6, <2>7, <2>8, <2>9 DEF Step
<1>5. ASSUME NEW c \in Callers, GiveUp(c) PROVE ReapInv'
  BY <1>5, MoveKeepsReap DEF GiveUp, Timeout
<1>6. ASSUME NEW c \in Callers, LoseRequest(c) PROVE ReapInv'
  BY <1>6, MoveKeepsReap DEF LoseRequest
<1>7. ASSUME NEW c \in Callers, WriteFails(c) PROVE ReapInv'
  BY <1>7, MoveKeepsReap DEF WriteFails
<1>8. ASSUME NEW p \in Procs, Crash(p) PROVE ReapInv'
  <2>1. /\ pc' = [c \in Callers |-> IF ProcOf[c] = p THEN "dead" ELSE pc[c]]
        /\ crashed' = crashed \cup {p} /\ UNCHANGED <<lock, pidRead>>
        /\ replaced' = {c \in replaced : ProcOf[c] # p}
    BY <1>8 DEF Crash
  <2>2. pc' \in [Callers -> Acquiring \cup Inside \cup Resting]
    BY <2>1 DEF ReapInv
  <2>3. \A c \in Callers : Current(c)' => Current(c) /\ pc'[c] = pc[c]
    BY <2>1 DEF Current
  <2> QED
    BY <2>1, <2>2, <2>3 DEF ReapInv
<1>9. ASSUME LockAges \/ (\E l \in Locations : Expire(l)) \/ UNCHANGED vars
      PROVE  UNCHANGED <<lock, pc, pidRead, crashed, replaced>>
  BY <1>9 DEF LockAges, Expire, vars, lockVars
<1> QED
  BY <1>1, <1>2, <1>3, <1>4, <1>5, <1>6, <1>7, <1>8, <1>9 DEF Next

\* However slow a live holder is, however many processes there are and whichever
\* are killed: a waiter unlinks the lock of a living process only when the lock
\* it found old was gone by then.
THEOREM SlowHolderKeptCorrect == Spec => SlowHolderKept
<1>1. Init => ReapInv
  BY DEF Init, LockInit, ReapInv, Current, Reaping, Resting
<1>2. ReapInv /\ [Next]_vars => ReapInv'
  BY NextKeepsReap
<1>3. ReapInv /\ [Next]_vars
        => [\A c \in Callers : UnlinkLock(c) => lock \in crashed \cup {NoProc} \/ c \in replaced]_lockVars
  BY DEF ReapInv, Current, UnlinkLock, At, Reaping
<1> QED
  BY <1>1, <1>2, <1>3, PTL DEF Spec, SlowHolderKept
-----------------------------------------------------------------------------
(* The file and the tokens *)

\* A lost answer or a failed write loses the only honoured refresh token.
FileHypothesis == LockHypothesis /\ MaxFaults = 0

\* A caller that goes on moves, and nobody else does.
LEMMA GotoMoves ==
    ASSUME LockInv, NEW c \in Callers, NEW step, Goto(c, step)
    PROVE  pc'[c] = step /\ \A d \in Callers : d # c => pc'[d] = pc[d]
BY DEF LockInv, LockTypeOK, Goto

\* While c is in the critical section, nobody else has one of its steps left.
LEMMA OnlyOneInside ==
    ASSUME LockInv, NEW c \in Callers, pc[c] \in Inside
    PROVE  \A d \in Callers : d # c => pc[d] \notin Inside
BY DEF LockInv, MutualExclusion

\* The steps that change no token: c gets on, and is neither about to write
\* nor done with it.
LEMMA MoveKeepsFile ==
    ASSUME FileInv, LockInv, NEW c \in Callers, NEW step, Goto(c, step),
           pc[c] \notin {"granted", "write", "dead"},
           step \notin {"granted", "write", "dead"},
           step = "request" => ~signingIn[c],
           step \in Synchronous /\ signingIn'[c] => pc[c] \in Synchronous /\ signingIn[c],
           signingIn' \in [Callers -> BOOLEAN],
           \A d \in Callers : d # c => signingIn'[d] = signingIn[d],
           signingIn'[c] => signingIn[c],
           live' \in [Callers -> BOOLEAN],
           UNCHANGED <<disk, snapshot, held, pending, issuerVars, faults, rewound>>
    PROVE  FileInv'
<1>1. pc'[c] = step /\ \A d \in Callers : d # c => pc'[d] = pc[d]
  BY GotoMoves
<1>2. TokenTypes' /\ NoneAhead'
  BY DEF FileInv, TokenTypes, NoneAhead, issuerVars
<1>3. AsksToRefresh'
  BY <1>1 DEF FileInv, AsksToRefresh
<1>4. SnapshotCurrent'
  BY <1>1 DEF FileInv, SnapshotCurrent
<1>5. \A d \in Callers : (Refreshing(d)' => Refreshing(d)) /\ (Refreshing(d) => Refreshing(d)')
  BY <1>1 DEF Refreshing
<1>6. \A d \in Callers : SavingSignIn(d)' => SavingSignIn(d)
  BY <1>1 DEF SavingSignIn
<1>7. RefreshIsNewest'
  BY <1>5 DEF FileInv, RefreshIsNewest, issuerVars
<1>8. SignInIsOwn'
  BY <1>5, <1>6 DEF FileInv, SignInIsOwn, issuerVars
<1>9. \A l \in Locations : DiedWithGrant(l) => DiedWithGrant(l)'
  BY <1>1 DEF DiedWithGrant
<1>10. DiskIsGood'
  BY <1>5, <1>9 DEF FileInv, DiskIsGood, DiskGood, issuerVars
<1> QED
  BY <1>2, <1>3, <1>4, <1>7, <1>8, <1>10 DEF FileInv

\* A grant just made is nobody else's.
LEMMA SignInKeepsFile ==
    ASSUME FileInv, LockInv, NEW c \in Callers, SignIn(c)
    PROVE  FileInv'
<1> DEFINE l == LocOf[c]
<1>0. l \in Locations /\ \A d \in Callers : LocOf[d] \in Locations
  BY RefreshAssumption
<1>1. pc'[c] = "create" /\ \A d \in Callers : d # c => pc'[d] = pc[d]
  BY GotoMoves DEF SignIn
<1>2. pc[c] \in {"idle", "threw"}
  BY DEF SignIn, AtRest, At
<1>3. UNCHANGED <<disk, snapshot, held, live, fresh, faults, rewound>>
  BY DEF SignIn
<1>4. /\ issued'[l] = issued[l] + 1
      /\ unspent'[l] = unspent[l] \cup {issued[l] + 1}
      /\ pending'[c] = issued[l] + 1
      /\ signingIn'[c] = TRUE
  BY <1>0 DEF SignIn, FileInv, TokenTypes
<1>5. /\ \A k \in Locations : k # l => issued'[k] = issued[k] /\ unspent'[k] = unspent[k]
      /\ \A d \in Callers : d # c => pending'[d] = pending[d] /\ signingIn'[d] = signingIn[d]
  BY <1>0 DEF SignIn, FileInv, TokenTypes
<1>6. TokenTypes'
  <2>1. issued[l] \in Nat /\ issued[l] + 1 \in Nat /\ unspent[l] \in SUBSET Nat
    BY <1>0 DEF FileInv, TokenTypes
  <2>2. issued' \in [Locations -> Nat] /\ pending' \in [Callers -> Nat]
        /\ signingIn' \in [Callers -> BOOLEAN]
    BY <1>0, <2>1 DEF SignIn, FileInv, TokenTypes
  <2>3. unspent' \in [Locations -> SUBSET Nat]
    BY <1>0, <1>4, <2>1 DEF SignIn, FileInv, TokenTypes
  <2> QED
    BY <1>3, <2>2, <2>3 DEF FileInv, TokenTypes
<1> HIDE DEF l
<1>7. NoneAhead'
  <2>1. /\ \A k \in Locations : issued[k] \in Nat /\ disk[k] \in Nat /\ disk[k] <= issued[k]
        /\ \A d \in Callers : /\ held[d] \in Nat /\ pending[d] \in Nat
                             /\ held[d] <= issued[LocOf[d]] /\ pending[d] <= issued[LocOf[d]]
    BY DEF FileInv, NoneAhead, TokenTypes
  <2>2. \A k \in Locations : issued'[k] \in Nat /\ issued'[k] >= issued[k]
    BY <1>4, <1>5, <2>1
  <2>3. \A k \in Locations : disk[k] <= issued'[k]
    BY <2>1, <2>2
  <2>4. ASSUME NEW d \in Callers
        PROVE  held[d] <= issued'[LocOf[d]] /\ pending'[d] <= issued'[LocOf[d]]
    <3>1. issued[LocOf[d]] \in Nat /\ issued'[LocOf[d]] \in Nat /\ issued'[LocOf[d]] >= issued[LocOf[d]]
      BY <1>0, <2>1, <2>2
    <3>2. CASE d = c
      BY <1>0, <1>4, <2>1, <3>1, <3>2 DEF l
    <3>3. CASE d # c
      BY <1>5, <2>1, <3>1, <3>3
    <3> QED
      BY <3>2, <3>3
  <2> QED
    BY <1>3, <2>3, <2>4 DEF NoneAhead
<1>8. AsksToRefresh' /\ SnapshotCurrent'
  BY <1>1, <1>3, <1>5 DEF FileInv, AsksToRefresh, SnapshotCurrent
<1>9. \A d \in Callers : /\ Refreshing(d)' => Refreshing(d) /\ d # c
                         /\ Refreshing(d) => Refreshing(d)'
                         /\ SavingSignIn(d)' /\ d # c => SavingSignIn(d)
  BY <1>1, <1>2, <1>5 DEF Refreshing, SavingSignIn
<1>10. RefreshIsNewest'
  BY <1>0, <1>3, <1>4, <1>5, <1>9 DEF FileInv, RefreshIsNewest
<1>11. \A d \in Callers : LocOf[d] = l => held[d] <= issued[l] /\ pending[d] <= issued[l]
  BY DEF FileInv, NoneAhead
<1>12. /\ issued[l] \in Nat /\ disk[l] \in Nat /\ disk[l] <= issued[l]
       /\ \A d \in Callers : held[d] \in Nat /\ pending[d] \in Nat
  BY <1>0 DEF FileInv, NoneAhead, TokenTypes
<1>13. SignInIsOwn'
  <2> SUFFICES ASSUME NEW e \in Callers, SavingSignIn(e)'
               PROVE  /\ pending'[e] \in unspent'[LocOf[e]]
                      /\ pending'[e] # disk[LocOf[e]]
                      /\ \A d \in Callers : LocOf[d] = LocOf[e] =>
                          /\ held[d] # pending'[e]
                          /\ d # e /\ (Refreshing(d)' \/ SavingSignIn(d)') => pending'[d] # pending'[e]
    BY <1>3 DEF SignInIsOwn
  <2>1. CASE e = c
    BY <2>1, <1>4, <1>5, <1>11, <1>12 DEF l
  <2>2. CASE e # c
    <3>1. SavingSignIn(e) /\ pending'[e] = pending[e]
      BY <2>2, <1>5, <1>9
    <3>2. /\ pending[e] \in unspent[LocOf[e]]
          /\ pending[e] # disk[LocOf[e]]
          /\ \A d \in Callers : LocOf[d] = LocOf[e] =>
              /\ held[d] # pending[e]
              /\ d # e /\ (Refreshing(d) \/ SavingSignIn(d)) => pending[d] # pending[e]
      BY <3>1 DEF FileInv, SignInIsOwn
    <3>3. pending[e] \in unspent'[LocOf[e]]
      BY <3>2, <1>0, <1>4, <1>5
    <3>4. ASSUME NEW d \in Callers, LocOf[d] = LocOf[e], d # e, Refreshing(d)' \/ SavingSignIn(d)'
          PROVE  pending'[d] # pending[e]
      <4>1. CASE d = c
        BY <3>4, <4>1, <1>4, <1>11, <1>12 DEF l
      <4>2. CASE d # c
        BY <3>2, <3>4, <4>2, <1>5, <1>9
      <4> QED
        BY <4>1, <4>2
    <3> QED
      BY <3>1, <3>2, <3>3, <3>4
  <2> QED
    BY <2>1, <2>2
<1>14. \A k \in Locations : DiedWithGrant(k) => DiedWithGrant(k)'
  BY <1>1, <1>2, <1>3, <1>5 DEF DiedWithGrant
<1>15. DiskIsGood'
  BY <1>3, <1>4, <1>5, <1>9, <1>14 DEF FileInv, DiskIsGood, DiskGood
<1> QED
  BY <1>6, <1>7, <1>8, <1>10, <1>13, <1>15 DEF FileInv

\* What is adopted is in the file, so it is no sign-in's.
LEMMA AdoptKeepsFile ==
    ASSUME FileInv, LockInv, NEW c \in Callers, Adopt(c)
    PROVE  FileInv'
<1>0. \A d \in Callers : LocOf[d] \in Locations
  BY RefreshAssumption
<1>1. pc'[c] = "release" /\ \A d \in Callers : d # c => pc'[d] = pc[d]
  BY GotoMoves DEF Adopt
<1>2. pc[c] = "inside" /\ ~signingIn[c]
  BY DEF Adopt, At
<1>3. UNCHANGED <<disk, snapshot, pending, signingIn, issued, unspent, fresh, faults, rewound>>
  BY DEF Adopt, issuerVars
<1>4. held'[c] = disk[LocOf[c]] /\ \A d \in Callers : d # c => held'[d] = held[d]
  BY DEF Adopt, FileInv, TokenTypes
<1>5. TokenTypes'
  BY <1>0 DEF Adopt, FileInv, TokenTypes, issuerVars
<1>6. NoneAhead'
  BY <1>0, <1>3, <1>4 DEF FileInv, NoneAhead
<1>7. AsksToRefresh' /\ SnapshotCurrent'
  BY <1>1, <1>3 DEF FileInv, AsksToRefresh, SnapshotCurrent
<1>8. \A d \in Callers : /\ Refreshing(d)' => Refreshing(d)
                         /\ Refreshing(d) => Refreshing(d)'
                         /\ SavingSignIn(d)' => SavingSignIn(d)
  BY <1>1, <1>2, <1>3 DEF Refreshing, SavingSignIn
<1>9. RefreshIsNewest'
  BY <1>3, <1>8 DEF FileInv, RefreshIsNewest
<1>10. SignInIsOwn'
  BY <1>3, <1>4, <1>8 DEF FileInv, SignInIsOwn
<1>11. \A k \in Locations : DiedWithGrant(k) => DiedWithGrant(k)'
  BY <1>1, <1>2, <1>3 DEF DiedWithGrant
<1>12. DiskIsGood'
  BY <1>3, <1>8, <1>11 DEF FileInv, DiskIsGood, DiskGood
<1> QED
  BY <1>5, <1>6, <1>7, <1>9, <1>10, <1>12 DEF FileInv

\* The grant that is spent is the asker's; its replacement is on its way to the file.
LEMMA IssueKeepsFile ==
    ASSUME FileInv, LockInv, NEW c \in Callers, Issue(c), held[c] \in unspent[LocOf[c]]
    PROVE  FileInv'
<1> DEFINE l == LocOf[c]
<1>0. l \in Locations /\ \A d \in Callers : LocOf[d] \in Locations
  BY RefreshAssumption
<1>1. pc'[c] = "granted" /\ \A d \in Callers : d # c => pc'[d] = pc[d]
  BY GotoMoves DEF Issue
<1>2. pc[c] = "request" /\ ~signingIn[c]
  BY DEF Issue, FileInv, AsksToRefresh
<1>3. UNCHANGED <<disk, snapshot, held, live, signingIn, fresh, faults, rewound>>
  BY DEF Issue
<1>4. /\ issued'[l] = issued[l] + 1
      /\ unspent'[l] = (unspent[l] \ {held[c]}) \cup {issued[l] + 1}
      /\ pending'[c] = issued[l] + 1
  BY <1>0 DEF Issue, FileInv, TokenTypes
<1>5. /\ \A k \in Locations : k # l => issued'[k] = issued[k] /\ unspent'[k] = unspent[k]
      /\ \A d \in Callers : d # c => pending'[d] = pending[d]
  BY <1>0 DEF Issue, FileInv, TokenTypes
<1>6. TokenTypes'
  <2>1. issued[l] \in Nat /\ issued[l] + 1 \in Nat /\ unspent[l] \in SUBSET Nat
    BY <1>0 DEF FileInv, TokenTypes
  <2>2. issued' \in [Locations -> Nat] /\ pending' \in [Callers -> Nat]
    BY <1>0, <2>1 DEF Issue, FileInv, TokenTypes
  <2>3. unspent' \in [Locations -> SUBSET Nat]
    BY <1>0, <1>4, <2>1 DEF Issue, FileInv, TokenTypes
  <2> QED
    BY <1>3, <2>2, <2>3 DEF FileInv, TokenTypes
<1>7. \A d \in Callers : d # c => pc[d] \notin Inside
  BY <1>2, OnlyOneInside DEF Inside
<1> HIDE DEF l
<1>8. NoneAhead'
  <2>1. /\ \A k \in Locations : issued[k] \in Nat /\ disk[k] \in Nat /\ disk[k] <= issued[k]
        /\ \A d \in Callers : /\ held[d] \in Nat /\ pending[d] \in Nat
                             /\ held[d] <= issued[LocOf[d]] /\ pending[d] <= issued[LocOf[d]]
    BY DEF FileInv, NoneAhead, TokenTypes
  <2>2. \A k \in Locations : issued'[k] \in Nat /\ issued'[k] >= issued[k]
    BY <1>4, <1>5, <2>1
  <2>3. \A k \in Locations : disk[k] <= issued'[k]
    BY <2>1, <2>2
  <2>4. ASSUME NEW d \in Callers
        PROVE  held[d] <= issued'[LocOf[d]] /\ pending'[d] <= issued'[LocOf[d]]
    <3>1. issued[LocOf[d]] \in Nat /\ issued'[LocOf[d]] \in Nat /\ issued'[LocOf[d]] >= issued[LocOf[d]]
      BY <1>0, <2>1, <2>2
    <3>2. CASE d = c
      BY <1>0, <1>4, <2>1, <3>1, <3>2 DEF l
    <3>3. CASE d # c
      BY <1>5, <2>1, <3>1, <3>3
    <3> QED
      BY <3>2, <3>3
  <2> QED
    BY <1>3, <2>3, <2>4 DEF NoneAhead
<1>9. AsksToRefresh' /\ SnapshotCurrent'
  BY <1>1, <1>2, <1>3 DEF FileInv, AsksToRefresh, SnapshotCurrent
<1>10. /\ Refreshing(c)' /\ ~SavingSignIn(c)'
       /\ \A d \in Callers : Refreshing(d)' => d = c
       /\ \A d \in Callers : ~Refreshing(d)
       /\ \A d \in Callers : SavingSignIn(d)' => SavingSignIn(d) /\ d # c
  BY <1>1, <1>2, <1>3, <1>7 DEF Refreshing, SavingSignIn, Inside, Synchronous, Acquiring
<1>11. /\ issued[l] \in Nat /\ disk[l] \in Nat /\ disk[l] <= issued[l]
       /\ \A d \in Callers : held[d] \in Nat /\ pending[d] \in Nat
  BY <1>0 DEF FileInv, NoneAhead, TokenTypes
<1>12. RefreshIsNewest'
  BY <1>3, <1>4, <1>10, <1>11 DEF RefreshIsNewest, l
<1>13. SignInIsOwn'
  <2> SUFFICES ASSUME NEW e \in Callers, SavingSignIn(e)'
               PROVE  /\ pending'[e] \in unspent'[LocOf[e]]
                      /\ pending'[e] # disk[LocOf[e]]
                      /\ \A d \in Callers : LocOf[d] = LocOf[e] =>
                          /\ held[d] # pending'[e]
                          /\ d # e /\ (Refreshing(d)' \/ SavingSignIn(d)') => pending'[d] # pending'[e]
    BY <1>3 DEF SignInIsOwn
  <2>1. SavingSignIn(e) /\ e # c /\ pending'[e] = pending[e]
    BY <1>5, <1>10
  <2>2. /\ pending[e] \in unspent[LocOf[e]]
        /\ pending[e] # disk[LocOf[e]]
        /\ \A d \in Callers : LocOf[d] = LocOf[e] =>
            /\ held[d] # pending[e]
            /\ d # e /\ (Refreshing(d) \/ SavingSignIn(d)) => pending[d] # pending[e]
    BY <2>1 DEF FileInv, SignInIsOwn
  <2>3. pending[e] \in unspent'[LocOf[e]]
    BY <2>2, <1>0, <1>4, <1>5 DEF l
  <2>4. LocOf[e] = l => pending[e] <= issued[l]
    BY DEF FileInv, NoneAhead
  <2>5. ASSUME NEW d \in Callers, LocOf[d] = LocOf[e], d # e, Refreshing(d)' \/ SavingSignIn(d)'
        PROVE  pending'[d] # pending[e]
    <3>1. CASE d = c
      BY <2>4, <2>5, <3>1, <1>4, <1>11 DEF l
    <3>2. CASE d # c
      BY <2>2, <2>5, <3>2, <1>5, <1>10
    <3> QED
      BY <3>1, <3>2
  <2> QED
    BY <2>1, <2>2, <2>3, <2>5
<1>14. \A k \in Locations : DiedWithGrant(k) => DiedWithGrant(k)'
  BY <1>1, <1>2, <1>3, <1>5 DEF DiedWithGrant
<1>15. DiskIsGood'
  BY <1>3, <1>5, <1>10, <1>14 DEF FileInv, DiskIsGood, DiskGood, l
<1> QED
  BY <1>6, <1>8, <1>9, <1>12, <1>13, <1>15 DEF FileInv

\* The file is read again after the answer, in the critical section.
LEMMA GrantedKeepsFile ==
    ASSUME FileInv, LockInv, NEW c \in Callers, Granted(c)
    PROVE  FileInv'
<1>0. \A d \in Callers : LocOf[d] \in Locations
  BY RefreshAssumption
<1>1. pc'[c] = "write" /\ \A d \in Callers : d # c => pc'[d] = pc[d]
  BY GotoMoves DEF Granted
<1>2. pc[c] = "granted" /\ ~signingIn[c]
  BY DEF Granted, At, FileInv, AsksToRefresh
<1>3. UNCHANGED <<disk, pending, signingIn, issued, unspent, fresh, faults, rewound>>
  BY DEF Granted, issuerVars
<1>4. /\ held'[c] = pending[c] /\ snapshot'[c] = disk
      /\ \A d \in Callers : d # c => held'[d] = held[d] /\ snapshot'[d] = snapshot[d]
  BY DEF Granted, FileInv, TokenTypes
<1>5. TokenTypes'
  BY DEF Granted, FileInv, TokenTypes, issuerVars
<1>6. NoneAhead'
  BY <1>3, <1>4 DEF FileInv, NoneAhead
<1>7. AsksToRefresh' /\ SnapshotCurrent'
  BY <1>1, <1>3, <1>4 DEF FileInv, AsksToRefresh, SnapshotCurrent
<1>8. Refreshing(c) /\ ~SavingSignIn(c)'
  BY <1>2, <1>3 DEF Refreshing, SavingSignIn
<1>9. \A d \in Callers : /\ Refreshing(d)' => Refreshing(d)
                         /\ Refreshing(d) => Refreshing(d)'
                         /\ SavingSignIn(d)' => SavingSignIn(d) /\ d # c
  BY <1>1, <1>2, <1>3, <1>8 DEF Refreshing, SavingSignIn
<1>10. RefreshIsNewest'
  BY <1>3, <1>9 DEF FileInv, RefreshIsNewest
<1>11. SignInIsOwn'
  BY <1>3, <1>4, <1>8, <1>9 DEF FileInv, SignInIsOwn
<1>12. \A k \in Locations : DiedWithGrant(k) => DiedWithGrant(k)'
  BY <1>1, <1>2, <1>3 DEF DiedWithGrant
<1>13. DiskIsGood'
  BY <1>3, <1>9, <1>12 DEF FileInv, DiskIsGood, DiskGood
<1> QED
  BY <1>5, <1>6, <1>7, <1>10, <1>11, <1>13 DEF FileInv

\* A sign-in reads the file in the critical section.
LEMMA BeginSaveKeepsFile ==
    ASSUME FileInv, LockInv, NEW c \in Callers, BeginSave(c)
    PROVE  FileInv'
<1>1. pc'[c] = "write" /\ \A d \in Callers : d # c => pc'[d] = pc[d]
  BY GotoMoves DEF BeginSave
<1>2. pc[c] = "inside" /\ signingIn[c]
  BY DEF BeginSave, At
<1>3. UNCHANGED <<disk, held, live, pending, signingIn, issued, unspent, fresh, faults, rewound>>
  BY DEF BeginSave, issuerVars
<1>4. snapshot'[c] = disk /\ \A d \in Callers : d # c => snapshot'[d] = snapshot[d]
  BY DEF BeginSave, FileInv, TokenTypes
<1>5. TokenTypes'
  BY DEF BeginSave, FileInv, TokenTypes, issuerVars
<1>6. NoneAhead'
  BY <1>3 DEF FileInv, NoneAhead
<1>7. AsksToRefresh' /\ SnapshotCurrent'
  BY <1>1, <1>3, <1>4 DEF FileInv, AsksToRefresh, SnapshotCurrent
<1>8. \A d \in Callers : /\ Refreshing(d)' => Refreshing(d)
                         /\ Refreshing(d) => Refreshing(d)'
                         /\ SavingSignIn(d)' => SavingSignIn(d)
  BY <1>1, <1>2, <1>3 DEF Refreshing, SavingSignIn, Synchronous
<1>9. RefreshIsNewest'
  BY <1>3, <1>8 DEF FileInv, RefreshIsNewest
<1>10. SignInIsOwn'
  BY <1>3, <1>8 DEF FileInv, SignInIsOwn
<1>11. \A k \in Locations : DiedWithGrant(k) => DiedWithGrant(k)'
  BY <1>1, <1>2, <1>3 DEF DiedWithGrant
<1>12. DiskIsGood'
  BY <1>3, <1>8, <1>11 DEF FileInv, DiskIsGood, DiskGood
<1> QED
  BY <1>5, <1>6, <1>7, <1>9, <1>10, <1>12 DEF FileInv

\* What is written differs from what was read in the writer's location only.
LEMMA WriteEffect ==
    ASSUME FileInv, LockInv, NEW c \in Callers, Write(c)
    PROVE  /\ disk' \in [Locations -> Nat]
           /\ disk'[LocOf[c]] = pending[c]
           /\ \A l \in Locations : l # LocOf[c] => disk'[l] = disk[l]
           /\ held'[c] = pending[c]
           /\ \A d \in Callers : d # c => held'[d] = held[d]
           /\ UNCHANGED <<snapshot, pending, signingIn, issued, unspent, fresh, faults>>
           /\ pc'[c] = "release"
           /\ \A d \in Callers : d # c => pc'[d] = pc[d] /\ pc[d] \notin Inside
           /\ pc[c] = "write"
           /\ Refreshing(c) \/ SavingSignIn(c)
<1>1. pc[c] = "write" /\ snapshot[c] = disk
  BY DEF Write, At, FileInv, SnapshotCurrent
<1>2. disk' = [disk EXCEPT ![LocOf[c]] = pending[c]]
  BY <1>1 DEF Write
<1>3. LocOf[c] \in Locations
  BY RefreshAssumption
<1>4. pc'[c] = "release" /\ \A d \in Callers : d # c => pc'[d] = pc[d]
  BY GotoMoves DEF Write
<1>5. \A d \in Callers : d # c => pc[d] \notin Inside
  BY <1>1, OnlyOneInside DEF Inside
<1>6. Refreshing(c) \/ SavingSignIn(c)
  BY <1>1 DEF FileInv, TokenTypes, Refreshing, SavingSignIn, Synchronous
<1>7. held'[c] = pending[c] /\ \A d \in Callers : d # c => held'[d] = held[d]
  BY DEF Write, FileInv, TokenTypes
<1>8. UNCHANGED <<snapshot, pending, signingIn, issued, unspent, fresh, faults>>
  BY DEF Write, issuerVars
<1>9. pending[c] \in Nat /\ disk \in [Locations -> Nat]
  BY DEF FileInv, TokenTypes
<1>10. disk' \in [Locations -> Nat] /\ disk'[LocOf[c]] = pending[c]
       /\ \A l \in Locations : l # LocOf[c] => disk'[l] = disk[l]
  BY <1>2, <1>3, <1>9
<1> QED
  BY <1>1, <1>4, <1>5, <1>6, <1>7, <1>8, <1>10

\* The write puts an honoured grant in its location and leaves the others.
LEMMA WriteKeepsFile ==
    ASSUME FileInv, LockInv, NEW c \in Callers, Write(c)
    PROVE  FileInv'
<1> DEFINE l == LocOf[c]
<1>0. l \in Locations /\ \A d \in Callers : LocOf[d] \in Locations
  BY RefreshAssumption
<1>1. /\ disk' \in [Locations -> Nat]
      /\ disk'[l] = pending[c]
      /\ \A k \in Locations : k # l => disk'[k] = disk[k]
      /\ held'[c] = pending[c]
      /\ \A d \in Callers : d # c => held'[d] = held[d]
      /\ UNCHANGED <<snapshot, pending, signingIn, issued, unspent, fresh, faults>>
      /\ pc'[c] = "release"
      /\ \A d \in Callers : d # c => pc'[d] = pc[d] /\ pc[d] \notin Inside
      /\ pc[c] = "write"
      /\ Refreshing(c) \/ SavingSignIn(c)
  BY WriteEffect
<1> HIDE DEF l
<1>2. TokenTypes'
  <2>1. held' \in [Callers -> Nat] /\ live' \in [Callers -> BOOLEAN] /\ rewound' \subseteq Locations
    BY <1>0 DEF Write, FileInv, TokenTypes
  <2> QED
    BY <1>1, <2>1 DEF FileInv, TokenTypes
<1>3. NoneAhead'
  BY <1>0, <1>1 DEF FileInv, NoneAhead, l
<1>4. AsksToRefresh' /\ SnapshotCurrent'
  BY <1>1 DEF FileInv, AsksToRefresh, SnapshotCurrent, Inside
<1>5. /\ \A d \in Callers : ~Refreshing(d)'
      /\ \A d \in Callers : d # c => ~Refreshing(d)
      /\ \A d \in Callers : SavingSignIn(d)' => SavingSignIn(d) /\ d # c
  BY <1>1 DEF Refreshing, SavingSignIn, Inside, Synchronous, Acquiring
<1>6. RefreshIsNewest'
  BY <1>5 DEF RefreshIsNewest
<1>7. SignInIsOwn'
  <2> SUFFICES ASSUME NEW e \in Callers, SavingSignIn(e)'
               PROVE  /\ pending[e] \in unspent[LocOf[e]]
                      /\ pending[e] # disk'[LocOf[e]]
                      /\ \A d \in Callers : LocOf[d] = LocOf[e] =>
                          /\ held'[d] # pending[e]
                          /\ d # e /\ (Refreshing(d)' \/ SavingSignIn(d)') => pending[d] # pending[e]
    BY <1>1 DEF SignInIsOwn
  <2>1. SavingSignIn(e) /\ e # c
    BY <1>5
  <2>2. /\ pending[e] \in unspent[LocOf[e]]
        /\ pending[e] # disk[LocOf[e]]
        /\ \A d \in Callers : LocOf[d] = LocOf[e] =>
            /\ held[d] # pending[e]
            /\ d # e /\ (Refreshing(d) \/ SavingSignIn(d)) => pending[d] # pending[e]
    BY <2>1 DEF FileInv, SignInIsOwn
  <2>3. LocOf[e] = l => pending[e] # pending[c]
    BY <2>1, <2>2, <1>1 DEF l
  <2>4. pending[e] # disk'[LocOf[e]]
    BY <2>2, <2>3, <1>0, <1>1
  <2>5. \A d \in Callers : LocOf[d] = LocOf[e] => held'[d] # pending[e]
    BY <2>2, <2>3, <1>1 DEF l
  <2> QED
    BY <2>2, <2>4, <2>5, <1>5
<1>8. pending[c] \in unspent[l]
  BY <1>1 DEF FileInv, RefreshIsNewest, SignInIsOwn, l
<1>9. ASSUME NEW k \in Locations, k # l, DiedWithGrant(k) PROVE DiedWithGrant(k)'
  BY <1>1, <1>9 DEF DiedWithGrant, l
<1>10. DiskIsGood'
  BY <1>1, <1>5, <1>8, <1>9 DEF FileInv, DiskIsGood, DiskGood, l
<1> QED
  BY <1>2, <1>3, <1>4, <1>6, <1>7, <1>10 DEF FileInv

\* Killed between grant and rename, a process takes a later grant with it.
LEMMA CrashKeepsFile ==
    ASSUME FileInv, LockInv, NEW p \in Procs, Crash(p),
           UNCHANGED <<tokenVars, issuerVars, faults, rewound>>
    PROVE  FileInv'
<1>1. \A d \in Callers : pc'[d] = IF ProcOf[d] = p THEN "dead" ELSE pc[d]
  BY DEF Crash
<1>2. UNCHANGED <<disk, snapshot, held, live, pending, signingIn, issued, unspent, fresh, faults, rewound>>
  BY DEF tokenVars, issuerVars
<1>3. TokenTypes' /\ NoneAhead'
  BY <1>2 DEF FileInv, TokenTypes, NoneAhead
<1>4. AsksToRefresh' /\ SnapshotCurrent'
  BY <1>1, <1>2 DEF FileInv, AsksToRefresh, SnapshotCurrent
<1>5. \A d \in Callers : /\ Refreshing(d)' => Refreshing(d)
                         /\ SavingSignIn(d)' => SavingSignIn(d)
                         /\ Refreshing(d) => Refreshing(d)' \/ pc'[d] = "dead"
  BY <1>1, <1>2 DEF Refreshing, SavingSignIn, Synchronous, Acquiring
<1>6. RefreshIsNewest' /\ SignInIsOwn'
  BY <1>2, <1>5 DEF FileInv, RefreshIsNewest, SignInIsOwn
<1>7. DiskIsGood'
  <2> SUFFICES ASSUME NEW l \in Locations PROVE DiskGood(l)'
    BY DEF DiskIsGood
  <2>1. CASE disk[l] \in unspent[l]
    BY <2>1, <1>2 DEF DiskGood
  <2>2. CASE DiedWithGrant(l)
    BY <2>2, <1>1, <1>2 DEF DiskGood, DiedWithGrant
  <2>3. ASSUME NEW d \in Callers, LocOf[d] = l, Refreshing(d) PROVE DiskGood(l)'
    <3>1. pending[d] > disk[l]
      BY <2>3 DEF FileInv, RefreshIsNewest
    <3> QED
      BY <2>3, <3>1, <1>2, <1>5 DEF DiskGood, DiedWithGrant
  <2> QED
    BY <2>1, <2>2, <2>3 DEF FileInv, DiskIsGood, DiskGood
<1> QED
  BY <1>3, <1>4, <1>6, <1>7 DEF FileInv

\* Time passes: nothing of the invariant is about what has expired.
LEMMA StillKeepsFile ==
    ASSUME FileInv, UNCHANGED <<pc, tokenVars, issued, unspent, faults, rewound>>,
           fresh' \in [Locations -> 0 .. MaxExpired]
    PROVE  FileInv'
<1>1. UNCHANGED <<pc, disk, snapshot, held, live, pending, signingIn, issued, unspent, faults, rewound>>
  BY DEF tokenVars
<1>2. TokenTypes' /\ NoneAhead' /\ AsksToRefresh' /\ SnapshotCurrent'
  BY <1>1 DEF FileInv, TokenTypes, NoneAhead, AsksToRefresh, SnapshotCurrent
<1>3. RefreshIsNewest' /\ SignInIsOwn'
  BY <1>1 DEF FileInv, RefreshIsNewest, SignInIsOwn, Refreshing, SavingSignIn
<1>4. DiskIsGood'
  BY <1>1 DEF FileInv, DiskIsGood, DiskGood, DiedWithGrant, Refreshing
<1> QED
  BY <1>2, <1>3, <1>4 DEF FileInv

\* Every step, as long as nothing is lost and no write fails.
LEMMA NextKeepsFile ==
    ASSUME LockInv, FileInv, FileHypothesis, [Next]_vars
    PROVE  FileInv'
<1> USE DEF Acquiring, Inside, Synchronous
<1>t. signingIn \in [Callers -> BOOLEAN] /\ live \in [Callers -> BOOLEAN]
  BY DEF FileInv, TokenTypes
<1>f. ~(faults < MaxFaults)
  BY DEF FileHypothesis, FileInv, TokenTypes
<1>1. CASE UNCHANGED vars
  <2>1. UNCHANGED <<pc, tokenVars, issued, unspent, fresh, faults, rewound>>
    BY <1>1 DEF vars, lockVars, issuerVars
  <2> QED
    BY <2>1, StillKeepsFile DEF FileInv, TokenTypes
<1>2. ASSUME NEW c \in Callers, NEW forceRefreshToken \in BOOLEAN, Fetch(c, forceRefreshToken)
      PROVE  FileInv'
  <2>1. pc[c] \in {"idle", "threw"} /\ Goto(c, "create")
    BY <1>2 DEF Fetch, AtRest, At
  <2>2. signingIn' = [signingIn EXCEPT ![c] = FALSE] /\ live' = live
    BY <1>2 DEF Fetch
  <2>3. UNCHANGED <<disk, snapshot, held, pending, issuerVars, faults, rewound>>
    BY <1>2 DEF Fetch
  <2> QED
    BY <1>t, <2>1, <2>2, <2>3, MoveKeepsFile
<1>3. ASSUME NEW c \in Callers, SignIn(c) PROVE FileInv'
  BY <1>3, SignInKeepsFile
<1>4. ASSUME NEW c \in Callers, Step(c) PROVE FileInv'
  <2>1. CASE Acquire(c)
    <3> PICK step \in Acquiring \cup {"inside"} : Goto(c, step) /\ pc[c] \in Acquiring
      BY <2>1 DEF Acquire, AcquireStep, CreateLock, StatLock, ReadPid, KillPid, UnlinkLock,
                  Sleep, At
    <3> QED
      BY <1>t, <2>1, MoveKeepsFile DEF Acquire, tokenVars
  <2>2. CASE Adopt(c)
    BY <2>2, AdoptKeepsFile
  <2>3. CASE Request(c)
    BY <1>t, <2>3, MoveKeepsFile DEF Request, At, tokenVars
  <2>4. CASE Issue(c)
    <3>1. CASE held[c] \in unspent[LocOf[c]]
      BY <2>4, <3>1, IssueKeepsFile
    <3>2. CASE held[c] \notin unspent[LocOf[c]]
      <4>1. pc[c] = "request" /\ Goto(c, "refused")
        BY <2>4, <3>2 DEF Issue
      <4>2. UNCHANGED <<disk, snapshot, held, live, pending, signingIn, issuerVars, faults, rewound>>
        BY <2>4, <3>2 DEF Issue, issuerVars
      <4> QED
        BY <1>t, <4>1, <4>2, MoveKeepsFile
    <3> QED
      BY <3>1, <3>2
  <2>5. CASE Granted(c)
    BY <2>5, GrantedKeepsFile
  <2>6. CASE Refused(c)
    <3>1. pc[c] = "refused" /\ Goto(c, "release") /\ live' \in [Callers -> BOOLEAN]
      BY <1>t, <2>6 DEF Refused, At
    <3> QED
      BY <1>t, <2>6, <3>1, MoveKeepsFile DEF Refused
  <2>7. CASE BeginSave(c)
    BY <2>7, BeginSaveKeepsFile
  <2>8. CASE Write(c)
    BY <2>8, WriteKeepsFile
  <2>9. CASE Release(c)
    BY <1>t, <2>9, MoveKeepsFile DEF Release, ReleaseLock, At, tokenVars
  <2> QED
    BY <1>4, <2>1, <2>2, <2>3, <2>4, <2>5, <2>6, <2>7, <2>8, <2>9 DEF Step
<1>5. ASSUME NEW c \in Callers, GiveUp(c) PROVE FileInv'
  BY <1>t, <1>5, MoveKeepsFile DEF GiveUp, Timeout, At, tokenVars
<1>6. ASSUME NEW c \in Callers, LoseRequest(c) \/ WriteFails(c) PROVE FALSE
  BY <1>f, <1>6 DEF LoseRequest, WriteFails
<1>7. ASSUME NEW p \in Procs, Crash(p), UNCHANGED <<tokenVars, issuerVars, faults, rewound>>
      PROVE  FileInv'
  BY <1>7, CrashKeepsFile
<1>8. ASSUME LockAges, UNCHANGED <<tokenVars, issuerVars, faults, rewound>> PROVE FileInv'
  <2>1. UNCHANGED <<pc, tokenVars, issued, unspent, fresh, faults, rewound>>
    BY <1>8 DEF LockAges, issuerVars
  <2> QED
    BY <2>1, StillKeepsFile DEF FileInv, TokenTypes
<1>9. ASSUME NEW l \in Locations, Expire(l) PROVE FileInv'
  <2>1. UNCHANGED <<pc, tokenVars, issued, unspent, faults, rewound>>
    BY <1>9 DEF Expire, lockVars
  <2>2. MaxExpired \in Nat /\ fresh \in [Locations -> 0 .. MaxExpired]
    BY RefreshAssumption DEF FileInv, TokenTypes
  <2>3. fresh[l] + 1 \in 0 .. MaxExpired
    BY <1>9, <2>2 DEF Expire
  <2>4. fresh' \in [Locations -> 0 .. MaxExpired]
    BY <1>9, <2>2, <2>3 DEF Expire
  <2> QED
    BY <2>1, <2>4, StillKeepsFile
<1> QED
  BY <1>1, <1>2, <1>3, <1>4, <1>5, <1>6, <1>7, <1>8, <1>9 DEF Next

\* At first every caller and the file hold the first grant.
LEMMA InitKeepsFile == Init => FileInv
<1> SUFFICES ASSUME Init PROVE FileInv
  OBVIOUS
<1> USE DEF Init, LockInit
<1>1. \A c \in Callers : pc[c] = "idle" /\ LocOf[c] \in Locations
  BY RefreshAssumption
<1>2. TokenTypes
  BY RefreshAssumption DEF TokenTypes
<1>3. NoneAhead
  BY <1>1 DEF NoneAhead
<1>4. AsksToRefresh /\ SnapshotCurrent
  BY <1>1 DEF AsksToRefresh, SnapshotCurrent
<1>5. RefreshIsNewest
  BY <1>1 DEF RefreshIsNewest, Refreshing
<1>6. SignInIsOwn
  BY DEF SignInIsOwn, SavingSignIn
<1>7. DiskIsGood
  BY DEF DiskIsGood, DiskGood
<1> QED
  BY <1>2, <1>3, <1>4, <1>5, <1>6, <1>7 DEF FileInv

-----------------------------------------------------------------------------
(* The token that is sent *)

\* The steps that change neither what is held nor the file: c does not come
\* back to life, is not past a write it has yet to make, and asks for a grant
\* only with the token of the file, or when the file's has expired.
LEMMA MoveKeepsSent ==
    ASSUME LockInv, FileInv, SentInv, NEW c \in Callers, NEW step, Goto(c, step),
           pc[c] \notin {"dead", "write"}, signingIn'[c] = signingIn[c] \/ step # "write",
           \A d \in Callers : d # c => signingIn'[d] = signingIn[d],
           step = "request" =>
               LocOf[c] \in rewound \/ disk[LocOf[c]] < fresh[LocOf[c]] \/ held[c] = disk[LocOf[c]],
           UNCHANGED <<disk, held, fresh, rewound>>
    PROVE  SentInv'
<1>1. pc'[c] = step /\ \A d \in Callers : d # c => pc'[d] = pc[d]
  BY GotoMoves
<1>2. HeldNotAhead'
  BY <1>1 DEF SentInv, HeldNotAhead
<1>3. SentIsOnDisk'
  BY <1>1 DEF SentInv, SentIsOnDisk
<1> QED
  BY <1>2, <1>3 DEF SentInv

\* The caller that changes what is held or the file is in the critical section,
\* and so nobody else is asking.
LEMMA NobodyElseAsks ==
    ASSUME LockInv, NEW c \in Callers, pc[c] \in Inside, NEW step, Goto(c, step),
           step # "request"
    PROVE  SentIsOnDisk'
<1>1. pc'[c] = step /\ \A d \in Callers : d # c => pc'[d] = pc[d]
  BY GotoMoves
<1>2. \A d \in Callers : d # c => pc[d] # "request"
  BY OnlyOneInside DEF Inside
<1> QED
  BY <1>1, <1>2 DEF SentIsOnDisk

\* A write that is not a rewinding leaves everybody else at or behind the file.
LEMMA WriteKeepsSent ==
    ASSUME LockInv, FileInv, SentInv, NEW c \in Callers, Write(c)
    PROVE  SentInv'
<1>1. /\ disk'[LocOf[c]] = pending[c]
      /\ \A l \in Locations : l # LocOf[c] => disk'[l] = disk[l]
      /\ held'[c] = pending[c]
      /\ \A d \in Callers : d # c => held'[d] = held[d]
      /\ UNCHANGED signingIn
      /\ \A d \in Callers : d # c => pc'[d] = pc[d]
      /\ pc[c] = "write"
  BY WriteEffect
<1>2. /\ rewound' = IF pending[c] < disk[LocOf[c]] THEN rewound \cup {LocOf[c]} ELSE rewound
      /\ Goto(c, "release")
  BY DEF Write
<1>3. /\ \A d \in Callers : LocOf[d] \in Locations /\ held[d] \in Nat /\ pending[d] \in Nat
      /\ \A l \in Locations : disk[l] \in Nat
  BY RefreshAssumption DEF FileInv, TokenTypes
<1>4. HeldNotAhead'
  <2> SUFFICES ASSUME NEW d \in Callers, LocOf[d] \notin rewound', pc'[d] # "dead",
                      ~(pc'[d] = "write" /\ ~signingIn'[d])
               PROVE  held'[d] <= disk'[LocOf[d]]
    BY DEF HeldNotAhead
  <2>1. CASE d = c
    BY <2>1, <1>1, <1>3
  <2>2. CASE d # c
    <3>1. LocOf[d] \notin rewound
      BY <1>2
    <3>2. held[d] <= disk[LocOf[d]]
      BY <2>2, <3>1, <1>1 DEF SentInv, HeldNotAhead
    <3>3. CASE LocOf[d] # LocOf[c]
      BY <2>2, <3>2, <3>3, <1>1, <1>3
    <3>4. CASE LocOf[d] = LocOf[c]
      <4>1. ~(pending[c] < disk[LocOf[c]])
        BY <3>4, <1>2
      <4> QED
        BY <2>2, <3>2, <3>4, <4>1, <1>1, <1>3
    <3> QED
      BY <3>3, <3>4
  <2> QED
    BY <2>1, <2>2
<1>5. SentIsOnDisk'
  BY <1>1, <1>2, NobodyElseAsks DEF Inside
<1> QED
  BY <1>4, <1>5 DEF SentInv

\* Every step, as long as nothing is lost and no write fails.
LEMMA NextKeepsSent ==
    ASSUME LockInv, FileInv, SentInv, FileHypothesis, [Next]_vars
    PROVE  SentInv'
<1>f. ~(faults < MaxFaults)
  BY DEF FileHypothesis, FileInv, TokenTypes
<1>t. /\ \A c \in Callers : held[c] \in Nat /\ LocOf[c] \in Locations
      /\ \A l \in Locations : disk[l] \in Nat /\ fresh[l] \in 0 .. MaxExpired
      /\ MaxExpired \in Nat
  BY RefreshAssumption DEF FileInv, TokenTypes
<1>1. CASE UNCHANGED vars
  BY <1>1 DEF vars, lockVars, tokenVars, issuerVars, SentInv, HeldNotAhead, SentIsOnDisk
<1>2. ASSUME NEW c \in Callers, NEW forceRefreshToken \in BOOLEAN, Fetch(c, forceRefreshToken)
      PROVE  SentInv'
  <2>1. pc[c] \in {"idle", "threw"} /\ Goto(c, "create")
    BY <1>2 DEF Fetch, AtRest, At
  <2>2. \A d \in Callers : d # c => signingIn'[d] = signingIn[d]
    BY <1>2 DEF Fetch, FileInv, TokenTypes
  <2>3. UNCHANGED <<disk, held, fresh, rewound>>
    BY <1>2 DEF Fetch, issuerVars
  <2> QED
    BY <2>1, <2>2, <2>3, MoveKeepsSent
<1>3. ASSUME NEW c \in Callers, SignIn(c) PROVE SentInv'
  <2>1. pc[c] \in {"idle", "threw"} /\ Goto(c, "create")
    BY <1>3 DEF SignIn, AtRest, At
  <2>2. \A d \in Callers : d # c => signingIn'[d] = signingIn[d]
    BY <1>3 DEF SignIn, FileInv, TokenTypes
  <2>3. UNCHANGED <<disk, held, fresh, rewound>>
    BY <1>3 DEF SignIn
  <2> QED
    BY <2>1, <2>2, <2>3, MoveKeepsSent
<1>4. ASSUME NEW c \in Callers, Step(c) PROVE SentInv'
  <2>1. CASE Acquire(c)
    <3> PICK step \in Acquiring \cup {"inside"} : Goto(c, step) /\ pc[c] \in Acquiring
      BY <2>1 DEF Acquire, AcquireStep, CreateLock, StatLock, ReadPid, KillPid, UnlinkLock,
                  Sleep, At, Acquiring
    <3> QED
      BY <2>1, MoveKeepsSent DEF Acquire, tokenVars, issuerVars, Acquiring
  <2>2. CASE Adopt(c)
    <3>1. /\ pc[c] = "inside" /\ Goto(c, "release")
          /\ UNCHANGED <<disk, fresh, rewound, signingIn>>
      BY <2>2 DEF Adopt, At, issuerVars
    <3>2. held'[c] = disk[LocOf[c]] /\ \A d \in Callers : d # c => held'[d] = held[d]
      BY <2>2 DEF Adopt, FileInv, TokenTypes
    <3>3. HeldNotAhead'
      BY <3>1, <3>2, <1>t, GotoMoves DEF SentInv, HeldNotAhead
    <3> QED
      BY <3>1, <3>3, NobodyElseAsks DEF SentInv, Inside
  <2>3. CASE Request(c)
    <3>1. /\ pc[c] = "inside" /\ Goto(c, "request")
          /\ UNCHANGED <<disk, held, fresh, rewound, signingIn>>
      BY <2>3 DEF Request, At, tokenVars, issuerVars
    <3>2. \/ disk[LocOf[c]] < fresh[LocOf[c]]
          \/ disk[LocOf[c]] <= held[c]
      BY <2>3, <1>t DEF Request, PeerRefreshed
    <3>3. LocOf[c] \in rewound \/ held[c] <= disk[LocOf[c]]
      BY <3>1 DEF SentInv, HeldNotAhead
    <3>4. \/ LocOf[c] \in rewound
          \/ disk[LocOf[c]] < fresh[LocOf[c]]
          \/ held[c] = disk[LocOf[c]]
      BY <3>2, <3>3, <1>t
    <3> QED
      BY <3>1, <3>4, MoveKeepsSent
  <2>4. CASE Issue(c)
    <3> PICK step \in {"granted", "refused"} : Goto(c, step)
      BY <2>4 DEF Issue
    <3> QED
      BY <2>4, MoveKeepsSent DEF Issue
  <2>5. CASE Granted(c)
    <3>1. /\ pc[c] = "granted" /\ Goto(c, "write") /\ ~signingIn[c]
          /\ UNCHANGED <<disk, fresh, rewound, signingIn>>
      BY <2>5 DEF Granted, At, issuerVars, FileInv, AsksToRefresh
    <3>2. \A d \in Callers : d # c => held'[d] = held[d]
      BY <2>5 DEF Granted, FileInv, TokenTypes
    <3>3. HeldNotAhead'
      BY <3>1, <3>2, GotoMoves DEF SentInv, HeldNotAhead
    <3> QED
      BY <3>1, <3>3, NobodyElseAsks DEF SentInv, Inside
  <2>6. CASE Refused(c)
    BY <2>6, MoveKeepsSent DEF Refused, At, issuerVars
  <2>7. CASE BeginSave(c)
    BY <2>7, MoveKeepsSent DEF BeginSave, At, issuerVars
  <2>8. CASE Write(c)
    BY <2>8, WriteKeepsSent
  <2>9. CASE Release(c)
    BY <2>9, MoveKeepsSent DEF Release, ReleaseLock, At, tokenVars, issuerVars
  <2> QED
    BY <1>4, <2>1, <2>2, <2>3, <2>4, <2>5, <2>6, <2>7, <2>8, <2>9 DEF Step
<1>5. ASSUME NEW c \in Callers, GiveUp(c) PROVE SentInv'
  BY <1>5, MoveKeepsSent DEF GiveUp, Timeout, At, tokenVars, issuerVars
<1>6. ASSUME NEW c \in Callers, LoseRequest(c) \/ WriteFails(c) PROVE FALSE
  BY <1>f, <1>6 DEF LoseRequest, WriteFails
<1>7. ASSUME NEW p \in Procs, Crash(p), UNCHANGED <<tokenVars, issuerVars, faults, rewound>>
      PROVE  SentInv'
  <2>1. \A d \in Callers : pc'[d] = IF ProcOf[d] = p THEN "dead" ELSE pc[d]
    BY <1>7 DEF Crash
  <2> QED
    BY <1>7, <2>1 DEF tokenVars, issuerVars, SentInv, HeldNotAhead, SentIsOnDisk
<1>8. ASSUME LockAges, UNCHANGED <<tokenVars, issuerVars, faults, rewound>> PROVE SentInv'
  BY <1>8 DEF LockAges, tokenVars, issuerVars, SentInv, HeldNotAhead, SentIsOnDisk
<1>9. ASSUME NEW l \in Locations, Expire(l) PROVE SentInv'
  <2>1. UNCHANGED <<pc, disk, held, signingIn, rewound>>
    BY <1>9 DEF Expire, lockVars, tokenVars
  <2>2. \A k \in Locations : fresh'[k] \in Int /\ fresh'[k] >= fresh[k]
    BY <1>9, <1>t DEF Expire, FileInv, TokenTypes
  <2>3. HeldNotAhead'
    BY <2>1 DEF SentInv, HeldNotAhead
  <2>4. SentIsOnDisk'
    BY <2>1, <2>2, <1>t DEF SentInv, SentIsOnDisk
  <2> QED
    BY <2>3, <2>4 DEF SentInv
<1> QED
  BY <1>1, <1>2, <1>3, <1>4, <1>5, <1>6, <1>7, <1>8, <1>9 DEF Next

\* At first every caller and the file hold the first grant.
LEMMA InitKeepsSent == Init => SentInv
<1> SUFFICES ASSUME Init PROVE SentInv
  OBVIOUS
<1>1. \A c \in Callers : LocOf[c] \in Locations
  BY RefreshAssumption
<1> QED
  BY <1>1 DEF Init, LockInit, SentInv, HeldNotAhead, SentIsOnDisk

-----------------------------------------------------------------------------
(* The theorems about the tokens *)

\* The inductive invariant holds while no request is lost and no write fails.
THEOREM InvCorrect == FileHypothesis /\ Spec => []Inv
<1>1. Init => Inv
  BY InitKeepsLock, InitKeepsFile, InitKeepsSent DEF Inv
<1>2. FileHypothesis /\ Inv /\ [Next]_vars => Inv'
  BY NextKeepsLock, NextKeepsFile, NextKeepsSent DEF Inv, FileHypothesis
<1>3. FileHypothesis => FileHypothesis'
  BY DEF FileHypothesis, LockHypothesis, TwoProcs
<1> QED
  BY <1>1, <1>2, <1>3, PTL DEF Spec

\* While nobody is inside the lock, the file holds an honoured refresh token for
\* every location, whatever the number of callers and locations: a save of one
\* location never undoes that of another.
THEOREM FileUsableCorrect == FileHypothesis /\ Spec => []FileUsable
<1>1. Inv => FileUsable
  BY DEF Inv, FileInv, DiskIsGood, DiskGood, FileUsable, Refreshing, Inside
<1> QED
  BY <1>1, InvCorrect, PTL

\* A spent refresh token is sent only if the later grant in the file has expired
\* and is not adopted for that, or after a kill or a rewinding.
SentSpentOnlyIfExpired ==
    \A c \in Callers :
        pc[c] = "request" =>
            \/ held[c] \in unspent[LocOf[c]]
            \/ disk[LocOf[c]] < fresh[LocOf[c]]
            \/ DiedWithGrant(LocOf[c]) \/ LocOf[c] \in rewound

\* While a caller asks, no other grant is on its way to the file.
LEMMA DiskGoodWhileAsking ==
    ASSUME LockInv, FileInv, NEW c \in Callers, pc[c] = "request"
    PROVE  disk[LocOf[c]] \in unspent[LocOf[c]] \/ DiedWithGrant(LocOf[c])
<1>1. LocOf[c] \in Locations
  BY RefreshAssumption
<1>2. \A d \in Callers : ~Refreshing(d)
  BY OnlyOneInside DEF Refreshing, Inside
<1> QED
  BY <1>1, <1>2 DEF FileInv, DiskIsGood, DiskGood

\* However often grants expire, this is the only way to send a spent token.
THEOREM SentSpentOnlyIfExpiredCorrect == FileHypothesis /\ Spec => []SentSpentOnlyIfExpired
<1>1. Inv => SentSpentOnlyIfExpired
  BY DiskGoodWhileAsking DEF Inv, SentInv, SentIsOnDisk, SentSpentOnlyIfExpired
<1> QED
  BY <1>1, InvCorrect, PTL

\* If only the first grant of each location expires, the grant in the file is
\* fresh whenever it is later than the one held, and no spent token is sent.
THEOREM NoTokenSentTwiceCorrect ==
    FileHypothesis /\ MaxExpired <= 1 /\ Spec => []NoTokenSentTwice
<1>1. ASSUME Inv, MaxExpired <= 1, NEW c \in Callers, pc[c] = "request",
             LocOf[c] \notin rewound
      PROVE  held[c] = disk[LocOf[c]]
  <2>1. LocOf[c] \in Locations
    BY RefreshAssumption
  <2>2. fresh[LocOf[c]] \in 0 .. MaxExpired /\ disk[LocOf[c]] \in Nat /\ held[c] \in Nat
        /\ MaxExpired \in Nat
    BY <1>1, <2>1, RefreshAssumption DEF Inv, FileInv, TokenTypes
  <2>3. disk[LocOf[c]] < fresh[LocOf[c]] \/ held[c] = disk[LocOf[c]]
    BY <1>1 DEF Inv, SentInv, SentIsOnDisk
  <2>4. held[c] <= disk[LocOf[c]]
    BY <1>1 DEF Inv, SentInv, HeldNotAhead
  <2> QED
    BY <1>1, <2>2, <2>3, <2>4
<1>2. Inv /\ MaxExpired <= 1 => NoTokenSentTwice
  BY <1>1, DiskGoodWhileAsking DEF Inv, NoTokenSentTwice
<1>3. MaxExpired <= 1 => (MaxExpired <= 1)'
  OBVIOUS
<1> QED
  BY <1>2, <1>3, InvCorrect, PTL
=============================================================================
