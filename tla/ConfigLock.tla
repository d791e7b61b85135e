----------------------------- MODULE ConfigLock -----------------------------
(***************************************************************************)
(* The lock file around the user's config file (acquireLock, releaseLock   *)
(* in src/mcp_server/src/config/save.ts).  Processes share only the file   *)
(* system, so every file operation is a step of its own.  A process may    *)
(* run several callers (one per remote location); acquireLock is           *)
(* synchronous and sleeps with Atomics.wait, so while one caller is in it  *)
(* the process's event loop, and every other caller of it, stands still.   *)
(*                                                                         *)
(* This module says what the steps are; what a caller does with the lock   *)
(* is for the module that extends it.                                      *)
(***************************************************************************)
EXTENDS Naturals, FiniteSets

CONSTANTS
    Procs,          \* MCP server processes
    NoProc,         \* no lock file; also what a vanished file reads as
    Callers,        \* the callers of all processes
    ProcOf,         \* Callers -> Procs
    MaxCrashes,     \* bound: processes that are killed
    Slow,           \* TRUE: a live holder may keep the lock for over 30 s
    Timely          \* TRUE: 5 s run out only when the holder cannot move

ASSUME LockAssumption ==
    /\ NoProc \notin Procs
    /\ ProcOf \in [Callers -> Procs]
    /\ MaxCrashes \in Nat /\ Slow \in BOOLEAN /\ Timely \in BOOLEAN

VARIABLES
    lock,       \* the pid written in the lock file
    lockOld,    \* its mtime is older than STALE_LOCK_MS
    pc,         \* where each caller is
    pidRead,    \* holderPid, as each caller read it last
    crashed,    \* processes that were killed
    replaced    \* history: reapers whose lock, the one they found old, has been
                \* unlinked since

lockVars == <<lock, lockOld, pc, pidRead, crashed, replaced>>

Acquiring == {"create", "stat", "readPid", "kill", "unlink", "wait"}

\* A caller is at one of these between acquireLock's return and releaseLock.
Inside == {"inside", "request", "granted", "refused", "write", "release"}

\* The synchronous stretches of Inside: between them the caller awaits.
Synchronous == Acquiring \cup {"inside", "write"}

Resting == {"idle", "threw", "dead"}

\* The steps of a waiter that has found an old lock.
Reaping == {"readPid", "kill", "unlink"}

\* The types of the lock's state.
LockTypeOK ==
    /\ lock \in Procs \cup {NoProc} /\ lockOld \in BOOLEAN
    /\ pc \in [Callers -> Acquiring \cup Inside \cup Resting]
    /\ pidRead \in [Callers -> Procs \cup {NoProc}]
    /\ crashed \subseteq Procs

LockInit ==
    /\ lock = NoProc /\ lockOld = FALSE
    /\ pc = [c \in Callers |-> "idle"]
    /\ pidRead = [c \in Callers |-> NoProc]
    /\ crashed = {} /\ replaced = {}

Goto(c, step) == pc' = [pc EXCEPT ![c] = step]

\* Caller c is at step, and no other caller of its process has the event loop.
At(c, step) ==
    /\ pc[c] = step
    /\ \A d \in Callers \ {c} : ProcOf[d] = ProcOf[c] => pc[d] \notin Synchronous

\* Faulty CreateLock: created though it exists.
CreateLockShared(c) ==
    /\ At(c, "create")
    /\ lock' = ProcOf[c] /\ lockOld' = FALSE
    /\ Goto(c, "inside")
    /\ UNCHANGED <<pidRead, crashed, replaced>>

\* writeFileSync(lock, pid, { flag: 'wx' })
CreateLock(c) ==
    /\ At(c, "create")
    /\ IF lock = NoProc
       THEN lock' = ProcOf[c] /\ lockOld' = FALSE /\ Goto(c, "inside")
       ELSE UNCHANGED <<lock, lockOld>> /\ Goto(c, "stat")
    /\ UNCHANGED <<pidRead, crashed, replaced>>

\* A lock that vanished is retried at once; a young one is waited for.
StatLock(c) ==
    /\ At(c, "stat")
    /\ Goto(c, IF lock = NoProc THEN "create" ELSE IF lockOld THEN "readPid" ELSE "wait")
    /\ UNCHANGED <<lock, lockOld, pidRead, crashed, replaced>>

ReadPid(c) ==
    /\ At(c, "readPid")
    /\ pidRead' = [pidRead EXCEPT ![c] = lock]
    /\ Goto(c, "kill")
    /\ UNCHANGED <<lock, lockOld, crashed, replaced>>

\* Faulty KillPid: an old lock is as good as abandoned.
KillPidNot(c) ==
    /\ At(c, "kill")
    /\ Goto(c, "unlink")
    /\ UNCHANGED <<lock, lockOld, pidRead, crashed, replaced>>

\* isPidDead: kill(pid, 0) fails with ESRCH, or there is no pid
KillPid(c) ==
    /\ At(c, "kill")
    /\ IF pidRead[c] \in crashed \cup {NoProc}
       THEN Goto(c, "unlink") /\ UNCHANGED replaced
       ELSE Goto(c, "wait") /\ replaced' = replaced \ {c}
    /\ UNCHANGED <<lock, lockOld, pidRead, crashed>>

\* The lock file is gone, and with it what the reapers looked at.
Unlinked(c) ==
    /\ lock' = NoProc /\ lockOld' = FALSE
    /\ replaced' = (replaced \cup {d \in Callers : pc[d] \in Reaping}) \ {c}

\* unlinkSync(lock): whoever's lock is there by now
UnlinkLock(c) ==
    /\ At(c, "unlink")
    /\ Unlinked(c)
    /\ Goto(c, "create")
    /\ UNCHANGED <<pidRead, crashed>>

\* syncSleep(LOCK_POLL_MS), then once more
Sleep(c) ==
    /\ At(c, "wait")
    /\ Goto(c, "create")
    /\ UNCHANGED <<lock, lockOld, pidRead, crashed, replaced>>

\* The holder is dead, or its event loop is the one this caller blocks.
HolderStuck(c) == lock \in crashed \cup {ProcOf[c]}

\* Faulty Timeout: no deadline.
TimeoutNot(c) ==
    /\ At(c, "wait")
    /\ FALSE
    /\ UNCHANGED lockVars

\* 'timed out after 5000ms'
Timeout(c) ==
    /\ At(c, "wait")
    /\ Timely => HolderStuck(c)
    /\ Goto(c, "threw")
    /\ UNCHANGED <<lock, lockOld, pidRead, crashed, replaced>>

\* releaseLock: whoever's lock is there by now
ReleaseLock(c) ==
    /\ At(c, "release")
    /\ Unlinked(c)
    /\ Goto(c, "idle")
    /\ UNCHANGED <<pidRead, crashed>>

\* STALE_LOCK_MS pass: the holder was killed, or awaits a slow refresh
LockAges ==
    /\ lock # NoProc /\ ~lockOld
    /\ Slow \/ lock \in crashed
    /\ lockOld' = TRUE
    /\ UNCHANGED <<lock, pc, pidRead, crashed, replaced>>

\* A process is killed: its lock file stays.
Crash(p) ==
    /\ p \notin crashed
    /\ Cardinality(crashed) < MaxCrashes
    /\ crashed' = crashed \cup {p}
    /\ pc' = [c \in Callers |-> IF ProcOf[c] = p THEN "dead" ELSE pc[c]]
    /\ replaced' = {c \in replaced : ProcOf[c] # p}
    /\ UNCHANGED <<lock, lockOld, pidRead>>

AcquireStep(c) ==
    \/ CreateLock(c) \/ StatLock(c) \/ ReadPid(c) \/ KillPid(c) \/ UnlinkLock(c) \/ Sleep(c)

-----------------------------------------------------------------------------
(* Properties *)

\* The lock's purpose: one caller between acquireLock and releaseLock, over
\* all processes ("reaping a slow-but-alive holder would let two processes
\* into the critical section together", acquireLock).
MutualExclusion == \A c, d \in Callers : pc[c] \in Inside /\ pc[d] \in Inside => c = d

\* save.ts: the two conditions, age and pid, prevent "a slow-but-alive holder
\* [...] from being reaped".  A waiter unlinks the lock of a living process only
\* when the lock it found old was unlinked by another before, its owner's release
\* included: never on what it saw of that holder's own lock.
SlowHolderKept ==
    [][\A c \in Callers :
        UnlinkLock(c) => lock \in crashed \cup {NoProc} \/ c \in replaced]_lockVars
=============================================================================
