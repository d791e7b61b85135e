---------------------------- MODULE EnsureBroker ----------------------------
(***************************************************************************)
(* How MCP server processes find, or start, the one local broker           *)
(* (ensureBroker in src/mcp_server/src/server.ts, broker-discovery.ts, and *)
(* the start and stop of broker.ts).  The processes share two files: the   *)
(* rendezvous file, which names the broker, and broker.spawn.lock.  They   *)
(* are separate OS processes, so every file operation and every probe is a *)
(* step of its own.                                                        *)
(***************************************************************************)
EXTENDS Naturals, FiniteSets

CONSTANTS
    Procs,          \* MCP server processes
    Brokers,        \* broker processes, in the order they can be spawned
    NoBroker,       \* no rendezvous file, or one that does not parse
    NoProc,
    StaleStart,     \* TRUE: a dead broker's rendezvous file may be lying around
    MaxCrashes,     \* bound: MCP servers killed inside ensureBroker
    MaxDeaths,      \* bound: brokers that die or are stopped
    NoTsx,          \* TRUE: the tsx CLI, with which a broker is run, may be missing
    Timely          \* TRUE: nobody's 10 s run out while a broker is on its way

ASSUME EnsureAssumption ==
    /\ NoBroker \notin Brokers /\ NoProc \notin Procs
    /\ MaxCrashes \in Nat /\ MaxDeaths \in Nat
    /\ StaleStart \in BOOLEAN /\ NoTsx \in BOOLEAN /\ Timely \in BOOLEAN

VARIABLES
    rendezvous,     \* the broker named by the rendezvous file
    lock,           \* the process that created broker.spawn.lock
    lockStale,      \* its mtime is older than STALE_LOCK_MS
    broker,         \* the state of each broker process
    pc,             \* where each process is in ensureBroker
    seen,           \* the rendezvous a process read last
    crashes, deaths

vars == <<rendezvous, lock, lockStale, broker, pc, seen, crashes, deaths>>

Critical == {"reread", "reprobe", "spawn", "holdRead", "holdProbe", "unlockDone", "unlockFailed"}
Final == {"done", "failed", "crashed"}
Steps == Critical \cup Final
           \cup {"read", "probe", "remove", "lock", "stat", "unlinkStale", "relock",
                 "waitRead", "waitProbe"}

\* The files, the processes and the brokers stay within their states.
TypeOK ==
    /\ rendezvous \in Brokers \cup {NoBroker}
    /\ lock \in Procs \cup {NoProc} /\ lockStale \in BOOLEAN
    /\ broker \in [Brokers -> {"unborn", "booting", "up", "dead"}]
    /\ pc \in [Procs -> Steps]
    /\ seen \in [Procs -> Brokers \cup {NoBroker}]
    /\ crashes \in 0 .. MaxCrashes /\ deaths \in 0 .. MaxDeaths

Init ==
    /\ \/ rendezvous = NoBroker /\ broker = [b \in Brokers |-> "unborn"]
       \/ /\ StaleStart
          /\ \E old \in Brokers :
              /\ rendezvous = old
              /\ broker = [b \in Brokers |-> IF b = old THEN "dead" ELSE "unborn"]
    /\ lock = NoProc /\ lockStale = FALSE
    /\ pc = [p \in Procs |-> "read"]
    /\ seen = [p \in Procs |-> NoBroker]
    /\ crashes = 0 /\ deaths = 0

files == <<rendezvous, lock, lockStale>>
rest == <<broker, crashes, deaths>>

Goto(p, step) == pc' = [pc EXCEPT ![p] = step]
At(p, step) == pc[p] = step

\* readRendezvous() at one step; go to found or to missing
ReadRendezvous(p, step, found, missing) ==
    /\ At(p, step)
    /\ seen' = [seen EXCEPT ![p] = rendezvous]
    /\ Goto(p, IF rendezvous = NoBroker THEN missing ELSE found)
    /\ UNCHANGED <<files, rest>>

\* probeBroker(port): GET /health of the broker that was read
Probe(p, step, healthy, unhealthy) ==
    /\ At(p, step)
    /\ Goto(p, IF broker[seen[p]] = "up" THEN healthy ELSE unhealthy)
    /\ UNCHANGED <<files, rest, seen>>

-----------------------------------------------------------------------------
(* ensureBroker *)

FirstRead(p) == ReadRendezvous(p, "read", "probe", "lock")
FirstProbe(p) == Probe(p, "probe", "done", "remove")

\* removeRendezvous(): whichever file is there by now
RemoveStale(p) ==
    /\ At(p, "remove")
    /\ rendezvous' = NoBroker
    /\ Goto(p, "lock")
    /\ UNCHANGED <<lock, lockStale, rest, seen>>

\* writeFileSync(lockFile, pid, { flag: 'wx' })
CreateLock(p, step, taken) ==
    /\ At(p, step)
    /\ IF lock = NoProc
       THEN lock' = p /\ lockStale' = FALSE /\ Goto(p, "reread")
       ELSE UNCHANGED <<lock, lockStale>> /\ Goto(p, taken)
    /\ UNCHANGED <<rendezvous, rest, seen>>

TakeLock(p) == CreateLock(p, "lock", "stat")

\* statSync throws when the lock vanished
StatLock(p) ==
    /\ At(p, "stat")
    /\ Goto(p, IF lock # NoProc /\ lockStale THEN "unlinkStale" ELSE "waitRead")
    /\ UNCHANGED <<files, rest, seen>>

\* unlinkSync(lockFile): whoever's lock is there by now
UnlinkStale(p) ==
    /\ At(p, "unlinkStale")
    /\ IF lock = NoProc
       THEN UNCHANGED <<lock, lockStale>> /\ Goto(p, "waitRead")
       ELSE lock' = NoProc /\ lockStale' = FALSE /\ Goto(p, "relock")
    /\ UNCHANGED <<rendezvous, rest, seen>>

RetakeLock(p) == CreateLock(p, "relock", "waitRead")

\* Faulty Reread: no second look.
RereadSkipped(p) ==
    /\ At(p, "reread")
    /\ Goto(p, "spawn")
    /\ UNCHANGED <<files, rest, seen>>

\* with the lock: look again before spawning
Reread(p) == ReadRendezvous(p, "reread", "reprobe", "spawn")
Reprobe(p) == Probe(p, "reprobe", "unlockDone", "spawn")

\* spawn(..., { detached: true })
SpawnBroker(p) ==
    /\ At(p, "spawn")
    /\ \E b \in Brokers :
        /\ broker[b] = "unborn"
        /\ broker' = [broker EXCEPT ![b] = "booting"]
    /\ Goto(p, "holdRead")
    /\ UNCHANGED <<files, seen, crashes, deaths>>

\* 'unable to locate tsx CLI'
SpawnFails(p) ==
    /\ NoTsx /\ At(p, "spawn")
    /\ Goto(p, "unlockFailed")
    /\ UNCHANGED <<files, rest, seen>>

\* waitForHealthyRendezvous: poll, with the lock or without it
HoldRead(p) == ReadRendezvous(p, "holdRead", "holdProbe", "holdRead")
HoldProbe(p) == Probe(p, "holdProbe", "unlockDone", "holdRead")
WaitRead(p) == ReadRendezvous(p, "waitRead", "waitProbe", "waitRead")
WaitProbe(p) == Probe(p, "waitProbe", "done", "waitRead")

BrokerOnItsWay ==
    \/ \E b \in Brokers : broker[b] \in {"booting", "up"}
    \/ \E q \in Procs : pc[q] \in {"reread", "reprobe", "spawn"}

\* Faulty Timeout: one of the loops has no deadline.
TimeoutOnlyWaiting(p) ==
    /\ At(p, "waitRead")
    /\ Timely => ~BrokerOnItsWay
    /\ Goto(p, "failed")
    /\ UNCHANGED <<files, rest, seen>>

\* 'Broker failed to start within 10000ms'
Timeout(p) ==
    /\ pc[p] \in {"waitRead", "holdRead"}
    /\ Timely => ~BrokerOnItsWay
    /\ Goto(p, IF pc[p] = "holdRead" THEN "unlockFailed" ELSE "failed")
    /\ UNCHANGED <<files, rest, seen>>

\* Faulty Unlock: the lock stays.
UnlockNot(p) ==
    /\ pc[p] \in {"unlockDone", "unlockFailed"}
    /\ Goto(p, IF pc[p] = "unlockDone" THEN "done" ELSE "failed")
    /\ UNCHANGED <<files, rest, seen>>

\* finally { unlinkSync(lockFile) }: whoever's lock is there by now
Unlock(p) ==
    /\ pc[p] \in {"unlockDone", "unlockFailed"}
    /\ lock' = NoProc /\ lockStale' = FALSE
    /\ Goto(p, IF pc[p] = "unlockDone" THEN "done" ELSE "failed")
    /\ UNCHANGED <<rendezvous, rest, seen>>

-----------------------------------------------------------------------------
(* The environment of ensureBroker *)

\* Faulty BrokerStarts: no rendezvous file.
BrokerStartsSilently(b) ==
    /\ broker[b] = "booting"
    /\ broker' = [broker EXCEPT ![b] = "up"]
    /\ UNCHANGED <<files, pc, seen, crashes, deaths>>

\* broker.ts main: listen, then write the rendezvous file
BrokerStarts(b) ==
    /\ broker[b] = "booting"
    /\ broker' = [broker EXCEPT ![b] = "up"]
    /\ rendezvous' = b
    /\ UNCHANGED <<lock, lockStale, pc, seen, crashes, deaths>>

\* killed without a chance to clean up
BrokerDies(b) ==
    /\ broker[b] \in {"booting", "up"} /\ deaths < MaxDeaths
    /\ broker' = [broker EXCEPT ![b] = "dead"]
    /\ deaths' = deaths + 1
    /\ UNCHANGED <<files, pc, seen, crashes>>

\* SIGTERM or SIGINT: removeRendezvous(), whichever broker it names
BrokerStops(b) ==
    /\ broker[b] = "up" /\ deaths < MaxDeaths
    /\ broker' = [broker EXCEPT ![b] = "dead"]
    /\ rendezvous' = NoBroker
    /\ deaths' = deaths + 1
    /\ UNCHANGED <<lock, lockStale, pc, seen, crashes>>

Crash(p) ==
    /\ pc[p] \notin Final /\ crashes < MaxCrashes
    /\ Goto(p, "crashed")
    /\ crashes' = crashes + 1
    /\ UNCHANGED <<files, seen, broker, deaths>>

\* The lock outlives a holder that crashed, or one that is slow: the probes
\* of a holder have no timeout.
LockAges ==
    /\ lock # NoProc /\ ~lockStale
    /\ Timely => pc[lock] \notin Critical
    /\ lockStale' = TRUE
    /\ UNCHANGED <<rendezvous, lock, rest, pc, seen>>

Step(p) ==
    \/ FirstRead(p) \/ FirstProbe(p) \/ RemoveStale(p)
    \/ TakeLock(p) \/ StatLock(p) \/ UnlinkStale(p) \/ RetakeLock(p)
    \/ Reread(p) \/ Reprobe(p) \/ SpawnBroker(p) \/ SpawnFails(p)
    \/ HoldRead(p) \/ HoldProbe(p) \/ WaitRead(p) \/ WaitProbe(p) \/ Unlock(p)

Next ==
    \/ \E p \in Procs : Step(p) \/ Timeout(p) \/ Crash(p)
    \/ \E b \in Brokers : BrokerStarts(b) \/ BrokerDies(b) \/ BrokerStops(b)
    \/ LockAges

\* The operating system runs every process, a spawned broker comes up or
\* dies, and a poll that goes on is ended by its deadline.
Fairness ==
    /\ \A p \in Procs : WF_vars(Step(p)) /\ SF_vars(Timeout(p))
    /\ \A b \in Brokers : WF_vars(BrokerStarts(b))

Spec == Init /\ [][Next]_vars /\ Fairness

-----------------------------------------------------------------------------
(* Properties *)

Alive == {b \in Brokers : broker[b] \in {"booting", "up"}}

\* constants.ts: "There's one broker per user".
OneBroker == Cardinality(Alive) <= 1

\* ensureBroker returns: whatever crashes and dies, a process that is not
\* killed ends up with a port or with an error, never polling forever.
Returns == \A p \in Procs : <>(pc[p] \in Final)

\* With a timely broker, every process gets a port.
EveryoneConnected == \A p \in Procs : <>(pc[p] = "done")

\* The spawn lock does not outlive the calls that take it.
LockReleased == <>[](lock = NoProc)
=============================================================================
