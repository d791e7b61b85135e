------------------------- MODULE EnsureBrokerProofs -------------------------
(***************************************************************************)
(* Proofs about EnsureBroker for any number of processes and brokers.      *)
(*                                                                         *)
(* There is one broker as long as nothing fails: no stale rendezvous file, *)
(* no kill, no dead broker, and a broker that comes up in time.  None of   *)
(* the four can be left out: TLC finds two brokers without it.             *)
(***************************************************************************)
EXTENDS EnsureBroker, FiniteSetTheorems, TLAPS

\* What the theorems assume of the constants: nothing fails on the way.
NothingFails == ~StaleStart /\ MaxCrashes = 0 /\ MaxDeaths = 0 /\ Timely

\* The lock file is there exactly while its maker is between making and
\* unlinking it, and so it never grows old.
LockHeld ==
    /\ \A p \in Procs : pc[p] \in Critical => lock = p
    /\ lock # NoProc => pc[lock] \in Critical
    /\ ~lockStale

\* The rendezvous file, and whatever was read of it, names a broker that is up;
\* a broker that is up is named.
FileIsTrue ==
    /\ rendezvous # NoBroker => broker[rendezvous] = "up"
    /\ \A p \in Procs :
        pc[p] \in {"probe", "reprobe", "holdProbe", "waitProbe"} =>
            seen[p] # NoBroker /\ broker[seen[p]] = "up"
    /\ (\E b \in Brokers : broker[b] = "up") => rendezvous # NoBroker

\* Who has looked again and found nothing is alone: no broker is there or on
\* its way.  Who has spawned one waits for it, holding the lock.
SpawnsAlone ==
    /\ \A p \in Procs : pc[p] = "spawn" => \A b \in Brokers : broker[b] = "unborn"
    /\ \A p \in Procs : pc[p] \in {"holdRead", "holdProbe"} => \E b \in Brokers : broker[b] # "unborn"
    /\ (\E b \in Brokers : broker[b] = "booting") => \E p \in Procs : pc[p] = "holdRead"

\* No step leads to a removal or an unlinking of a stale lock.
NeverFails ==
    /\ \A p \in Procs : pc[p] \notin {"remove", "unlinkStale", "relock", "crashed"}
    /\ \A b \in Brokers : broker[b] # "dead"
    /\ crashes = 0 /\ deaths = 0

\* At most one broker was ever spawned.
OnlyOne == \A b, d \in Brokers : broker[b] # "unborn" /\ broker[d] # "unborn" => b = d

\* The inductive invariant: OneBroker alone says nothing of who may spawn next.
Inv == TypeOK /\ LockHeld /\ FileIsTrue /\ SpawnsAlone /\ NeverFails /\ OnlyOne

-----------------------------------------------------------------------------
(* The invariant *)

LEMMA InvInit == NothingFails /\ Init => Inv
  <1>. SUFFICES ASSUME NothingFails, Init PROVE Inv
    OBVIOUS
  <1>. USE EnsureAssumption DEF NothingFails, Init
  <1>1. rendezvous = NoBroker /\ broker = [b \in Brokers |-> "unborn"]
    OBVIOUS
  <1>2. TypeOK
    <2>1. 0 \in 0 .. MaxCrashes /\ 0 \in 0 .. MaxDeaths
      OBVIOUS
    <2>2. pc \in [Procs -> Steps]
      BY DEF Steps
    <2>. QED
      BY <1>1, <2>1, <2>2 DEF TypeOK
  <1>3. LockHeld
    BY DEF LockHeld, Critical
  <1>4. FileIsTrue
    BY <1>1 DEF FileIsTrue
  <1>5. SpawnsAlone
    BY <1>1 DEF SpawnsAlone
  <1>6. NeverFails
    BY <1>1 DEF NeverFails
  <1>7. OnlyOne
    BY <1>1 DEF OnlyOne
  <1>. QED
    BY <1>2, <1>3, <1>4, <1>5, <1>6, <1>7 DEF Inv

\* One step per action; the actions of a failure cannot be taken.
LEMMA InvStep == NothingFails /\ Inv /\ [Next]_vars => Inv'
  <1>. SUFFICES ASSUME NothingFails, Inv, [Next]_vars PROVE Inv'
    OBVIOUS
  <1>. USE EnsureAssumption DEF NothingFails, files, rest, Steps, Critical, Final
  <1>1. ASSUME NEW p \in Procs, FirstRead(p) PROVE Inv'
    <2>. USE <1>1 DEF Inv, FirstRead, ReadRendezvous, At, Goto
    <2>1. TypeOK'
      BY DEF TypeOK
    <2>2. LockHeld'
      BY DEF TypeOK, LockHeld
    <2>3. FileIsTrue'
      BY DEF TypeOK, FileIsTrue, OnlyOne
    <2>4. SpawnsAlone'
      BY DEF TypeOK, LockHeld, FileIsTrue, SpawnsAlone, NeverFails, OnlyOne
    <2>5. NeverFails'
      BY DEF TypeOK, LockHeld, FileIsTrue, NeverFails
    <2>6. OnlyOne'
      BY DEF TypeOK, SpawnsAlone, OnlyOne
    <2>. QED
      BY <2>1, <2>2, <2>3, <2>4, <2>5, <2>6
  <1>2. ASSUME NEW p \in Procs, FirstProbe(p) PROVE Inv'
    <2>. USE <1>2 DEF Inv, FirstProbe, Probe, At, Goto
    <2>1. TypeOK'
      BY DEF TypeOK
    <2>2. LockHeld'
      BY DEF TypeOK, LockHeld
    <2>3. FileIsTrue'
      BY DEF TypeOK, FileIsTrue, OnlyOne
    <2>4. SpawnsAlone'
      BY DEF TypeOK, LockHeld, FileIsTrue, SpawnsAlone, NeverFails, OnlyOne
    <2>5. NeverFails'
      BY DEF TypeOK, LockHeld, FileIsTrue, NeverFails
    <2>6. OnlyOne'
      BY DEF TypeOK, SpawnsAlone, OnlyOne
    <2>. QED
      BY <2>1, <2>2, <2>3, <2>4, <2>5, <2>6
  <1>3. ASSUME NEW p \in Procs, RemoveStale(p) PROVE FALSE
    BY <1>3 DEF Inv, TypeOK, LockHeld, NeverFails, RemoveStale, At, Goto
  <1>4. ASSUME NEW p \in Procs, TakeLock(p) PROVE Inv'
    <2>. USE <1>4 DEF Inv, TakeLock, CreateLock, At, Goto
    <2>1. TypeOK'
      BY DEF TypeOK
    <2>2. LockHeld'
      BY DEF TypeOK, LockHeld
    <2>3. FileIsTrue'
      BY DEF TypeOK, FileIsTrue, OnlyOne
    <2>4. SpawnsAlone'
      BY DEF TypeOK, LockHeld, FileIsTrue, SpawnsAlone, NeverFails, OnlyOne
    <2>5. NeverFails'
      BY DEF TypeOK, LockHeld, FileIsTrue, NeverFails
    <2>6. OnlyOne'
      BY DEF TypeOK, SpawnsAlone, OnlyOne
    <2>. QED
      BY <2>1, <2>2, <2>3, <2>4, <2>5, <2>6
  <1>5. ASSUME NEW p \in Procs, StatLock(p) PROVE Inv'
    <2>. USE <1>5 DEF Inv, StatLock, At, Goto
    <2>1. TypeOK'
      BY DEF TypeOK
    <2>2. LockHeld'
      BY DEF TypeOK, LockHeld
    <2>3. FileIsTrue'
      BY DEF TypeOK, FileIsTrue, OnlyOne
    <2>4. SpawnsAlone'
      BY DEF TypeOK, LockHeld, FileIsTrue, SpawnsAlone, NeverFails, OnlyOne
    <2>5. NeverFails'
      BY DEF TypeOK, LockHeld, FileIsTrue, NeverFails
    <2>6. OnlyOne'
      BY DEF TypeOK, SpawnsAlone, OnlyOne
    <2>. QED
      BY <2>1, <2>2, <2>3, <2>4, <2>5, <2>6
  <1>6. ASSUME NEW p \in Procs, UnlinkStale(p) PROVE FALSE
    BY <1>6 DEF Inv, TypeOK, LockHeld, NeverFails, UnlinkStale, At, Goto
  <1>7. ASSUME NEW p \in Procs, RetakeLock(p) PROVE FALSE
    BY <1>7 DEF Inv, TypeOK, LockHeld, NeverFails, RetakeLock, CreateLock, At, Goto
  <1>8. ASSUME NEW p \in Procs, Reread(p) PROVE Inv'
    <2>. USE <1>8 DEF Inv, Reread, ReadRendezvous, At, Goto
    <2>1. TypeOK'
      BY DEF TypeOK
    <2>2. LockHeld'
      BY DEF TypeOK, LockHeld
    <2>3. FileIsTrue'
      BY DEF TypeOK, FileIsTrue, OnlyOne
    <2>4. SpawnsAlone'
      BY DEF TypeOK, LockHeld, FileIsTrue, SpawnsAlone, NeverFails, OnlyOne
    <2>5. NeverFails'
      BY DEF TypeOK, LockHeld, FileIsTrue, NeverFails
    <2>6. OnlyOne'
      BY DEF TypeOK, SpawnsAlone, OnlyOne
    <2>. QED
      BY <2>1, <2>2, <2>3, <2>4, <2>5, <2>6
  <1>9. ASSUME NEW p \in Procs, Reprobe(p) PROVE Inv'
    <2>. USE <1>9 DEF Inv, Reprobe, Probe, At, Goto
    <2>1. TypeOK'
      BY DEF TypeOK
    <2>2. LockHeld'
      BY DEF TypeOK, LockHeld
    <2>3. FileIsTrue'
      BY DEF TypeOK, FileIsTrue, OnlyOne
    <2>4. SpawnsAlone'
      BY DEF TypeOK, LockHeld, FileIsTrue, SpawnsAlone, NeverFails, OnlyOne
    <2>5. NeverFails'
      BY DEF TypeOK, LockHeld, FileIsTrue, NeverFails
    <2>6. OnlyOne'
      BY DEF TypeOK, SpawnsAlone, OnlyOne
    <2>. QED
      BY <2>1, <2>2, <2>3, <2>4, <2>5, <2>6
  <1>10. ASSUME NEW p \in Procs, SpawnBroker(p) PROVE Inv'
    <2>. USE <1>10 DEF Inv, SpawnBroker, At, Goto
    <2>1. TypeOK'
      BY DEF TypeOK
    <2>2. LockHeld'
      BY DEF TypeOK, LockHeld
    <2>3. FileIsTrue'
      BY DEF TypeOK, FileIsTrue, OnlyOne
    <2>4. SpawnsAlone'
      BY DEF TypeOK, LockHeld, FileIsTrue, SpawnsAlone, NeverFails, OnlyOne
    <2>5. NeverFails'
      BY DEF TypeOK, LockHeld, FileIsTrue, NeverFails
    <2>6. OnlyOne'
      BY DEF TypeOK, SpawnsAlone, OnlyOne
    <2>. QED
      BY <2>1, <2>2, <2>3, <2>4, <2>5, <2>6
  <1>11. ASSUME NEW p \in Procs, HoldRead(p) PROVE Inv'
    <2>. USE <1>11 DEF Inv, HoldRead, ReadRendezvous, At, Goto
    <2>1. TypeOK'
      BY DEF TypeOK
    <2>2. LockHeld'
      BY DEF TypeOK, LockHeld
    <2>3. FileIsTrue'
      BY DEF TypeOK, FileIsTrue, OnlyOne
    <2>4. SpawnsAlone'
      BY DEF TypeOK, LockHeld, FileIsTrue, SpawnsAlone, NeverFails, OnlyOne
    <2>5. NeverFails'
      BY DEF TypeOK, LockHeld, FileIsTrue, NeverFails
    <2>6. OnlyOne'
      BY DEF TypeOK, SpawnsAlone, OnlyOne
    <2>. QED
      BY <2>1, <2>2, <2>3, <2>4, <2>5, <2>6
  <1>12. ASSUME NEW p \in Procs, HoldProbe(p) PROVE Inv'
    <2>. USE <1>12 DEF Inv, HoldProbe, Probe, At, Goto
    <2>1. TypeOK'
      BY DEF TypeOK
    <2>2. LockHeld'
      BY DEF TypeOK, LockHeld
    <2>3. FileIsTrue'
      BY DEF TypeOK, FileIsTrue, OnlyOne
    <2>4. SpawnsAlone'
      BY DEF TypeOK, LockHeld, FileIsTrue, SpawnsAlone, NeverFails, OnlyOne
    <2>5. NeverFails'
      BY DEF TypeOK, LockHeld, FileIsTrue, NeverFails
    <2>6. OnlyOne'
      BY DEF TypeOK, SpawnsAlone, OnlyOne
    <2>. QED
      BY <2>1, <2>2, <2>3, <2>4, <2>5, <2>6
  <1>13. ASSUME NEW p \in Procs, WaitRead(p) PROVE Inv'
    <2>. USE <1>13 DEF Inv, WaitRead, ReadRendezvous, At, Goto
    <2>1. TypeOK'
      BY DEF TypeOK
    <2>2. LockHeld'
      BY DEF TypeOK, LockHeld
    <2>3. FileIsTrue'
      BY DEF TypeOK, FileIsTrue, OnlyOne
    <2>4. SpawnsAlone'
      BY DEF TypeOK, LockHeld, FileIsTrue, SpawnsAlone, NeverFails, OnlyOne
    <2>5. NeverFails'
      BY DEF TypeOK, LockHeld, FileIsTrue, NeverFails
    <2>6. OnlyOne'
      BY DEF TypeOK, SpawnsAlone, OnlyOne
    <2>. QED
      BY <2>1, <2>2, <2>3, <2>4, <2>5, <2>6
  <1>14. ASSUME NEW p \in Procs, WaitProbe(p) PROVE Inv'
    <2>. USE <1>14 DEF Inv, WaitProbe, Probe, At, Goto
    <2>1. TypeOK'
      BY DEF TypeOK
    <2>2. LockHeld'
      BY DEF TypeOK, LockHeld
    <2>3. FileIsTrue'
      BY DEF TypeOK, FileIsTrue, OnlyOne
    <2>4. SpawnsAlone'
      BY DEF TypeOK, LockHeld, FileIsTrue, SpawnsAlone, NeverFails, OnlyOne
    <2>5. NeverFails'
      BY DEF TypeOK, LockHeld, FileIsTrue, NeverFails
    <2>6. OnlyOne'
      BY DEF TypeOK, SpawnsAlone, OnlyOne
    <2>. QED
      BY <2>1, <2>2, <2>3, <2>4, <2>5, <2>6
  <1>15. ASSUME NEW p \in Procs, Unlock(p) PROVE Inv'
    <2>. USE <1>15 DEF Inv, Unlock, Goto
    <2>1. TypeOK'
      BY DEF TypeOK
    <2>2. LockHeld'
      BY DEF TypeOK, LockHeld
    <2>3. FileIsTrue'
      BY DEF TypeOK, FileIsTrue, OnlyOne
    <2>4. SpawnsAlone'
      BY DEF TypeOK, LockHeld, FileIsTrue, SpawnsAlone, NeverFails, OnlyOne
    <2>5. NeverFails'
      BY DEF TypeOK, LockHeld, FileIsTrue, NeverFails
    <2>6. OnlyOne'
      BY DEF TypeOK, SpawnsAlone, OnlyOne
    <2>. QED
      BY <2>1, <2>2, <2>3, <2>4, <2>5, <2>6
  <1>16. ASSUME NEW p \in Procs, Timeout(p) PROVE Inv'
    <2>. USE <1>16 DEF Inv, Timeout, Goto, BrokerOnItsWay
    <2>1. TypeOK'
      BY DEF TypeOK, LockHeld, FileIsTrue, SpawnsAlone, NeverFails, OnlyOne
    <2>2. LockHeld'
      BY DEF TypeOK, LockHeld, FileIsTrue, SpawnsAlone, NeverFails, OnlyOne
    <2>3. FileIsTrue'
      BY DEF TypeOK, LockHeld, FileIsTrue, SpawnsAlone, NeverFails, OnlyOne
    <2>4. SpawnsAlone'
      BY DEF TypeOK, LockHeld, FileIsTrue, SpawnsAlone, NeverFails, OnlyOne
    <2>5. NeverFails'
      BY DEF TypeOK, LockHeld, FileIsTrue, SpawnsAlone, NeverFails, OnlyOne
    <2>6. OnlyOne'
      BY DEF TypeOK, LockHeld, FileIsTrue, SpawnsAlone, NeverFails, OnlyOne
    <2>. QED
      BY <2>1, <2>2, <2>3, <2>4, <2>5, <2>6
  <1>17. ASSUME NEW p \in Procs, Crash(p) PROVE FALSE
    BY <1>17 DEF Inv, TypeOK, LockHeld, NeverFails, Crash, Goto
  <1>18. ASSUME NEW b \in Brokers, BrokerStarts(b) PROVE Inv'
    <2>. USE <1>18 DEF Inv, BrokerStarts
    <2>1. TypeOK'
      BY DEF TypeOK
    <2>2. LockHeld'
      BY DEF TypeOK, LockHeld
    <2>3. FileIsTrue'
      BY DEF TypeOK, FileIsTrue, OnlyOne
    <2>4. SpawnsAlone'
      BY DEF TypeOK, LockHeld, FileIsTrue, SpawnsAlone, NeverFails, OnlyOne
    <2>5. NeverFails'
      BY DEF TypeOK, LockHeld, FileIsTrue, NeverFails
    <2>6. OnlyOne'
      BY DEF TypeOK, SpawnsAlone, OnlyOne
    <2>. QED
      BY <2>1, <2>2, <2>3, <2>4, <2>5, <2>6
  <1>19. ASSUME NEW b \in Brokers, BrokerDies(b) PROVE FALSE
    BY <1>19 DEF Inv, TypeOK, LockHeld, NeverFails, BrokerDies
  <1>20. ASSUME NEW b \in Brokers, BrokerStops(b) PROVE FALSE
    BY <1>20 DEF Inv, TypeOK, LockHeld, NeverFails, BrokerStops
  <1>21. ASSUME LockAges PROVE FALSE
    BY <1>21 DEF Inv, TypeOK, LockHeld, NeverFails, LockAges
  <1>22. ASSUME NEW p \in Procs, SpawnFails(p) PROVE Inv'
    <2>. USE <1>22 DEF Inv, SpawnFails, At, Goto
    <2>1. TypeOK'
      BY DEF TypeOK
    <2>2. LockHeld'
      BY DEF TypeOK, LockHeld
    <2>3. FileIsTrue'
      BY DEF TypeOK, FileIsTrue, OnlyOne
    <2>4. SpawnsAlone'
      BY DEF TypeOK, LockHeld, FileIsTrue, SpawnsAlone, NeverFails, OnlyOne
    <2>5. NeverFails'
      BY DEF TypeOK, LockHeld, FileIsTrue, NeverFails
    <2>6. OnlyOne'
      BY DEF TypeOK, SpawnsAlone, OnlyOne
    <2>. QED
      BY <2>1, <2>2, <2>3, <2>4, <2>5, <2>6
  <1>23. CASE UNCHANGED vars
    BY <1>23 DEF vars, Inv, TypeOK, LockHeld, FileIsTrue, SpawnsAlone, NeverFails, OnlyOne
  <1>. QED
    BY <1>1, <1>2, <1>3, <1>4, <1>5, <1>6, <1>7, <1>8, <1>9, <1>10, <1>11, <1>12, <1>13, <1>14, <1>15, <1>16, <1>17, <1>18, <1>19, <1>20, <1>21, <1>22, <1>23 DEF Next, Step

-----------------------------------------------------------------------------
(* One broker *)

\* The invariant holds in every state that is reached without a failure.
THEOREM InvCorrect == NothingFails /\ Spec => []Inv
  <1>1. NothingFails /\ Init => Inv
    BY InvInit
  <1>2. NothingFails /\ Inv /\ [Next]_vars => Inv'
    BY InvStep
  <1>3. NothingFails => NothingFails'
    BY DEF NothingFails
  <1>. QED
    BY <1>1, <1>2, <1>3, PTL DEF Spec

LEMMA InvMeansOneBroker == Inv => OneBroker
  <1>. SUFFICES ASSUME Inv PROVE OneBroker
    OBVIOUS
  <1>1. CASE Alive = {}
    BY <1>1, FS_EmptySet DEF OneBroker
  <1>2. CASE Alive # {}
    <2>1. PICK b \in Alive : TRUE
      BY <1>2
    <2>2. Alive = {b}
      BY <2>1 DEF Alive, Inv, OnlyOne
    <2>3. Cardinality(Alive) = 1
      BY <2>2, FS_Singleton
    <2>. QED
      BY <2>3 DEF OneBroker
  <1>. QED
    BY <1>1, <1>2

\* constants.ts says there is one broker per user: so it is, however many
\* sessions start at once, unless something fails on the way.
THEOREM OneBrokerCorrect == NothingFails /\ Spec => []OneBroker
  BY InvCorrect, InvMeansOneBroker, PTL
=============================================================================
