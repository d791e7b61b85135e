---------------------------- MODULE TokenRefresh ----------------------------
(***************************************************************************)
(* Refreshing the tokens of remote locations (makeClerkAuthFetcher in      *)
(* src/mcp_server/src/remote/client.ts, withConfigLock, saveLocationAuth   *)
(* and writeLocationAuthInLock in src/mcp_server/src/config/save.ts).      *)
(*                                                                         *)
(* A caller is the auth fetcher of one location in one process.  Tokens    *)
(* are numbered by grant, per location: grant g is an id token, its        *)
(* expiry, and a refresh token that can be spent once.  A later grant      *)
(* expires later.  The config file maps each location to the grant it      *)
(* holds.  Overlapping calls of one fetcher share one promise (inFlight)   *)
(* and so are one call here; a call that finds its token fresh changes     *)
(* nothing and is not a step.  A fetcher has a refresh token from the      *)
(* start: attach refuses a location without one.                           *)
(***************************************************************************)
EXTENDS ConfigLock

CONSTANTS
    Locations,
    LocOf,          \* Callers -> Locations
    MaxGrants,      \* bound: grants per location after the first
    MaxExpired,     \* bound: grants per location that expire
    MaxFaults       \* bound: refresh requests lost and writes that fail

ASSUME RefreshAssumption ==
    /\ LocOf \in [Callers -> Locations]
    /\ MaxGrants \in Nat /\ MaxExpired \in Nat /\ MaxFaults \in Nat

VARIABLES
    disk,       \* the config file: Locations -> grant
    snapshot,   \* what each caller read of it in readExisting
    held,       \* the grant of each caller: currentRefreshToken, currentExpiresAt
    live,       \* currentIdToken # ''
    pending,    \* a grant received and not yet kept
    signingIn,  \* the caller is an authenticate call, in saveLocationAuth
    issued,     \* the latest grant of each location at the issuer
    unspent,    \* the grants whose refresh token the issuer still honours
    fresh,      \* the earliest grant that has not expired
    faults,
    rewound     \* history: locations where a sign-in was saved over a newer grant

tokenVars == <<disk, snapshot, held, live, pending, signingIn>>
issuerVars == <<issued, unspent, fresh>>
vars == <<lockVars, tokenVars, issuerVars, faults, rewound>>

Grants == 0 .. MaxGrants

\* The types of the tokens' state.
TypeOK ==
    /\ LockTypeOK
    /\ disk \in [Locations -> Grants]
    /\ snapshot \in [Callers -> [Locations -> Grants]]
    /\ held \in [Callers -> Grants] /\ live \in [Callers -> BOOLEAN]
    /\ pending \in [Callers -> Grants] /\ signingIn \in [Callers -> BOOLEAN]
    /\ issued \in [Locations -> Grants]
    /\ unspent \in [Locations -> SUBSET Grants]
    /\ fresh \in [Locations -> 0 .. MaxExpired]
    /\ faults \in 0 .. MaxFaults
    /\ rewound \subseteq Locations

Init ==
    /\ LockInit
    /\ disk = [l \in Locations |-> 0]
    /\ snapshot = [c \in Callers |-> disk]
    /\ held = [c \in Callers |-> 0] /\ live = [c \in Callers |-> TRUE]
    /\ pending = [c \in Callers |-> 0] /\ signingIn = [c \in Callers |-> FALSE]
    /\ issued = [l \in Locations |-> 0]
    /\ unspent = [l \in Locations |-> {0}]
    /\ fresh = [l \in Locations |-> 0]
    /\ faults = 0 /\ rewound = {}

Working(l) == {c \in Callers : LocOf[c] = l /\ pc[c] \notin Resting}

RoomForGrant(l) == issued[l] + Cardinality(Working(l)) < MaxGrants

StillFresh(c) == live[c] /\ held[c] >= fresh[LocOf[c]]

AtRest(c) == At(c, "idle") \/ At(c, "threw")

-----------------------------------------------------------------------------
(* The steps of a call *)

\* clerkAuthFetcher({ forceRefreshToken }), up to acquireLock
Fetch(c, forceRefreshToken) ==
    /\ AtRest(c)
    /\ forceRefreshToken \/ ~StillFresh(c)
    /\ RoomForGrant(LocOf[c])
    /\ signingIn' = [signingIn EXCEPT ![c] = FALSE]
    /\ Goto(c, "create")
    /\ UNCHANGED <<lock, lockOld, pidRead, crashed, replaced, disk, snapshot, held, live, pending,
                   issuerVars, faults, rewound>>

\* authenticate: the issuer has just made a grant of its own; saveLocationAuth
SignIn(c) ==
    LET l == LocOf[c] IN
    /\ AtRest(c)
    /\ RoomForGrant(l)
    /\ issued' = [issued EXCEPT ![l] = @ + 1]
    /\ unspent' = [unspent EXCEPT ![l] = @ \cup {issued'[l]}]
    /\ pending' = [pending EXCEPT ![c] = issued'[l]]
    /\ signingIn' = [signingIn EXCEPT ![c] = TRUE]
    /\ Goto(c, "create")
    /\ UNCHANGED <<lock, lockOld, pidRead, crashed, replaced, disk, snapshot, held, live,
                   fresh, faults, rewound>>

Acquire(c) == AcquireStep(c) /\ UNCHANGED <<tokenVars, issuerVars, faults, rewound>>

\* Faulty PeerRefreshed: the file is not looked at.
PeerRefreshedNever(c) == FALSE

\* loadPersistedLocationAuth: disk holds a newer grant that is still fresh
PeerRefreshed(c) == disk[LocOf[c]] >= fresh[LocOf[c]] /\ disk[LocOf[c]] > held[c]

Adopt(c) ==
    /\ At(c, "inside") /\ ~signingIn[c]
    /\ PeerRefreshed(c)
    /\ held' = [held EXCEPT ![c] = disk[LocOf[c]]]
    /\ live' = [live EXCEPT ![c] = TRUE]
    /\ Goto(c, "release")
    /\ UNCHANGED <<lock, lockOld, pidRead, crashed, replaced, disk, snapshot, pending, signingIn,
                   issuerVars, faults, rewound>>

\* refreshAccessToken with the refresh token in memory, not the one on disk
Request(c) ==
    /\ At(c, "inside") /\ ~signingIn[c]
    /\ ~PeerRefreshed(c)
    /\ Goto(c, "request")
    /\ UNCHANGED <<lock, lockOld, pidRead, crashed, replaced, tokenVars, issuerVars, faults, rewound>>

\* The issuer spends the refresh token and makes a grant, or refuses it.
Issue(c) ==
    LET l == LocOf[c] IN
    /\ pc[c] = "request"
    /\ IF held[c] \in unspent[l]
       THEN /\ issued' = [issued EXCEPT ![l] = @ + 1]
            /\ unspent' = [unspent EXCEPT ![l] = (@ \ {held[c]}) \cup {issued'[l]}]
            /\ pending' = [pending EXCEPT ![c] = issued'[l]]
            /\ Goto(c, "granted")
       ELSE Goto(c, "refused") /\ UNCHANGED <<issued, unspent, pending>>
    /\ UNCHANGED <<lock, lockOld, pidRead, crashed, replaced, disk, snapshot, held, live, signingIn,
                   fresh, faults, rewound>>

\* The request never reaches the issuer, or its answer is lost.
LoseRequest(c) ==
    /\ pc[c] \in {"request", "granted"} /\ faults < MaxFaults
    /\ faults' = faults + 1
    /\ Goto(c, "refused")
    /\ UNCHANGED <<lock, lockOld, pidRead, crashed, replaced, tokenVars, issuerVars, rewound>>

\* Faulty Granted: written over what was read before the request.
GrantedOldSnapshot(c) ==
    /\ At(c, "granted")
    /\ held' = [held EXCEPT ![c] = pending[c]]
    /\ live' = [live EXCEPT ![c] = TRUE]
    /\ Goto(c, "write")
    /\ UNCHANGED <<lock, lockOld, pidRead, crashed, replaced, disk, snapshot, pending, signingIn,
                   issuerVars, faults, rewound>>

\* The answer is kept in memory; then readExisting, in persist.
Granted(c) ==
    /\ At(c, "granted")
    /\ held' = [held EXCEPT ![c] = pending[c]]
    /\ live' = [live EXCEPT ![c] = TRUE]
    /\ snapshot' = [snapshot EXCEPT ![c] = disk]
    /\ Goto(c, "write")
    /\ UNCHANGED <<lock, lockOld, pidRead, crashed, replaced, disk, pending, signingIn,
                   issuerVars, faults, rewound>>

\* saveLocationAuth: readExisting
BeginSave(c) ==
    /\ At(c, "inside") /\ signingIn[c]
    /\ snapshot' = [snapshot EXCEPT ![c] = disk]
    /\ Goto(c, "write")
    /\ UNCHANGED <<lock, lockOld, pidRead, crashed, replaced, disk, held, live, pending, signingIn,
                   issuerVars, faults, rewound>>

\* catch: the id token is dropped, the refresh token kept
Refused(c) ==
    /\ At(c, "refused")
    /\ live' = [live EXCEPT ![c] = FALSE]
    /\ Goto(c, "release")
    /\ UNCHANGED <<lock, lockOld, pidRead, crashed, replaced, disk, snapshot, held, pending, signingIn,
                   issuerVars, faults, rewound>>

\* renameSync(tmp, file): the whole file, with this location's grant.  After
\* authenticate the location is attached again with the new grant.
Write(c) ==
    /\ At(c, "write")
    /\ disk' = [snapshot[c] EXCEPT ![LocOf[c]] = pending[c]]
    /\ held' = [held EXCEPT ![c] = pending[c]]
    /\ live' = [live EXCEPT ![c] = TRUE]
    /\ rewound' = IF pending[c] < disk[LocOf[c]] THEN rewound \cup {LocOf[c]} ELSE rewound
    /\ Goto(c, "release")
    /\ UNCHANGED <<lock, lockOld, pidRead, crashed, replaced, snapshot, pending, signingIn, issuerVars,
                   faults>>

\* persist throws (the file is invalid, the disk is full): a refresh drops its
\* id token and keeps the new refresh token in memory only.
WriteFails(c) ==
    /\ At(c, "write") /\ faults < MaxFaults
    /\ faults' = faults + 1
    /\ live' = [live EXCEPT ![c] = @ /\ signingIn[c]]
    /\ Goto(c, "release")
    /\ UNCHANGED <<lock, lockOld, pidRead, crashed, replaced, disk, snapshot, held, pending, signingIn,
                   issuerVars, rewound>>

Release(c) == ReleaseLock(c) /\ UNCHANGED <<tokenVars, issuerVars, faults, rewound>>

\* accessTokenExpiresAt of the earliest fresh grant passes
Expire(l) ==
    /\ fresh[l] < MaxExpired /\ fresh[l] <= issued[l]
    /\ fresh' = [fresh EXCEPT ![l] = @ + 1]
    /\ UNCHANGED <<lockVars, tokenVars, issued, unspent, faults, rewound>>

Step(c) ==
    \/ Acquire(c) \/ Adopt(c) \/ Request(c) \/ Issue(c) \/ Granted(c) \/ Refused(c)
    \/ BeginSave(c) \/ Write(c) \/ Release(c)

GiveUp(c) == Timeout(c) /\ UNCHANGED <<tokenVars, issuerVars, faults, rewound>>

Next ==
    \/ \E c \in Callers :
        \/ \E forceRefreshToken \in BOOLEAN : Fetch(c, forceRefreshToken)
        \/ SignIn(c) \/ Step(c) \/ GiveUp(c) \/ LoseRequest(c) \/ WriteFails(c)
    \/ \E p \in Procs : Crash(p) /\ UNCHANGED <<tokenVars, issuerVars, faults, rewound>>
    \/ LockAges /\ UNCHANGED <<tokenVars, issuerVars, faults, rewound>>
    \/ \E l \in Locations : Expire(l)

\* An event loop takes its callers in turn, the issuer or the network answers
\* a request, and a wait that goes on is ended by its deadline.
Fairness == \A c \in Callers : SF_vars(Step(c)) /\ SF_vars(GiveUp(c))

Spec == Init /\ [][Next]_vars

FairSpec == Spec /\ Fairness

-----------------------------------------------------------------------------
(* Properties *)

\* A process was killed between its grant and the rename of the file, and took
\* the only refresh token with it: nobody can prevent that.
DiedWithGrant(l) == \E c \in Callers : LocOf[c] = l /\ pc[c] = "dead" /\ pending[c] > disk[l]

\* client.ts: the peer's grant is adopted to avoid "burning a single-use
\* refresh token": no fetcher sends a refresh token that was spent, unless a
\* sign-in waited for the lock so long that it saved an older grant than others
\* had got meanwhile.
NoTokenSentTwice ==
    \A c \in Callers :
        pc[c] = "request" =>
            held[c] \in unspent[LocOf[c]] \/ DiedWithGrant(LocOf[c]) \/ LocOf[c] \in rewound

\* While nobody is inside the lock, the file holds, for every location, a
\* refresh token the issuer still honours: no update of another caller, of
\* this location or another, was lost in a read-modify-write.
FileUsable ==
    (\A c \in Callers : pc[c] \notin Inside)
        => \A l \in Locations : disk[l] \in unspent[l] \/ DiedWithGrant(l)

\* Whatever expires, crashes or is lost, a call ends: with a token, with null,
\* or with an error; no chain of waiters waits forever.
CallsEnd == \A c \in Callers : pc[c] \notin Resting ~> pc[c] \in Resting
=============================================================================
