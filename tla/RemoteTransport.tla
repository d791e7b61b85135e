--------------------------- MODULE RemoteTransport ---------------------------
(***************************************************************************)
(* One remote transport (src/mcp_server/src/transport/remote.ts): its      *)
(* session at the deployment and the heartbeat, the calls in flight, the   *)
(* degradation switch, and the live feed of one channel or one topic, with *)
(* its cursor, its dedup set and its asynchronous lookup of the channel's  *)
(* id, through leaving, joining again and shutdown.                        *)
(*                                                                         *)
(* The deployment and the Convex client are external: rows of the channel  *)
(* or topic in the order of their times, an onUpdate callback that is      *)
(* called with all rows after `sinceTs` whenever there are more, and calls *)
(* that are answered or fail, in any order and however late.  The feed's   *)
(* holder (ensureChannelSubscription, ensureTopicSubscription and their    *)
(* teardown in attach.ts) keeps one entry per channel or topic and opens   *)
(* the feed as soon as the join returns.                                   *)
(*                                                                         *)
(* Left out: what calls return, the cache of known topic ids, and the read *)
(* cursor that ackChannel moves, which counts only for a later process.    *)
(***************************************************************************)
EXTENDS CircuitBreaker, Maps, Functions

CONSTANTS
    Slots,              \* joins and leaves that can be in flight at once
    SessionIds,         \* ids the deployment may give this session
    NoSession,
    Peer,               \* whoever else posts
    DEDUP_CAPACITY,     \* 10 000 in the code
    MaxRows,            \* bound: rows posted
    MaxFeeds            \* bound: feeds opened one after another

ASSUME RemoteAssumption ==
    /\ NoSession \notin SessionIds /\ Peer \notin SessionIds \cup {NoSession}
    /\ DEDUP_CAPACITY \in Nat /\ MaxRows \in Nat /\ MaxFeeds \in Nat
    /\ MaxRows <= DEDUP_CAPACITY

VARIABLES
    kind,               \* the feed is of a channel or of a topic
    sessionId,
    introducing,        \* an introduce is in flight
    heartbeatTimer,
    beating,            \* an updateLastSeen is in flight
    shutdownStarted,
    calls,              \* joins and leaves in flight
    rows,               \* what was posted, oldest first
    cursor,             \* channelMaxTs or topicMaxTs; 0: none
    idKnown,            \* channelIdsByName has the channel
    feedsOpened,
    entry,              \* the feed in the holder's map, by number; 0: none
    lookups,            \* feeds whose channel id is being looked up
    subscriptions,      \* feeds subscribed at the Convex client
    joinedUpTo,         \* history: the holder had the rows up to this one when it joined
    passed,             \* history: the rows given to onEvent, in order
    refusing            \* the deployment answers every call with an error

sessionVars == <<sessionId, introducing, heartbeatTimer, beating>>
feedVars == <<feedsOpened, entry, lookups, subscriptions, joinedUpTo, passed>>
cursorVars == <<cursor, idKnown>>
backendVars == <<rows, refusing>>
vars == <<breakerVars, kind, sessionVars, shutdownStarted, calls, backendVars, cursorVars, feedVars>>

Senders == SessionIds \cup {Peer}

\* upTo: the rows there were at the last update; after (history): joinedUpTo
\* when it was opened
Subscription == [sinceTs: 0 .. MaxRows, ownSessionId: SessionIds \cup {NoSession},
                 seen: Seq(1 .. MaxRows), upTo: 0 .. MaxRows, after: 0 .. MaxRows]

\* The transport's state keeps its types.
TypeOK ==
    /\ BreakerTypeOK
    /\ kind \in {"channel", "topic"}
    /\ sessionId \in SessionIds \cup {NoSession}
    /\ introducing \in BOOLEAN /\ beating \in BOOLEAN
    /\ heartbeatTimer \in BOOLEAN /\ (heartbeatTimer => sessionId # NoSession)
    /\ shutdownStarted \in BOOLEAN /\ refusing \in BOOLEAN
    /\ IsMap(calls, Slots, [op: {"join", "leave"}, handled: BOOLEAN, upTo: 0 .. MaxRows])
    /\ rows \in Seq([ts: 1 .. MaxRows, from: Senders]) /\ Len(rows) <= MaxRows
    /\ cursor \in 0 .. MaxRows /\ idKnown \in BOOLEAN
    /\ feedsOpened \in 0 .. MaxFeeds /\ entry \in 0 .. feedsOpened
    /\ lookups \subseteq 1 .. feedsOpened
    /\ IsMap(subscriptions, 1 .. feedsOpened, Subscription)
    /\ joinedUpTo \in 0 .. Len(rows)
    /\ passed \in Seq(DOMAIN rows)

Init ==
    /\ BreakerInit
    /\ kind \in {"channel", "topic"}
    /\ sessionId = NoSession /\ introducing = FALSE
    /\ heartbeatTimer = FALSE /\ beating = FALSE
    /\ shutdownStarted = FALSE
    /\ calls = EmptyMap
    /\ rows = <<>> /\ refusing = FALSE
    /\ cursor = 0 /\ idKnown = FALSE
    /\ feedsOpened = 0 /\ entry = 0
    /\ lookups = {} /\ subscriptions = EmptyMap
    /\ joinedUpTo = 0 /\ passed = <<>>

Later(a, b) == IF a > b THEN a ELSE b

TsOf(n) == IF n = 0 THEN 0 ELSE rows[n].ts

\* An error a call can meet.
CallError(err) == refusing => err # "transient"

Recorded(err) == registerFailure(err) /\ CallError(err)

-----------------------------------------------------------------------------
(* Session and heartbeat *)

\* Faulty Introduce: the heartbeat starts before the reply.
IntroduceBeatingEarly ==
    /\ enabled /\ ~introducing /\ sessionId = NoSession
    /\ introducing' = TRUE
    /\ heartbeatTimer' = TRUE
    /\ UNCHANGED <<breakerVars, kind, sessionId, beating, shutdownStarted,
                   calls, backendVars, cursorVars, feedVars>>

\* introduce, up to the mutation; it throws when the transport is disabled.
\* Bound: not again after it succeeded, which only renews the id and the timer.
Introduce ==
    /\ enabled /\ ~introducing /\ sessionId = NoSession
    /\ introducing' = TRUE
    /\ UNCHANGED <<breakerVars, kind, sessionId, heartbeatTimer, beating, shutdownStarted,
                   calls, backendVars, cursorVars, feedVars>>

\* introduce, after the mutation: whatever happened to the transport meanwhile
Introduced(id) ==
    /\ introducing /\ ~refusing
    /\ introducing' = FALSE
    /\ sessionId' = id
    /\ heartbeatTimer' = TRUE
    /\ UNCHANGED <<breakerVars, kind, beating, shutdownStarted, calls, backendVars,
                   cursorVars, feedVars>>

IntroduceFails(err) ==
    /\ introducing
    /\ introducing' = FALSE
    /\ Recorded(err)
    /\ UNCHANGED <<kind, sessionId, heartbeatTimer, beating, shutdownStarted, calls,
                   backendVars, cursorVars, feedVars>>

\* sendHeartbeat, every HEARTBEAT_INTERVAL_MS
SendHeartbeat ==
    /\ heartbeatTimer /\ enabled /\ ~beating
    /\ beating' = TRUE
    /\ UNCHANGED <<breakerVars, kind, sessionId, introducing, heartbeatTimer, shutdownStarted,
                   calls, backendVars, cursorVars, feedVars>>

\* Faulty HeartbeatReturns: no failure counts.
HeartbeatReturnsSwallowing ==
    /\ beating
    /\ beating' = FALSE
    /\ UNCHANGED <<breakerVars, kind, sessionId, introducing, heartbeatTimer, shutdownStarted,
                   calls, backendVars, cursorVars, feedVars>>

\* A transient failure of the heartbeat does not count, the others do.
HeartbeatReturns ==
    /\ beating
    /\ beating' = FALSE
    /\ \/ ~refusing /\ UNCHANGED breakerVars
       \/ \E err \in Errors \ {"transient"} : Recorded(err)
    /\ UNCHANGED <<kind, sessionId, introducing, heartbeatTimer, shutdownStarted, calls,
                   backendVars, cursorVars, feedVars>>

\* A call that only reads or writes at the deployment fails: list*, broadcast,
\* create*, archive*, send*, read*.  It began while the transport was enabled;
\* of the failures that come too late those of the other calls are enough.
CallFails(err) ==
    /\ enabled
    /\ Recorded(err)
    /\ UNCHANGED <<kind, sessionVars, shutdownStarted, calls, backendVars, cursorVars, feedVars>>

-----------------------------------------------------------------------------
(* Opening and closing the feed *)

\* onUpdate with the cursor and the session id of this moment
Subscribe(f, since, upTo) ==
    subscriptions' = Put(subscriptions, f,
        [sinceTs |-> since, ownSessionId |-> sessionId, seen |-> <<>>, upTo |-> 0, after |-> upTo])

\* ensureChannelSubscription, ensureTopicSubscription.  On a disabled transport
\* the entry's unsubscribe function does nothing and no feed is ever opened.
Open(since, known, upTo, isEnabled) ==
    /\ feedsOpened < MaxFeeds
    /\ feedsOpened' = feedsOpened + 1
    /\ entry' = feedsOpened'
    /\ IF ~isEnabled \/ shutdownStarted
       THEN UNCHANGED <<lookups, subscriptions>>
       ELSE IF kind = "topic" \/ known
            THEN Subscribe(feedsOpened', since, upTo) /\ UNCHANGED lookups
            ELSE lookups' = lookups \cup {feedsOpened'} /\ UNCHANGED subscriptions

EnsureSubscription(since, known, upTo, isEnabled) ==
    IF entry # 0
    THEN UNCHANGED <<feedsOpened, entry, lookups, subscriptions>>
    ELSE Open(since, known, upTo, isEnabled)

\* the unsubscribe function of the entry; a lookup goes on
Unsubscribe ==
    /\ entry' = 0
    /\ subscriptions' = Del(subscriptions, entry)

\* unsubscribed: by its holder or by shutdown
Unsubscribed(f) == f # entry \/ shutdownStarted

\* Faulty LookupReturns: an unsubscription meanwhile goes unseen.
LookupReturnsUnchecked(f) ==
    /\ f \in lookups /\ ~refusing
    /\ lookups' = lookups \ {f}
    /\ \/ idKnown' = TRUE /\ Subscribe(f, cursor, joinedUpTo)
       \/ UNCHANGED <<idKnown, subscriptions>>
    /\ UNCHANGED <<breakerVars, kind, sessionVars, shutdownStarted, calls, backendVars, cursor,
                   feedsOpened, entry, joinedUpTo, passed>>

\* subscribeChannelMessages, when the id of the channel has been looked up
LookupReturns(f) ==
    /\ f \in lookups /\ ~refusing
    /\ lookups' = lookups \ {f}
    /\ \/ /\ idKnown' = TRUE
          /\ IF Unsubscribed(f) THEN UNCHANGED subscriptions
                                ELSE Subscribe(f, cursor, joinedUpTo)
       \/ UNCHANGED <<idKnown, subscriptions>>
    /\ UNCHANGED <<breakerVars, kind, sessionVars, shutdownStarted, calls, backendVars, cursor,
                   feedsOpened, entry, joinedUpTo, passed>>

\* The feed stays closed, its entry in the holder's map.
LookupFails(f, err) ==
    /\ f \in lookups
    /\ lookups' = lookups \ {f}
    /\ Recorded(err)
    /\ UNCHANGED <<kind, sessionVars, shutdownStarted, calls, backendVars, cursorVars,
                   feedsOpened, entry, subscriptions, joinedUpTo, passed>>

\* resolveChannelId, on behalf of a reader of the channel's history
ChannelResolved ==
    /\ kind = "channel" /\ ~idKnown /\ ~refusing
    /\ idKnown' = TRUE
    /\ UNCHANGED <<breakerVars, kind, sessionVars, shutdownStarted, calls, backendVars, cursor, feedVars>>

-----------------------------------------------------------------------------
(* Joining and leaving *)

Call(slot, op) ==
    /\ slot \notin DOMAIN calls
    /\ calls' = Put(calls, slot, [op |-> op, handled |-> FALSE, upTo |-> 0])

InFlight(slot, op, handled) ==
    slot \in DOMAIN calls /\ calls[slot].op = op /\ calls[slot].handled = handled

Ready == enabled /\ sessionId # NoSession

\* joinChannel, joinTopic, leaveChannel, leaveTopic: the mutation is sent
JoinOrLeave(slot, op) ==
    /\ Ready
    /\ Call(slot, op)
    /\ UNCHANGED <<breakerVars, kind, sessionVars, shutdownStarted, backendVars, cursorVars, feedVars>>

\* They return at once when the transport is not ready, and their caller
\* goes on to open or close the feed.
JoinSkipped ==
    /\ ~Ready /\ entry = 0
    /\ Open(cursor, idKnown, joinedUpTo, enabled)
    /\ UNCHANGED <<breakerVars, kind, sessionVars, shutdownStarted, calls, backendVars,
                   cursorVars, joinedUpTo, passed>>

LeaveSkipped ==
    /\ ~Ready /\ entry # 0
    /\ Unsubscribe
    /\ UNCHANGED <<breakerVars, kind, sessionVars, shutdownStarted, calls, backendVars,
                   cursorVars, feedsOpened, lookups, joinedUpTo, passed>>

\* The deployment has joined the session: the reply tells the time of the
\* last row, or has the rows.
BackendJoins(slot) ==
    /\ InFlight(slot, "join", FALSE) /\ ~refusing
    /\ calls' = [calls EXCEPT ![slot].handled = TRUE, ![slot].upTo = Len(rows)]
    /\ UNCHANGED <<breakerVars, kind, sessionVars, shutdownStarted, backendVars, cursorVars, feedVars>>

\* joinChannel moves the cursor, joinTopic leaves that to primeTopicCursor,
\* which is called when there is no feed yet.
Primes == kind = "channel" \/ entry = 0

\* Faulty Joined: the cursor is set when the reply arrives.
JoinedAtReply(slot) ==
    /\ InFlight(slot, "join", TRUE)
    /\ idKnown' = (idKnown \/ kind = "channel")
    /\ cursor' = IF Primes THEN Later(cursor, TsOf(Len(rows))) ELSE cursor
    /\ joinedUpTo' = IF Primes THEN Later(joinedUpTo, calls[slot].upTo) ELSE joinedUpTo
    /\ EnsureSubscription(cursor', idKnown', joinedUpTo', enabled)
    /\ calls' = Del(calls, slot)
    /\ UNCHANGED <<breakerVars, kind, sessionVars, shutdownStarted, backendVars, passed>>

\* Faulty Joined: the cursor is not set.
JoinedUnprimed(slot) ==
    /\ InFlight(slot, "join", TRUE)
    /\ idKnown' = (idKnown \/ kind = "channel")
    /\ joinedUpTo' = IF Primes THEN Later(joinedUpTo, calls[slot].upTo) ELSE joinedUpTo
    /\ EnsureSubscription(cursor, idKnown', joinedUpTo', enabled)
    /\ calls' = Del(calls, slot)
    /\ UNCHANGED <<breakerVars, kind, sessionVars, shutdownStarted, backendVars, cursor, passed>>

\* A topic that was joined; one that the session creates is primed with its own
\* clock instead.
Joined(slot) ==
    /\ InFlight(slot, "join", TRUE)
    /\ idKnown' = (idKnown \/ kind = "channel")
    /\ cursor' = IF Primes THEN Later(cursor, TsOf(calls[slot].upTo)) ELSE cursor
    /\ joinedUpTo' = IF Primes THEN Later(joinedUpTo, calls[slot].upTo) ELSE joinedUpTo
    /\ EnsureSubscription(cursor', idKnown', joinedUpTo', enabled)
    /\ calls' = Del(calls, slot)
    /\ UNCHANGED <<breakerVars, kind, sessionVars, shutdownStarted, backendVars, passed>>

\* The error is recorded and swallowed, and the caller opens the feed.
JoinFails(slot, err) ==
    /\ slot \in DOMAIN calls /\ calls[slot].op = "join"
    /\ Recorded(err)
    /\ EnsureSubscription(cursor, idKnown, joinedUpTo, enabled')
    /\ calls' = Del(calls, slot)
    /\ UNCHANGED <<kind, sessionVars, shutdownStarted, backendVars, cursorVars, joinedUpTo, passed>>

\* The feed is closed whether or not the request failed.
LeaveReturns(slot) ==
    /\ slot \in DOMAIN calls /\ calls[slot].op = "leave"
    /\ \/ ~refusing /\ UNCHANGED breakerVars
       \/ \E err \in Errors : Recorded(err)
    /\ Unsubscribe
    /\ calls' = Del(calls, slot)
    /\ UNCHANGED <<kind, sessionVars, shutdownStarted, backendVars, cursorVars,
                   feedsOpened, lookups, joinedUpTo, passed>>

-----------------------------------------------------------------------------
(* The feed *)

\* Somebody posts a row; times may be equal.  Rows that a deployment which
\* refuses the session gets make no difference to it.
PostRow(from) ==
    /\ Len(rows) < MaxRows /\ ~refusing
    /\ \E ts \in {TsOf(Len(rows)), TsOf(Len(rows)) + 1} \ {0} :
        rows' = Append(rows, [ts |-> ts, from |-> from])
    /\ UNCHANGED <<breakerVars, kind, sessionVars, shutdownStarted, calls, refusing, cursorVars, feedVars>>

\* BoundedIdSet.add
AddBounded(seen, i) ==
    LET ids == Append(seen, i) IN
    IF Len(ids) > DEDUP_CAPACITY THEN Tail(ids) ELSE ids

\* One row in the callback's loop: a row not seen is remembered, moves the
\* cursor, and is passed on unless it is the session's own.
Row(f, acc, i) ==
    IF rows[i].ts <= subscriptions[f].sinceTs \/ i \in Range(acc.seen) THEN acc
    ELSE [seen |-> AddBounded(acc.seen, i),
          cursor |-> Later(acc.cursor, rows[i].ts),
          passed |-> IF rows[i].from = subscriptions[f].ownSessionId
                     THEN acc.passed ELSE Append(acc.passed, i)]

\* The loop of the callback over the query's result, oldest first; the rows up
\* to sinceTs are not in it.
Receive(f) ==
    LET loop[i \in 0 .. Len(rows)] ==
            IF i = 0
            THEN [seen |-> subscriptions[f].seen, cursor |-> cursor, passed |-> passed]
            ELSE Row(f, loop[i - 1], i)
    IN loop[Len(rows)]

\* The client calls onUpdate: the query's result has changed.
Update(f) ==
    /\ f \in DOMAIN subscriptions /\ ~refusing
    /\ \E i \in subscriptions[f].upTo + 1 .. Len(rows) : rows[i].ts > subscriptions[f].sinceTs
    /\ subscriptions' = [subscriptions EXCEPT ![f].seen = Receive(f).seen, ![f].upTo = Len(rows)]
    /\ cursor' = Receive(f).cursor
    /\ passed' = Receive(f).passed
    /\ UNCHANGED <<breakerVars, kind, sessionVars, shutdownStarted, calls, backendVars, idKnown,
                   feedsOpened, entry, lookups, joinedUpTo>>

SubscriptionFails(f, err) ==
    /\ f \in DOMAIN subscriptions
    /\ registerSubscriptionFailure(err)
    /\ UNCHANGED <<kind, sessionVars, shutdownStarted, calls, backendVars, cursorVars, feedVars>>

-----------------------------------------------------------------------------
(* Shutdown and the environment *)

\* shutdown, up to client.close(): nothing in flight is cancelled
Shutdown ==
    /\ ~shutdownStarted
    /\ shutdownStarted' = TRUE
    /\ enabled' = FALSE
    /\ heartbeatTimer' = FALSE
    /\ subscriptions' = EmptyMap
    /\ UNCHANGED <<recentFailures, now, failures, fatal, kind, sessionId, introducing, beating,
                   calls, backendVars, cursorVars, feedsOpened, entry, lookups, joinedUpTo, passed>>

\* The function is gone, or the credentials are, for good.
Refuse ==
    /\ ~refusing
    /\ refusing' = TRUE
    /\ UNCHANGED <<breakerVars, kind, sessionVars, shutdownStarted, calls, rows, cursorVars, feedVars>>

Next ==
    \/ Introduce \/ (\E id \in SessionIds : Introduced(id))
    \/ SendHeartbeat \/ HeartbeatReturns
    \/ \E err \in Errors :
        \/ IntroduceFails(err) \/ CallFails(err)
        \/ \E slot \in Slots : JoinFails(slot, err)
        \/ \E f \in lookups : LookupFails(f, err)
        \/ \E f \in DOMAIN subscriptions : SubscriptionFails(f, err)
    \/ \E slot \in Slots :
        \/ JoinOrLeave(slot, "join") \/ JoinOrLeave(slot, "leave")
        \/ BackendJoins(slot) \/ Joined(slot) \/ LeaveReturns(slot)
    \/ JoinSkipped \/ LeaveSkipped \/ ChannelResolved
    \/ \E f \in lookups : LookupReturns(f)
    \/ \E f \in DOMAIN subscriptions : Update(f)
    \/ \E from \in {Peer, sessionId} \ {NoSession} : PostRow(from)
    \/ Shutdown \/ Refuse
    \/ enabled /\ Tick /\ UNCHANGED <<kind, sessionVars, shutdownStarted, calls, backendVars, cursorVars, feedVars>>

\* The interval fires while it is set, and a heartbeat is answered or fails.
Fairness == WF_vars(SendHeartbeat) /\ WF_vars(HeartbeatReturns)

Spec == Init /\ [][Next]_vars /\ Fairness

-----------------------------------------------------------------------------
(* Properties *)

\* The policy of registerFailure, over the whole history of failures: the
\* transport is off exactly if it was shut down, or met an error that says so
\* at once, or DEGRADATION_THRESHOLD failures within one DEGRADATION_WINDOW,
\* however late they came and whatever else failed in between.
BreakerExact == enabled <=> ~shutdownStarted /\ ~Cause

\* No callback is live that nobody can stop: a feed at the client is the one
\* in its holder's map, and none survives shutdown or is opened after it, even
\* if the lookup of its channel returns later.
FeedsOwned ==
    /\ DOMAIN subscriptions \subseteq {entry}
    /\ shutdownStarted => subscriptions = EmptyMap

\* An open feed that has caught up has passed every row posted since the
\* holder joined, but its own and, the cursor being exclusive, those that are
\* not after the cursor and have the very time of an earlier row: nothing
\* falls between the join, its reply, the lookup and the subscription, or
\* between two feeds.
NothingSkipped ==
    \A f \in DOMAIN subscriptions :
        LET s == subscriptions[f] IN
        \A i \in s.after + 1 .. s.upTo :
            \/ i \in Range(passed)
            \/ rows[i].from # Peer
            \/ rows[i].ts <= s.sinceTs /\ \E j \in 1 .. i - 1 : rows[j].ts = rows[i].ts

\* The feed keeps its contract: rows in the order they were posted, none
\* twice, even over several feeds, and none of the history of the join.
Contract == INSTANCE FeedContract WITH
    posted <- Len(rows),
    shown <- IF entry \in DOMAIN subscriptions THEN subscriptions[entry].after ELSE 0,
    inbox <- passed

FeedSpec == Contract!Spec

\* remote.ts: the heartbeat "is often the ONLY remote call a long-lived,
\* mostly-idle session makes"; by it alone a deployment that refuses the
\* session is noticed.
DeadBackendNoticed == refusing /\ heartbeatTimer ~> ~enabled
=============================================================================
