# A verification project for cccollab

`cccollab` lets several Claude Code sessions talk to each other. Every session
runs one MCP server process (`src/mcp_server/src/server.ts`). Sessions of one
user share a local broker process (`broker.ts`) over HTTP on the loopback
interface; sessions of one organization share a remote Convex deployment. A
session subscribes to channels, and starts, joins, archives and leaves topics in
them, at any of its *locations* (`local`, or the name of a remote one).

This directory holds TLA+ modules translated from that source, TLC
configurations that check them on small instances, and proofs that TLAPS checks
for every value of the constants. Paths below are relative to
`src/mcp_server/src/`.

## 1. Inventory

| component | state | operations | talks to |
|---|---|---|---|
| **Broker** `broker.ts` | `sessions`, `channels`, `topics`, the set of SSE `clients` | the HTTP routes | sessions, by request and by SSE event |
| **Active context** `context.ts` | subscriptions (ordered), joined topics, active channel, active topic | `joinChannel`, `leaveChannel`, `setActiveChannel`, `joinTopic`, `leaveTopic`, `clearTopic` | called by the tools |
| **Channel and topic tools** `tools/channels.ts`, `tools/topics.ts` | none of their own | the MCP tools | context, transports, feeds |
| **Live feeds** `transport/attach.ts`, `server.ts:108` | unsubscribe functions by channel and by topic | `ensure...Subscription`, `teardown...Subscription` | remote transport |
| **Broker discovery** `server.ts:940`, `broker-discovery.ts` | rendezvous file, `broker.spawn.lock` | `ensureBroker`; start and stop of the broker | other MCP servers, through the file system |
| **Config lock** `config/save.ts:43` | `config.json.lock` | `acquireLock`, `releaseLock` | other MCP servers, through the file system |
| **Token refresh** `remote/client.ts`, `config/save.ts` | tokens in memory, tokens in the config file | `clerkAuthFetcher`, `saveLocationAuth` | Clerk, config lock |
| **Message bus** `message-bus.ts` | `dedupSeen`, the dedup window | `push` | listener, remote feeds |
| **Broker event listener** `broker-event-listener.ts` | SSE connections, reconnect timers | `connect`, `scheduleReconnect`, `processLocalEvent` | broker, bus, context |
| **Local transport** `transport/local.ts` | none | one request per method | broker |
| **Remote transport** `transport/remote.ts` | session id, heartbeat, error times, disabled flag, cursors, channel ids, feeds | the transport interface | Convex |
| **Transport router** `transport/router.ts` | location to transport | `register`, `unregister`, `get`, `enabled` | transports |
| **Attach and lazy attach** `transport/attach.ts`, `diagnostics.ts` | attempts in flight, failed attaches | `attachLocation`, `ensureLazyAttach` | router, transports, feeds, context |
| **Identity, location and organization tools** `tools/identity.ts`, `locations.ts`, `organizations.ts` | none of their own | `introduce`, `authenticate`, `whoami`, listings | attach, Clerk, config file |
| **History paging** `history-paging.ts` | none | `pageTopicHistory` | broker, tools |
| **Config resolution** `config/*.ts` | none | load, merge, resolve | files and environment |
| **Sign-in** `remote/auth-clerk.ts`, `loopback.ts` | none that lasts | PKCE exchange | Clerk |
| **Startup and shutdown** `server.ts` | the feeds and transports of the session | auto-subscribe, shutdown | all of the above |
| **Doctor, init, version checks**, `cctree`, plugin, website | none | one-shot commands | files |

What is hard, and what makes each part correct:

* **Broker.** One event loop, one handler per request, so no handler sees
  another half done. The hazard is in sequences: membership is kept twice
  (`sessions[s].channels` and `channels[c]`) and a third time, for topics, in
  `joinedSessions`, and three handlers update them by hand. Correct means that
  the three agree whatever was called before, that no empty channel lingers, that
  the history of a topic only grows, and that all SSE clients see one order of
  events, the order of history.
* **Context and tools.** The MCP server runs tool calls concurrently; each one
  tests the context, awaits a backend, then changes the context. What was tested
  may be stale. Correct means that the context keeps its own rules (one active
  channel exactly while subscribed, topics only in subscribed channels), that
  live feeds match it, and that a client which waits for each result ends up in
  agreement with the backends.
* **Discovery.** Several processes start at once and share two files, with
  `wx` creation as the only atomic operation. Correct means one broker, everybody
  on it, nobody polling forever, no lock left behind.
* **Config lock and token refresh.** Refresh tokens are single-use and shared by
  all processes of a user; the lock is a file with an age and a pid; the holder
  awaits the network while holding it; waiters block their whole event loop.
  Correct means mutual exclusion, no spent token sent, no lost update of the
  file, and calls that end whatever is killed or lost.

* **Delivery.** SSE connections break, and a reset schedules two reconnects; the
  filters read subscriptions that change while events are under way; the bus
  tells events apart by sender, place, text and second. Correct means that what
  arrives and is wanted is neither dropped nor shown twice, and that the listener
  is connected again.
* **Remote transport.** Joins, lookups and introductions answer late, in any order,
  or not at all; a feed is opened before the id of its channel is known, and may be
  closed, or the transport shut down, before that comes back. Three failures in a minute
  switch the transport off for good. Correct means that the switch follows that policy
  over the whole history of failures, that no callback stays registered that nobody
  can stop, and that a feed neither skips, repeats nor reorders rows.
* **Attach.** Startup, tools that attach on demand, `authenticate` and `introduce`
  all touch the one transport of a location, and `attachLocation` awaits up to six
  times. Correct means that the router never holds a dead transport, that none is
  lost without being shut down, that feeds move with the transport, and that a
  dead remote costs one attempt and is reported.
* **Config resolution.** Pure, but a cascade over three levels, two files, a default
  and the environment: correct means at most one focus, whatever the order of keys.
* **History paging.** The cursor is a time, times are not unique, and others post
  between two pages. Correct means that pages put together are the history.

The line-by-line list of hazards, those without a property yet included, is in
`PROJECT.json`.

## 2. Modules

| module | models |
|---|---|
| `Maps` | JavaScript `Map` values as functions with a changing domain |
| `Broker` | `broker.ts`: one action per state-changing route, the SSE fan-out |
| `BrokerProofs` | its maps, streams and histories, proved |
| `ActiveContext` | `context.ts`: one action per mutator, and `ContextSpec`, their free use |
| `SessionTools` | the tools of one session against the backends; extends `ActiveContext` |
| `SessionToolsProofs` | the inductive invariant of the context, and the safety invariants of the tools, proved |
| `EnsureBroker` | `ensureBroker` in several processes, the broker's start and end |
| `EnsureBrokerProofs` | one broker as long as nothing fails, proved |
| `ConfigLock` | `acquireLock`, `releaseLock`, one action per file operation |
| `TokenRefresh` | the auth fetchers and sign-ins of several processes; extends `ConfigLock` |
| `TokenRefreshProofs` | the safety of lock, file and refreshes, proved under named hypotheses |
| `Delivery` | `broker-event-listener.ts` and `message-bus.ts`: connections, filters, dedup window |
| `DeliveryProofs` | that nothing wanted is dropped and nothing passes twice, proved |
| `HistoryPaging` | `history-paging.ts` and a reader that follows the cursor |
| `CircuitBreaker` | the degradation policy: `registerFailure`, `registerSubscriptionFailure` |
| `FeedContract` | abstract specification: what a live feed promises |
| `RemoteTransport` | one remote transport with one feed; extends `CircuitBreaker` and implements `FeedContract` |
| `RemoteTransportProofs` | its safety invariants and that refinement, proved |
| `ConfigActive` | merge, defaults, environment and the cascade of `active` flags, as operators |
| `PureLogicProofs` | what the cascade guarantees, and that pages are exact, proved |
| `Attach` | `attachLocation`, `ensureLazyAttach`, the router, and the tools that call them; starts from what `ConfigActive` resolves |
| `AttachProofs` | its safety invariants, proved |
| `MCBroker`, `MCSessionTools`, `MCEnsureBroker`, `MCTokenRefresh` | values of the constants for TLC |

`SessionTools`, `RemoteTransport` and `Attach` look at the same tools from three
sides: many channels and topics on transports that stay, one feed inside one
transport, one channel while transports are replaced.

A definition whose comment begins with "Faulty" is a variant with a plausible bug;
nothing uses it. `PROJECT.json` pairs each with the property it would break when put
in place of the original.

How state and actions correspond to the code:

* **`Broker`.** `sessions`, `channels`, `topics` and `clients` are the four
  collections of the module scope. A handler runs without interruption after it
  has read the body, so it is one action, `broadcast` included: `PostMessage`
  appends to the history and to every stream in one step. A rejected request
  changes nothing and is not a step. In `Broadcast` any subset of the clients may
  fail while it is written to; the code drops those from the set and goes on.
  `RelayEvent` is `POST /local-event`, which writes a caller's object to everyone as it
  is, a message of a topic included, and stores nothing; no code of the repository posts
  one. A stream remembers, for the properties only, who made each event.
* **`ActiveContext`.** `subscribed` is a sequence because the code relies on the
  insertion order of a `Map` when it picks the next active channel.
* **`SessionTools`.** A call is a record in `calls` with the phase it is
  suspended in: `lookup` and `found` around `resolveTopicIdInSubscribedChannels`,
  `request` and `reply` around the transport call. The `Call...` actions are a
  tool up to its first await, the `Backend...` actions the broker or Convex, the
  `Reply...` actions a tool after its await. `Refused` and `Lost` are the error
  paths: the local transport throws, and the remote one swallows every error but
  that of `createTopic`, so the tool goes on as if it had succeeded
  (`FailSilently`). A remote transport that has no session, or was disabled after the
  tool took it from the router (`Send`), does not even send: the call goes straight to
  `reply` (`PhaseAt`), and `unsent` remembers the channel. `standing` is what the
  transports are, `TransportChanges` how `introduce` and failures change it.
  The `Backend...` actions are mapped to the broker's handlers; the deployment's own code
  is not in the repository, and its gates are taken to be the same.
  `PeerCreate` and `PeerToggle` are other sessions.
* **`EnsureBroker`.** `pc` says at which file operation or probe a process is;
  the names follow the source from top to bottom. `lockStale` abstracts the age
  of the lock file, `Timeout` the 10 s deadline of the polling loops.
* **`ConfigLock`, `TokenRefresh`.** A caller is the fetcher of one location in one
  process. `At(c, step)` says that no other caller of the process is in a
  synchronous stretch, because `Atomics.wait` stops the event loop.
  Tokens are numbered by grant; `unspent` is what Clerk still honours. The
  config file is `disk`, and `snapshot` is what a caller read of it before it
  renames a new file over it.
* **`Delivery`.** `conns` holds, for each open SSE connection, the events written
  to it and not yet read; `timers` counts the pending reconnect timeouts, which
  the code does not hold on to. `processLocalEvent` is everything that happens for
  one `data:` line up to the call of `mcp.notification`, since no `await` before
  that suspends. `Deliverable` is the filters, `Wanted` what the session asked
  for. `owed` remembers the events a session has wanted from their sending on.
* **`RemoteTransport`, `CircuitBreaker`.** `kind` chooses between a channel and a topic,
  whose feeds differ in three places: the lookup of the id, the dedup set, and who
  sets the cursor. A row is its sender and its time; times do not decrease and may
  repeat. `Call`, `Joined` and `JoinFails` are a join up to its await and after it;
  `lookups` are the feeds whose channel id is under way, `subscriptions` those at
  the Convex client with the last row they were called with. `CallError` is how a
  call may fail, `Recorded` what `registerFailure` makes of it; `recentFailures` is the
  array the code keeps, `failures` the whole history it must agree with.
* **`FeedContract`.** Three steps: a row is posted, the session joins and is given
  rows up to some point, the session is handed later rows in order. The mapping is
  in `RemoteTransport` (`Contract`).
* **`Attach`.** An attempt and the transport it makes have one number; `pc` names
  the await it is at. `Start` is `attachLocation` up to `introduce`, `TakeOver` what follows
  in one stretch: the prior transport leaves the router and its feeds are closed.
  `calls` are the tool calls in flight; `authenticate` attaches past the map `inflight`
  of the lazy attaches, as in the code. `feed` is the entry in
  `remoteChannelUnsubscribes`, with the transport it was opened on.
* **`ConfigActive`.** A configuration is reduced to the locations it names, which
  have a url and tokens, the channels they list, and the flags that are true and
  false. `Throws` collects the four errors of `resolveActive`, whose order does not
  matter for what is active. `last` is the topic candidate that pass 1 ends with, any
  of those with a flag, since it depends on the order of keys.
* **`HistoryPaging`.** `Read` is one page; `messages` belongs to the broker, `before`
  and `hasMore` to the reader. `Start` is the loop that grows a page until it does
  not split a group of equal times.

## 3. Runs

| run | question | bounds |
|---|---|---|
| `Broker` | do the maps agree after any sequence of requests, and do SSE clients see the order of history, whatever is relayed besides? | 2 sessions, 2 channels, one in two spellings, a blank name, 1 topic, 2 messages, 2 SSE connections, 2 events per stream |
| `SessionTools` | do context and feeds stay consistent when two calls overlap? do session and backends agree, but for what was lost or never sent? | 2 slots, 1 while the remote transport is not ready, one name at 2 locations, a blank name, 1 topic, 1 fault |
| `RemoteTransport` | is the switch right, does a feed keep its contract, is a dead deployment noticed? | a channel or a topic, 2 feeds, 2 rows, 1 join or leave in flight, threshold 2, window 0 of 2 ticks, dedup capacity 2 |
| `Attach` | do router, feeds, failures and sessions at the deployment fit together? | 3 attempts, 2 calls in flight, 2 config files, 1 configured channel |
| `EnsureBroker_fresh` | one broker, everybody connected, lock released | 3 processes, no file, no failure |
| `EnsureBroker_failures` | does every call return? | 2 processes, stale file, 1 kill, 1 dead broker, slow starts, tsx that may be missing |
| `EnsureBroker_stale` | is there one broker? *No* | 2 processes, stale file, no failure |
| `TokenRefresh_safety` | mutual exclusion, no lost update, no spent token sent | 2 processes with 2 locations each, 1 kill, 2 grants each, 1 of which expires |
| `TokenRefresh_failures` | does every call end? is the lock of a slow holder left alone? | 2 processes, 1 kill, slow holders, 1 lost request or failed write |
| `TokenRefresh_spent` | is a spent token ever sent? *Yes* | 2 processes, 3 grants, 2 of which expire |
| `Delivery` | is anything that is wanted dropped, or shown twice? does the listener come back? | 2 connections, 1 topic, 2 texts, 2 events, a dedup cache of 1, 2 s with a window of 2 s, 1 fault |
| `HistoryPaging` | do pages add up to the history? | 6 messages at 4 times, limits below, between and above 1 and the maximum 3 |

Why the bounds are enough. Each is the smallest at which the case the property
is about can arise, and mostly one more. Two sessions are needed for a member to
stay while another leaves; two SSE clients for one to fail while the other must get
the event, and streams of two events for an order. One topic is enough for what the
properties of `Broker` relate; a name that is taken again (section 5, item 3) needs two,
and no property is about it. Two
calls in flight give every pair of tools in every interleaving, and a third would
act on the same state at the same awaits. While the remote transport has no session or
is disabled, one call is followed at a time (`AloneUnlessReady`, a constraint of the run
and not of the proofs): what is new there is a call that finds the transport changed
under way, or returns at once. Three processes give a
holder and two waiters. Two locations in each of two processes give every
sharing there is: of a lock between processes, of an event loop between
locations, of a file between both. Two connections are what one reset leaves; two
events and a cache of one give a collision of keys, a duplicate and an eviction.
Two feeds one after the other are what leaving and joining again gives, and the second may
be opened while the lookup of the first is still under way; two rows are one before and
one after the join, or two of one time; with a window of one tick a failure can be in
it or out of it. Three attempts are a transport, the one
that replaces it, and one more that overlaps with both; with two calls each pair
of tools meets at each await.
Six messages are two pages of the largest size, or three of the default one. Bounds on
grants, faults and kills cap otherwise endless behaviour and are stated as constants.

Deadlock is not checked in the runs of `EnsureBroker`, `TokenRefresh`, `Delivery`,
`HistoryPaging`, `RemoteTransport` and `Attach`: when all calls have ended, or the bound
on grants, events, messages, feeds or attempts is reached, nothing more happens.

**Properties.**
`MembershipInv` relates the three maps of the broker;
`StreamsAgree`, `HistoryIsStream` and `TopicsAppendOnly` relate streams, history and
their past. `HistoryIsStream` is about what the broker itself wrote of a topic, since a
connection was opened: what a caller relays may say anything.
`ContextInv`, `ChannelFeedsMatch` and `JoinedHaveFeeds` are the consistency of a session
while calls overlap. `BackendAgrees` is the agreement of a session with its backends:
each channel they differ in needs a lost request or reply of its own, or its last join
or leave was never sent (`unsent`), by a transport without a session or one disabled
meanwhile. Channels about which calls overlapped are excepted, for which the code
promises no order.
`BreakerExact` compares the switch with the policy over all failures there ever
were. `FeedsOwned` says that a callback at the client can be stopped by whoever holds
its entry, and that none outlives shutdown. `NothingSkipped` is the completeness of a
feed, `FeedSpec` its soundness, as a refinement of `FeedContract`.
`DeadBackendNoticed` is liveness: with the heartbeat as the only call, a deployment
that refuses the session switches the transport off.
`RouterHealthy`, `NoOrphan` and `LossShown` follow a transport from its making to its end,
`FeedsLive` the feed of the configured channel through every replacement, `TriedOnce`
the promise that tools try a dead remote once, and `Known` that a session with a name
is known where it is attached. Where the code does less, the exception is named in the
property (`strayed`, `unintroduced`, an attempt that `"threw"`) and listed in section 5.
`OneBroker` is the safety of discovery,
`EveryoneConnected`, `Returns` and `LockReleased` its liveness.
`MutualExclusion` and `SlowHolderKept` are the lock's; `NoTokenSentTwice`,
`FileUsable` and `CallsEnd` the refresh's. `NoTokenSentTwice` and `FileUsable` allow one
exception that single-use tokens make unavoidable: a process killed between the grant
and the rename takes the token with it. `NoTokenSentTwice` allows a second one, which
section 5 describes: a sign-in saved an older grant over a newer (`rewound`).
`SlowHolderKept` is checked where holders are slow: no waiter unlinks the lock of a live
process on what it saw of that lock, its age and its pid. It may unlink a live one's
when the lock that it had found old was unlinked by somebody else since (`replaced`;
section 5, items 4 and 5), which is the gap between the test and the `unlink`.
`Returns` is weak on purpose: it accepts that a call ends with an error, since the code
promises no more of a call that meets a lock not yet old. `MutualExclusion` has two
processes in its run; the case of item 4 needs three.
`NothingDropped` and `PassesOnce` are the two sides of the dedup key: too coarse, it
drops what is new; too fine, it passes what is old. `Reconnects` is the listener's
liveness. `PagesExact`, `PageIsFull` and `ReadsAll` say that paging loses nothing,
asks for no needless page, and ends.

**Fairness.** `EnsureBroker!Fairness`: each process keeps taking its steps (weak
fairness: the operating system runs it), a spawned broker comes up or dies, and
the deadline of a polling loop passes (strong fairness: between two polls the
timeout is not enabled, yet the code tests it on every turn). Nothing is assumed
about kills, ageing locks or lost requests.
`TokenRefresh!Fairness`: strong fairness of each caller's step, since it is
enabled only while no other caller holds the event loop of the process, and
loops hand control on in turn; and of its timeout. `Delivery!Fairness`: weak fairness of the reading of each connection and of a
pending reconnect, because Node reads its sockets and fires its timers and the
broker is up. `HistoryPaging!Fairness`: the reader goes on while there is more.
`RemoteTransport!Fairness`: the interval timer of the heartbeat fires and its call is
answered or fails, and nothing else is fair: neither a tool call nor a late answer
is needed to notice that the deployment is gone.
Runs with safety properties
alone check `Spec` without fairness.
In `EnsureBroker_fresh` and `TokenRefresh_failures` the constant `Timely` is
TRUE: a wait runs out only when what it waits for cannot come. Otherwise
`EveryoneConnected` would be false for any machine that is slow enough, and
`CallsEnd` would hold because of timeouts alone. In `EnsureBroker_failures` and
`TokenRefresh_safety` it is FALSE and a wait may run out at any time.

## 4. Proofs

All leaves are checked by TLAPS, for any numbers of sessions, processes, names, topics,
clients, feeds, attempts and calls, and for any bounds. `PROJECT.json` lists the
theorems. Each inductive invariant was checked by TLC first.

**Broker** (`BrokerProofs`).
`MembershipInv == TypeOK /\ MembershipMirror /\ NoEmptyChannel /\ JoinedAreMembers` is
inductive as a whole and its parts are not: that joined sessions are members survives
`LeaveChannel` only because the handler removes the session from the topics of exactly
the channels the mirror says it was in, and no channel is left empty only because
removing a member and the mirror agree on who was the last one. There is one lemma per
handler; `LeaveChannel` and `DeleteSession` share `WithoutInv`, which is about
`leaveChannel` in the source. For streams and histories every step but `PostMessage` is shown to be a
`QuietStep`, which keeps the messages of all topics and writes none of the broker's own
on a stream; events that sessions post and the broker relays are among them. `HistoryIsStream`
needs `SinceInPast` (no connection was opened at a point of a history beyond its end). What
`MessagesOn` finds on a stream one event longer is an induction along the stream.

**Session** (`SessionToolsProofs`). The work in the part about the context is
`WithoutLemma`: deleting a key from a repetition-free sequence removes that key, no
other, and creates no repetition. Every step of a tool is an operation of the context or
leaves it alone, so `ContextInv` holds while tools overlap. The feeds match
the context because a reply changes both without an await in between.
`BackendAgrees` speaks of states with no call in flight and is not inductive; `Owed`
is the set of channels on which the two will differ once the replies under way have
arrived, those aside whose last join or leave was never sent (`unsent`), and a step adds a channel to it only if a message is lost
(`Cardinality(Owed) <= faults`). `OneCallEach` is needed for it: with two calls about one
channel the debt of one could be hidden by the other, which is what `raced` excepts.

**Remote transport** (`RemoteTransportProofs`).
`BreakerExact` compares the code's array of recent failures with all failures there ever
were. It needs `RecentAreLast` (the array is the end of the history and what was
dropped is out of the window) and `FailuresOrdered` (time does not run backwards).
`FeedsOwned` is inductive with the types of the feeds. For the feed contract and
`NothingSkipped` the invariant says what the cursor knows of the rows (`CursorOK`), what
has been passed (`PassedOK`) and what an open feed has seen (`SubOK`); the callback's loop
over the rows is a recursive function, and `LoopStep` is its step. The first form of
`NothingSkipped` was too strong: with four rows, two of one time, the exclusive cursor
cuts off one more than it allowed, which two rows in a run do not show. The proof
attempt found that and the property now says so.

**Attach** (`AttachProofs`). `CoreInv` is about attempts and router alone.
`RouterHealthy` needs `PriorsLeft`: a transport that is being replaced has left the router.
`NoOrphan` speaks of transports whose attempt is over; `Owned` says the same of every
transport from its registration on, and that is what is preserved. Around it are
`TriedInv`, `LossInv`, `FeedInv` and `KnownInv`, one for each of the other properties; the
last needs that tools call only a session that has a name (`NamedFirst`).

**Discovery** (`EnsureBrokerProofs`). `NothingFails /\ Spec => []OneBroker`: no stale
file, no kill, no dead broker, no late start. TLC finds two brokers when any of the
four is dropped. `OneBroker` is inductive only with who may spawn: the holder of the lock
is the one between making and unlinking it (`LockHeld`), the file names a broker that is
up (`FileIsTrue`), and who has looked again and found nothing sees no broker anywhere
(`SpawnsAlone`), because whoever spawned one keeps the lock until the file names it.

**Config lock and tokens** (`TokenRefreshProofs`). The hypotheses are where the code's
promise ends, and TLC shows that it ends there.

* `LockHypothesis`: no live holder is slow, and there are no kills or at most two
  processes. Then `MutualExclusion` holds: a lock that is old belongs
  to a dead process, and so does the lock that a waiter is about to unlink
  (`ReapedIsDead`); with a third process somebody else may have unlinked that one and
  made a new one meanwhile (section 5).
* `SlowHolderKept` needs no hypothesis, for live holders may be as slow as they like. Its
  invariant `ReapInv` says that as long as the lock a waiter found old is still there, what
  the waiter read in it is its owner's pid, and that it goes on to unlink only where that
  process is dead.
* `FileHypothesis`: moreover no request is lost and no write fails. Then `FileUsable`
  holds. The invariant follows each grant from the issuer to the file: what a caller
  brings is honoured and later than what is there (`RefreshIsNewest`), the grant of a
  sign-in is nobody else's (`SignInIsOwn`), and the file's own is honoured, replaced or
  lost with its process (`DiskIsGood`).
* `SentSpentOnlyIfExpiredCorrect` says, for any number of expiries, that
  section 5, item 2, and the two exceptions in the property are the only ways to send a
  spent token; with at most one expiry that is `NoTokenSentTwice`. The proof
  failed at first: a late sign-in that rewinds the file was missing (section 5, item 24).

**Configuration** (`PureLogicProofs`), for any sets of locations, channels and
topics. `TopicCascades`: a configuration that resolves has at most one active topic in
all, and topic, channel and location are nested, so that the order of keys, on which the
candidate of pass 1 depends, makes no difference. It goes through the channels: the
topic makes its channel active, that its location, and with at most one of each a second
topic would be in the same channel, which is refused. `FocusIsNested` is the same
without a topic. `EnvironmentDecides` and `DefaultsAreInactive`: `CCCOLLAB_REMOTE_URL`
overrides every flag at every depth, and the hosted default changes nothing that is
active. `RivalFocusThrows` is a consequence few would expect, see section 5.

**Paging** (`PureLogicProofs`), for any limits, and any number of messages with one time.
`PagesExact` says that what the reader has is the end of the history as it was when the reading
began. It is inductive with `CursorExact`: the cursor is the time of the oldest message
the reader has, and every message left is *strictly* older, which is what the growing of a
page in `Start` is for. It rests on `Sorted` (the broker's clock does not run backwards),
and on that everything older than the cursor is a prefix of the history
(`OlderIsPrefix`). `Start` is the least index of a set of numbers, found by
`LeastNumber`; `PageIsFull` is a property of one page (`PageLemma`).

**Delivery** (`DeliveryProofs`), for any number of connections and events, any window and
any capacity of the cache. The difficulty is that the cache forgets, by age (`vacuum`)
and by number (`trimOldest`), so the invariant has to say what it still knows.

* `PassesOnce` needs `RemembersUnderWay`: an event that was accepted and is under way on
  another connection has a fresh entry, with at most as many entries behind it as were
  accepted since, or that many were accepted as the cache holds. `vacuum` does not remove
  it because nothing is under way for a whole window (`Prompt`, which is the guard
  of `Tick`), and `trimOldest` removes it only after the overflow that the property
  excepts. `PushLemma` says all that of one `push`; there is one lemma for each action.
* `NothingDropped` needs the converse, that every key in the cache is that of an event that
  passed (`CacheIsAccepted`), and that what is owed and under way is still wanted when it
  arrives (`OwedIsWanted`). It needs the hypothesis `NoticeIsNotSaid`: nobody posts the
  text of an archival notice. With that text among `Texts` TLC finds `NothingDropped`
  violated (section 5, item 26); without it, two events with one key have one type.

Assumptions: only the named ones in the modules, which TLC evaluates, and the hypotheses
`LockHypothesis`, `FileHypothesis`, `NothingFails` and `NoticeIsNotSaid`, which stand in the
theorems that need them. The library's
induction theorems take an operator as parameter, which the provers cannot instantiate;
where an induction is needed (the loop of a feed, the messages on a stream, the filters
of a page and of the cache) it is over
the *set* of numbers a fact holds of (`SetInduction`), which has a least counterexample
because the numbers are well founded.

Only model-checked is liveness (`Returns`, `EveryoneConnected`, `LockReleased`, `CallsEnd`,
`Reconnects`, `DeadBackendNoticed`, `ReadsAll`), which is out of the prover's reach: it
rests on fairness, and fairness on ENABLED. Every invariant and every action property
that a run checks is stated by a theorem, some of them under a hypothesis named above.

## 5. Where code and documentation disagree

Shown by a run of its own:

1. `EnsureBroker_stale`. A process that read a stale rendezvous file removes,
   after its probe failed, whatever file is there by then (`server.ts:956`). When
   a faster process has started a broker meanwhile, its file is lost and a second
   broker is spawned.
2. `TokenRefresh_spent`. A process that was idle while a peer refreshed, and while
   that grant ran out in turn, does not adopt the newer grant on disk because it
   is about to expire (`remote/client.ts:96`), and sends the refresh token it
   remembers, which the peer has spent.

Admitted by the models and visible in them, without a run:

3. Archive a topic, create another of the same name, unarchive the first:
   `POST /topics/:id/unarchive` (`broker.ts:545`) does not test the name, and the
   channel has two active topics of one name, though `transport/index.ts:176`
   describes a rejection.
4. With three processes in `TokenRefresh_safety` (one location each), two waiters
   may both decide to reap the lock of a killed third, and the slower one unlinks
   the lock that the faster one has just made (`config/save.ts:132`):
   `MutualExclusion` fails. With two it holds.
   That is why the theorems about the lock assume two processes or no kill.
5. Where holders may be slow, a lock that vanishes between `statSync` and
   `readFileSync` reads as no pid, which counts as dead (`config/save.ts:127`), and the
   waiter unlinks the lock that another live process has made meanwhile.
   `SlowHolderKept`, checked with slow holders, excepts that by name (`replaced`).
   With `Slow = TRUE` in `TokenRefresh_safety`, or with more grants than that run has,
   `MutualExclusion` fails as well.
6. Two fetchers of one process, for two locations: the second blocks the event
   loop that the first needs to release the lock, and throws after 5 s
   (`config/save.ts:155`), though `remote/client.ts:59` says that a failure
   returns null.
7. Leaving a channel that is not the active one drops its topics but keeps one of
   them active (`context.ts:75`); leaving a remote channel keeps the feeds of its
   topics open (`tools/channels.ts:233`).
8. A join that the remote backend refuses is recorded as a success, because the
   transport swallows the error (`transport/remote.ts:726`), though
   `tools/topics.ts:555` says that it surfaces.
9. The broker lets a session join an archived topic (`broker.ts:505`), though
   `tools/topics.ts:554` says that it does not.
10. Events of a local channel also reach a session that is subscribed only to a
    remote channel of the same name (`broker-event-listener.ts:140` asks without a
    location): `Deliverable` holds where `Wanted` does not.
11. An archival is stamped when it arrives (`broker-event-listener.ts:214`), so
    over two connections it passes the bus twice when a second begins between the
    arrivals.
12. A message whose notification failed is remembered as seen
    (`message-bus.ts:79`), so no second copy of it is shown.
13. The broker listens on a port of the system's choice and the listener keeps the
    URL it was given: after a restart of the broker it retries the old port.
14. "Attached at most once even under overlapping tool calls"
    (`transport/attach.ts:453`) does not cover `authenticate`, which attaches past the
    map of lazy attaches: an overlapping attempt finds the name taken, `register`
    throws, and its transport is left open and owned by nobody (`NoOrphan` excepts
    this). The promise of the attempt stays in the map when it is rejected, so
    later tools that wait for it are rejected too.
15. A join that answers after its transport was replaced opens its feed on the old
    one (`strayed` in `Attach`). The entry stays, no later call opens a live one, and
    the session does not hear that channel.
16. A replacement closes all feeds of the location and opens only those of the
    configured channels and topics again; channels joined by hand stay in the context
    without a feed, as do topics whose listing or creation fails meanwhile.
17. A location attached before the session has a name does not join its configured
    channels later, when the name is given.
18. `introduce` reaches the transports in the router; one that an attempt without a
    name is about to register is never introduced (`unintroduced`).
19. An `introduce` that is answered after `shutdown` sets the session id and starts
    the heartbeat timer of a transport that is closed. On an enabled transport,
    introducing again under a new id lets the session receive its own older rows.
20. A channel whose lookup fails or finds nothing keeps an entry without a feed; a
    feed opened on a disabled transport is an empty function in the map.
21. A topic joined while its history cannot be read has no cursor and receives the
    whole history as new; the cursor is exclusive, so a row with the very time of the
    last one read is skipped; a dedup set at its capacity forgets, and a row may be
    delivered again.
22. With several configured topics, the last one becomes the active topic, not the one
    the comment at `server.ts:245` speaks of; and a location attached on demand moves
    the active topic of a session that is at work elsewhere.
23. "The project value wins" (`config/merge.ts`) holds flag by flag: a project that
    activates a location other than the user's makes resolution throw, and the
    session does not start (`RivalFocusThrows`), unless the project also says
    `active: false` to the user's.
24. A sign-in gets its grant before it asks for the lock, and `saveLocationAuth`
    (`config/save.ts:190`) writes it without a look at the grant in the file. If others
    refresh the location while it waits, it puts the older grant back. Who holds a newer
    one keeps it, because `remote/client.ts:96` adopts only what expires later, and two
    of them send the same refresh token (`rewound` in `TokenRefresh`). TLC's example has
    three processes and four grants, more than `TokenRefresh_safety`; the proof of
    `NoTokenSentTwice` found it.
25. With any one of a stale file, a kill, a dead broker or a slow start there can be two
    brokers: the four parts of `NothingFails` in `EnsureBrokerProofs` are all needed.
26. The key of the bus has no type. The listener gives an archival the text "Topic archived"
    (`broker-event-listener.ts:213`), so a peer who archives a topic and says just that in
    it within the second is heard once: the later of the two is taken for a duplicate. The
    same goes for "Topic unarchived".
    `NoticeIsNotSaid` excludes it from the proof of `NothingDropped`; TLC finds it as soon as
    the text is among `Texts`.
27. A remote transport that has no session, or that is switched off after the tool took
    it from the router, answers a join or a leave at once (`transport/remote.ts:457`, 483,
    708, 734, 747, 760): nothing is sent, the tool updates its context as if it had been,
    and reports success. `BackendAgrees` excepts those channels by name (`unsent`).
28. A topic that the session creates is primed with the session's own clock
    (`transport/attach.ts:293`, `tools/topics.ts:342`), not with the time of a row: what others post in it
    first, within the difference of the clocks, is skipped.

## 6. Not modelled, and the plan

Not modelled, and why:

* Timestamps but for their order, wording, logging, objectives; requests the handlers
  reject; listing and reading tools, which change no state.
* The configured *topics* of a location in `attachLocation`, the auto-subscription of
  local channels at startup, and the shutdown sequence, after which the process
  exits: topics go the way of the channel in `Attach`, in the same stretch of code.
* In `RemoteTransport`: what calls return, the cache of topic ids, the
  acknowledged read cursor, which counts only for a later process, the priming of topics
  that the session creates itself (28), and a join reply that names no channel.
  `NothingSkipped` is about topics that are joined.
* In `ConfigActive`: how files are found, read and validated, the fields of the Clerk app
  pointer, `name` and `objective`.
* The PKCE exchange and the loopback listener (one-shot I/O); doctor, init and
  version checks (they read files and print); the `cctree` script, plugin files and
  website.
* A broker that restarts with nothing in it: no code repairs it, so there is no
  promise to state.

Bounds that hide something: in `RemoteTransport` the dedup capacity is at least the number of
rows, because an overflow redelivers (21); in `TokenRefresh_safety` there are two
processes (4).

What would come next: a model of the doctor and of the configured topics of a location
that is attached on demand, and the liveness of discovery with a prover that handles
fairness.
