------------------------------ MODULE Delivery ------------------------------
(***************************************************************************)
(* How an event reaches Claude: the SSE connection to the broker           *)
(* (src/mcp_server/src/broker-event-listener.ts), its filters, and the     *)
(* message bus with its dedup window (message-bus.ts), which the feeds of  *)
(* remote locations share.                                                 *)
(*                                                                         *)
(* There is one channel name, which the session may be subscribed to at    *)
(* the local and at a remote location.  The broker stays up: a new one     *)
(* would listen on another port, which this listener never learns.  A      *)
(* refused reconnect schedules the next one and changes nothing.  Time is  *)
(* counted in seconds.  stop() is left out: the process exits right after. *)
(* topic_created is filtered and sent like a broadcast, and                *)
(* topic_unarchived like topic_archived.                                   *)
(***************************************************************************)
EXTENDS Naturals, Sequences, Maps

CONSTANTS
    Conns,              \* SSE connections
    Topics,             \* local topics
    NoTopic,
    Texts,
    DedupWindow,        \* DEDUP_WINDOW_MS, in seconds
    MaxDedupEntries,    \* MAX_DEDUP_ENTRIES
    MaxEvents,          \* bound: events sent
    MaxTime,            \* bound: seconds
    MaxFaults           \* bound: broken connections and failed notifications

ASSUME DeliveryAssumption ==
    /\ Conns # {} /\ NoTopic \notin Topics
    /\ DedupWindow \in Nat \ {0} /\ MaxDedupEntries \in Nat \ {0}
    /\ MaxEvents \in Nat /\ MaxTime \in Nat /\ MaxFaults \in Nat

VARIABLES
    now,
    sent,           \* every event, in the order it was sent
    conns,          \* open connections, each with the events under way on it
    timers,         \* reconnect timeouts pending
    subscribed,     \* locations the channel is subscribed at
    joined,         \* joined local topics
    dedupSeen,      \* the dedup cache, in insertion order
    accepted,       \* events that passed the bus, and whether Claude saw them
    owed,           \* events sent to a listening session that wanted them ever since
    faults

busVars == <<dedupSeen, accepted>>
vars == <<now, sent, conns, timers, subscribed, joined, dedupSeen, accepted, owed, faults>>

Locations == {"local", "remote"}
Senders == {"me", "peer"}

Event ==
    [location: Locations, type: {"broadcast"}, sender: Senders, topic: {NoTopic},
     text: Texts, second: 0 .. MaxTime]
      \cup [location: {"local"}, type: {"message"}, sender: Senders, topic: Topics,
            text: Texts, second: 0 .. MaxTime]
      \cup [location: {"local"}, type: {"topic_archived"}, sender: Senders, topic: Topics,
            text: {"Topic archived"}, second: 0 .. MaxTime]

Numbers == 1 .. MaxEvents

Key == Senders \X (Topics \cup {NoTopic}) \X (0 .. MaxTime) \X (Texts \cup {"Topic archived"})

\* Types; the dedup cache stays within its cap.
TypeOK ==
    /\ now \in 0 .. MaxTime
    /\ sent \in Seq(Event) /\ Len(sent) <= MaxEvents
    /\ IsMap(conns, Conns, Seq(Numbers))
    /\ timers \in Nat
    /\ subscribed \subseteq Locations /\ joined \subseteq Topics
    /\ dedupSeen \in Seq([key: Key, at: 0 .. MaxTime])
    /\ Len(dedupSeen) <= MaxDedupEntries
    /\ accepted \in Seq([event: Numbers, shown: BOOLEAN])
    /\ owed \subseteq Numbers
    /\ faults \in 0 .. MaxFaults

Init ==
    /\ now = 0 /\ sent = <<>>
    /\ conns = [c \in {CHOOSE d \in Conns : TRUE} |-> <<>>]
    /\ timers = 0
    /\ subscribed = {"local"} /\ joined = {}
    /\ dedupSeen = <<>> /\ accepted = <<>>
    /\ owed = {} /\ faults = 0

-----------------------------------------------------------------------------
(* The message bus *)

\* Faulty dedupKey: the time is that of the arrival.
dedupKeyByArrival(e) == <<e.sender, e.topic, now, e.text>>

\* Faulty dedupKey: the text is not in the key.
dedupKeyNoText(e) ==
    <<e.sender, e.topic, IF e.type = "topic_archived" THEN now ELSE e.second,
      CHOOSE text \in Texts : TRUE>>

\* An event carries the time of its sender, but an archival is stamped by the
\* listener.  The key has no location.
dedupKey(e) ==
    <<e.sender, e.topic, IF e.type = "topic_archived" THEN now ELSE e.second, e.text>>

\* The entries within the window; kept[n] are those of the first n.
vacuum ==
    LET kept[n \in 0 .. Len(dedupSeen)] ==
            IF n = 0 THEN <<>>
            ELSE IF now - dedupSeen[n].at < DedupWindow THEN Append(kept[n - 1], dedupSeen[n])
            ELSE kept[n - 1]
    IN kept[Len(dedupSeen)]

\* Faulty trimOldest: nothing is trimmed.
trimOldestNot(cache) == cache

trimOldest(cache) == IF Len(cache) > MaxDedupEntries THEN Tail(cache) ELSE cache

\* push: a key seen within the window is dropped; otherwise Claude is notified,
\* and an error of the notification is swallowed.
push(i, e) ==
    IF \E k \in DOMAIN vacuum : vacuum[k].key = dedupKey(e)
    THEN dedupSeen' = vacuum /\ UNCHANGED <<accepted, faults>>
    ELSE /\ dedupSeen' = trimOldest(Append(vacuum, [key |-> dedupKey(e), at |-> now]))
         /\ \E shown \in BOOLEAN :
             /\ ~shown => faults < MaxFaults
             /\ faults' = IF shown THEN faults ELSE faults + 1
             /\ accepted' = Append(accepted, [event |-> i, shown |-> shown])

-----------------------------------------------------------------------------
(* The listener *)

\* The filters of handleLocalEvent.  isChannelSubscribed is asked for the name
\* only, so any location will do.
Deliverable(e) ==
    /\ subscribed # {}
    /\ e.topic # NoTopic => e.topic \in joined
    /\ e.sender # "me"

\* What the session asked for: the local channel, and its joined topics.
Wanted(e) == "local" \in subscribed /\ Deliverable(e)

UnderWay(i) == \E c \in DOMAIN conns : \E k \in DOMAIN conns[c] : conns[c][k] = i

\* The broker writes an event to every connection.
BrokerSends(type, sender, topic, text) ==
    LET e == [location |-> "local", type |-> type, sender |-> sender, topic |-> topic,
              text |-> text, second |-> now]
        i == Len(sent) + 1
    IN  /\ Len(sent) < MaxEvents
        /\ sent' = Append(sent, e)
        /\ conns' = [c \in DOMAIN conns |-> Append(conns[c], i)]
        /\ owed' = IF Wanted(e) /\ DOMAIN conns # {} THEN owed \cup {i} ELSE owed
        /\ UNCHANGED <<now, timers, subscribed, joined, busVars, faults>>

\* res.on('data') of one event, up to the end of bus.push
processLocalEvent(c) ==
    /\ c \in DOMAIN conns /\ conns[c] # <<>>
    /\ conns' = [conns EXCEPT ![c] = Tail(@)]
    /\ LET i == Head(conns[c]) IN
        IF Deliverable(sent[i]) THEN push(i, sent[i]) ELSE UNCHANGED <<busVars, faults>>
    /\ UNCHANGED <<now, sent, timers, subscribed, joined, owed>>

\* A feed of the remote channel, open while it is subscribed, pushes into the
\* same bus.
RemoteFeed(text) ==
    LET e == [location |-> "remote", type |-> "broadcast", sender |-> "peer",
              topic |-> NoTopic, text |-> text, second |-> now]
    IN  /\ "remote" \in subscribed
        /\ Len(sent) < MaxEvents
        /\ sent' = Append(sent, e)
        /\ push(Len(sent) + 1, e)
        /\ UNCHANGED <<now, conns, timers, subscribed, joined, owed>>

\* Faulty scheduleReconnect: no reconnect.
scheduleReconnectNot(n) == timers' = timers

scheduleReconnect(n) == timers' = timers + n

\* A connection breaks with one error or end, or is reset: then both the
\* request and the response report an error, and each schedules a reconnect.
\* What was under way on it is lost.
Break(c) ==
    /\ c \in DOMAIN conns
    /\ faults < MaxFaults
    /\ faults' = faults + 1
    /\ conns' = Del(conns, c)
    /\ \E errors \in {1, 2} : scheduleReconnect(errors)
    /\ owed' = {i \in owed : ~UnderWay(i) \/ UnderWay(i)'}
    /\ UNCHANGED <<now, sent, subscribed, joined, busVars>>

connect(c) ==
    /\ timers > 0 /\ c \notin DOMAIN conns
    /\ timers' = timers - 1
    /\ conns' = Put(conns, c, <<>>)
    /\ UNCHANGED <<now, sent, subscribed, joined, busVars, owed, faults>>

-----------------------------------------------------------------------------
(* Membership and time *)

Membership(locations, topics) ==
    /\ subscribed' = locations /\ joined' = topics
    /\ UNCHANGED <<now, sent, conns, timers, busVars, faults>>
    /\ owed' = {i \in owed : ~UnderWay(i) \/ Wanted(sent[i])'}

JoinChannel(location) == Membership(subscribed \cup {location}, joined)

LeaveChannel(location) ==
    Membership(subscribed \ {location}, IF location = "local" THEN {} ELSE joined)

JoinTopic(topic) == "local" \in subscribed /\ Membership(subscribed, joined \cup {topic})

LeaveTopic(topic) == Membership(subscribed, joined \ {topic})

\* Deliveries are prompt: an event is not under way for a whole window.
Tick ==
    /\ now < MaxTime
    /\ \A i \in DOMAIN sent : UnderWay(i) => (now + 1) - sent[i].second < DedupWindow
    /\ now' = now + 1
    /\ UNCHANGED <<sent, conns, timers, subscribed, joined, busVars, owed, faults>>

Next ==
    \/ \E sender \in Senders, text \in Texts :
        \/ BrokerSends("broadcast", sender, NoTopic, text)
        \/ \E topic \in Topics : BrokerSends("message", sender, topic, text)
    \/ \E sender \in Senders, topic \in Topics :
        BrokerSends("topic_archived", sender, topic, "Topic archived")
    \/ \E text \in Texts : RemoteFeed(text)
    \/ \E c \in Conns : processLocalEvent(c) \/ Break(c) \/ connect(c)
    \/ \E location \in Locations : JoinChannel(location) \/ LeaveChannel(location)
    \/ \E topic \in Topics : JoinTopic(topic) \/ LeaveTopic(topic)
    \/ Tick

\* Node reads its sockets and fires its timers, and the broker accepts.
Fairness ==
    /\ \A c \in Conns : WF_vars(processLocalEvent(c))
    /\ WF_vars(\E c \in Conns : connect(c))

Spec == Init /\ [][Next]_vars /\ Fairness

-----------------------------------------------------------------------------
(* Properties *)

Accepted(i) == \E k \in DOMAIN accepted : accepted[k].event = i

\* Two events the bus cannot tell apart: one sender says one thing twice in a
\* second; archivals are told apart by their arrival only.
Twins(i, j) ==
    /\ \A f \in {"sender", "topic", "text", "type"} : sent[i][f] = sent[j][f]
    /\ sent[i].type # "topic_archived" => sent[i].second = sent[j].second

\* An event sent while a connection was open, and wanted until it arrived,
\* is not lost: neither a filter nor the dedup window drops it, unless Claude
\* was notified of its twin.
NothingDropped ==
    \A i \in owed : UnderWay(i) \/ \E j \in DOMAIN sent : Twins(i, j) /\ Accepted(j)

\* Whatever connections were doubled by a reset, an event with a timestamp of
\* its own passes the bus once; a second copy passes only after the cache
\* overflowed in between.
PassesOnce ==
    \A j, k \in DOMAIN accepted :
        /\ j < k /\ accepted[j].event = accepted[k].event
        /\ sent[accepted[j].event].type # "topic_archived"
        => k - j > MaxDedupEntries

\* The listener never gives up: it is connected again and again.
Reconnects == []<>(DOMAIN conns # {})
=============================================================================
