---------------------------- MODULE SessionTools ----------------------------
(***************************************************************************)
(* The channel and topic tools of one MCP server session                   *)
(* (src/mcp_server/src/tools/channels.ts and topics.ts): each tool call    *)
(* checks the context, sends a request to the backend of a location,       *)
(* awaits the reply, and only then updates the context and the live feeds. *)
(* The MCP server runs tool calls concurrently, so calls interleave at     *)
(* their awaits, and what was checked before one may be stale after it.    *)
(*                                                                         *)
(* The backend is the broker for the local location and a Convex           *)
(* deployment for the others; here it is the membership of this session    *)
(* and the topics, with the gates both apply.  Attaching a location is     *)
(* left out: every location is attached.  A failed request to the broker   *)
(* ends the call with an error; of the remote requests only createTopic    *)
(* does, the others log the error and return as if they had succeeded, and *)
(* so they do at once, nothing sent, when the transport is disabled or has *)
(* no session at its deployment.                                           *)
(***************************************************************************)
EXTENDS ActiveContext, FiniteSets

CONSTANTS
    Locations, Local,
    RawNames,           \* channel names as a tool call spells them
    NormalizeName,      \* normalizeChannelName; NoName stands for ""
    NoName,
    Slots,              \* tool calls that can be in flight at once
    MaxFaults           \* bound: requests or replies lost on the network

ASSUME ToolsAssumption ==
    /\ Refs = [name : {NormalizeName[n] : n \in RawNames} \ {NoName}, location : Locations]
    /\ Local \in Locations
    /\ MaxFaults \in Nat

VARIABLES
    calls,          \* tool calls in flight
    bMembers,       \* channels this session is a member of at the backends
    bTopics,        \* the backends' topics
    channelFeeds,   \* keys of remoteChannelUnsubscribes
    topicFeeds,     \* keys of remoteTopicUnsubscribes
    faults,         \* history: requests and replies lost so far
    raced,          \* history: a join or leave overlapped another of its channel
    standing,       \* of each location's transport: "ready"; "unintroduced", without a
                    \* session at the deployment; or "off", disabled for good
    unsent          \* history: channels whose last join or leave was never sent

backendVars == <<bMembers, bTopics>>
feedVars == <<channelFeeds, topicFeeds>>
transportVars == <<standing, unsent>>
vars == <<ctxVars, calls, bMembers, bTopics, channelFeeds, topicFeeds, faults, raced,
          standing, unsent>>

Tools == {"join_channel", "leave_channel", "start_topic", "join_topic",
          "leave_topic", "archive_topic", "unarchive_topic"}

Call == [tool: Tools, ref: Refs \cup {None}, id: TopicIds \cup {None},
         phase: {"lookup", "found", "request", "reply"}, archived: BOOLEAN, byName: BOOLEAN]

\* The types of the tool layer's state.
ToolsTypeOK ==
    /\ ContextTypeOK
    /\ IsMap(calls, Slots, Call)
    /\ bMembers \subseteq Refs
    /\ IsMap(bTopics, TopicIds, [ref: Refs, state: {"active", "archived"}])
    /\ channelFeeds \subseteq Refs
    /\ topicFeeds \subseteq TopicIds
    /\ faults \in 0 .. MaxFaults
    /\ raced \in BOOLEAN
    /\ standing \in [Locations -> {"unintroduced", "ready", "off"}]
    /\ standing[Local] = "ready"
    /\ unsent \subseteq Refs

Init ==
    /\ ContextInit
    /\ calls = EmptyMap
    /\ bMembers = {}
    /\ bTopics = EmptyMap
    /\ channelFeeds = {}
    /\ topicFeeds = {}
    /\ faults = 0
    /\ raced = FALSE
    /\ standing = [l \in Locations |-> IF l = Local THEN "ready" ELSE "unintroduced"]
    /\ unsent = {}

RefOf(raw, location) == [name |-> NormalizeName[raw], location |-> location]

MembershipTools == {"join_channel", "leave_channel"}

Start(slot, call) ==
    /\ slot \notin DOMAIN calls
    /\ calls' = Put(calls, slot, call)
    /\ raced' = \/ raced
                 \/ \E k \in DOMAIN calls : /\ {call.tool, calls[k].tool} \subseteq MembershipTools
                                           /\ calls[k].ref = call.ref
    /\ unsent' = IF call.tool \notin MembershipTools THEN unsent
                 ELSE IF call.phase = "request" THEN unsent \ {call.ref}
                 ELSE unsent \cup {call.ref}
    /\ UNCHANGED <<ctxVars, backendVars, feedVars, faults, standing>>

\* A transport without a session, or disabled, sends nothing and returns as if
\* the request had been answered.
PhaseAt(location) == IF standing[location] = "ready" THEN "request" ELSE "reply"

\* The call hands the request it is for to the transport of its location, which
\* router.get refuses when it is disabled.
Send(slot, tool, ref, id, location) ==
    /\ standing[location] # "off"
    /\ Start(slot, [tool |-> tool, ref |-> ref, id |-> id, phase |-> PhaseAt(location),
                    archived |-> FALSE, byName |-> FALSE])

\* The call has asked for a topic, by its id or by its name.
Lookup(slot, tool, id, byName) ==
    Start(slot, [tool |-> tool, ref |-> None, id |-> id, phase |-> "lookup",
                 archived |-> FALSE, byName |-> byName])

-----------------------------------------------------------------------------
(* A tool call up to its first await *)

\* Faulty CallJoinChannel: a blank name is not refused.
CallJoinChannelBlank(slot, raw, location) ==
    Send(slot, "join_channel", RefOf(raw, location), None, location)

CallJoinChannel(slot, raw, location) ==
    /\ NormalizeName[raw] # NoName
    /\ Send(slot, "join_channel", RefOf(raw, location), None, location)

CallLeaveChannel(slot, raw, location) ==
    /\ NormalizeName[raw] # NoName
    /\ IsSubscribed(RefOf(raw, location))
    /\ Send(slot, "leave_channel", RefOf(raw, location), None, location)

\* start_topic in a named channel, or in the active one; createTopic throws
\* unless the transport can send it
CallStartTopic(slot, r) ==
    /\ IsSubscribed(r)
    /\ standing[r.location] = "ready"
    /\ Send(slot, "start_topic", r, None, r.location)

\* join_topic, unarchive_topic and archive_topic of a topic that is not joined
\* first look the topic up: by id, or by name among the topics of the
\* subscribed channels
CallWithLookup(slot, tool) ==
    \E id \in DOMAIN bTopics, byName \in BOOLEAN :
        /\ byName => IsSubscribed(bTopics[id].ref)
        /\ standing[bTopics[id].ref.location] # "off"
        /\ Lookup(slot, tool, id, byName)

CallJoinTopic(slot) == CallWithLookup(slot, "join_topic")

CallUnarchiveTopic(slot) == CallWithLookup(slot, "unarchive_topic")

\* leave_topic of a joined topic, or of the active one
CallLeaveTopic(slot) ==
    \E id \in (DOMAIN joinedTopics \cup {activeThread}) \ {None} :
        Send(slot, "leave_topic", None, id, bTopics[id].ref.location)

\* archive_topic of the active topic or of a joined one, or of another
CallArchiveTopic(slot) ==
    \/ \E id \in (DOMAIN joinedTopics \cup {activeThread}) \ {None} :
        Send(slot, "archive_topic", None, id, bTopics[id].ref.location)
    \/ CallWithLookup(slot, "archive_topic")

\* set_active_channel and set_active_topic have no await
SetActiveChannelTool(raw, location) ==
    /\ NormalizeName[raw] # NoName
    /\ SetActiveChannel(RefOf(raw, location))
    /\ UNCHANGED <<calls, backendVars, feedVars, faults, raced, transportVars>>

SetActiveTopicTool(id) ==
    /\ id \in DOMAIN joinedTopics
    /\ JoinTopic(id, joinedTopics[id])
    /\ UNCHANGED <<calls, backendVars, feedVars, faults, raced, transportVars>>

\* introduce gives the transport a session; registerFailure disables it for good
TransportChanges(location, now) ==
    /\ location # Local
    /\ <<standing[location], now>> \in
          {<<"unintroduced", "ready">>, <<"unintroduced", "off">>, <<"ready", "off">>}
    /\ standing' = [standing EXCEPT ![location] = now]
    /\ UNCHANGED <<ctxVars, calls, backendVars, feedVars, faults, raced, unsent>>

-----------------------------------------------------------------------------
(* The backends *)

InPhase(slot, tools, phase) ==
    slot \in DOMAIN calls /\ calls[slot].tool \in tools /\ calls[slot].phase = phase

LookingUp == {"join_topic", "unarchive_topic", "archive_topic"}

\* The backend has handled the request; the reply is on its way.
Answer(slot) == calls' = [calls EXCEPT ![slot].phase = "reply"]

BackendLookup(slot) ==
    /\ InPhase(slot, LookingUp, "lookup")
    /\ LET t == bTopics[calls[slot].id] IN
        calls' = [calls EXCEPT ![slot].phase = "found", ![slot].ref = t.ref,
                               ![slot].archived = (t.state = "archived")]
    /\ UNCHANGED <<ctxVars, backendVars, feedVars, faults, raced, transportVars>>

BackendMembership(slot) ==
    /\ InPhase(slot, {"join_channel", "leave_channel"}, "request")
    /\ bMembers' = IF calls[slot].tool = "join_channel"
                   THEN bMembers \cup {calls[slot].ref}
                   ELSE bMembers \ {calls[slot].ref}
    /\ Answer(slot)
    /\ UNCHANGED <<ctxVars, bTopics, feedVars, faults, raced, transportVars>>

BackendCreate(slot) ==
    /\ InPhase(slot, {"start_topic"}, "request")
    /\ calls[slot].ref \in bMembers
    /\ \E id \in TopicIds \ DOMAIN bTopics :
        /\ bTopics' = Put(bTopics, id, [ref |-> calls[slot].ref, state |-> "active"])
        /\ calls' = [calls EXCEPT ![slot].phase = "reply", ![slot].id = id]
    /\ UNCHANGED <<ctxVars, bMembers, feedVars, faults, raced, transportVars>>

\* Topic membership at the backend is not kept: nothing here reads it.
BackendJoinOrLeaveTopic(slot) ==
    /\ InPhase(slot, {"join_topic", "leave_topic"}, "request")
    /\ calls[slot].tool = "join_topic" => bTopics[calls[slot].id].ref \in bMembers
    /\ Answer(slot)
    /\ UNCHANGED <<ctxVars, backendVars, feedVars, faults, raced, transportVars>>

BackendSetState(slot) ==
    /\ InPhase(slot, {"archive_topic", "unarchive_topic"}, "request")
    /\ bTopics' = [bTopics EXCEPT ![calls[slot].id].state =
                      IF calls[slot].tool = "archive_topic" THEN "archived" ELSE "active"]
    /\ Answer(slot)
    /\ UNCHANGED <<ctxVars, bMembers, feedVars, faults, raced, transportVars>>

\* Another session creates, archives or unarchives a topic.
PeerCreate(id, r) ==
    /\ id \notin DOMAIN bTopics
    /\ bTopics' = Put(bTopics, id, [ref |-> r, state |-> "active"])
    /\ UNCHANGED <<ctxVars, calls, bMembers, feedVars, faults, raced, transportVars>>

PeerToggle(id) ==
    /\ id \in DOMAIN bTopics
    /\ bTopics' = [bTopics EXCEPT ![id].state = IF @ = "active" THEN "archived" ELSE "active"]
    /\ UNCHANGED <<ctxVars, calls, bMembers, feedVars, faults, raced, transportVars>>

-----------------------------------------------------------------------------
(* A tool call after its await *)

Finish(slot) == calls' = Del(calls, slot)

ReplyJoinChannel(slot) ==
    /\ InPhase(slot, {"join_channel"}, "reply")
    /\ LET r == calls[slot].ref IN
        /\ JoinChannel(r)
        /\ channelFeeds' = channelFeeds \cup ({r} \ {q \in Refs : q.location = Local})
    /\ Finish(slot)
    /\ UNCHANGED <<backendVars, topicFeeds, faults, raced, transportVars>>

\* Faulty ReplyLeaveChannel: the feed stays open.
ReplyLeaveChannelKeepsFeed(slot) ==
    /\ InPhase(slot, {"leave_channel"}, "reply")
    /\ LeaveChannel(calls[slot].ref)
    /\ Finish(slot)
    /\ UNCHANGED <<backendVars, feedVars, faults, raced, transportVars>>

\* Faulty ReplyLeaveChannel: the context keeps the channel.
ReplyLeaveChannelForgets(slot) ==
    /\ InPhase(slot, {"leave_channel"}, "reply")
    /\ Finish(slot)
    /\ UNCHANGED <<ctxVars, backendVars, feedVars, faults, raced, transportVars>>

\* Only the channel's own feed is torn down, not those of its topics.
ReplyLeaveChannel(slot) ==
    /\ InPhase(slot, {"leave_channel"}, "reply")
    /\ LeaveChannel(calls[slot].ref)
    /\ channelFeeds' = channelFeeds \ {calls[slot].ref}
    /\ Finish(slot)
    /\ UNCHANGED <<backendVars, topicFeeds, faults, raced, transportVars>>

\* After the lookup.  A topic found by id must be in a subscribed channel; one
\* found by name is not tested again.  unarchive_topic wants an archived topic,
\* and the other two find only active ones by name.  join_topic and
\* unarchive_topic by id go on with the transport they had before the lookup,
\* the others get it from the router, which refuses one disabled meanwhile.
ResumeLookup(slot) ==
    /\ InPhase(slot, LookingUp, "found")
    /\ LET c == calls[slot]
           location == c.ref.location
       IN  IF /\ c.byName \/ IsSubscribed(c.ref)
              /\ c.tool = "unarchive_topic" => c.archived
              /\ c.tool # "unarchive_topic" /\ c.byName => ~c.archived
              /\ c.byName \/ c.tool = "archive_topic" => standing[location] # "off"
           THEN calls' = [calls EXCEPT ![slot].phase = PhaseAt(location),
                                       ![slot].archived = FALSE, ![slot].byName = FALSE]
           ELSE Finish(slot)
    /\ UNCHANGED <<ctxVars, backendVars, feedVars, faults, raced, transportVars>>

\* Faulty ReplyJoined: no feed is opened.
ReplyJoinedNoFeed(slot) ==
    /\ InPhase(slot, {"start_topic", "join_topic"}, "reply")
    /\ IF IsSubscribed(calls[slot].ref)
       THEN JoinTopic(calls[slot].id, calls[slot].ref)
       ELSE UNCHANGED ctxVars
    /\ Finish(slot)
    /\ UNCHANGED <<backendVars, feedVars, faults, raced, transportVars>>

\* start_topic and registerTopicMembership: context.joinTopic throws when the
\* channel was left meanwhile, and then no feed is opened.
ReplyJoined(slot) ==
    /\ InPhase(slot, {"start_topic", "join_topic"}, "reply")
    /\ LET c == calls[slot] IN
        IF IsSubscribed(c.ref)
        THEN /\ JoinTopic(c.id, c.ref)
             /\ topicFeeds' = IF c.ref.location = Local THEN topicFeeds
                              ELSE topicFeeds \cup {c.id}
        ELSE UNCHANGED <<ctxVars, topicFeeds>>
    /\ Finish(slot)
    /\ UNCHANGED <<backendVars, channelFeeds, faults, raced, transportVars>>

ReplyLeaveTopic(slot) ==
    /\ InPhase(slot, {"leave_topic"}, "reply")
    /\ LeaveTopic(calls[slot].id)
    /\ topicFeeds' = topicFeeds \ {calls[slot].id}
    /\ Finish(slot)
    /\ UNCHANGED <<backendVars, channelFeeds, faults, raced, transportVars>>

\* archive_topic keeps both the membership and the feed
ReplyArchive(slot) ==
    /\ InPhase(slot, {"archive_topic"}, "reply")
    /\ Finish(slot)
    /\ UNCHANGED <<ctxVars, backendVars, feedVars, faults, raced, transportVars>>

\* unarchive_topic goes on to join the topic, with the same transport
ReplyUnarchive(slot) ==
    /\ InPhase(slot, {"unarchive_topic"}, "reply")
    /\ calls' = [calls EXCEPT ![slot].tool = "join_topic",
                              ![slot].phase = PhaseAt(calls[slot].ref.location)]
    /\ UNCHANGED <<ctxVars, backendVars, feedVars, faults, raced, transportVars>>

LocationOf(slot) ==
    LET c == calls[slot] IN IF c.id = None THEN c.ref.location ELSE bTopics[c.id].ref.location

\* What a failed request becomes.  RemoteTransport logs the error and returns
\* as if nothing had happened, except from createTopic; LocalTransport throws.
FailSilently(slot) == Answer(slot)

Fail(slot) ==
    IF LocationOf(slot) # Local /\ calls[slot].tool # "start_topic"
    THEN FailSilently(slot)
    ELSE Finish(slot)

\* The backend refuses a topic request: not a member, no such topic, a name
\* conflict, which RemoteTransport throws.
Refused(slot) ==
    /\ slot \in DOMAIN calls
    /\ \/ calls[slot].phase = "lookup" /\ Finish(slot)
       \/ /\ calls[slot].phase = "request"
          /\ calls[slot].tool \notin {"join_channel", "leave_channel"}
          /\ Fail(slot) \/ (calls[slot].tool = "unarchive_topic" /\ Finish(slot))
    /\ UNCHANGED <<ctxVars, backendVars, feedVars, faults, raced, transportVars>>

\* The request never arrives, or its reply is lost.
Lost(slot) ==
    /\ slot \in DOMAIN calls
    /\ calls[slot].phase \in {"request", "reply"}
    /\ faults < MaxFaults
    /\ faults' = faults + 1
    /\ Fail(slot)
    /\ UNCHANGED <<ctxVars, backendVars, feedVars, raced, transportVars>>

Next ==
    \/ \E slot \in Slots, raw \in RawNames, location \in Locations :
        CallJoinChannel(slot, raw, location) \/ CallLeaveChannel(slot, raw, location)
    \/ \E slot \in Slots, r \in Refs : CallStartTopic(slot, r)
    \/ \E raw \in RawNames, location \in Locations : SetActiveChannelTool(raw, location)
    \/ \E location \in Locations, now \in {"ready", "off"} : TransportChanges(location, now)
    \/ \E id \in TopicIds : SetActiveTopicTool(id) \/ PeerToggle(id)
    \/ \E id \in TopicIds, r \in Refs : PeerCreate(id, r)
    \/ \E slot \in Slots :
        \/ CallJoinTopic(slot) \/ CallUnarchiveTopic(slot)
        \/ CallLeaveTopic(slot) \/ CallArchiveTopic(slot)
        \/ BackendLookup(slot) \/ BackendMembership(slot) \/ BackendCreate(slot)
        \/ BackendJoinOrLeaveTopic(slot) \/ BackendSetState(slot)
        \/ ResumeLookup(slot) \/ ReplyJoinChannel(slot) \/ ReplyLeaveChannel(slot)
        \/ ReplyJoined(slot) \/ ReplyLeaveTopic(slot)
        \/ ReplyArchive(slot) \/ ReplyUnarchive(slot)
        \/ Refused(slot) \/ Lost(slot)

Spec == Init /\ [][Next]_vars

-----------------------------------------------------------------------------
(* Properties *)

SubscribedRefs == {subscribed[i] : i \in DOMAIN subscribed}

\* However calls overlap, a broadcast feed is held for exactly the remote
\* channels the session is subscribed to (handleJoinChannel asks the transport
\* for one, handleLeaveChannel ends it; a transport without a session or
\* disabled gives a feed that brings nothing).
ChannelFeedsMatch ==
    channelFeeds = {r \in SubscribedRefs : r.location # Local}

\* A joined remote topic always has its feed in the map: no interleaving of
\* join, leave, archive and unarchive leaves a member without one.
JoinedHaveFeeds ==
    \A id \in DOMAIN joinedTopics : joinedTopics[id].location # Local => id \in topicFeeds

\* When no call is in flight, context and backend differ in at most one
\* channel per lost request or reply, besides those whose last join or leave
\* the transport did not send; without either they agree.  Unless a join or
\* leave was called before the reply of another of the same channel: those two
\* replies may arrive in either order.
BackendAgrees ==
    calls = EmptyMap /\ ~raced =>
        Cardinality(((SubscribedRefs \ bMembers) \cup (bMembers \ SubscribedRefs)) \ unsent)
            <= faults
=============================================================================
