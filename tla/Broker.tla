------------------------------- MODULE Broker -------------------------------
(***************************************************************************)
(* The local broker (src/mcp_server/src/broker.ts): one Node process that  *)
(* keeps sessions, channels and topics in memory, serves them over HTTP on *)
(* the loopback interface, and fans events out to every connected SSE      *)
(* client.                                                                 *)
(*                                                                         *)
(* The process is single threaded and every handler runs its whole body    *)
(* after `await readBody(req)`, so one request is one action.  A topic     *)
(* route looks its topic up before that await; topics are never deleted,   *)
(* so the lookup cannot become stale.  A request a handler rejects (400,   *)
(* 403, 404, 409) changes nothing and is a stuttering step.                *)
(*                                                                         *)
(* Left out: timestamps, objectives, logging, and the wording of replies.  *)
(***************************************************************************)
EXTENDS Naturals, Sequences, SequencesExt, Maps

CONSTANTS
    Sessions,           \* session names; a name is the session's identity
    RawChannels,        \* channel names as a request spells them
    NormalizeChannel,   \* RawChannels -> canonical name, NoChannel when blank
    NoChannel,
    Titles,             \* topic titles as a request spells them
    NormalizeTitle,     \* Titles -> canonical title (trim + lower case)
    Texts,              \* message texts
    TopicIds,           \* the UUIDs crypto.randomUUID can return
    Clients,            \* SSE connections
    RelayedEvents,      \* what callers POST to /local-event: any object with a type
    MaxMessages,        \* bound: messages kept per topic
    MaxStream           \* bound: events written to one SSE connection

Channels == {NormalizeChannel[r] : r \in RawChannels} \ {NoChannel}

ASSUME ConstantsAssumption ==
    /\ DOMAIN NormalizeChannel = RawChannels
    /\ DOMAIN NormalizeTitle = Titles
    /\ MaxMessages \in Nat /\ MaxStream \in Nat

VARIABLES
    sessions,   \* Map name -> SessionInfo, of which only .channels is kept
    channels,   \* Map channel -> Set of member names
    topics,     \* Map id -> LocalTopic
    clients     \* Set of SSE connections; of each, for the properties, what was
                \* written to it and how much each topic held when it was opened

vars == <<sessions, channels, topics, clients>>

-----------------------------------------------------------------------------
(* Types *)

Message == [sender: Sessions, text: Texts]

Topic == [topic: Titles, channel: Channels, creator: Sessions,
          state: {"active", "archived"}, messages: Seq(Message),
          joinedSessions: SUBSET Sessions]

Event ==
    [type: {"broadcast"}, channel: Channels, sender: Sessions, text: Texts]
      \cup [type: {"topic_created"}, channel: Channels, topicId: TopicIds, sender: Sessions]
      \cup [type: {"message"}, channel: Channels, topicId: TopicIds, sender: Sessions, text: Texts]
      \cup [type: {"topic_archived", "topic_unarchived"}, channel: Channels,
            topicId: TopicIds, sender: Sessions]

\* An event as written to a connection, marked with who made it; no client
\* sees the mark.
Written == [by: {"broker"}, event: Event] \cup [by: {"caller"}, event: RelayedEvents]

Client == [since: [TopicIds -> Nat], written: Seq(Written)]

\* Every map holds keys and values of its type.
TypeOK ==
    /\ IsMap(sessions, Sessions, SUBSET Channels)
    /\ IsMap(channels, Channels, SUBSET Sessions)
    /\ IsMap(topics, TopicIds, Topic)
    /\ IsMap(clients, Clients, Client)

-----------------------------------------------------------------------------
(* Reading the state *)

\* info && info.channels.has(channel), the gate of most handlers
Subscribed(s, ch) == s \in DOMAIN sessions /\ ch \in sessions[s]

Members(ch) == IF ch \in DOMAIN channels THEN channels[ch] ELSE {}

\* The stored messages of a topic
Stored(id) == IF id \in DOMAIN topics THEN topics[id].messages ELSE <<>>

-----------------------------------------------------------------------------
(* broadcast(data): write to every client, dropping the ones that throw *)

Write(c, w) == [clients[c] EXCEPT !.written = Append(@, w)]

\* Faulty Send: a client that failed stays in the set.
SendKeepsFailed(w) ==
    \E dead \in SUBSET DOMAIN clients :
        clients' = [c \in DOMAIN clients |-> IF c \in dead THEN clients[c] ELSE Write(c, w)]

Send(w) ==
    \E dead \in SUBSET DOMAIN clients :
        clients' = [c \in DOMAIN clients \ dead |-> Write(c, w)]

Broadcast(event) == Send([by |-> "broker", event |-> event])

RoomInStreams == \A c \in DOMAIN clients : Len(clients[c].written) < MaxStream

-----------------------------------------------------------------------------
(* Init and the handlers *)

Init ==
    /\ sessions = EmptyMap
    /\ channels = EmptyMap
    /\ topics = EmptyMap
    /\ clients = EmptyMap

\* Faulty RegisterSession: an existing entry is replaced.
RegisterSessionResets(s) ==
    /\ sessions' = Put(sessions, s, {})
    /\ UNCHANGED <<channels, topics, clients>>

\* POST /sessions: insert, or keep the existing entry with its channels
RegisterSession(s) ==
    /\ sessions' = Put(sessions, s, IF s \in DOMAIN sessions THEN sessions[s] ELSE {})
    /\ UNCHANGED <<channels, topics, clients>>

\* POST /channels/join: ensureSession, then both sides of the membership
JoinChannel(s, raw) ==
    LET ch == NormalizeChannel[raw] IN
    /\ ch # NoChannel
    /\ sessions' = Put(sessions, s, {ch} \cup (IF s \in DOMAIN sessions THEN sessions[s] ELSE {}))
    /\ channels' = Put(channels, ch, {s} \cup Members(ch))
    /\ UNCHANGED <<topics, clients>>

\* What leaveChannel does to the other two maps, for each channel of chs:
\* drop the member (and the channel with its last member), and drop the
\* session from joinedSessions of every topic of the channel.
ChannelsWithout(s, chs) ==
    [ch \in {c \in DOMAIN channels : ~(c \in chs /\ channels[c] \subseteq {s})} |->
        IF ch \in chs THEN channels[ch] \ {s} ELSE channels[ch]]

TopicsWithout(s, chs) ==
    [id \in DOMAIN topics |->
        IF topics[id].channel \in chs
        THEN [topics[id] EXCEPT !.joinedSessions = @ \ {s}]
        ELSE topics[id]]

\* Faulty LeaveChannel: the topics keep the session.
LeaveChannelKeepsTopics(s, raw) ==
    LET ch == NormalizeChannel[raw] IN
    /\ ch # NoChannel
    /\ s \in DOMAIN sessions
    /\ sessions' = Put(sessions, s, sessions[s] \ {ch})
    /\ channels' = ChannelsWithout(s, {ch})
    /\ UNCHANGED <<topics, clients>>

\* POST /channels/leave
LeaveChannel(s, raw) ==
    LET ch == NormalizeChannel[raw] IN
    /\ ch # NoChannel
    /\ s \in DOMAIN sessions
    /\ sessions' = Put(sessions, s, sessions[s] \ {ch})
    /\ channels' = ChannelsWithout(s, {ch})
    /\ topics' = TopicsWithout(s, {ch})
    /\ UNCHANGED clients

\* Faulty DeleteSession: only the entry of the session goes.
DeleteSessionOnly(s) ==
    /\ sessions' = Del(sessions, s)
    /\ UNCHANGED <<channels, topics, clients>>

\* DELETE /sessions/:name: removeSessionFromAllChannels, then sessions.delete
DeleteSession(s) ==
    LET chs == IF s \in DOMAIN sessions THEN sessions[s] ELSE {} IN
    /\ channels' = ChannelsWithout(s, chs)
    /\ topics' = TopicsWithout(s, chs)
    /\ sessions' = Del(sessions, s)
    /\ UNCHANGED clients

\* POST /broadcast
BroadcastToChannel(s, raw, text) ==
    LET ch == NormalizeChannel[raw] IN
    /\ ch # NoChannel
    /\ Subscribed(s, ch)
    /\ RoomInStreams
    /\ Broadcast([type |-> "broadcast", channel |-> ch, sender |-> s, text |-> text])
    /\ UNCHANGED <<sessions, channels, topics>>

\* The 409 test of POST /topics: an active topic of the channel has the name
NameTaken(ch, title) ==
    \E id \in DOMAIN topics :
        /\ topics[id].state = "active"
        /\ topics[id].channel = ch
        /\ NormalizeTitle[topics[id].topic] = NormalizeTitle[title]

NewTopic(s, ch, title) ==
    [topic |-> title, channel |-> ch, creator |-> s, state |-> "active",
     messages |-> <<>>, joinedSessions |-> {}]

\* Faulty CreateTopic: the id of a topic is used again.
CreateTopicReusesId(s, raw, title) ==
    LET ch == NormalizeChannel[raw] IN
    /\ ch # NoChannel
    /\ Subscribed(s, ch)
    /\ ~NameTaken(ch, title)
    /\ RoomInStreams
    /\ \E id \in TopicIds :
        /\ topics' = Put(topics, id, NewTopic(s, ch, title))
        /\ Broadcast([type |-> "topic_created", channel |-> ch, topicId |-> id, sender |-> s])
    /\ UNCHANGED <<sessions, channels>>

\* POST /topics
CreateTopic(s, raw, title) ==
    LET ch == NormalizeChannel[raw] IN
    /\ ch # NoChannel
    /\ Subscribed(s, ch)
    /\ ~NameTaken(ch, title)
    /\ RoomInStreams
    /\ \E id \in TopicIds \ DOMAIN topics :
        /\ topics' = Put(topics, id, NewTopic(s, ch, title))
        /\ Broadcast([type |-> "topic_created", channel |-> ch, topicId |-> id, sender |-> s])
    /\ UNCHANGED <<sessions, channels>>

\* Faulty PostMessage: broadcast, not stored.
PostMessageUnstored(s, id, text) ==
    /\ Subscribed(s, topics[id].channel)
    /\ RoomInStreams
    /\ Broadcast([type |-> "message", channel |-> topics[id].channel,
                  topicId |-> id, sender |-> s, text |-> text])
    /\ UNCHANGED <<sessions, channels, topics>>

\* POST /topics/:id/messages
PostMessage(s, id, text) ==
    /\ Subscribed(s, topics[id].channel)
    /\ Len(topics[id].messages) < MaxMessages
    /\ RoomInStreams
    /\ topics' = [topics EXCEPT ![id].messages = Append(@, [sender |-> s, text |-> text])]
    /\ Broadcast([type |-> "message", channel |-> topics[id].channel,
                  topicId |-> id, sender |-> s, text |-> text])
    /\ UNCHANGED <<sessions, channels>>

\* POST /topics/:id/join; an archived topic may be joined
JoinTopic(s, id) ==
    /\ Subscribed(s, topics[id].channel)
    /\ topics' = [topics EXCEPT ![id].joinedSessions = @ \cup {s}]
    /\ UNCHANGED <<sessions, channels, clients>>

\* POST /topics/:id/leave; no gate
LeaveTopic(s, id) ==
    /\ topics' = [topics EXCEPT ![id].joinedSessions = @ \ {s}]
    /\ UNCHANGED <<sessions, channels, clients>>

\* POST /topics/:id/archive and /unarchive: no gate, and no test of the name
SetState(s, id, state, type) ==
    /\ RoomInStreams
    /\ topics' = [topics EXCEPT ![id].state = state]
    /\ Broadcast([type |-> type, channel |-> topics[id].channel, topicId |-> id, sender |-> s])
    /\ UNCHANGED <<sessions, channels>>

ArchiveTopic(s, id) == SetState(s, id, "archived", "topic_archived")

UnarchiveTopic(s, id) == SetState(s, id, "active", "topic_unarchived")

\* POST /local-event: write a caller's event to everyone as it is, a message
\* of a topic too, and store nothing; nothing in src/ posts one
RelayEvent(event) ==
    /\ RoomInStreams
    /\ Send([by |-> "caller", event |-> event])
    /\ UNCHANGED <<sessions, channels, topics>>

\* GET /events
ConnectClient(c) ==
    /\ c \notin DOMAIN clients
    /\ clients' = Put(clients, c, [since |-> [id \in TopicIds |-> Len(Stored(id))],
                                  written |-> <<>>])
    /\ UNCHANGED <<sessions, channels, topics>>

\* req.on('close')
CloseClient(c) ==
    /\ c \in DOMAIN clients
    /\ clients' = Del(clients, c)
    /\ UNCHANGED <<sessions, channels, topics>>

Next ==
    \/ \E s \in Sessions : RegisterSession(s) \/ DeleteSession(s)
    \/ \E s \in Sessions, raw \in RawChannels :
        JoinChannel(s, raw) \/ LeaveChannel(s, raw)
    \/ \E s \in Sessions, raw \in RawChannels, text \in Texts : BroadcastToChannel(s, raw, text)
    \/ \E s \in Sessions, raw \in RawChannels, title \in Titles : CreateTopic(s, raw, title)
    \/ \E s \in Sessions, id \in DOMAIN topics, text \in Texts : PostMessage(s, id, text)
    \/ \E s \in Sessions, id \in DOMAIN topics :
        \/ JoinTopic(s, id) \/ LeaveTopic(s, id)
        \/ ArchiveTopic(s, id) \/ UnarchiveTopic(s, id)
    \/ \E event \in RelayedEvents : RelayEvent(event)
    \/ \E c \in Clients : ConnectClient(c) \/ CloseClient(c)

Spec == Init /\ [][Next]_vars

-----------------------------------------------------------------------------
(* Properties *)

\* The two directions of the membership relation, which joinChannel,
\* leaveChannel and DELETE /sessions update one after the other, always
\* agree: a session lists a channel exactly when the channel lists the session.
MembershipMirror ==
    \A s \in Sessions, ch \in Channels : Subscribed(s, ch) <=> s \in Members(ch)

\* The last member to leave takes the channel with it: no channel is kept
\* without a member (the garbage collection tests of tests/broker.test.ts).
NoEmptyChannel == \A ch \in DOMAIN channels : channels[ch] # {}

\* Leaving a channel, or deleting the session, also leaves the channel's
\* topics: whoever is joined to a topic is still a member of its channel.
JoinedAreMembers ==
    \A id \in DOMAIN topics : topics[id].joinedSessions \subseteq Members(topics[id].channel)

\* The inductive invariant of BrokerProofs.
MembershipInv == TypeOK /\ MembershipMirror /\ NoEmptyChannel /\ JoinedAreMembers

\* Every connection still open has been written every event since it was
\* opened, in one order, whichever other connections failed meanwhile: of two
\* open connections, what the later one saw is a suffix of what the other saw.
StreamsAgree ==
    \A c, d \in DOMAIN clients :
        Len(clients[c].written) <= Len(clients[d].written) =>
            IsSuffix(clients[c].written, clients[d].written)

\* The messages of a topic that the broker itself put on a stream, oldest first;
\* told[n] are those among the first n things written.
MessagesOn(stream, id) ==
    LET told[n \in 0 .. Len(stream)] ==
            IF n = 0 THEN <<>>
            ELSE LET event == stream[n].event IN
                 IF stream[n].by = "broker" /\ event.type = "message" /\ event.topicId = id
                 THEN Append(told[n - 1], [sender |-> event.sender, text |-> event.text])
                 ELSE told[n - 1]
    IN told[Len(stream)]

\* History and live delivery tell the same story: a connection still open was
\* sent exactly the messages stored in a topic since it was opened, in that
\* order, with nothing between them but other events and what callers relayed.
HistoryIsStream ==
    \A c \in DOMAIN clients, id \in TopicIds :
        MessagesOn(clients[c].written, id)
            = SubSeq(Stored(id), clients[c].since[id] + 1, Len(Stored(id)))

\* A topic outlives its channel, its creator and its archiving: no step
\* removes it, changes its title, channel or creator, or rewrites its history.
TopicsAppendOnly ==
    [][\A id \in DOMAIN topics :
        /\ id \in DOMAIN topics'
        /\ \A f \in {"topic", "channel", "creator"} : topics'[id][f] = topics[id][f]
        /\ IsPrefix(topics[id].messages, topics'[id].messages)]_vars
=============================================================================
