---------------------------- MODULE BrokerProofs ----------------------------
(***************************************************************************)
(* Proofs about Broker for every set of sessions, channels, topics and     *)
(* connections: the inductive invariant of the three maps, what a step     *)
(* does to topics and connections, and from that the streams and histories.*)
(***************************************************************************)
EXTENDS Broker, SequenceTheorems, WellFoundedInduction, TLAPS

-----------------------------------------------------------------------------
(* The map operations *)

\* map.set keeps a well-typed map well typed.
LEMMA PutMap ==
    ASSUME NEW K, NEW V, NEW m, IsMap(m, K, V), NEW k \in K, NEW v \in V
    PROVE  /\ IsMap(Put(m, k, v), K, V)
           /\ DOMAIN Put(m, k, v) = (DOMAIN m) \cup {k}
           /\ Put(m, k, v)[k] = v
           /\ \A x \in DOMAIN m : x # k => Put(m, k, v)[x] = m[x]
BY DEF IsMap, Put

\* map.delete keeps a well-typed map well typed.
LEMMA DelMap ==
    ASSUME NEW K, NEW V, NEW m, IsMap(m, K, V), NEW k
    PROVE  /\ IsMap(Del(m, k), K, V)
           /\ DOMAIN Del(m, k) = (DOMAIN m) \ {k}
           /\ \A x \in (DOMAIN m) \ {k} : Del(m, k)[x] = m[x]
BY DEF IsMap, Del

\* The map with no entry has every map type.
LEMMA EmptyIsMap ==
    ASSUME NEW K, NEW V
    PROVE  IsMap(EmptyMap, K, V) /\ DOMAIN EmptyMap = {}
BY DEF IsMap, EmptyMap

-----------------------------------------------------------------------------
(* The broadcast to SSE connections only touches clients *)

\* What a connection is sent goes to the end of its stream.
LEMMA WriteClient ==
    ASSUME TypeOK, NEW c \in DOMAIN clients, NEW w \in Written
    PROVE  /\ c \in Clients /\ clients[c].written \in Seq(Written)
           /\ Write(c, w) \in Client
           /\ Write(c, w).since = clients[c].since
           /\ Write(c, w).written = Append(clients[c].written, w)
<1>1. c \in Clients /\ clients[c] \in Client
  BY DEF TypeOK, IsMap
<1>2. clients[c].written \in Seq(Written)
  BY <1>1 DEF Client
<1>3. Append(clients[c].written, w) \in Seq(Written)
  BY <1>2
<1> QED
  BY <1>1, <1>2, <1>3 DEF Write, Client

\* The broker's own events are marked as such.
LEMMA BrokerWrites ==
    ASSUME NEW e \in Event
    PROVE  [by |-> "broker", event |-> e] \in Written
BY DEF Written

\* Whichever connections throw, what is left in clients are connections with
\* well-typed streams.
LEMMA SendType ==
    ASSUME TypeOK, NEW w \in Written, Send(w)
    PROVE  IsMap(clients', Clients, Client)
<1>1. PICK dead \in SUBSET DOMAIN clients :
        clients' = [c \in DOMAIN clients \ dead |-> Write(c, w)]
  BY DEF Send
<1>2. \A c \in DOMAIN clients : c \in Clients /\ Write(c, w) \in Client
  BY WriteClient
<1> QED BY <1>1, <1>2 DEF IsMap

LEMMA BroadcastType ==
    ASSUME TypeOK, NEW e \in Event, Broadcast(e)
    PROVE  IsMap(clients', Clients, Client)
BY SendType, BrokerWrites DEF Broadcast

-----------------------------------------------------------------------------
(* Membership: the steps that change sessions and channels *)

\* Registering keeps the channels of a session that exists.
LEMMA RegisterSessionInv ==
    ASSUME MembershipInv, NEW s \in Sessions, RegisterSession(s)
    PROVE  MembershipInv'
BY DEF MembershipInv, TypeOK, MembershipMirror, NoEmptyChannel, JoinedAreMembers,
       Subscribed, Members, RegisterSession, IsMap, Put

\* Joining adds both directions of the membership.
LEMMA JoinChannelInv ==
    ASSUME MembershipInv, NEW s \in Sessions, NEW raw \in RawChannels, JoinChannel(s, raw)
    PROVE  MembershipInv'
<1> DEFINE ch == NormalizeChannel[raw]
<1>1. ch \in Channels
  BY DEF JoinChannel, Channels
<1> HIDE DEF ch
<1>2. /\ sessions' = Put(sessions, s, {ch} \cup (IF s \in DOMAIN sessions THEN sessions[s] ELSE {}))
      /\ channels' = Put(channels, ch, {s} \cup Members(ch))
      /\ topics' = topics /\ clients' = clients
  BY DEF JoinChannel, ch
<1>3. TypeOK'
  BY <1>1, <1>2 DEF MembershipInv, TypeOK, Members, IsMap, Put
<1>4. MembershipMirror'
  BY <1>1, <1>2 DEF MembershipInv, TypeOK, MembershipMirror, Subscribed, Members, IsMap, Put
<1>5. NoEmptyChannel'
  BY <1>1, <1>2 DEF MembershipInv, NoEmptyChannel, Put
<1>6. JoinedAreMembers'
  BY <1>1, <1>2 DEF MembershipInv, JoinedAreMembers, Members, Put
<1> QED BY <1>3, <1>4, <1>5, <1>6 DEF MembershipInv

\* What removing a session from some channels leaves of the three maps.
LEMMA WithoutInv ==
    ASSUME MembershipInv, NEW s \in Sessions, NEW chs \in SUBSET Channels,
           channels' = ChannelsWithout(s, chs), topics' = TopicsWithout(s, chs)
    PROVE  /\ IsMap(channels', Channels, SUBSET Sessions)
           /\ IsMap(topics', TopicIds, Topic)
           /\ NoEmptyChannel'
           /\ JoinedAreMembers'
           /\ \A ch \in Channels, x \in Sessions :
                x \in Members(ch)' <=> x \in Members(ch) /\ ~(x = s /\ ch \in chs)
<1>1. IsMap(channels', Channels, SUBSET Sessions)
  BY DEF MembershipInv, TypeOK, ChannelsWithout, IsMap
<1>2. \A ch \in Channels, x \in Sessions :
        x \in Members(ch)' <=> x \in Members(ch) /\ ~(x = s /\ ch \in chs)
  BY DEF MembershipInv, TypeOK, ChannelsWithout, IsMap, Members
<1>3. NoEmptyChannel'
  BY DEF MembershipInv, TypeOK, ChannelsWithout, NoEmptyChannel, IsMap
<1>4. /\ DOMAIN topics' = DOMAIN topics
      /\ \A id \in DOMAIN topics :
            /\ topics'[id] \in Topic
            /\ topics'[id].channel = topics[id].channel
            /\ topics[id].channel \in Channels
            /\ topics'[id].joinedSessions =
                 IF topics[id].channel \in chs THEN topics[id].joinedSessions \ {s}
                 ELSE topics[id].joinedSessions
            /\ topics'[id].joinedSessions \subseteq Sessions
  BY DEF MembershipInv, TypeOK, TopicsWithout, IsMap, Topic
<1>5. IsMap(topics', TopicIds, Topic)
  BY <1>4 DEF MembershipInv, TypeOK, IsMap, TopicsWithout
<1>6. JoinedAreMembers'
  <2> SUFFICES ASSUME NEW id \in DOMAIN topics, NEW x \in topics'[id].joinedSessions
               PROVE  x \in Members(topics[id].channel)'
    BY <1>4 DEF JoinedAreMembers, Members
  <2> DEFINE c == topics[id].channel
  <2>1. c \in Channels /\ x \in Sessions /\ x \in topics[id].joinedSessions
        /\ ~(x = s /\ c \in chs) /\ topics'[id].channel = c
    BY <1>4
  <2>2. x \in Members(c)
    BY <2>1 DEF MembershipInv, JoinedAreMembers
  <2> QED BY <1>2, <2>1, <2>2 DEF Members
<1> QED BY <1>1, <1>2, <1>3, <1>5, <1>6

\* Leaving removes both directions, and the topics of the channel with them.
LEMMA LeaveChannelInv ==
    ASSUME MembershipInv, NEW s \in Sessions, NEW raw \in RawChannels, LeaveChannel(s, raw)
    PROVE  MembershipInv'
<1> DEFINE ch == NormalizeChannel[raw]
<1>1. ch \in Channels
  BY DEF LeaveChannel, Channels
<1> HIDE DEF ch
<1>2. /\ s \in DOMAIN sessions
      /\ sessions' = Put(sessions, s, sessions[s] \ {ch})
      /\ channels' = ChannelsWithout(s, {ch})
      /\ topics' = TopicsWithout(s, {ch})
      /\ clients' = clients
  BY DEF LeaveChannel, ch
<1>3. /\ IsMap(channels', Channels, SUBSET Sessions)
      /\ IsMap(topics', TopicIds, Topic)
      /\ NoEmptyChannel'
      /\ JoinedAreMembers'
      /\ \A c \in Channels, x \in Sessions :
            x \in Members(c)' <=> x \in Members(c) /\ ~(x = s /\ c \in {ch})
  <2>1. {ch} \in SUBSET Channels
    BY <1>1
  <2> QED BY <1>2, <2>1, WithoutInv
<1>4. \A x \in Sessions, c \in Channels :
        Subscribed(x, c)' <=> Subscribed(x, c) /\ ~(x = s /\ c = ch)
  BY <1>1, <1>2 DEF Subscribed, Put
<1>5. MembershipMirror'
  BY <1>3, <1>4 DEF MembershipInv, MembershipMirror
<1>6. TypeOK'
  BY <1>1, <1>2, <1>3 DEF MembershipInv, TypeOK, IsMap, Put
<1> QED BY <1>3, <1>5, <1>6 DEF MembershipInv

\* Deleting a session leaves every channel it was in.
LEMMA DeleteSessionInv ==
    ASSUME MembershipInv, NEW s \in Sessions, DeleteSession(s)
    PROVE  MembershipInv'
<1> DEFINE chs == IF s \in DOMAIN sessions THEN sessions[s] ELSE {}
<1>1. chs \in SUBSET Channels
  BY DEF MembershipInv, TypeOK, IsMap
<1>2. \A c \in Channels : c \in chs <=> Subscribed(s, c)
  BY DEF Subscribed
<1>3. /\ sessions' = Del(sessions, s)
      /\ channels' = ChannelsWithout(s, chs)
      /\ topics' = TopicsWithout(s, chs)
      /\ clients' = clients
  BY DEF DeleteSession
<1> HIDE DEF chs
<1>4. /\ IsMap(channels', Channels, SUBSET Sessions)
      /\ IsMap(topics', TopicIds, Topic)
      /\ NoEmptyChannel'
      /\ JoinedAreMembers'
      /\ \A c \in Channels, x \in Sessions :
            x \in Members(c)' <=> x \in Members(c) /\ ~(x = s /\ c \in chs)
  BY <1>1, <1>3, WithoutInv
<1>5. \A x \in Sessions, c \in Channels : Subscribed(x, c)' <=> Subscribed(x, c) /\ x # s
  BY <1>3 DEF Subscribed, Del
<1>6. MembershipMirror'
  BY <1>2, <1>4, <1>5 DEF MembershipInv, MembershipMirror
<1>7. TypeOK'
  BY <1>3, <1>4 DEF MembershipInv, TypeOK, IsMap, Del
<1> QED BY <1>4, <1>6, <1>7 DEF MembershipInv

-----------------------------------------------------------------------------
(* Topics and connections: the steps that leave sessions and channels alone *)

\* Such a step keeps the invariant when topics stay well typed, keep their
\* channel, and gain no joined session that is not a member.
LEMMA TopicStepInv ==
    ASSUME MembershipInv, UNCHANGED <<sessions, channels>>,
           IsMap(topics', TopicIds, Topic), IsMap(clients', Clients, Client),
           \A id \in DOMAIN topics' :
                topics'[id].joinedSessions \subseteq Members(topics'[id].channel)
    PROVE  MembershipInv'
BY DEF MembershipInv, TypeOK, MembershipMirror, NoEmptyChannel, JoinedAreMembers,
       Subscribed, Members

\* POST /broadcast and POST /local-event only write to the connections.
LEMMA BroadcastInv ==
    ASSUME MembershipInv, UNCHANGED <<sessions, channels, topics>>,
           NEW w \in Written, Send(w)
    PROVE  MembershipInv'
<1>1. IsMap(clients', Clients, Client)
  BY SendType DEF MembershipInv
<1> QED BY <1>1, TopicStepInv DEF MembershipInv, TypeOK, JoinedAreMembers

\* A new topic starts with nobody joined.
LEMMA CreateTopicInv ==
    ASSUME MembershipInv, NEW s \in Sessions, NEW raw \in RawChannels, NEW title \in Titles,
           CreateTopic(s, raw, title)
    PROVE  MembershipInv'
<1> DEFINE ch == NormalizeChannel[raw]
           Created(id) == [type |-> "topic_created", channel |-> ch, topicId |-> id, sender |-> s]
<1>1. ch \in Channels
  BY DEF CreateTopic, Channels
<1>2. PICK id \in TopicIds : /\ topics' = Put(topics, id, NewTopic(s, ch, title))
                             /\ Broadcast(Created(id))
  BY DEF CreateTopic
<1>3. UNCHANGED <<sessions, channels>>
  BY DEF CreateTopic
<1>4. Created(id) \in Event
  BY <1>1 DEF Event
<1>5. IsMap(clients', Clients, Client)
  BY <1>2, <1>4, BroadcastType DEF MembershipInv
<1> HIDE DEF ch
<1>6. NewTopic(s, ch, title) \in Topic /\ NewTopic(s, ch, title).joinedSessions = {}
  BY <1>1 DEF NewTopic, Topic
<1>7. IsMap(topics, TopicIds, Topic)
  BY DEF MembershipInv, TypeOK
<1>8. /\ IsMap(topics', TopicIds, Topic)
      /\ DOMAIN topics' = (DOMAIN topics) \cup {id}
      /\ topics'[id] = NewTopic(s, ch, title)
      /\ \A x \in DOMAIN topics : x # id => topics'[x] = topics[x]
  <2> DEFINE n == NewTopic(s, ch, title)
  <2>1. topics' = Put(topics, id, n) /\ n \in Topic
    BY <1>2, <1>6 DEF ch
  <2> HIDE DEF n
  <2> QED BY <1>7, <2>1 DEF IsMap, Put, n
<1>9. \A x \in DOMAIN topics' : topics'[x].joinedSessions \subseteq Members(topics'[x].channel)
  BY <1>6, <1>8 DEF MembershipInv, JoinedAreMembers
<1> QED BY <1>3, <1>5, <1>8, <1>9, TopicStepInv

\* A step that changes one existing topic.
LEMMA OneTopicInv ==
    ASSUME MembershipInv, UNCHANGED <<sessions, channels>>, NEW id \in DOMAIN topics,
           NEW t \in Topic, topics' = [topics EXCEPT ![id] = t],
           t.channel = topics[id].channel,
           t.joinedSessions \subseteq Members(topics[id].channel),
           IsMap(clients', Clients, Client)
    PROVE  MembershipInv'
<1>1. IsMap(topics', TopicIds, Topic)
  BY DEF MembershipInv, TypeOK, IsMap
<1>2. \A x \in DOMAIN topics' : topics'[x].joinedSessions \subseteq Members(topics'[x].channel)
  BY DEF MembershipInv, JoinedAreMembers, TypeOK, IsMap
<1> QED BY <1>1, <1>2, TopicStepInv

\* Posting appends to the topic's messages.
LEMMA PostMessageInv ==
    ASSUME MembershipInv, NEW s \in Sessions, NEW id \in DOMAIN topics, NEW text \in Texts,
           PostMessage(s, id, text)
    PROVE  MembershipInv'
<1> DEFINE m == [sender |-> s, text |-> text]
           e == [type |-> "message", channel |-> topics[id].channel, topicId |-> id,
                 sender |-> s, text |-> text]
           t == [topics[id] EXCEPT !.messages = Append(topics[id].messages, m)]
<1>1. topics[id] \in Topic /\ id \in TopicIds
  BY DEF MembershipInv, TypeOK, IsMap
<1>2. Append(topics[id].messages, m) \in Seq(Message)
  BY <1>1 DEF Topic, Message
<1>3. t \in Topic /\ t.channel = topics[id].channel /\ t.joinedSessions = topics[id].joinedSessions
  BY <1>1, <1>2 DEF Topic
<1>4. e \in Event
  BY <1>1 DEF Event, Topic
<1>5. UNCHANGED <<sessions, channels>> /\ topics' = [topics EXCEPT ![id] = t] /\ Broadcast(e)
  BY DEF PostMessage
<1>6. IsMap(clients', Clients, Client)
  BY <1>4, <1>5, BroadcastType DEF MembershipInv
<1>7. t.joinedSessions \subseteq Members(topics[id].channel)
  BY <1>3 DEF MembershipInv, JoinedAreMembers
<1> HIDE DEF t, e
<1> QED BY <1>3, <1>5, <1>6, <1>7, OneTopicInv

\* Joining is gated by the subscription, which the mirror turns into membership.
LEMMA JoinTopicInv ==
    ASSUME MembershipInv, NEW s \in Sessions, NEW id \in DOMAIN topics, JoinTopic(s, id)
    PROVE  MembershipInv'
<1> DEFINE t == [topics[id] EXCEPT !.joinedSessions = topics[id].joinedSessions \cup {s}]
<1>1. topics[id] \in Topic
  BY DEF MembershipInv, TypeOK, IsMap
<1>2. t \in Topic /\ t.channel = topics[id].channel /\ t.channel \in Channels
      /\ t.joinedSessions = topics[id].joinedSessions \cup {s}
  BY <1>1 DEF Topic
<1>3. s \in Members(topics[id].channel)
  BY <1>2 DEF MembershipInv, MembershipMirror, JoinTopic
<1>4. t.joinedSessions \subseteq Members(topics[id].channel)
  BY <1>2, <1>3 DEF MembershipInv, JoinedAreMembers
<1>5. /\ UNCHANGED <<sessions, channels>> /\ topics' = [topics EXCEPT ![id] = t]
      /\ IsMap(clients', Clients, Client)
  BY DEF JoinTopic, MembershipInv, TypeOK
<1> HIDE DEF t
<1> QED BY <1>2, <1>4, <1>5, OneTopicInv

\* Leaving a topic only removes from joinedSessions.
LEMMA LeaveTopicInv ==
    ASSUME MembershipInv, NEW s \in Sessions, NEW id \in DOMAIN topics, LeaveTopic(s, id)
    PROVE  MembershipInv'
<1> DEFINE t == [topics[id] EXCEPT !.joinedSessions = topics[id].joinedSessions \ {s}]
<1>1. topics[id] \in Topic
  BY DEF MembershipInv, TypeOK, IsMap
<1>2. t \in Topic /\ t.channel = topics[id].channel
      /\ t.joinedSessions = topics[id].joinedSessions \ {s}
  BY <1>1 DEF Topic
<1>3. t.joinedSessions \subseteq Members(topics[id].channel)
  BY <1>2 DEF MembershipInv, JoinedAreMembers
<1>4. /\ UNCHANGED <<sessions, channels>> /\ topics' = [topics EXCEPT ![id] = t]
      /\ IsMap(clients', Clients, Client)
  BY DEF LeaveTopic, MembershipInv, TypeOK
<1> HIDE DEF t
<1> QED BY <1>2, <1>3, <1>4, OneTopicInv

\* Archiving and unarchiving keep the joined sessions.
LEMMA SetStateInv ==
    ASSUME MembershipInv, NEW s \in Sessions, NEW id \in DOMAIN topics,
           NEW state \in {"active", "archived"},
           NEW type \in {"topic_archived", "topic_unarchived"}, SetState(s, id, state, type)
    PROVE  MembershipInv'
<1> DEFINE t == [topics[id] EXCEPT !.state = state]
           e == [type |-> type, channel |-> topics[id].channel, topicId |-> id, sender |-> s]
<1>1. topics[id] \in Topic /\ id \in TopicIds
  BY DEF MembershipInv, TypeOK, IsMap
<1>2. t \in Topic /\ t.channel = topics[id].channel /\ t.joinedSessions = topics[id].joinedSessions
  BY <1>1 DEF Topic
<1>3. e \in Event
  BY <1>1 DEF Event, Topic
<1>4. UNCHANGED <<sessions, channels>> /\ topics' = [topics EXCEPT ![id] = t] /\ Broadcast(e)
  BY DEF SetState
<1>5. IsMap(clients', Clients, Client)
  BY <1>3, <1>4, BroadcastType DEF MembershipInv
<1>6. t.joinedSessions \subseteq Members(topics[id].channel)
  BY <1>2 DEF MembershipInv, JoinedAreMembers
<1> HIDE DEF t, e
<1> QED BY <1>2, <1>4, <1>5, <1>6, OneTopicInv

\* A connection as GET /events leaves it: nothing written yet.
Opened == [since |-> [id \in TopicIds |-> Len(Stored(id))], written |-> <<>>]

\* What the broker has of a topic is a sequence of messages.
LEMMA StoredType ==
    ASSUME MembershipInv, NEW id
    PROVE  Stored(id) \in Seq(Message) /\ Len(Stored(id)) \in Nat
<1>1. CASE id \in DOMAIN topics
  <2>1. topics[id].messages \in Seq(Message)
    BY <1>1 DEF MembershipInv, TypeOK, IsMap, Topic
  <2> QED BY <1>1, <2>1 DEF Stored
<1>2. CASE id \notin DOMAIN topics
  <2>1. <<>> \in Seq(Message) /\ Len(<<>>) \in Nat
    OBVIOUS
  <2> QED BY <1>2, <2>1 DEF Stored
<1> QED BY <1>1, <1>2

LEMMA OpenedType ==
    ASSUME MembershipInv
    PROVE  Opened \in Client
<1>1. \A id \in TopicIds : Len(Stored(id)) \in Nat
  BY StoredType
<1>2. <<>> \in Seq(Written)
  OBVIOUS
<1> QED BY <1>1, <1>2 DEF Opened, Client

\* Connections come and go without touching the rest of the state.
LEMMA ClientInv ==
    ASSUME MembershipInv, NEW c \in Clients, ConnectClient(c) \/ CloseClient(c)
    PROVE  MembershipInv'
<1>1. IsMap(clients', Clients, Client)
  <2>1. IsMap(clients, Clients, Client)
    BY DEF MembershipInv, TypeOK
  <2>2. CASE ConnectClient(c)
    <3>1. Opened \in Client
      BY OpenedType
    <3>2. clients' = Put(clients, c, Opened)
      BY <2>2 DEF ConnectClient, Opened
    <3> QED BY <2>1, <3>1, <3>2, PutMap
  <2>3. CASE CloseClient(c)
    BY <2>1, <2>3, DelMap DEF CloseClient
  <2> QED BY <2>2, <2>3
<1>2. UNCHANGED <<sessions, channels, topics>>
  BY DEF ConnectClient, CloseClient
<1> QED BY <1>1, <1>2, TopicStepInv DEF MembershipInv, TypeOK, JoinedAreMembers

-----------------------------------------------------------------------------
(* The theorems *)

\* Every step of the broker keeps the membership invariant.
LEMMA MembershipStep ==
    ASSUME MembershipInv, [Next]_vars
    PROVE  MembershipInv'
<1>1. ASSUME NEW s \in Sessions, RegisterSession(s) \/ DeleteSession(s)
      PROVE  MembershipInv'
  BY <1>1, RegisterSessionInv, DeleteSessionInv
<1>2. ASSUME NEW s \in Sessions, NEW raw \in RawChannels, JoinChannel(s, raw) \/ LeaveChannel(s, raw)
      PROVE  MembershipInv'
  BY <1>2, JoinChannelInv, LeaveChannelInv
<1>3. ASSUME NEW s \in Sessions, NEW raw \in RawChannels, NEW text \in Texts,
             BroadcastToChannel(s, raw, text)
      PROVE  MembershipInv'
  <2> DEFINE e == [type |-> "broadcast", channel |-> NormalizeChannel[raw], sender |-> s, text |-> text]
  <2>1. e \in Event
    BY <1>3 DEF Event, BroadcastToChannel, Channels
  <2>2. UNCHANGED <<sessions, channels, topics>> /\ Broadcast(e)
    BY <1>3 DEF BroadcastToChannel
  <2> HIDE DEF e
  <2> QED BY <2>1, <2>2, BrokerWrites, BroadcastInv DEF Broadcast
<1>4. ASSUME NEW s \in Sessions, NEW raw \in RawChannels, NEW title \in Titles,
             CreateTopic(s, raw, title)
      PROVE  MembershipInv'
  BY <1>4, CreateTopicInv
<1>5. ASSUME NEW s \in Sessions, NEW id \in DOMAIN topics, NEW text \in Texts,
             PostMessage(s, id, text)
      PROVE  MembershipInv'
  BY <1>5, PostMessageInv
<1>6. ASSUME NEW s \in Sessions, NEW id \in DOMAIN topics,
             JoinTopic(s, id) \/ LeaveTopic(s, id) \/ ArchiveTopic(s, id) \/ UnarchiveTopic(s, id)
      PROVE  MembershipInv'
  BY <1>6, JoinTopicInv, LeaveTopicInv, SetStateInv DEF ArchiveTopic, UnarchiveTopic
<1>7. ASSUME NEW event \in RelayedEvents, RelayEvent(event) PROVE MembershipInv'
  <2>1. [by |-> "caller", event |-> event] \in Written
    BY DEF Written
  <2> QED BY <1>7, <2>1, BroadcastInv DEF RelayEvent
<1>8. ASSUME NEW c \in Clients, ConnectClient(c) \/ CloseClient(c)
      PROVE  MembershipInv'
  BY <1>8, ClientInv
<1>9. CASE UNCHANGED vars
  BY <1>9 DEF vars, MembershipInv, TypeOK, MembershipMirror, NoEmptyChannel,
              JoinedAreMembers, Subscribed, Members
<1> QED BY <1>1, <1>2, <1>3, <1>4, <1>5, <1>6, <1>7, <1>8, <1>9 DEF Next

\* Types, the two-way membership relation, channel garbage collection and
\* joined-implies-member hold in every state the broker reaches, for any
\* number of sessions, channels, topics and connections.
THEOREM MembershipCorrect == Spec => []MembershipInv
<1>1. Init => MembershipInv
  BY EmptyIsMap DEF Init, MembershipInv, TypeOK, MembershipMirror, NoEmptyChannel,
                    JoinedAreMembers, Subscribed, Members
<1>2. MembershipInv /\ [Next]_vars => MembershipInv'
  BY MembershipStep
<1> QED BY <1>1, <1>2, PTL DEF Spec

\* Whoever the broker keeps as joined to a topic is a member of its channel.
THEOREM JoinedAreMembersCorrect == Spec => []JoinedAreMembers
<1>1. MembershipInv => JoinedAreMembers
  BY DEF MembershipInv
<1> QED BY <1>1, MembershipCorrect, PTL

-----------------------------------------------------------------------------
(* Suffixes *)

\* The end of t is s, position by position.
LEMMA SuffixPointwise ==
    ASSUME NEW S, NEW s \in Seq(S), NEW t \in Seq(S)
    PROVE  IsSuffix(s, t) <=> /\ Len(s) <= Len(t)
                              /\ \A i \in 1 .. Len(s) : s[i] = t[Len(t) - Len(s) + i]
<1>1. /\ Reverse(s) = [i \in 1 .. Len(s) |-> s[(Len(s) - i) + 1]]
      /\ Reverse(t) = [i \in 1 .. Len(t) |-> t[(Len(t) - i) + 1]]
  BY DEF Reverse
<1>2. Len(s) \in Nat /\ Len(t) \in Nat
  OBVIOUS
<1>3. /\ Reverse(s) \in Seq(S) /\ Len(Reverse(s)) = Len(s)
      /\ Reverse(t) \in Seq(S) /\ Len(Reverse(t)) = Len(t)
  <2>1. ASSUME NEW u \in Seq(S) PROVE [i \in 1 .. Len(u) |-> u[(Len(u) - i) + 1]] \in Seq(S)
    <3>1. \A i \in 1 .. Len(u) : (Len(u) - i) + 1 \in 1 .. Len(u)
      OBVIOUS
    <3> QED
      BY <3>1
  <2> QED
    BY <1>1, <2>1
<1>4. IsSuffix(s, t) <=> /\ Len(s) <= Len(t)
                         /\ SubSeq(Reverse(s), 1, Len(s)) = SubSeq(Reverse(t), 1, Len(s))
  BY <1>3 DEF IsSuffix, IsPrefix
<1>5. ASSUME Len(s) <= Len(t)
      PROVE  /\ SubSeq(Reverse(s), 1, Len(s)) = [i \in 1 .. Len(s) |-> s[(Len(s) - i) + 1]]
             /\ SubSeq(Reverse(t), 1, Len(s)) = [i \in 1 .. Len(s) |-> t[(Len(t) - i) + 1]]
  BY <1>1, <1>2, <1>3, <1>5
<1>6. ASSUME Len(s) <= Len(t)
      PROVE  (\A i \in 1 .. Len(s) : s[(Len(s) - i) + 1] = t[(Len(t) - i) + 1])
                <=> (\A i \in 1 .. Len(s) : s[i] = t[Len(t) - Len(s) + i])
  <2>1. ASSUME NEW i \in 1 .. Len(s)
        PROVE  /\ (Len(s) - i) + 1 \in 1 .. Len(s)
               /\ (Len(s) - ((Len(s) - i) + 1)) + 1 = i
               /\ (Len(t) - ((Len(s) - i) + 1)) + 1 = Len(t) - Len(s) + i
               /\ Len(t) - Len(s) + ((Len(s) - i) + 1) = (Len(t) - i) + 1
    BY <1>2
  <2> QED
    BY <2>1
<1> QED
  BY <1>4, <1>5, <1>6

\* Both streams get the event.
LEMMA AppendKeepsSuffix ==
    ASSUME NEW S, NEW s \in Seq(S), NEW t \in Seq(S), NEW e \in S, IsSuffix(s, t)
    PROVE  IsSuffix(Append(s, e), Append(t, e))
<1>1. /\ Len(s) <= Len(t) /\ Len(s) \in Nat /\ Len(t) \in Nat
      /\ \A i \in 1 .. Len(s) : s[i] = t[Len(t) - Len(s) + i]
  BY SuffixPointwise
<1>2. /\ Append(s, e) \in Seq(S) /\ Len(Append(s, e)) = Len(s) + 1
      /\ Append(t, e) \in Seq(S) /\ Len(Append(t, e)) = Len(t) + 1
  OBVIOUS
<1>3. ASSUME NEW i \in 1 .. Len(s) + 1
      PROVE  Append(s, e)[i] = Append(t, e)[(Len(t) + 1) - (Len(s) + 1) + i]
  <2>1. CASE i = Len(s) + 1
    BY <1>1, <2>1
  <2>2. CASE i \in 1 .. Len(s)
    <3>1. (Len(t) + 1) - (Len(s) + 1) + i \in 1 .. Len(t)
      BY <1>1, <2>2
    <3> QED
      BY <1>1, <2>2, <3>1
  <2> QED
    BY <1>1, <2>1, <2>2
<1> DEFINE u == Append(s, e)
           v == Append(t, e)
<1>4. /\ u \in Seq(S) /\ Len(u) = Len(s) + 1 /\ v \in Seq(S) /\ Len(v) = Len(t) + 1
      /\ \A i \in 1 .. Len(u) : u[i] = v[Len(v) - Len(u) + i]
  BY <1>2, <1>3
<1> HIDE DEF u, v
<1>5. IsSuffix(u, v) <=> /\ Len(u) <= Len(v)
                         /\ \A i \in 1 .. Len(u) : u[i] = v[Len(v) - Len(u) + i]
  BY <1>4, SuffixPointwise
<1>6. Len(u) <= Len(v)
  BY <1>1, <1>4
<1> QED
  BY <1>4, <1>5, <1>6 DEF u, v

\* A stream that carries nothing yet agrees with every other.
LEMMA EmptyIsSuffix ==
    ASSUME NEW S, NEW t \in Seq(S)
    PROVE  IsSuffix(<<>>, t)
<1> DEFINE s == <<>>
<1>1. s \in Seq(S) /\ Len(s) = 0 /\ Len(t) \in Nat
  BY EmptySeq
<1> HIDE DEF s
<1>2. IsSuffix(s, t) <=> /\ Len(s) <= Len(t)
                         /\ \A i \in 1 .. Len(s) : s[i] = t[Len(t) - Len(s) + i]
  BY <1>1, SuffixPointwise
<1> QED
  BY <1>1, <1>2 DEF s

-----------------------------------------------------------------------------
(* What a step does to the connections and to the topics *)

\* One connection more or less.
ClientStep == \E c \in Clients : ConnectClient(c) \/ CloseClient(c)

\* What is sent is not a message of the broker's: another event, or a relayed one.
NoMessage(w) == ~(w.by = "broker" /\ w.event.type = "message")

\* The topics keep what they are and what was said in them, a new one is empty,
\* and the broker sends no connection a message.
QuietStep ==
    /\ DOMAIN topics \subseteq DOMAIN topics'
    /\ \A id \in DOMAIN topics : \A f \in {"topic", "channel", "creator", "messages"} :
            topics'[id][f] = topics[id][f]
    /\ \A id \in DOMAIN topics' \ DOMAIN topics : topics'[id].messages = <<>>
    /\ \/ UNCHANGED clients
       \/ ClientStep /\ UNCHANGED topics
       \/ \E w \in Written : NoMessage(w) /\ Send(w)

\* An event of another type than a message is no message.
LEMMA BroadcastQuiet ==
    ASSUME NEW e \in Event, e.type # "message", Broadcast(e)
    PROVE  \E w \in Written : NoMessage(w) /\ Send(w)
<1> DEFINE w == [by |-> "broker", event |-> e]
<1>1. w \in Written /\ NoMessage(w) /\ Send(w)
  BY BrokerWrites DEF NoMessage, Broadcast
<1> QED BY <1>1

\* Only posting is not quiet.
LEMMA NextIsQuiet ==
    ASSUME MembershipInv, [Next]_vars
    PROVE  \/ QuietStep
           \/ \E s \in Sessions, id \in DOMAIN topics, text \in Texts : PostMessage(s, id, text)
<1>t. /\ IsMap(topics, TopicIds, Topic)
      /\ \A id \in DOMAIN topics :
            id \in TopicIds /\ topics[id] \in Topic /\ topics[id].channel \in Channels
  BY DEF MembershipInv, TypeOK, IsMap, Topic
<1>1. ASSUME NEW s \in Sessions, NEW raw \in RawChannels, NEW text \in Texts,
             BroadcastToChannel(s, raw, text)
      PROVE  QuietStep
  <2> DEFINE e == [type |-> "broadcast", channel |-> NormalizeChannel[raw], sender |-> s, text |-> text]
  <2>1. e \in Event /\ e.type # "message"
    BY <1>1 DEF BroadcastToChannel, Event, Channels
  <2>2. Broadcast(e) /\ UNCHANGED topics
    BY <1>1 DEF BroadcastToChannel
  <2> HIDE DEF e
  <2> QED
    BY <2>1, <2>2, BroadcastQuiet DEF QuietStep
<1>2. ASSUME NEW s \in Sessions, NEW raw \in RawChannels, NEW title \in Titles,
             CreateTopic(s, raw, title)
      PROVE  QuietStep
  <2> DEFINE Created(id) == [type |-> "topic_created", channel |-> NormalizeChannel[raw],
                             topicId |-> id, sender |-> s]
  <2>1. \A id \in TopicIds : Created(id) \in Event /\ Created(id).type # "message"
    BY <1>2 DEF CreateTopic, Event, Channels
  <2>2. PICK id \in TopicIds \ DOMAIN topics :
            /\ topics' = Put(topics, id, NewTopic(s, NormalizeChannel[raw], title))
            /\ Broadcast(Created(id))
    BY <1>2 DEF CreateTopic
  <2>3. NewTopic(s, NormalizeChannel[raw], title).messages = <<>>
    BY DEF NewTopic
  <2> HIDE DEF Created
  <2>4. /\ DOMAIN topics' = (DOMAIN topics) \cup {id} /\ topics'[id].messages = <<>>
        /\ \A x \in DOMAIN topics : topics'[x] = topics[x]
    BY <2>2, <2>3 DEF Put
  <2> QED
    BY <2>1, <2>2, <2>4, BroadcastQuiet DEF QuietStep
<1>3. ASSUME NEW s \in Sessions, NEW id \in DOMAIN topics,
             ArchiveTopic(s, id) \/ UnarchiveTopic(s, id)
      PROVE  QuietStep
  <2>1. PICK state \in {"active", "archived"}, type \in {"topic_archived", "topic_unarchived"} :
            SetState(s, id, state, type)
    BY <1>3 DEF ArchiveTopic, UnarchiveTopic
  <2> DEFINE e == [type |-> type, channel |-> topics[id].channel, topicId |-> id, sender |-> s]
  <2>2. e \in Event /\ e.type # "message" /\ Broadcast(e)
    BY <1>t, <2>1 DEF Event, SetState
  <2>3. topics' = [topics EXCEPT ![id].state = state]
    BY <2>1 DEF SetState
  <2>4. /\ DOMAIN topics' = DOMAIN topics
        /\ \A x \in DOMAIN topics : \A f \in {"topic", "channel", "creator", "messages"} :
                topics'[x][f] = topics[x][f]
    BY <1>t, <2>3 DEF Topic
  <2> HIDE DEF e
  <2> QED
    BY <2>2, <2>4, BroadcastQuiet DEF QuietStep
<1>4. ASSUME NEW event \in RelayedEvents, RelayEvent(event) PROVE QuietStep
  <2> DEFINE w == [by |-> "caller", event |-> event]
  <2>1. w \in Written /\ NoMessage(w) /\ Send(w) /\ UNCHANGED topics
    BY <1>4 DEF RelayEvent, Written, NoMessage
  <2> HIDE DEF w
  <2> QED
    BY <2>1 DEF QuietStep
<1>5. ASSUME NEW c \in Clients, ConnectClient(c) \/ CloseClient(c) PROVE QuietStep
  <2>1. UNCHANGED topics
    BY <1>5 DEF ConnectClient, CloseClient
  <2> QED
    BY <1>5, <2>1 DEF QuietStep, ClientStep
<1>6. ASSUME NEW s \in Sessions, NEW chs, topics' = TopicsWithout(s, chs), UNCHANGED clients
      PROVE  QuietStep
  <2>1. /\ DOMAIN topics' = DOMAIN topics
        /\ \A x \in DOMAIN topics : \A f \in {"topic", "channel", "creator", "messages"} :
                topics'[x][f] = topics[x][f]
    BY <1>t, <1>6 DEF TopicsWithout, Topic
  <2> QED
    BY <1>6, <2>1 DEF QuietStep
<1>7. ASSUME UNCHANGED <<topics, clients>> PROVE QuietStep
  BY <1>7 DEF QuietStep
<1>8. ASSUME NEW s \in Sessions, RegisterSession(s) \/ DeleteSession(s) PROVE QuietStep
  BY <1>6, <1>7, <1>8 DEF RegisterSession, DeleteSession
<1>9. ASSUME NEW s \in Sessions, NEW raw \in RawChannels, JoinChannel(s, raw) \/ LeaveChannel(s, raw)
      PROVE  QuietStep
  BY <1>6, <1>7, <1>9 DEF JoinChannel, LeaveChannel
<1>10. ASSUME NEW s \in Sessions, NEW id \in DOMAIN topics, JoinTopic(s, id) \/ LeaveTopic(s, id)
       PROVE  QuietStep
  <2>1. PICK sessionsNow :
            topics' = [topics EXCEPT ![id].joinedSessions = sessionsNow] /\ UNCHANGED clients
    <3>1. CASE JoinTopic(s, id)
      BY <3>1 DEF JoinTopic
    <3>2. CASE LeaveTopic(s, id)
      BY <3>2 DEF LeaveTopic
    <3> QED
      BY <1>10, <3>1, <3>2
  <2>2. /\ DOMAIN topics' = DOMAIN topics
        /\ \A x \in DOMAIN topics : \A f \in {"topic", "channel", "creator", "messages"} :
                topics'[x][f] = topics[x][f]
    BY <1>t, <2>1 DEF Topic
  <2> QED
    BY <2>1, <2>2 DEF QuietStep
<1>11. CASE UNCHANGED vars
  BY <1>7, <1>11 DEF vars
<1> QED
  BY <1>1, <1>2, <1>3, <1>4, <1>5, <1>8, <1>9, <1>10, <1>11 DEF Next

\* What PostMessage appends to the topic, and what it sends.
Said(s, text) == [sender |-> s, text |-> text]

MessageEvent(s, id, text) ==
    [type |-> "message", channel |-> topics[id].channel, topicId |-> id, sender |-> s, text |-> text]

LEMMA PostIsMessage ==
    ASSUME MembershipInv, NEW s \in Sessions, NEW id \in DOMAIN topics, NEW text \in Texts,
           PostMessage(s, id, text)
    PROVE  /\ MessageEvent(s, id, text) \in Event
           /\ Said(s, text) \in Message
           /\ Broadcast(MessageEvent(s, id, text))
           /\ DOMAIN topics' = DOMAIN topics
           /\ \A x \in DOMAIN topics : \A f \in {"topic", "channel", "creator"} :
                    topics'[x][f] = topics[x][f]
           /\ \A x \in DOMAIN topics : topics[x].messages \in Seq(Message)
           /\ topics'[id].messages = Append(topics[id].messages, Said(s, text))
           /\ \A x \in DOMAIN topics : x # id => topics'[x].messages = topics[x].messages
<1>1. /\ IsMap(topics, TopicIds, Topic)
      /\ \A x \in DOMAIN topics :
            /\ x \in TopicIds /\ topics[x] \in Topic /\ topics[x].channel \in Channels
            /\ topics[x].messages \in Seq(Message)
  BY DEF MembershipInv, TypeOK, IsMap, Topic
<1>2. MessageEvent(s, id, text) \in Event
  BY <1>1 DEF MessageEvent, Event
<1>3. Said(s, text) \in Message
  BY DEF Said, Message
<1>4. Broadcast(MessageEvent(s, id, text))
  BY DEF PostMessage, MessageEvent
<1>5. topics' = [topics EXCEPT ![id].messages = Append(@, Said(s, text))]
  BY DEF PostMessage, Said
<1> QED
  BY <1>1, <1>2, <1>3, <1>4, <1>5 DEF Topic

-----------------------------------------------------------------------------
(* Topics are append-only *)

\* A history that got one more message, or none, begins as before.
LEMMA AppendKeepsPrefix ==
    ASSUME NEW S, NEW s \in Seq(S), NEW e \in S
    PROVE  IsPrefix(s, s) /\ IsPrefix(s, Append(s, e))
<1>1. Len(s) \in Nat /\ Append(s, e) \in Seq(S) /\ Len(Append(s, e)) = Len(s) + 1
  OBVIOUS
<1>2. SubSeq(s, 1, Len(s)) = SubSeq(Append(s, e), 1, Len(s))
  BY <1>1
<1> QED
  BY <1>1, <1>2 DEF IsPrefix

\* No step of the broker removes a topic, changes its title, channel or
\* creator, or rewrites its history.
THEOREM TopicsAppendOnlyCorrect == Spec => TopicsAppendOnly
<1> DEFINE Kept ==
        \A id \in DOMAIN topics :
            /\ id \in DOMAIN topics'
            /\ \A f \in {"topic", "channel", "creator"} : topics'[id][f] = topics[id][f]
            /\ IsPrefix(topics[id].messages, topics'[id].messages)
<1>1. ASSUME MembershipInv, [Next]_vars PROVE Kept
  <2>t. \A id \in DOMAIN topics : topics[id].messages \in Seq(Message)
    BY <1>1 DEF MembershipInv, TypeOK, IsMap, Topic
  <2>1. ASSUME NEW s \in Sessions, NEW id \in DOMAIN topics, NEW text \in Texts,
               PostMessage(s, id, text)
        PROVE  Kept
    <3>1. /\ Said(s, text) \in Message /\ DOMAIN topics' = DOMAIN topics
          /\ \A x \in DOMAIN topics : \A f \in {"topic", "channel", "creator"} :
                    topics'[x][f] = topics[x][f]
          /\ topics'[id].messages = Append(topics[id].messages, Said(s, text))
          /\ \A x \in DOMAIN topics : x # id => topics'[x].messages = topics[x].messages
      BY <1>1, <2>1, PostIsMessage
    <3>2. \A x \in DOMAIN topics : IsPrefix(topics[x].messages, topics'[x].messages)
      BY <2>t, <3>1, AppendKeepsPrefix
    <3> QED
      BY <3>1, <3>2
  <2>2. CASE QuietStep
    <3>1. ASSUME NEW x \in DOMAIN topics PROVE IsPrefix(topics[x].messages, topics[x].messages)
      <4>1. Len(topics[x].messages) \in Nat
        BY <2>t
      <4> QED
        BY <4>1 DEF IsPrefix
    <3> QED
      BY <2>2, <3>1 DEF QuietStep
  <2> QED
    BY <1>1, <2>1, <2>2, NextIsQuiet
<1>2. MembershipInv /\ [Next]_vars => [Kept]_vars
  BY <1>1
<1> QED
  BY <1>2, MembershipCorrect, PTL DEF Spec, TopicsAppendOnly

-----------------------------------------------------------------------------
(* The streams of the connections *)

\* Who is left after an event was sent to everyone, and what was written to them.
LEMMA SendEffect ==
    ASSUME TypeOK, NEW w \in Written, Send(w), NEW c \in DOMAIN clients'
    PROVE  /\ c \in DOMAIN clients
           /\ clients'[c].since = clients[c].since
           /\ clients'[c].written = Append(clients[c].written, w)
<1>1. c \in DOMAIN clients /\ clients'[c] = Write(c, w)
  BY DEF Send
<1> QED
  BY <1>1, WriteClient

\* Who is left when a connection opens or closes, and what was written to them.
LEMMA ClientEffect ==
    ASSUME ClientStep, NEW c \in DOMAIN clients'
    PROVE  \/ c \in DOMAIN clients /\ clients'[c] = clients[c]
           \/ clients'[c] = Opened
<1>1. ASSUME NEW x \in Clients, ConnectClient(x)
      PROVE  \/ c \in DOMAIN clients /\ clients'[c] = clients[c]
             \/ clients'[c] = Opened
  BY <1>1 DEF ConnectClient, Opened, Put
<1>2. ASSUME NEW x \in Clients, CloseClient(x)
      PROVE  c \in DOMAIN clients /\ clients'[c] = clients[c]
  BY <1>2 DEF CloseClient, Del
<1> QED
  BY <1>1, <1>2 DEF ClientStep

\* Of two open connections the later one saw the end of what the earlier saw,
\* however many others failed, closed or opened.
THEOREM StreamsAgreeCorrect == Spec => []StreamsAgree
<1>1. Init => StreamsAgree
  BY EmptyIsMap DEF Init, StreamsAgree, EmptyMap
<1>2. ASSUME MembershipInv, StreamsAgree, [Next]_vars PROVE StreamsAgree'
  <2>t. /\ TypeOK
        /\ \A c \in DOMAIN clients :
              clients[c].written \in Seq(Written) /\ Len(clients[c].written) \in Nat
    BY <1>2 DEF MembershipInv, TypeOK, IsMap, Client
  <2>1. CASE UNCHANGED clients
    BY <1>2, <2>1 DEF StreamsAgree
  <2>2. ASSUME NEW w \in Written, Send(w) PROVE StreamsAgree'
    <3> SUFFICES ASSUME NEW c \in DOMAIN clients', NEW d \in DOMAIN clients',
                        Len(clients'[c].written) <= Len(clients'[d].written)
                 PROVE  IsSuffix(clients'[c].written, clients'[d].written)
      BY DEF StreamsAgree
    <3>1. /\ c \in DOMAIN clients /\ d \in DOMAIN clients
          /\ clients'[c].written = Append(clients[c].written, w)
          /\ clients'[d].written = Append(clients[d].written, w)
      BY <2>t, <2>2, SendEffect
    <3>2. /\ clients[c].written \in Seq(Written) /\ clients[d].written \in Seq(Written)
          /\ Len(clients[c].written) <= Len(clients[d].written)
      BY <2>t, <3>1
    <3>3. IsSuffix(clients[c].written, clients[d].written)
      BY <1>2, <3>1, <3>2 DEF StreamsAgree
    <3> QED
      BY <3>1, <3>2, <3>3, AppendKeepsSuffix
  <2>3. CASE ClientStep
    <3> SUFFICES ASSUME NEW c \in DOMAIN clients', NEW d \in DOMAIN clients',
                        Len(clients'[c].written) <= Len(clients'[d].written)
                 PROVE  IsSuffix(clients'[c].written, clients'[d].written)
      BY DEF StreamsAgree
    <3>1. Opened.written = <<>> /\ <<>> \in Seq(Written) /\ Len(<<>>) = 0
      BY DEF Opened
    <3>2. clients'[d].written \in Seq(Written)
      BY <2>t, <2>3, <3>1, ClientEffect
    <3>3. CASE clients'[c].written = <<>>
      BY <3>2, <3>3, EmptyIsSuffix
    <3>4. CASE clients'[c].written # <<>>
      <4>1. c \in DOMAIN clients /\ clients'[c] = clients[c] /\ Len(clients[c].written) > 0
        BY <2>t, <2>3, <3>1, <3>4, ClientEffect
      <4>2. d \in DOMAIN clients /\ clients'[d] = clients[d]
        BY <2>3, <3>1, <4>1, ClientEffect
      <4> QED
        BY <1>2, <4>1, <4>2 DEF StreamsAgree
    <3> QED
      BY <3>3, <3>4
  <2>4. CASE QuietStep
    BY <2>1, <2>2, <2>3, <2>4 DEF QuietStep
  <2>5. ASSUME NEW s \in Sessions, NEW id \in DOMAIN topics, NEW text \in Texts,
               PostMessage(s, id, text)
        PROVE  StreamsAgree'
    BY <1>2, <2>2, <2>5, PostIsMessage, BrokerWrites DEF Broadcast
  <2> QED
    BY <1>2, <2>4, <2>5, NextIsQuiet
<1> QED
  BY <1>1, <1>2, MembershipCorrect, PTL DEF Spec

-----------------------------------------------------------------------------
(* History and live delivery: MessagesOn goes over a stream event by event, *)
(* and what holds of it is shown by induction on the number of events.  The *)
(* induction is on the set of numbers for which it holds: the library's     *)
(* induction theorems take an operator as parameter.                        *)

\* A set with 0 and the successor of each of its numbers has them all.
LEMMA SetInduction ==
    ASSUME NEW S, 0 \in S, \A n \in Nat : n \in S => n + 1 \in S
    PROVE  Nat \subseteq S
<1> SUFFICES ASSUME Nat \ S # {} PROVE FALSE
  OBVIOUS
<1>1. /\ IsWellFoundedOn(OpToRel(<, Nat), Nat)
      /\ \A x, y \in Nat : x < y => <<x, y>> \in OpToRel(<, Nat)
  BY NatLessThanWellFounded DEF OpToRel
<1>2. PICK R : IsWellFoundedOn(R, Nat) /\ \A x, y \in Nat : x < y => <<x, y>> \in R
  BY <1>1, Zenon
<1>3. PICK x \in Nat \ S : \A y \in Nat \ S : ~ (<<y, x>> \in R)
  <2>1. IsWellFoundedOn(R, Nat) /\ Nat \ S \subseteq Nat
    BY <1>2
  <2> QED
    BY <2>1, WFMin
<1>4. x # 0 /\ x - 1 \in Nat /\ x - 1 < x /\ (x - 1) + 1 = x
  OBVIOUS
<1>5. x - 1 \in S
  BY <1>2, <1>3, <1>4
<1> QED
  BY <1>4, <1>5

\* A step of MessagesOn: what is told after one more event.
Tell(stream, id, told, n) ==
    LET event == stream[n].event IN
    IF stream[n].by = "broker" /\ event.type = "message" /\ event.topicId = id
    THEN Append(told, [sender |-> event.sender, text |-> event.text])
    ELSE told

\* g is what MessagesOn goes through over the first n events.
IsTale(stream, id, n, g) ==
    g = [i \in 0 .. n |-> IF i = 0 THEN <<>> ELSE Tell(stream, id, g[i - 1], i)]

\* There is such a function: the recursion is well defined.
LEMMA TaleExists ==
    ASSUME NEW stream, NEW id
    PROVE  \A n \in Nat : \E g : IsTale(stream, id, n, g)
<1> DEFINE S == {n \in Nat : \E g : IsTale(stream, id, n, g)}
<1>1. 0 \in S
  <2> DEFINE g == [i \in 0 .. 0 |-> <<>>]
  <2>1. IsTale(stream, id, 0, g)
    BY DEF IsTale
  <2> QED
    BY <2>1
<1>2. ASSUME NEW n \in Nat, n \in S PROVE n + 1 \in S
  <2>1. PICK g : IsTale(stream, id, n, g)
    BY <1>2
  <2> DEFINE h == [i \in 0 .. n + 1 |-> IF i = n + 1 THEN Tell(stream, id, g[n], n + 1) ELSE g[i]]
  <2>2. \A i \in 0 .. n : g[i] = IF i = 0 THEN <<>> ELSE Tell(stream, id, g[i - 1], i)
    BY <2>1 DEF IsTale
  <2>3. \A i \in 0 .. n + 1 : h[i] = IF i = 0 THEN <<>> ELSE Tell(stream, id, h[i - 1], i)
    BY <2>2
  <2>4. IsTale(stream, id, n + 1, h)
    <3>1. h = [i \in 0 .. n + 1 |-> h[i]]
      OBVIOUS
    <3> HIDE DEF h
    <3> QED
      BY <2>3, <3>1 DEF IsTale
  <2> QED
    BY <2>4
<1> HIDE DEF S
<1>3. Nat \subseteq S
  BY <1>1, <1>2, SetInduction
<1> QED
  BY <1>3 DEF S

\* MessagesOn is the last value of such a function.
LEMMA MessagesOnTale ==
    ASSUME NEW stream, NEW id, Len(stream) \in Nat
    PROVE  \E g : /\ g[0] = <<>>
                  /\ \A i \in 1 .. Len(stream) : g[i] = Tell(stream, id, g[i - 1], i)
                  /\ MessagesOn(stream, id) = g[Len(stream)]
<1> DEFINE G == CHOOSE g : IsTale(stream, id, Len(stream), g)
<1>1. IsTale(stream, id, Len(stream), G)
  BY TaleExists, Zenon
<1>2. MessagesOn(stream, id) = G[Len(stream)]
  BY Zenon DEF MessagesOn, IsTale, Tell
<1> HIDE DEF G
<1>3. G[0] = <<>> /\ \A i \in 1 .. Len(stream) : G[i] = Tell(stream, id, G[i - 1], i)
  BY <1>1 DEF IsTale
<1> QED
  BY <1>2, <1>3

\* A stream without events carries no messages.
LEMMA NothingTold ==
    ASSUME NEW id PROVE MessagesOn(<<>>, id) = <<>>
<1>1. Len(<<>>) \in Nat /\ Len(<<>>) = 0
  OBVIOUS
<1> QED
  BY <1>1, MessagesOnTale

\* What a stream carries are messages.
LEMMA MessagesOnType ==
    ASSUME NEW stream \in Seq(Written), NEW id
    PROVE  MessagesOn(stream, id) \in Seq(Message)
<1>1. Len(stream) \in Nat
  OBVIOUS
<1>2. PICK g : /\ g[0] = <<>>
               /\ \A i \in 1 .. Len(stream) : g[i] = Tell(stream, id, g[i - 1], i)
               /\ MessagesOn(stream, id) = g[Len(stream)]
  BY <1>1, MessagesOnTale
<1> DEFINE S == {n \in Nat : n <= Len(stream) => g[n] \in Seq(Message)}
<1>3. 0 \in S
  BY <1>2, EmptySeq
<1>4. ASSUME NEW n \in Nat, n \in S, n + 1 <= Len(stream) PROVE g[n + 1] \in Seq(Message)
  <2>1. stream[n + 1] \in Written
    BY <1>1, <1>4
  <2>2. g[n] \in Seq(Message) /\ g[n + 1] = Tell(stream, id, g[n], n + 1)
    BY <1>1, <1>2, <1>4
  <2>3. stream[n + 1].by = "broker" => stream[n + 1].event \in Event
    BY <2>1 DEF Written
  <2>4. ASSUME NEW event \in Event, event.type = "message"
        PROVE  [sender |-> event.sender, text |-> event.text] \in Message
    BY <2>4 DEF Event, Message
  <2> QED
    BY <2>2, <2>3, <2>4 DEF Tell
<1>5. \A n \in Nat : n \in S => n + 1 \in S
  BY <1>4
<1> HIDE DEF S
<1>6. Nat \subseteq S
  BY <1>3, <1>5, SetInduction
<1> QED
  BY <1>1, <1>2, <1>6 DEF S

\* One more event adds what it tells, and changes nothing told before.
LEMMA MessagesOnAppend ==
    ASSUME NEW stream \in Seq(Written), NEW w \in Written, NEW id
    PROVE  MessagesOn(Append(stream, w), id) =
             IF w.by = "broker" /\ w.event.type = "message" /\ w.event.topicId = id
             THEN Append(MessagesOn(stream, id), [sender |-> w.event.sender, text |-> w.event.text])
             ELSE MessagesOn(stream, id)
<1> DEFINE longer == Append(stream, w)
           N == Len(stream)
<1>1. /\ N \in Nat /\ Len(longer) = N + 1 /\ longer[N + 1] = w
      /\ \A i \in 1 .. N : longer[i] = stream[i]
  OBVIOUS
<1>2. PICK g : /\ g[0] = <<>>
               /\ \A i \in 1 .. N : g[i] = Tell(stream, id, g[i - 1], i)
               /\ MessagesOn(stream, id) = g[N]
  BY <1>1, MessagesOnTale
<1> HIDE DEF longer
<1>3. PICK h : /\ h[0] = <<>>
               /\ \A i \in 1 .. N + 1 : h[i] = Tell(longer, id, h[i - 1], i)
               /\ MessagesOn(longer, id) = h[N + 1]
  <2>1. Len(longer) \in Nat
    BY <1>1
  <2> QED
    BY <1>1, <2>1, MessagesOnTale
<1> HIDE DEF N
<1> DEFINE S == {n \in Nat : n <= N => h[n] = g[n]}
<1>4. 0 \in S
  BY <1>2, <1>3
<1>5. ASSUME NEW n \in Nat, n \in S, n + 1 <= N PROVE h[n + 1] = g[n + 1]
  <2>1. n + 1 \in 1 .. N /\ n + 1 \in 1 .. N + 1 /\ (n + 1) - 1 = n /\ n <= N
    BY <1>1, <1>5
  <2>2. h[n + 1] = Tell(longer, id, h[n], n + 1) /\ g[n + 1] = Tell(stream, id, g[n], n + 1)
    BY <1>2, <1>3, <2>1
  <2>3. h[n] = g[n] /\ longer[n + 1] = stream[n + 1]
    BY <1>1, <1>5, <2>1
  <2> QED
    BY <2>2, <2>3 DEF Tell
<1>6. \A n \in Nat : n \in S => n + 1 \in S
  BY <1>5
<1> HIDE DEF S
<1>7. Nat \subseteq S
  BY <1>4, <1>6, SetInduction
<1>8. h[N] = g[N]
  BY <1>1, <1>7 DEF S
<1>9. h[N + 1] = Tell(longer, id, h[N], N + 1)
  BY <1>1, <1>3
<1> QED
  BY <1>1, <1>2, <1>3, <1>8, <1>9 DEF Tell, longer

\* A connection cannot have been opened at a later point of a history than its
\* end: what makes HistoryIsStream inductive.
SinceInPast ==
    \A c \in DOMAIN clients, id \in TopicIds : clients[c].since[id] <= Len(Stored(id))

HistoryInv == HistoryIsStream /\ SinceInPast

\* Nothing lies behind the end of a sequence.
LEMMA NothingBehind ==
    ASSUME NEW S, NEW s \in Seq(S)
    PROVE  SubSeq(s, Len(s) + 1, Len(s)) = <<>>
<1>1. Len(s) \in Nat
  OBVIOUS
<1> QED
  BY <1>1

\* The rest of a longer sequence is the rest of the shorter one, and longer.
LEMMA RestAppend ==
    ASSUME NEW S, NEW s \in Seq(S), NEW e \in S, NEW k \in Nat, k <= Len(s)
    PROVE  SubSeq(Append(s, e), k + 1, Len(s) + 1) = Append(SubSeq(s, k + 1, Len(s)), e)
<1> DEFINE u == SubSeq(Append(s, e), k + 1, Len(s) + 1)
           v == Append(SubSeq(s, k + 1, Len(s)), e)
<1>1. Len(s) \in Nat
  OBVIOUS
<1>2. /\ Append(s, e) \in Seq(S) /\ Len(Append(s, e)) = Len(s) + 1
      /\ Append(s, e)[Len(s) + 1] = e
      /\ \A i \in 1 .. Len(s) : Append(s, e)[i] = s[i]
  OBVIOUS
<1>3. /\ SubSeq(s, k + 1, Len(s)) \in Seq(S) /\ Len(SubSeq(s, k + 1, Len(s))) = Len(s) - k
      /\ \A i \in 1 .. Len(s) - k : SubSeq(s, k + 1, Len(s))[i] = s[k + i]
  BY <1>1
<1>4. /\ u \in Seq(S) /\ Len(u) = (Len(s) - k) + 1
      /\ \A i \in 1 .. (Len(s) - k) + 1 : u[i] = Append(s, e)[k + i]
  BY <1>1, <1>2
<1>5. /\ v \in Seq(S) /\ Len(v) = (Len(s) - k) + 1 /\ v[(Len(s) - k) + 1] = e
      /\ \A i \in 1 .. Len(s) - k : v[i] = s[k + i]
  BY <1>1, <1>3
<1> HIDE DEF u, v
<1>6. \A i \in 1 .. (Len(s) - k) + 1 : u[i] = v[i]
  <2> TAKE i \in 1 .. (Len(s) - k) + 1
  <2>1. CASE i = (Len(s) - k) + 1
    BY <1>1, <1>2, <1>4, <1>5, <2>1
  <2>2. CASE i \in 1 .. Len(s) - k
    <3>1. k + i \in 1 .. Len(s)
      BY <1>1, <2>2
    <3> QED
      BY <1>2, <1>4, <1>5, <2>2, <3>1
  <2> QED
    BY <1>1, <2>1, <2>2
<1>7. u = v
  BY <1>4, <1>5, <1>6, SeqEqual
<1> QED
  BY <1>7 DEF u, v

\* Without a message, neither the histories nor what the streams carry change.
LEMMA QuietKeepsHistory ==
    ASSUME MembershipInv, HistoryInv, QuietStep
    PROVE  HistoryInv'
<1>t. /\ TypeOK
      /\ \A c \in DOMAIN clients : clients[c].written \in Seq(Written)
  BY DEF MembershipInv, TypeOK, IsMap, Client
<1>s. \A id : Stored(id)' = Stored(id)
  BY DEF QuietStep, Stored
<1>1. ASSUME NEW c \in DOMAIN clients', NEW id \in TopicIds
      PROVE  \/ /\ c \in DOMAIN clients /\ clients'[c].since = clients[c].since
                /\ MessagesOn(clients'[c].written, id) = MessagesOn(clients[c].written, id)
             \/ /\ clients'[c].since[id] = Len(Stored(id))
                /\ MessagesOn(clients'[c].written, id) = <<>>
  <2>1. CASE UNCHANGED clients
    BY <2>1
  <2>2. ASSUME NEW w \in Written, NoMessage(w), Send(w)
        PROVE  /\ c \in DOMAIN clients /\ clients'[c].since = clients[c].since
               /\ MessagesOn(clients'[c].written, id) = MessagesOn(clients[c].written, id)
    <3>1. /\ c \in DOMAIN clients /\ clients'[c].since = clients[c].since
          /\ clients'[c].written = Append(clients[c].written, w)
      BY <1>t, <2>2, SendEffect
    <3>2. MessagesOn(Append(clients[c].written, w), id) = MessagesOn(clients[c].written, id)
      <4> DEFINE stream == clients[c].written
      <4>1. stream \in Seq(Written)
        BY <1>t, <3>1
      <4> HIDE DEF stream
      <4>2. MessagesOn(Append(stream, w), id) =
              IF w.by = "broker" /\ w.event.type = "message" /\ w.event.topicId = id
              THEN Append(MessagesOn(stream, id), [sender |-> w.event.sender, text |-> w.event.text])
              ELSE MessagesOn(stream, id)
        BY <2>2, <4>1, MessagesOnAppend, Zenon
      <4> QED
        BY <2>2, <4>2 DEF NoMessage, stream
    <3> QED
      BY <3>1, <3>2
  <2>3. CASE ClientStep
    <3>1. Opened.since[id] = Len(Stored(id)) /\ MessagesOn(Opened.written, id) = <<>>
      BY NothingTold DEF Opened
    <3> QED
      BY <2>3, <3>1, ClientEffect
  <2> QED
    BY <2>1, <2>2, <2>3 DEF QuietStep
<1>2. ASSUME NEW c \in DOMAIN clients', NEW id \in TopicIds
      PROVE  /\ MessagesOn(clients'[c].written, id)
                   = SubSeq(Stored(id), clients'[c].since[id] + 1, Len(Stored(id)))
             /\ clients'[c].since[id] <= Len(Stored(id))
  <2>1. Stored(id) \in Seq(Message) /\ Len(Stored(id)) \in Nat
    BY StoredType
  <2>2. CASE /\ clients'[c].since[id] = Len(Stored(id))
             /\ MessagesOn(clients'[c].written, id) = <<>>
    BY <2>1, <2>2, NothingBehind
  <2>3. CASE /\ c \in DOMAIN clients /\ clients'[c].since = clients[c].since
             /\ MessagesOn(clients'[c].written, id) = MessagesOn(clients[c].written, id)
    BY <2>3 DEF HistoryInv, HistoryIsStream, SinceInPast
  <2> QED
    BY <1>1, <2>2, <2>3
<1> QED
  BY <1>s, <1>2 DEF HistoryInv, HistoryIsStream, SinceInPast

\* A message goes to the end of its topic's history and of every stream.
LEMMA PostKeepsHistory ==
    ASSUME MembershipInv, HistoryInv, NEW s \in Sessions, NEW id \in DOMAIN topics,
           NEW text \in Texts, PostMessage(s, id, text)
    PROVE  HistoryInv'
<1> DEFINE e == MessageEvent(s, id, text)
           m == Said(s, text)
           w == [by |-> "broker", event |-> e]
<1>1. /\ e \in Event /\ m \in Message /\ Broadcast(e)
      /\ DOMAIN topics' = DOMAIN topics
      /\ topics'[id].messages = Append(topics[id].messages, m)
      /\ \A x \in DOMAIN topics : x # id => topics'[x].messages = topics[x].messages
  BY PostIsMessage
<1>2. e.type = "message" /\ e.topicId = id /\ [sender |-> e.sender, text |-> e.text] = m
  BY DEF MessageEvent, Said
<1> HIDE DEF e, m
<1>3. w \in Written /\ Send(w) /\ w.by = "broker" /\ w.event = e
  BY <1>1, BrokerWrites DEF Broadcast
<1> HIDE DEF w
<1>t. /\ TypeOK
      /\ \A c \in DOMAIN clients : clients[c] \in Client /\ clients[c].written \in Seq(Written)
  BY DEF MembershipInv, TypeOK, IsMap, Client
<1>s. \A x : Stored(x)' = IF x = id THEN Append(Stored(x), m) ELSE Stored(x)
  BY <1>1 DEF Stored
<1>4. ASSUME NEW c \in DOMAIN clients', NEW x \in TopicIds
      PROVE  /\ MessagesOn(clients'[c].written, x)
                   = SubSeq(Stored(x)', clients'[c].since[x] + 1, Len(Stored(x)'))
             /\ clients'[c].since[x] <= Len(Stored(x)')
  <2>1. /\ c \in DOMAIN clients /\ clients'[c].since = clients[c].since
        /\ clients'[c].written = Append(clients[c].written, w)
    BY <1>t, <1>3, SendEffect
  <2>2. MessagesOn(clients'[c].written, x)
          = IF x = id THEN Append(MessagesOn(clients[c].written, x), m)
            ELSE MessagesOn(clients[c].written, x)
    <3> DEFINE stream == clients[c].written
    <3>1. stream \in Seq(Written)
      BY <1>t, <2>1
    <3> HIDE DEF stream
    <3>2. MessagesOn(Append(stream, w), x) =
            IF w.by = "broker" /\ w.event.type = "message" /\ w.event.topicId = x
            THEN Append(MessagesOn(stream, x), [sender |-> w.event.sender, text |-> w.event.text])
            ELSE MessagesOn(stream, x)
      BY <1>3, <3>1, MessagesOnAppend, Zenon
    <3>3. clients'[c].written = Append(stream, w)
      BY <2>1 DEF stream
    <3> QED
      BY <1>2, <1>3, <3>2, <3>3 DEF stream
  <2>3. /\ MessagesOn(clients[c].written, x)
             = SubSeq(Stored(x), clients[c].since[x] + 1, Len(Stored(x)))
        /\ clients[c].since[x] <= Len(Stored(x))
    BY <2>1 DEF HistoryInv, HistoryIsStream, SinceInPast
  <2>4. CASE x # id
    BY <1>s, <2>1, <2>2, <2>3, <2>4
  <2>5. CASE x = id
    <3>1. /\ Stored(x) \in Seq(Message) /\ Len(Stored(x)) \in Nat
          /\ clients[c].since[x] \in Nat
      BY <1>t, <2>1, StoredType DEF Client
    <3>2. SubSeq(Append(Stored(x), m), clients[c].since[x] + 1, Len(Stored(x)) + 1)
            = Append(SubSeq(Stored(x), clients[c].since[x] + 1, Len(Stored(x))), m)
      BY <1>1, <2>3, <3>1, RestAppend
    <3>3. Len(Append(Stored(x), m)) = Len(Stored(x)) + 1
      BY <1>1, <3>1
    <3>4. Stored(x)' = Append(Stored(x), m)
      BY <1>s, <2>5
    <3>5. clients'[c].since[x] <= Len(Stored(x)')
      BY <2>1, <2>3, <3>1, <3>3, <3>4
    <3>6. MessagesOn(clients'[c].written, x)
            = SubSeq(Stored(x)', clients'[c].since[x] + 1, Len(Stored(x)'))
      BY <2>1, <2>2, <2>3, <2>5, <3>2, <3>3, <3>4
    <3> QED
      BY <3>5, <3>6
  <2> QED
    BY <2>4, <2>5
<1> QED
  BY <1>4 DEF HistoryInv, HistoryIsStream, SinceInPast

\* Every open connection was sent exactly the messages stored since it was
\* opened, in their order, whatever callers relay in between: for any number
\* of connections, topics and relayed events.
THEOREM HistoryIsStreamCorrect == Spec => []HistoryIsStream
<1>1. Init => HistoryInv
  BY DEF Init, EmptyMap, HistoryInv, HistoryIsStream, SinceInPast
<1>2. MembershipInv /\ HistoryInv /\ [Next]_vars => HistoryInv'
  BY NextIsQuiet, QuietKeepsHistory, PostKeepsHistory
<1>3. HistoryInv => HistoryIsStream
  BY DEF HistoryInv
<1> QED
  BY <1>1, <1>2, <1>3, MembershipCorrect, PTL DEF Spec
=============================================================================
