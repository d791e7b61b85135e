--------------------------- MODULE ActiveContext ---------------------------
(***************************************************************************)
(* What one MCP server session believes about itself                       *)
(* (src/mcp_server/src/context.ts): the channels it is subscribed to, the  *)
(* topics it has joined, and which channel and topic are active.  All      *)
(* operations are synchronous, so each is one action.                      *)
(*                                                                         *)
(* Left out: the source tag of a subscription, and the active topic's name *)
(* (written and cleared together with its id).                             *)
(***************************************************************************)
EXTENDS Naturals, Sequences, Maps

CONSTANTS
    Refs,       \* ChannelRef: a channel name together with a location
    TopicIds,
    None        \* undefined

ASSUME NoneAssumption == None \notin Refs /\ None \notin TopicIds

VARIABLES
    subscribed,     \* Map of subscriptions, as the sequence of its keys in
                    \* insertion order
    joinedTopics,   \* Map topic id -> the channel it was joined in
    activeChannel,
    activeThread

ctxVars == <<subscribed, joinedTopics, activeChannel, activeThread>>

IsSubscribed(r) == \E i \in DOMAIN subscribed : subscribed[i] = r

\* The types of the session's state.
ContextTypeOK ==
    /\ subscribed \in Seq(Refs)
    /\ IsMap(joinedTopics, TopicIds, Refs)
    /\ activeChannel \in Refs \cup {None}
    /\ activeThread \in TopicIds \cup {None}

ContextInit ==
    /\ subscribed = <<>>
    /\ joinedTopics = EmptyMap
    /\ activeChannel = None
    /\ activeThread = None

\* joinChannel: idempotent; the first subscription becomes active
JoinChannel(r) ==
    /\ subscribed' = IF IsSubscribed(r) THEN subscribed ELSE Append(subscribed, r)
    /\ activeChannel' = IF activeChannel = None THEN r ELSE activeChannel
    /\ UNCHANGED <<joinedTopics, activeThread>>

\* subscribed.delete(key): the remaining keys keep their order
Without(seq, r) ==
    IF \E i \in DOMAIN seq : seq[i] = r
    THEN LET k == CHOOSE i \in DOMAIN seq : seq[i] = r
         IN  [i \in 1 .. (Len(seq) - 1) |-> IF i < k THEN seq[i] ELSE seq[i + 1]]
    ELSE seq

TopicsOutside(r) == {id \in DOMAIN joinedTopics : joinedTopics[id] # r}

\* Faulty LeaveChannel: the active channel stays.
LeaveChannelKeepsActive(r) ==
    /\ subscribed' = Without(subscribed, r)
    /\ joinedTopics' = [id \in TopicsOutside(r) |-> joinedTopics[id]]
    /\ UNCHANGED <<activeChannel, activeThread>>

\* leaveChannel: drop the channel's topics; when it was the active channel,
\* move to the oldest remaining one and forget an active topic that is gone.
\* When it was another channel the active topic is left as it is.
LeaveChannel(r) ==
    /\ subscribed' = Without(subscribed, r)
    /\ joinedTopics' = [id \in TopicsOutside(r) |-> joinedTopics[id]]
    /\ IF activeChannel = r
       THEN /\ activeChannel' = IF subscribed' = <<>> THEN None ELSE Head(subscribed')
            /\ activeThread' = IF activeThread \in DOMAIN joinedTopics' THEN activeThread ELSE None
       ELSE UNCHANGED <<activeChannel, activeThread>>

\* setActiveChannel throws unless subscribed
SetActiveChannel(r) ==
    /\ IsSubscribed(r)
    /\ activeChannel' = r
    /\ UNCHANGED <<subscribed, joinedTopics, activeThread>>

\* joinTopic throws unless subscribed to the topic's channel
JoinTopic(id, r) ==
    /\ IsSubscribed(r)
    /\ joinedTopics' = Put(joinedTopics, id, r)
    /\ activeThread' = id
    /\ UNCHANGED <<subscribed, activeChannel>>

\* leaveTopic, and clearTopic for the active one
LeaveTopic(id) ==
    /\ joinedTopics' = Del(joinedTopics, id)
    /\ activeThread' = IF activeThread = id THEN None ELSE activeThread
    /\ UNCHANGED <<subscribed, activeChannel>>

ContextNext ==
    \/ \E r \in Refs : JoinChannel(r) \/ LeaveChannel(r) \/ SetActiveChannel(r)
    \/ \E id \in TopicIds, r \in Refs : JoinTopic(id, r)
    \/ \E id \in TopicIds : LeaveTopic(id)

ContextSpec == ContextInit /\ [][ContextNext]_ctxVars

-----------------------------------------------------------------------------
(* Properties *)

\* A channel is subscribed once, however often it is joined.
SubscribedOnce ==
    \A i, j \in DOMAIN subscribed : subscribed[i] = subscribed[j] => i = j

\* SKILL.md: "You are subscribed to one or more channels; exactly one is
\* active": there is an active channel exactly while there is a subscription,
\* and it is one of the subscriptions.
OneChannelActive ==
    /\ activeChannel = None <=> subscribed = <<>>
    /\ activeChannel # None => IsSubscribed(activeChannel)

\* The session is in no topic of a channel it is not subscribed to.
JoinedInSubscribed == \A id \in DOMAIN joinedTopics : IsSubscribed(joinedTopics[id])

\* The inductive invariant of SessionToolsProofs.
ContextInv == ContextTypeOK /\ SubscribedOnce /\ OneChannelActive /\ JoinedInSubscribed
=============================================================================
