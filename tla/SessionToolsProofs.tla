------------------------- MODULE SessionToolsProofs -------------------------
(***************************************************************************)
(* Proofs about ActiveContext for every set of channels and topics, and    *)
(* about SessionTools for every set of channels, locations, topics, calls  *)
(* in flight and lost messages: its safety invariants, among them what is  *)
(* proved of ActiveContext.                                                *)
(***************************************************************************)
EXTENDS SessionTools, FiniteSetTheorems, TLAPS

-----------------------------------------------------------------------------
(* The context of a session, under any sequence of its operations *)

In(seq, r) == \E i \in DOMAIN seq : seq[i] = r

NoRepeat(seq) == \A i, j \in DOMAIN seq : seq[i] = seq[j] => i = j

\* Deleting a key keeps the other keys, each once.
LEMMA WithoutLemma ==
    ASSUME NEW S, NEW seq \in Seq(S), NoRepeat(seq), NEW r
    PROVE  /\ Without(seq, r) \in Seq(S)
           /\ NoRepeat(Without(seq, r))
           /\ \A q : In(Without(seq, r), q) <=> In(seq, q) /\ q # r
<1>1. CASE ~In(seq, r)
  BY <1>1 DEF Without, In
<1>2. CASE In(seq, r)
  <2> DEFINE k == CHOOSE i \in DOMAIN seq : seq[i] = r
             w == [i \in 1 .. (Len(seq) - 1) |-> IF i < k THEN seq[i] ELSE seq[i + 1]]
  <2>1. k \in DOMAIN seq /\ seq[k] = r
    BY <1>2 DEF In
  <2>2. Without(seq, r) = w
    BY <1>2 DEF Without, In
  <2>3. DOMAIN seq = 1 .. Len(seq) /\ Len(seq) \in Nat /\ k \in 1 .. Len(seq)
    BY <2>1
  <2> HIDE DEF k
  <2>4. /\ w \in Seq(S)
        /\ DOMAIN w = 1 .. (Len(seq) - 1)
        /\ \A i \in DOMAIN w : w[i] = IF i < k THEN seq[i] ELSE seq[i + 1]
    <3>1. \A i \in 1 .. (Len(seq) - 1) : i \in DOMAIN seq /\ i + 1 \in DOMAIN seq
      BY <2>3
    <3>2. \A i \in DOMAIN seq : seq[i] \in S
      OBVIOUS
    <3>3. Len(seq) - 1 \in Nat
      BY <2>3
    <3>4. w \in [1 .. (Len(seq) - 1) -> S]
      BY <3>1, <3>2
    <3> QED BY <3>3, <3>4
  <2> HIDE DEF w
  <2>5. NoRepeat(w)
    BY <2>3, <2>4 DEF NoRepeat
  <2>6. ASSUME NEW q, In(w, q) PROVE In(seq, q) /\ q # r
    <3>1. PICK i \in DOMAIN w : w[i] = q
      BY <2>6 DEF In
    <3>2. CASE i < k
      BY <2>1, <2>3, <2>4, <3>1, <3>2 DEF In, NoRepeat
    <3>3. CASE ~(i < k)
      BY <2>1, <2>3, <2>4, <3>1, <3>3 DEF In, NoRepeat
    <3> QED BY <3>2, <3>3
  <2>7. ASSUME NEW q, In(seq, q), q # r PROVE In(w, q)
    <3>1. PICK i \in DOMAIN seq : seq[i] = q
      BY <2>7 DEF In
    <3>2. CASE i < k
      <4>1. i \in DOMAIN w /\ w[i] = q
        BY <2>3, <2>4, <3>1, <3>2
      <4> QED BY <4>1 DEF In
    <3>3. CASE i > k
      <4>1. i - 1 \in DOMAIN w /\ w[i - 1] = q
        BY <2>3, <2>4, <3>1, <3>3
      <4> QED BY <4>1 DEF In
    <3> QED BY <2>1, <2>3, <2>7, <3>1, <3>2, <3>3
  <2> QED BY <2>2, <2>4, <2>5, <2>6, <2>7
<1> QED BY <1>1, <1>2

\* A first join appends the channel; the others stay where they are.
LEMMA AppendLemma ==
    ASSUME NEW S, NEW seq \in Seq(S), NoRepeat(seq), NEW r \in S, ~In(seq, r)
    PROVE  /\ Append(seq, r) \in Seq(S)
           /\ NoRepeat(Append(seq, r))
           /\ \A q : In(Append(seq, r), q) <=> In(seq, q) \/ q = r
<1> DEFINE a == Append(seq, r)
<1>1. /\ a \in Seq(S) /\ Len(a) = Len(seq) + 1 /\ Len(seq) \in Nat
      /\ DOMAIN a = 1 .. (Len(seq) + 1) /\ DOMAIN seq = 1 .. Len(seq)
      /\ a[Len(seq) + 1] = r
      /\ \A i \in DOMAIN seq : a[i] = seq[i]
  OBVIOUS
<1> HIDE DEF a
<1>2. NoRepeat(a)
  BY <1>1 DEF NoRepeat, In
<1>3. ASSUME NEW q PROVE In(a, q) <=> In(seq, q) \/ q = r
  BY <1>1 DEF In
<1> QED BY <1>1, <1>2, <1>3 DEF a

-----------------------------------------------------------------------------

\* What each conjunct says, over In and NoRepeat.
LEMMA Restate ==
    /\ \A r : IsSubscribed(r) <=> In(subscribed, r)
    /\ SubscribedOnce <=> NoRepeat(subscribed)
BY DEF IsSubscribed, In, SubscribedOnce, NoRepeat

\* An empty sequence is one that holds nothing.
LEMMA EmptyLemma ==
    ASSUME NEW S, NEW seq \in Seq(S)
    PROVE  /\ seq = <<>> => \A q : ~In(seq, q)
           /\ seq # <<>> => In(seq, Head(seq)) /\ Head(seq) \in S
<1>1. seq = <<>> => \A q : ~In(seq, q)
  BY DEF In
<1>2. ASSUME seq # <<>> PROVE 1 \in DOMAIN seq /\ Head(seq) = seq[1] /\ seq[1] \in S
  BY <1>2
<1> QED BY <1>1, <1>2 DEF In

\* The first subscription becomes active, the next ones do not.
LEMMA JoinChannelInv ==
    ASSUME ContextInv, NEW r \in Refs, JoinChannel(r)
    PROVE  ContextInv'
<1>1. subscribed \in Seq(Refs) /\ NoRepeat(subscribed)
  BY Restate DEF ContextInv, ContextTypeOK
<1>2. /\ subscribed' \in Seq(Refs) /\ NoRepeat(subscribed')
      /\ \A q : In(subscribed', q) <=> In(subscribed, q) \/ q = r
  <2>1. CASE In(subscribed, r)
    BY <1>1, <2>1, Restate DEF JoinChannel
  <2>2. CASE ~In(subscribed, r)
    BY <1>1, <2>2, Restate, AppendLemma DEF JoinChannel
  <2> QED BY <2>1, <2>2
<1>3. subscribed' # <<>>
  BY <1>2, EmptyLemma
<1>4. activeChannel' = IF activeChannel = None THEN r ELSE activeChannel
  BY DEF JoinChannel
<1>5. ContextTypeOK'
  BY <1>2, <1>4 DEF ContextInv, ContextTypeOK, JoinChannel
<1>6. SubscribedOnce'
  BY <1>2 DEF SubscribedOnce, NoRepeat
<1>7. \A q : IsSubscribed(q)' <=> IsSubscribed(q) \/ q = r
  BY <1>2 DEF IsSubscribed, In
<1>8. OneChannelActive'
  BY <1>3, <1>4, <1>7, NoneAssumption DEF ContextInv, OneChannelActive, IsSubscribed
<1>9. JoinedInSubscribed'
  BY <1>7 DEF ContextInv, JoinedInSubscribed, JoinChannel, IsSubscribed
<1> QED BY <1>5, <1>6, <1>8, <1>9 DEF ContextInv

\* The topics of the channel go with it, and the oldest remaining channel
\* takes over when the active one is left.
LEMMA LeaveChannelInv ==
    ASSUME ContextInv, NEW r \in Refs, LeaveChannel(r)
    PROVE  ContextInv'
<1>1. subscribed \in Seq(Refs) /\ NoRepeat(subscribed)
  BY Restate DEF ContextInv, ContextTypeOK
<1>2. subscribed' = Without(subscribed, r)
  BY DEF LeaveChannel
<1>3. /\ subscribed' \in Seq(Refs) /\ NoRepeat(subscribed')
      /\ \A q : In(subscribed', q) <=> In(subscribed, q) /\ q # r
  BY <1>1, <1>2, WithoutLemma
<1>4. \A q : IsSubscribed(q)' <=> IsSubscribed(q) /\ q # r
  BY <1>3 DEF IsSubscribed, In
<1>5. joinedTopics' = [id \in TopicsOutside(r) |-> joinedTopics[id]]
  BY DEF LeaveChannel
<1>6. IsMap(joinedTopics', TopicIds, Refs)
  BY <1>5 DEF ContextInv, ContextTypeOK, IsMap, TopicsOutside
<1>7. SubscribedOnce'
  BY <1>3 DEF SubscribedOnce, NoRepeat
<1>8. JoinedInSubscribed'
  <2>1. \A id \in DOMAIN joinedTopics' :
          joinedTopics'[id] = joinedTopics[id] /\ id \in DOMAIN joinedTopics /\ joinedTopics[id] # r
    BY <1>5 DEF TopicsOutside
  <2>2. \A id \in DOMAIN joinedTopics' : In(subscribed', joinedTopics'[id])
    BY <1>3, <2>1, Restate DEF ContextInv, JoinedInSubscribed
  <2> QED BY <2>2 DEF JoinedInSubscribed, IsSubscribed, In
<1>9. ContextTypeOK' /\ OneChannelActive'
  <2>1. CASE activeChannel = r
    <3>1. activeChannel' = IF subscribed' = <<>> THEN None ELSE Head(subscribed')
      BY <2>1 DEF LeaveChannel
    <3>2. activeThread' \in TopicIds \cup {None}
      BY <2>1 DEF LeaveChannel, ContextInv, ContextTypeOK
    <3>3. subscribed' # <<>> => In(subscribed', Head(subscribed')) /\ Head(subscribed') \in Refs
      BY <1>3, EmptyLemma
    <3>4. ContextTypeOK'
      BY <1>3, <1>6, <3>1, <3>2, <3>3 DEF ContextTypeOK
    <3>5. OneChannelActive'
      BY <3>1, <3>3, NoneAssumption DEF OneChannelActive, IsSubscribed, In
    <3> QED BY <3>4, <3>5
  <2>2. CASE activeChannel # r
    <3>1. activeChannel' = activeChannel /\ activeThread' = activeThread
      BY <2>2 DEF LeaveChannel
    <3>2. ContextTypeOK'
      BY <1>3, <1>6, <3>1 DEF ContextInv, ContextTypeOK
    <3>3. CASE activeChannel = None
      <4>1. subscribed = <<>>
        BY <3>3 DEF ContextInv, OneChannelActive
      <4>2. \A q : ~In(subscribed, q)
        BY <1>1, <4>1, EmptyLemma
      <4>3. subscribed' = <<>>
        BY <1>3, <4>2, EmptyLemma
      <4> QED BY <3>1, <3>2, <3>3, <4>3 DEF OneChannelActive
    <3>4. CASE activeChannel # None
      <4>1. In(subscribed, activeChannel)
        BY <3>4, Restate DEF ContextInv, OneChannelActive
      <4>2. In(subscribed', activeChannel)
        BY <1>3, <2>2, <4>1
      <4>3. subscribed' # <<>>
        BY <1>3, <4>2, EmptyLemma
      <4> QED BY <3>1, <3>2, <3>4, <4>2, <4>3 DEF OneChannelActive, IsSubscribed, In
    <3> QED BY <3>3, <3>4
  <2> QED BY <2>1, <2>2
<1> QED BY <1>7, <1>8, <1>9 DEF ContextInv

\* Topic operations leave the channels as they are.
LEMMA SameChannelsInv ==
    ASSUME ContextInv, subscribed' = subscribed, activeChannel' = activeChannel
    PROVE  SubscribedOnce' /\ OneChannelActive'
BY DEF ContextInv, SubscribedOnce, OneChannelActive, IsSubscribed

\* Every operation of the session's context keeps the invariant.
LEMMA ContextStep ==
    ASSUME ContextInv, [ContextNext]_ctxVars
    PROVE  ContextInv'
<1>1. ASSUME NEW r \in Refs, JoinChannel(r) PROVE ContextInv'
  BY <1>1, JoinChannelInv
<1>2. ASSUME NEW r \in Refs, LeaveChannel(r) PROVE ContextInv'
  BY <1>2, LeaveChannelInv
<1>3. ASSUME NEW r \in Refs, SetActiveChannel(r) PROVE ContextInv'
  <2>1. subscribed # <<>> /\ r # None
    BY <1>3, EmptyLemma, NoneAssumption DEF SetActiveChannel, IsSubscribed, In, ContextInv, ContextTypeOK
  <2> QED BY <1>3, <2>1 DEF SetActiveChannel, ContextInv, ContextTypeOK, SubscribedOnce,
                            OneChannelActive, JoinedInSubscribed, IsSubscribed
<1>4. ASSUME NEW id \in TopicIds, NEW r \in Refs, JoinTopic(id, r) PROVE ContextInv'
  <2>1. joinedTopics' = Put(joinedTopics, id, r) /\ IsSubscribed(r)
    BY <1>4 DEF JoinTopic
  <2>2. IsMap(joinedTopics', TopicIds, Refs)
    BY <2>1 DEF ContextInv, ContextTypeOK, IsMap, Put
  <2>3. \A x \in DOMAIN joinedTopics' : IsSubscribed(joinedTopics'[x])
    BY <2>1 DEF ContextInv, JoinedInSubscribed, Put
  <2>4. ContextTypeOK'
    BY <1>4, <2>2 DEF JoinTopic, ContextInv, ContextTypeOK
  <2>5. subscribed' = subscribed /\ activeChannel' = activeChannel
    BY <1>4 DEF JoinTopic
  <2>6. JoinedInSubscribed'
    BY <2>3, <2>5 DEF JoinedInSubscribed, IsSubscribed
  <2> QED BY <2>4, <2>5, <2>6, SameChannelsInv DEF ContextInv
<1>5. ASSUME NEW id \in TopicIds, LeaveTopic(id) PROVE ContextInv'
  <2>1. joinedTopics' = Del(joinedTopics, id)
    BY <1>5 DEF LeaveTopic
  <2>2. IsMap(joinedTopics', TopicIds, Refs)
    BY <2>1 DEF ContextInv, ContextTypeOK, IsMap, Del
  <2>3. \A x \in DOMAIN joinedTopics' : IsSubscribed(joinedTopics'[x])
    BY <2>1 DEF ContextInv, JoinedInSubscribed, Del
  <2>4. ContextTypeOK'
    BY <1>5, <2>2 DEF LeaveTopic, ContextInv, ContextTypeOK
  <2>5. subscribed' = subscribed /\ activeChannel' = activeChannel
    BY <1>5 DEF LeaveTopic
  <2>6. JoinedInSubscribed'
    BY <2>3, <2>5 DEF JoinedInSubscribed, IsSubscribed
  <2> QED BY <2>4, <2>5, <2>6, SameChannelsInv DEF ContextInv
<1>6. CASE UNCHANGED ctxVars
  BY <1>6 DEF ctxVars, ContextInv, ContextTypeOK, SubscribedOnce, OneChannelActive,
              JoinedInSubscribed, IsSubscribed
<1> QED BY <1>1, <1>2, <1>3, <1>4, <1>5, <1>6 DEF ContextNext

\* Whatever sequence of operations a session runs: one active channel exactly
\* while there are subscriptions, each channel subscribed once, and no joined
\* topic outside the subscribed channels.
THEOREM ContextCorrect == ContextSpec => []ContextInv
<1>1. ContextInit => ContextInv
  BY DEF ContextInit, ContextInv, ContextTypeOK, SubscribedOnce, OneChannelActive,
         JoinedInSubscribed, IsSubscribed, IsMap, EmptyMap
<1>2. ContextInv /\ [ContextNext]_ctxVars => ContextInv'
  BY ContextStep
<1> QED BY <1>1, <1>2, PTL DEF ContextSpec

\* There is an active channel, and a subscribed one, exactly while the session
\* is subscribed to some channel.
THEOREM OneChannelActiveCorrect == ContextSpec => []OneChannelActive
<1>1. ContextInv => OneChannelActive
  BY DEF ContextInv
<1> QED BY <1>1, ContextCorrect, PTL

\* No joined topic lies outside the subscribed channels.
THEOREM JoinedInSubscribedCorrect == ContextSpec => []JoinedInSubscribed
<1>1. ContextInv => JoinedInSubscribed
  BY DEF ContextInv
<1> QED BY <1>1, ContextCorrect, PTL

-----------------------------------------------------------------------------
(* The inductive invariants *)

\* What a call in flight has in each phase
CallOK(c) ==
    /\ c.tool \in MembershipTools => c.ref \in Refs /\ c.phase \in {"request", "reply"}
    /\ c.tool = "start_topic" => /\ c.ref \in Refs /\ c.phase \in {"request", "reply"}
                                 /\ c.phase = "reply" => c.id \in TopicIds
    /\ c.tool = "leave_topic" => c.id \in TopicIds /\ c.phase \in {"request", "reply"}
    /\ c.tool \in LookingUp => c.id \in TopicIds
    /\ c.tool \in {"join_topic", "unarchive_topic"} /\ c.phase # "lookup" => c.ref \in Refs
    /\ c.phase = "lookup" => c.id \in DOMAIN bTopics

\* Of the calls in flight.
CallsInv == IsMap(calls, Slots, Call) /\ \A k \in DOMAIN calls : CallOK(calls[k])

\* Of the transports.
TransportOK ==
    /\ standing \in [Locations -> {"unintroduced", "ready", "off"}]
    /\ standing[Local] = "ready"
    /\ unsent \subseteq Refs

\* Types, and that the context is what ActiveContext says of it.
ToolsInv == ToolsTypeOK /\ CallsInv /\ ContextInv

\* A join or leave of a channel
Changes(k) == calls[k].tool \in MembershipTools

\* Without a race no two calls in flight change the membership of one channel.
OneCallEach ==
    ~raced => \A j, k \in DOMAIN calls :
                Changes(j) /\ Changes(k) /\ calls[j].ref = calls[k].ref => j = k

\* The channels that are, or will be when the replies in flight arrive, in one of
\* the two and not in the other, but for those whose join or leave was not sent
Owed ==
    {r \in Refs \ unsent :
        \/ /\ ~(IsSubscribed(r) <=> r \in bMembers)
           /\ \A k \in DOMAIN calls : Changes(k) => calls[k].ref # r
        \/ \E k \in DOMAIN calls :
              /\ Changes(k) /\ calls[k].ref = r /\ calls[k].phase = "reply"
              /\ ~(r \in bMembers <=> calls[k].tool = "join_channel")}

Counted == IsFiniteSet(Owed) /\ Cardinality(Owed) <= faults

\* A lost message costs one channel at most.
AgreeInv == OneCallEach /\ (~raced => Counted)

\* The live feeds are those of the context at every moment.
FeedInv == ChannelFeedsMatch /\ JoinedHaveFeeds

Inductive == ToolsInv /\ FeedInv /\ AgreeInv

-----------------------------------------------------------------------------
(* The context and the map of calls *)

\* Joining a channel subscribes to it and leaves the rest as it was ...
LEMMA SubscribedByJoin ==
    ASSUME ContextInv, NEW r \in Refs, JoinChannel(r)
    PROVE  \A q : IsSubscribed(q)' <=> IsSubscribed(q) \/ q = r
<1>1. subscribed \in Seq(Refs) /\ NoRepeat(subscribed)
  BY Restate DEF ContextInv, ContextTypeOK
<1>2. CASE In(subscribed, r)
  BY <1>2 DEF JoinChannel, IsSubscribed, In
<1>3. CASE ~In(subscribed, r)
  <2>1. subscribed' = Append(subscribed, r)
    BY <1>3, Restate DEF JoinChannel
  <2>2. \A q : In(subscribed', q) <=> In(subscribed, q) \/ q = r
    BY <1>1, <1>3, <2>1, AppendLemma
  <2> QED BY <2>2 DEF IsSubscribed, In
<1> QED BY <1>2, <1>3

\* ... and leaving one takes out that channel only.
LEMMA SubscribedByLeave ==
    ASSUME ContextInv, NEW r \in Refs, LeaveChannel(r)
    PROVE  \A q : IsSubscribed(q)' <=> IsSubscribed(q) /\ q # r
<1>1. subscribed \in Seq(Refs) /\ NoRepeat(subscribed)
  BY Restate DEF ContextInv, ContextTypeOK
<1>2. \A q : In(subscribed', q) <=> In(subscribed, q) /\ q # r
  BY <1>1, WithoutLemma DEF LeaveChannel
<1> QED BY <1>2 DEF IsSubscribed, In

\* A name that is not blank is a channel's.
LEMMA RefOfTyped ==
    ASSUME NEW raw \in RawNames, NEW location \in Locations, NormalizeName[raw] # NoName
    PROVE  RefOf(raw, location) \in Refs
BY ToolsAssumption DEF RefOf

\* A new call, ...
LEMMA StartCalls ==
    ASSUME CallsInv, TransportOK, NEW slot \in Slots, NEW c \in Call, CallOK(c), Start(slot, c)
    PROVE  CallsInv' /\ TransportOK'
<1>1. calls' = Put(calls, slot, c) /\ bTopics' = bTopics
  BY DEF Start, backendVars
<1>2. IsMap(calls', Slots, Call)
  BY <1>1 DEF CallsInv, IsMap, Put
<1>3. \A k \in DOMAIN calls' : CallOK(calls[k])' 
  BY <1>1 DEF CallsInv, CallOK, Put
<1>4. TransportOK'
  BY DEF TransportOK, Start, CallOK
<1> QED BY <1>2, <1>3, <1>4 DEF CallsInv

\* ... a call that ends, ...
LEMMA FinishCalls ==
    ASSUME CallsInv, NEW slot, Finish(slot), DOMAIN bTopics \subseteq DOMAIN bTopics'
    PROVE  CallsInv'
BY DEF CallsInv, CallOK, Finish, IsMap, Del

\* ... and one that goes on with what its next phase needs keep CallsInv.
LEMMA MoveCalls ==
    ASSUME CallsInv, NEW slot \in DOMAIN calls, NEW c \in Call, CallOK(c)',
           calls' = [calls EXCEPT ![slot] = c], DOMAIN bTopics \subseteq DOMAIN bTopics'
    PROVE  CallsInv'
<1>1. /\ DOMAIN calls' = DOMAIN calls /\ calls'[slot] = c
      /\ \A k \in DOMAIN calls : k # slot => calls'[k] = calls[k]
  BY DEF CallsInv, IsMap
<1>2. IsMap(calls', Slots, Call)
  BY <1>1 DEF CallsInv, IsMap
<1>3. \A k \in DOMAIN calls' : CallOK(calls[k])'
  BY <1>1 DEF CallsInv, CallOK
<1> QED BY <1>2, <1>3 DEF CallsInv

\* An answered request needs nothing more, but for start_topic, which gets its id.
LEMMA AnswerCalls ==
    ASSUME CallsInv, NEW slot \in DOMAIN calls, Answer(slot), calls[slot].phase \in {"request", "reply"},
           calls[slot].tool # "start_topic", DOMAIN bTopics \subseteq DOMAIN bTopics'
    PROVE  CallsInv'
<1>1. calls[slot] \in Call /\ CallOK(calls[slot])
  BY DEF CallsInv, IsMap
<1>2. PICK c : c = [calls[slot] EXCEPT !.phase = "reply"]
  OBVIOUS
<1>3. c \in Call /\ CallOK(c)'
  BY <1>1, <1>2 DEF Call, CallOK
<1>4. calls' = [calls EXCEPT ![slot] = c]
  BY <1>2 DEF Answer
<1> QED BY <1>3, <1>4, MoveCalls

\* A tool that sends its request at once
LEMMA SendCalls ==
    ASSUME CallsInv, TransportOK, NEW slot \in Slots, NEW tool \in Tools,
           NEW r \in Refs \cup {None}, NEW id \in TopicIds \cup {None}, NEW location,
           Send(slot, tool, r, id, location),
           tool = "start_topic" => standing[location] = "ready",
           tool \in MembershipTools \cup {"start_topic"} => r \in Refs,
           tool \in {"leave_topic", "archive_topic"} => id \in TopicIds,
           tool \notin {"join_topic", "unarchive_topic"}
    PROVE  CallsInv' /\ TransportOK'
<1> DEFINE c == [tool |-> tool, ref |-> r, id |-> id, phase |-> PhaseAt(location),
                 archived |-> FALSE, byName |-> FALSE]
<1>0. PhaseAt(location) \in {"request", "reply"} /\ (tool = "start_topic" => PhaseAt(location) = "request")
  BY DEF PhaseAt
<1>1. c \in Call /\ CallOK(c)
  BY <1>0 DEF Call, CallOK, LookingUp, MembershipTools
<1>2. Start(slot, c)
  BY DEF Send
<1> HIDE DEF c
<1> QED BY <1>1, <1>2, StartCalls

\* A tool that asks for its topic first
LEMMA LookupCalls ==
    ASSUME CallsInv, TransportOK, IsMap(bTopics, TopicIds, [ref: Refs, state: {"active", "archived"}]),
           NEW slot \in Slots, NEW tool \in LookingUp, CallWithLookup(slot, tool)
    PROVE  CallsInv' /\ TransportOK'
<1>1. PICK id \in DOMAIN bTopics, byName \in BOOLEAN : Lookup(slot, tool, id, byName)
  BY DEF CallWithLookup
<1> DEFINE c == [tool |-> tool, ref |-> None, id |-> id, phase |-> "lookup", archived |-> FALSE, byName |-> byName]
<1>2. id \in TopicIds
  BY DEF IsMap
<1>3. c \in Call /\ CallOK(c)
  BY <1>2 DEF Call, CallOK, LookingUp, Tools, MembershipTools
<1>4. Start(slot, c)
  BY <1>1 DEF Lookup
<1> HIDE DEF c
<1> QED BY <1>3, <1>4, StartCalls

-----------------------------------------------------------------------------
(* Types, and the context under the tools: ToolsInv is inductive *)

\* join_channel and leave_channel are called.
LEMMA SentStep ==
    ASSUME ToolsInv, NEW slot \in Slots, NEW raw \in RawNames, NEW location \in Locations,
           CallJoinChannel(slot, raw, location) \/ CallLeaveChannel(slot, raw, location)
    PROVE  CallsInv' /\ TransportOK' /\ UNCHANGED <<ctxVars, backendVars, feedVars, faults>>
<1>1. RefOf(raw, location) \in Refs
  BY RefOfTyped DEF CallJoinChannel, CallLeaveChannel
<1>2. \E tool \in MembershipTools : Send(slot, tool, RefOf(raw, location), None, location)
  BY DEF CallJoinChannel, CallLeaveChannel, MembershipTools
<1>3. CallsInv' /\ TransportOK'
  BY <1>1, <1>2, SendCalls DEF ToolsInv, ToolsTypeOK, TransportOK, MembershipTools, Tools
<1> QED BY <1>2, <1>3 DEF Send, Start

\* A topic tool is called.
LEMMA TopicCallStep ==
    ASSUME ToolsInv, NEW slot \in Slots,
           \/ \E r \in Refs : CallStartTopic(slot, r)
           \/ CallJoinTopic(slot) \/ CallUnarchiveTopic(slot) \/ CallLeaveTopic(slot) \/ CallArchiveTopic(slot)
    PROVE  CallsInv' /\ TransportOK' /\ UNCHANGED <<ctxVars, backendVars, feedVars, faults>>
<1>1. CallsInv /\ TransportOK /\ IsMap(bTopics, TopicIds, [ref: Refs, state: {"active", "archived"}])
  BY DEF ToolsInv, ToolsTypeOK, TransportOK
<1>2. (DOMAIN joinedTopics \cup {activeThread}) \ {None} \subseteq TopicIds
  BY DEF ToolsInv, ToolsTypeOK, ContextTypeOK, IsMap
<1>3. ASSUME NEW r \in Refs, CallStartTopic(slot, r) PROVE CallsInv' /\ TransportOK'
  BY <1>1, <1>3, SendCalls DEF CallStartTopic, Tools, MembershipTools
<1>4. ASSUME NEW tool \in {"leave_topic", "archive_topic"}, NEW id \in TopicIds, NEW location,
             Send(slot, tool, None, id, location)
      PROVE  CallsInv' /\ TransportOK'
  BY <1>1, <1>4, SendCalls DEF Tools, MembershipTools
<1>5. ASSUME NEW tool \in LookingUp, CallWithLookup(slot, tool) PROVE CallsInv' /\ TransportOK'
  BY <1>1, <1>5, LookupCalls
<1>6. CallsInv' /\ TransportOK'
  BY <1>2, <1>3, <1>4, <1>5 DEF CallJoinTopic, CallUnarchiveTopic, CallLeaveTopic, CallArchiveTopic, LookingUp
<1>7. UNCHANGED <<ctxVars, backendVars, feedVars, faults>>
  BY DEF CallStartTopic, CallJoinTopic, CallUnarchiveTopic, CallLeaveTopic, CallArchiveTopic,
         CallWithLookup, Lookup, Send, Start
<1> QED BY <1>6, <1>7

\* The backends and the failures keep what is said of the calls.
LEMMA BackendStep ==
    ASSUME ToolsInv, NEW slot \in Slots,
           \/ BackendLookup(slot) \/ BackendMembership(slot) \/ BackendCreate(slot)
           \/ BackendJoinOrLeaveTopic(slot) \/ BackendSetState(slot)
           \/ Refused(slot) \/ Lost(slot)
    PROVE  /\ CallsInv' /\ UNCHANGED <<ctxVars, feedVars, raced, transportVars>>
           /\ IsMap(bTopics', TopicIds, [ref: Refs, state: {"active", "archived"}])
           /\ bMembers' \subseteq Refs /\ faults' \in 0 .. MaxFaults
<1> DEFINE TopicRec == [ref: Refs, state: {"active", "archived"}]
<1>1. /\ CallsInv /\ IsMap(bTopics, TopicIds, TopicRec) /\ bMembers \subseteq Refs /\ faults \in 0 .. MaxFaults
      /\ MaxFaults \in Nat
  BY ToolsAssumption DEF ToolsInv, ToolsTypeOK
<1>2. slot \in DOMAIN calls /\ calls[slot] \in Call /\ CallOK(calls[slot])
  BY <1>1 DEF CallsInv, IsMap, BackendLookup, BackendMembership, BackendCreate, BackendJoinOrLeaveTopic,
              BackendSetState, Refused, Lost, InPhase
<1>3. CASE BackendLookup(slot)
  <2>1. calls[slot].id \in DOMAIN bTopics /\ calls[slot].tool \in LookingUp
    BY <1>2, <1>3 DEF BackendLookup, InPhase, CallOK
  <2>2. bTopics[calls[slot].id] \in TopicRec
    BY <1>1, <2>1 DEF IsMap
  <2>3. PICK c : c = [calls[slot] EXCEPT !.phase = "found", !.ref = bTopics[calls[slot].id].ref,
                                         !.archived = (bTopics[calls[slot].id].state = "archived")]
    OBVIOUS
  <2>4. /\ c.tool = calls[slot].tool /\ c.id = calls[slot].id /\ c.phase = "found"
        /\ c.ref \in Refs
    BY <1>2, <2>2, <2>3 DEF Call
  <2>5. c \in Call
    <3>1. (bTopics[calls[slot].id].state = "archived") \in BOOLEAN
      OBVIOUS
    <3> QED BY <1>2, <2>2, <2>3, <3>1 DEF Call
  <2>6. CallOK(c)'
    BY <1>2, <2>1, <2>4 DEF CallOK, LookingUp, MembershipTools
  <2>7. calls' = [calls EXCEPT ![slot] = c] /\ UNCHANGED <<ctxVars, backendVars, feedVars, faults, raced, transportVars>>
    BY <1>1, <1>2, <1>3, <2>3 DEF BackendLookup, CallsInv, IsMap, Call
  <2> QED BY <1>1, <1>2, <2>5, <2>6, <2>7, MoveCalls DEF backendVars
<1>4. CASE BackendMembership(slot)
  <2>1. /\ Answer(slot) /\ UNCHANGED <<ctxVars, bTopics, feedVars, faults, raced, transportVars>>
        /\ calls[slot].phase = "request" /\ calls[slot].tool \in MembershipTools
    BY <1>4 DEF BackendMembership, InPhase, MembershipTools
  <2>2. CallsInv'
    BY <1>1, <1>2, <2>1, AnswerCalls DEF MembershipTools
  <2>3. bMembers' \subseteq Refs
    BY <1>1, <1>2, <1>4, <2>1 DEF BackendMembership, CallOK
  <2> QED BY <1>1, <2>1, <2>2, <2>3
<1>5. CASE BackendCreate(slot)
  <2>1. PICK id \in TopicIds \ DOMAIN bTopics :
          /\ bTopics' = Put(bTopics, id, [ref |-> calls[slot].ref, state |-> "active"])
          /\ calls' = [calls EXCEPT ![slot].phase = "reply", ![slot].id = id]
    BY <1>5 DEF BackendCreate
  <2>2. calls[slot].tool = "start_topic" /\ calls[slot].ref \in Refs
    BY <1>2, <1>5 DEF BackendCreate, InPhase, CallOK
  <2>3. IsMap(bTopics', TopicIds, TopicRec) /\ DOMAIN bTopics \subseteq DOMAIN bTopics'
    <3>1. [ref |-> calls[slot].ref, state |-> "active"] \in TopicRec
      BY <2>2
    <3> QED BY <1>1, <2>1, <3>1 DEF IsMap, Put
  <2>4. PICK c : c = [calls[slot] EXCEPT !.phase = "reply", !.id = id]
    OBVIOUS
  <2>5. c \in Call /\ CallOK(c)' /\ calls' = [calls EXCEPT ![slot] = c]
    BY <1>1, <1>2, <2>1, <2>2, <2>4 DEF Call, CallOK, CallsInv, IsMap, LookingUp, MembershipTools
  <2>6. UNCHANGED <<ctxVars, bMembers, feedVars, faults, raced, transportVars>>
    BY <1>5 DEF BackendCreate
  <2> QED BY <1>1, <1>2, <2>3, <2>5, <2>6, MoveCalls
<1>6. CASE BackendJoinOrLeaveTopic(slot)
  <2>1. /\ Answer(slot) /\ UNCHANGED <<ctxVars, backendVars, feedVars, faults, raced, transportVars>>
        /\ calls[slot].phase = "request" /\ calls[slot].tool # "start_topic"
    BY <1>6 DEF BackendJoinOrLeaveTopic, InPhase
  <2> QED BY <1>1, <1>2, <2>1, AnswerCalls DEF backendVars
<1>7. CASE BackendSetState(slot)
  <2>1. /\ Answer(slot) /\ UNCHANGED <<ctxVars, bMembers, feedVars, faults, raced, transportVars>>
        /\ calls[slot].phase = "request" /\ calls[slot].tool # "start_topic"
    BY <1>7 DEF BackendSetState, InPhase
  <2>2. IsMap(bTopics', TopicIds, TopicRec) /\ DOMAIN bTopics \subseteq DOMAIN bTopics'
    BY <1>1, <1>7 DEF BackendSetState, IsMap
  <2> QED BY <1>1, <1>2, <2>1, <2>2, AnswerCalls
<1>8. ASSUME Fail(slot), calls[slot].phase \in {"request", "reply"}, UNCHANGED bTopics PROVE CallsInv'
  BY <1>1, <1>2, <1>8, AnswerCalls, FinishCalls DEF Fail, FailSilently
<1>9. CASE Refused(slot)
  <2>1. UNCHANGED <<ctxVars, backendVars, feedVars, faults, raced, transportVars>>
    BY <1>9 DEF Refused
  <2>2. Finish(slot) \/ (Fail(slot) /\ calls[slot].phase = "request")
    BY <1>9 DEF Refused
  <2> QED BY <1>1, <1>8, <2>1, <2>2, FinishCalls DEF backendVars
<1>10. CASE Lost(slot)
  <2>1. UNCHANGED <<ctxVars, backendVars, feedVars, raced, transportVars>> /\ faults' = faults + 1 /\ faults < MaxFaults
        /\ Fail(slot) /\ calls[slot].phase \in {"request", "reply"}
    BY <1>10 DEF Lost
  <2> QED BY <1>1, <1>8, <2>1 DEF backendVars
<1> QED BY <1>3, <1>4, <1>5, <1>6, <1>7, <1>9, <1>10

\* The replies, on the other hand, change the context: by one of its operations.
LEMMA ReplyStep ==
    ASSUME ToolsInv, NEW slot \in Slots,
           \/ ResumeLookup(slot) \/ ReplyJoinChannel(slot) \/ ReplyLeaveChannel(slot)
           \/ ReplyJoined(slot) \/ ReplyLeaveTopic(slot) \/ ReplyArchive(slot) \/ ReplyUnarchive(slot)
    PROVE  /\ CallsInv' /\ [ContextNext]_ctxVars
           /\ channelFeeds' \subseteq Refs /\ topicFeeds' \subseteq TopicIds
           /\ UNCHANGED <<backendVars, faults, raced, transportVars>>
<1>1. CallsInv /\ channelFeeds \subseteq Refs /\ topicFeeds \subseteq TopicIds
  BY DEF ToolsInv, ToolsTypeOK
<1>2. slot \in DOMAIN calls /\ calls[slot] \in Call /\ CallOK(calls[slot])
  BY <1>1 DEF CallsInv, IsMap, ResumeLookup, ReplyJoinChannel, ReplyLeaveChannel, ReplyJoined,
              ReplyLeaveTopic, ReplyArchive, ReplyUnarchive, InPhase
<1>3. ASSUME Finish(slot), UNCHANGED bTopics PROVE CallsInv'
  BY <1>1, <1>3, FinishCalls
<1>4. CASE ReplyJoinChannel(slot) \/ ReplyLeaveChannel(slot)
  <2>1. calls[slot].ref \in Refs
    BY <1>2, <1>4 DEF CallOK, ReplyJoinChannel, ReplyLeaveChannel, InPhase, MembershipTools
  <2>2. Finish(slot) /\ UNCHANGED <<backendVars, topicFeeds, faults, raced, transportVars>>
    BY <1>4 DEF ReplyJoinChannel, ReplyLeaveChannel
  <2>3. channelFeeds' \subseteq Refs
    BY <1>1, <1>4, <2>1 DEF ReplyJoinChannel, ReplyLeaveChannel
  <2>4. ContextNext
    BY <1>4, <2>1 DEF ReplyJoinChannel, ReplyLeaveChannel, ContextNext
  <2> QED BY <1>1, <1>3, <2>2, <2>3, <2>4 DEF backendVars
<1>5. CASE ReplyJoined(slot)
  <2>1. calls[slot].ref \in Refs /\ calls[slot].id \in TopicIds
    BY <1>2, <1>5 DEF CallOK, ReplyJoined, InPhase, LookingUp
  <2>2. Finish(slot) /\ UNCHANGED <<backendVars, channelFeeds, faults, raced, transportVars>>
    BY <1>5 DEF ReplyJoined
  <2>3. topicFeeds' \subseteq TopicIds
    BY <1>1, <1>5, <2>1 DEF ReplyJoined
  <2>4. [ContextNext]_ctxVars
    BY <1>5, <2>1 DEF ReplyJoined, ContextNext
  <2> QED BY <1>1, <1>3, <2>2, <2>3, <2>4 DEF backendVars
<1>6. CASE ReplyLeaveTopic(slot)
  <2>1. calls[slot].id \in TopicIds
    BY <1>2, <1>6 DEF CallOK, ReplyLeaveTopic, InPhase
  <2>2. Finish(slot) /\ UNCHANGED <<backendVars, channelFeeds, faults, raced, transportVars>>
    BY <1>6 DEF ReplyLeaveTopic
  <2>3. topicFeeds' \subseteq TopicIds
    BY <1>1, <1>6 DEF ReplyLeaveTopic
  <2>4. ContextNext
    BY <1>6, <2>1 DEF ReplyLeaveTopic, ContextNext
  <2> QED BY <1>1, <1>3, <2>2, <2>3, <2>4 DEF backendVars
<1>7. CASE ReplyArchive(slot)
  BY <1>1, <1>3, <1>7 DEF ReplyArchive, backendVars, feedVars
<1>8. CASE ReplyUnarchive(slot)
  <2>1. PICK c : c = [calls[slot] EXCEPT !.tool = "join_topic", !.phase = PhaseAt(calls[slot].ref.location)]
    OBVIOUS
  <2>2. /\ calls[slot].tool = "unarchive_topic" /\ calls[slot].phase = "reply"
        /\ PhaseAt(calls[slot].ref.location) \in {"request", "reply"}
    BY <1>8 DEF ReplyUnarchive, InPhase, PhaseAt
  <2>3. c \in Call /\ CallOK(c)'
    BY <1>2, <2>1, <2>2 DEF Call, CallOK, Tools, LookingUp, MembershipTools
  <2>4. calls' = [calls EXCEPT ![slot] = c]
    BY <1>1, <1>2, <1>8, <2>1 DEF ReplyUnarchive, CallsInv, IsMap, Call
  <2>5. UNCHANGED <<ctxVars, backendVars, feedVars, faults, raced, transportVars>>
    BY <1>8 DEF ReplyUnarchive
  <2> QED BY <1>1, <1>2, <2>3, <2>4, <2>5, MoveCalls DEF backendVars, feedVars
<1>9. CASE ResumeLookup(slot)
  <2>1. UNCHANGED <<ctxVars, backendVars, feedVars, faults, raced, transportVars>>
    BY <1>9 DEF ResumeLookup
  <2>2. PICK c : c = [calls[slot] EXCEPT !.phase = PhaseAt(calls[slot].ref.location),
                                         !.archived = FALSE, !.byName = FALSE]
    OBVIOUS
  <2>3. /\ calls[slot].tool \in LookingUp /\ calls[slot].phase = "found"
        /\ PhaseAt(calls[slot].ref.location) \in {"request", "reply"}
    BY <1>9 DEF ResumeLookup, InPhase, PhaseAt
  <2>4. c \in Call /\ CallOK(c)'
    BY <1>2, <2>2, <2>3 DEF Call, CallOK, LookingUp, MembershipTools
  <2>5. calls' = [calls EXCEPT ![slot] = c] \/ Finish(slot)
    BY <1>1, <1>2, <1>9, <2>2 DEF ResumeLookup, CallsInv, IsMap, Call
  <2> QED BY <1>1, <1>2, <1>3, <2>1, <2>4, <2>5, MoveCalls DEF backendVars, feedVars
<1> QED BY <1>4, <1>5, <1>6, <1>7, <1>8, <1>9

\* What a tool does after its await
Replies(slot) ==
    \/ ResumeLookup(slot) \/ ReplyJoinChannel(slot) \/ ReplyLeaveChannel(slot)
    \/ ReplyJoined(slot) \/ ReplyLeaveTopic(slot) \/ ReplyArchive(slot) \/ ReplyUnarchive(slot)

\* A step goes on with a call after its await, or leaves the feeds, the
\* subscriptions and the joined topics alone.
LEMMA StepKinds ==
    ASSUME ToolsInv, [Next]_vars
    PROVE  \/ \E slot \in Slots : Replies(slot)
           \/ /\ UNCHANGED <<feedVars, subscribed, joinedTopics>>
              /\ ToolsTypeOK' /\ CallsInv' /\ [ContextNext]_ctxVars
<1> DEFINE TopicRec == [ref: Refs, state: {"active", "archived"}]
<1>1. ToolsTypeOK /\ CallsInv /\ IsMap(bTopics, TopicIds, TopicRec) /\ raced \in BOOLEAN /\ TransportOK
  BY DEF ToolsInv, ToolsTypeOK, TransportOK
<1>a. ASSUME NEW slot, NEW c, Start(slot, c) PROVE raced' \in BOOLEAN
  BY <1>1, <1>a DEF Start
<1>2. ASSUME NEW slot \in Slots, NEW raw \in RawNames, NEW location \in Locations,
             CallJoinChannel(slot, raw, location) \/ CallLeaveChannel(slot, raw, location)
      PROVE  CallsInv' /\ TransportOK' /\ UNCHANGED <<ctxVars, backendVars, feedVars, faults>> /\ raced' \in BOOLEAN
  BY <1>a, <1>2, SentStep DEF CallJoinChannel, CallLeaveChannel, Send
<1>3. ASSUME NEW slot \in Slots,
             \/ \E r \in Refs : CallStartTopic(slot, r)
             \/ CallJoinTopic(slot) \/ CallUnarchiveTopic(slot) \/ CallLeaveTopic(slot) \/ CallArchiveTopic(slot)
      PROVE  CallsInv' /\ TransportOK' /\ UNCHANGED <<ctxVars, backendVars, feedVars, faults>> /\ raced' \in BOOLEAN
  BY <1>a, <1>3, TopicCallStep DEF CallStartTopic, CallJoinTopic, CallUnarchiveTopic, CallLeaveTopic, CallArchiveTopic,
         CallWithLookup, Lookup, Send
<1>4. ASSUME CallsInv', TransportOK', UNCHANGED <<ctxVars, backendVars, feedVars, faults>>, raced' \in BOOLEAN
      PROVE  /\ UNCHANGED <<feedVars, subscribed, joinedTopics>>
             /\ ToolsTypeOK' /\ CallsInv' /\ [ContextNext]_ctxVars
  BY <1>1, <1>4 DEF ToolsTypeOK, TransportOK, CallsInv, ContextTypeOK, ctxVars, backendVars, feedVars
<1>5. ASSUME NEW slot \in Slots,
             \/ BackendLookup(slot) \/ BackendMembership(slot) \/ BackendCreate(slot)
             \/ BackendJoinOrLeaveTopic(slot) \/ BackendSetState(slot)
             \/ Refused(slot) \/ Lost(slot)
      PROVE  /\ UNCHANGED <<feedVars, subscribed, joinedTopics>>
             /\ ToolsTypeOK' /\ CallsInv' /\ [ContextNext]_ctxVars
  <2>1. /\ CallsInv' /\ UNCHANGED <<ctxVars, feedVars, raced, transportVars>>
        /\ IsMap(bTopics', TopicIds, [ref: Refs, state: {"active", "archived"}])
        /\ bMembers' \subseteq Refs /\ faults' \in 0 .. MaxFaults
    BY <1>5, BackendStep
  <2> QED BY <1>1, <2>1 DEF ToolsTypeOK, CallsInv, ContextTypeOK, ctxVars, feedVars, transportVars
<1>6. ASSUME NEW raw \in RawNames, NEW location \in Locations, SetActiveChannelTool(raw, location)
      PROVE  /\ UNCHANGED <<feedVars, subscribed, joinedTopics>>
             /\ ToolsTypeOK' /\ CallsInv' /\ [ContextNext]_ctxVars
  <2>1. RefOf(raw, location) \in Refs
    BY <1>6, RefOfTyped DEF SetActiveChannelTool
  <2>2. SetActiveChannel(RefOf(raw, location)) /\ UNCHANGED <<calls, backendVars, feedVars, faults, raced, transportVars>>
    BY <1>6 DEF SetActiveChannelTool
  <2> QED BY <1>1, <2>1, <2>2 DEF SetActiveChannel, ContextNext, ToolsTypeOK, CallsInv, CallOK, ContextTypeOK,
                                 backendVars, feedVars, transportVars
<1>7. ASSUME NEW id \in TopicIds, SetActiveTopicTool(id)
      PROVE  /\ UNCHANGED <<feedVars, subscribed, joinedTopics>>
             /\ ToolsTypeOK' /\ CallsInv' /\ [ContextNext]_ctxVars
  <2>1. id \in DOMAIN joinedTopics /\ JoinTopic(id, joinedTopics[id]) /\ UNCHANGED <<calls, backendVars, feedVars, faults, raced, transportVars>>
    BY <1>7 DEF SetActiveTopicTool
  <2>2. joinedTopics[id] \in Refs /\ joinedTopics = [x \in DOMAIN joinedTopics |-> joinedTopics[x]]
    BY <1>1, <2>1 DEF ToolsTypeOK, ContextTypeOK, IsMap
  <2>3. joinedTopics' = joinedTopics
    <3>1. joinedTopics' = Put(joinedTopics, id, joinedTopics[id])
      BY <2>1 DEF JoinTopic
    <3>2. Put(joinedTopics, id, joinedTopics[id]) = [x \in DOMAIN joinedTopics |-> joinedTopics[x]]
      BY <2>1 DEF Put
    <3> QED BY <2>2, <3>1, <3>2
  <2>4. ContextNext
    BY <2>1, <2>2 DEF ContextNext
  <2> QED BY <1>1, <2>1, <2>3, <2>4 DEF JoinTopic, ToolsTypeOK, CallsInv, CallOK, ContextTypeOK,
                                 backendVars, feedVars, transportVars
<1>8. ASSUME NEW id \in TopicIds, PeerToggle(id) \/ \E r \in Refs : PeerCreate(id, r)
      PROVE  /\ UNCHANGED <<feedVars, subscribed, joinedTopics>>
             /\ ToolsTypeOK' /\ CallsInv' /\ [ContextNext]_ctxVars
  <2>1. UNCHANGED <<ctxVars, calls, bMembers, feedVars, faults, raced, transportVars>>
    BY <1>8 DEF PeerToggle, PeerCreate
  <2>2. IsMap(bTopics', TopicIds, TopicRec) /\ DOMAIN bTopics \subseteq DOMAIN bTopics'
    <3>1. CASE PeerToggle(id)
      <4>1. bTopics[id] \in TopicRec /\ id \in DOMAIN bTopics
        BY <1>1, <3>1 DEF PeerToggle, IsMap
      <4>2. PICK state \in {"active", "archived"} : bTopics' = [bTopics EXCEPT ![id].state = state]
        BY <3>1 DEF PeerToggle
      <4> QED BY <1>1, <4>1, <4>2 DEF IsMap
    <3>2. ASSUME NEW r \in Refs, PeerCreate(id, r) PROVE IsMap(bTopics', TopicIds, TopicRec) /\ DOMAIN bTopics \subseteq DOMAIN bTopics'
      BY <1>1, <3>2 DEF PeerCreate, IsMap, Put
    <3> QED BY <1>8, <3>1, <3>2
  <2> QED BY <1>1, <2>1, <2>2 DEF ToolsTypeOK, CallsInv, CallOK, ContextTypeOK, ctxVars, feedVars, transportVars
<1>9. CASE UNCHANGED vars
  <2>1. UNCHANGED <<ctxVars, backendVars, feedVars, faults>> /\ calls' = calls /\ raced' = raced /\ TransportOK'
    BY <1>1, <1>9 DEF vars, backendVars, feedVars, TransportOK
  <2>2. CallsInv'
    BY <1>1, <2>1 DEF CallsInv, CallOK, backendVars
  <2> QED BY <1>1, <1>4, <2>1, <2>2
<1>10. ASSUME NEW location \in Locations, NEW now \in {"ready", "off"}, TransportChanges(location, now)
      PROVE  CallsInv' /\ TransportOK' /\ UNCHANGED <<ctxVars, backendVars, feedVars, faults>> /\ raced' \in BOOLEAN
  <2>1. UNCHANGED <<ctxVars, calls, backendVars, feedVars, faults, raced, unsent>>
    BY <1>10 DEF TransportChanges
  <2>2. TransportOK'
    BY <1>1, <1>10, ToolsAssumption DEF TransportChanges, TransportOK
  <2> QED BY <1>1, <2>1, <2>2 DEF CallsInv, CallOK, backendVars
<1> QED BY <1>2, <1>3, <1>4, <1>5, <1>6, <1>7, <1>8, <1>9, <1>10 DEF Next, Replies

\* Every step keeps ToolsInv, and is a step of ActiveContext or leaves it alone.
LEMMA ToolsStep ==
    ASSUME ToolsInv, [Next]_vars
    PROVE  ToolsInv' /\ [ContextNext]_ctxVars
<1>1. CallsInv' /\ [ContextNext]_ctxVars /\ ((\E slot \in Slots : Replies(slot)) \/ ToolsTypeOK')
  BY StepKinds, ReplyStep DEF Replies
<1>2. ContextInv'
  BY <1>1, ContextStep DEF ToolsInv
<1>3. ASSUME NEW slot \in Slots, Replies(slot) PROVE ToolsTypeOK'
  <2>1. channelFeeds' \subseteq Refs /\ topicFeeds' \subseteq TopicIds /\ UNCHANGED <<backendVars, faults, raced, transportVars>>
    BY <1>3, ReplyStep DEF Replies
  <2> QED BY <1>1, <1>2, <2>1 DEF ToolsTypeOK, ToolsInv, CallsInv, ContextInv, backendVars, transportVars
<1> QED BY <1>1, <1>2, <1>3 DEF ToolsInv

-----------------------------------------------------------------------------
(* Feeds *)

\* FeedInv needs of the calls only that they name a channel: each reply tests
\* the context again, or changes context and feeds in one step.
LEMMA FeedStep ==
    ASSUME ToolsInv, FeedInv, [Next]_vars
    PROVE  FeedInv'
<1>0. \A r : r \in SubscribedRefs <=> IsSubscribed(r)
  BY DEF SubscribedRefs, IsSubscribed
<1>1. CASE UNCHANGED <<feedVars, subscribed, joinedTopics>>
  BY <1>1 DEF FeedInv, ChannelFeedsMatch, JoinedHaveFeeds, SubscribedRefs, feedVars
<1>2. ASSUME NEW slot \in Slots, Replies(slot) PROVE FeedInv'
  <2>0. slot \in DOMAIN calls /\ CallOK(calls[slot]) /\ ContextInv
    BY <1>2 DEF Replies, ToolsInv, CallsInv, ResumeLookup, ReplyJoinChannel, ReplyLeaveChannel, ReplyJoined,
                ReplyLeaveTopic, ReplyArchive, ReplyUnarchive, InPhase
  <2>1. CASE ReplyJoinChannel(slot)
    <3>1. PICK r \in Refs : r = calls[slot].ref
      BY <2>0, <2>1 DEF ReplyJoinChannel, InPhase, CallOK, MembershipTools
    <3>2. /\ JoinChannel(r) /\ channelFeeds' = channelFeeds \cup ({r} \ {q \in Refs : q.location = Local})
          /\ UNCHANGED <<topicFeeds, joinedTopics>>
      BY <2>1, <3>1 DEF ReplyJoinChannel, JoinChannel
    <3>3. \A q : q \in SubscribedRefs' <=> q \in SubscribedRefs \/ q = r
      BY <1>0, <2>0, <3>2, SubscribedByJoin DEF SubscribedRefs, IsSubscribed
    <3> QED BY <3>2, <3>3 DEF FeedInv, ChannelFeedsMatch, JoinedHaveFeeds
  <2>2. CASE ReplyLeaveChannel(slot)
    <3>1. PICK r \in Refs : r = calls[slot].ref
      BY <2>0, <2>2 DEF ReplyLeaveChannel, InPhase, CallOK, MembershipTools
    <3>2. LeaveChannel(r) /\ channelFeeds' = channelFeeds \ {r} /\ UNCHANGED topicFeeds
      BY <2>2, <3>1 DEF ReplyLeaveChannel
    <3>3. \A q : q \in SubscribedRefs' <=> q \in SubscribedRefs /\ q # r
      BY <1>0, <2>0, <3>2, SubscribedByLeave DEF SubscribedRefs, IsSubscribed
    <3>4. \A id \in DOMAIN joinedTopics' : id \in DOMAIN joinedTopics /\ joinedTopics'[id] = joinedTopics[id]
      BY <3>2 DEF LeaveChannel, TopicsOutside
    <3> QED BY <3>2, <3>3, <3>4 DEF FeedInv, ChannelFeedsMatch, JoinedHaveFeeds
  <2>3. CASE ReplyJoined(slot)
    <3>1. UNCHANGED <<channelFeeds, subscribed>>
      BY <2>3 DEF ReplyJoined, JoinTopic, ctxVars
    <3>2. JoinedHaveFeeds'
      BY <2>3 DEF ReplyJoined, JoinTopic, Put, ctxVars, FeedInv, JoinedHaveFeeds
    <3> QED BY <3>1, <3>2 DEF FeedInv, ChannelFeedsMatch, SubscribedRefs
  <2>4. CASE ReplyLeaveTopic(slot)
    <3>1. UNCHANGED <<channelFeeds, subscribed>>
      BY <2>4 DEF ReplyLeaveTopic, LeaveTopic
    <3>2. JoinedHaveFeeds'
      BY <2>4 DEF ReplyLeaveTopic, LeaveTopic, Del, FeedInv, JoinedHaveFeeds
    <3> QED BY <3>1, <3>2 DEF FeedInv, ChannelFeedsMatch, SubscribedRefs
  <2>5. CASE ResumeLookup(slot) \/ ReplyArchive(slot) \/ ReplyUnarchive(slot)
    BY <1>1, <2>5 DEF ResumeLookup, ReplyArchive, ReplyUnarchive, ctxVars
  <2> QED BY <1>2, <2>1, <2>2, <2>3, <2>4, <2>5 DEF Replies
<1> QED BY <1>1, <1>2, StepKinds

-----------------------------------------------------------------------------
(* The agreement of context and backend *)

\* A step that owes nothing new keeps the count, ...
LEMMA CountSubset ==
    ASSUME Counted, Owed' \subseteq Owed, faults \in Nat, faults' \in Nat, faults <= faults'
    PROVE  Counted'
<1>1. IsFiniteSet(Owed') /\ Cardinality(Owed') <= Cardinality(Owed)
  BY FS_Subset DEF Counted
<1>2. Cardinality(Owed') \in Nat /\ Cardinality(Owed) \in Nat
  BY <1>1, FS_CardinalityType DEF Counted
<1> QED BY <1>1, <1>2 DEF Counted

\* ... and one that loses a message may owe one channel more.
LEMMA CountOneMore ==
    ASSUME Counted, NEW r, Owed' \subseteq Owed \cup {r}, faults \in Nat, faults' = faults + 1
    PROVE  Counted'
<1>1. /\ IsFiniteSet(Owed \cup {r})
      /\ Cardinality(Owed \cup {r}) = Cardinality(Owed) \/ Cardinality(Owed \cup {r}) = Cardinality(Owed) + 1
  <2>1. CASE r \in Owed
    <3>1. Owed \cup {r} = Owed
      BY <2>1
    <3> QED BY <3>1 DEF Counted
  <2>2. CASE r \notin Owed
    BY <2>2, FS_AddElement DEF Counted
  <2> QED BY <2>1, <2>2
<1>2. IsFiniteSet(Owed') /\ Cardinality(Owed') <= Cardinality(Owed \cup {r})
  BY <1>1, FS_Subset
<1>3. Cardinality(Owed') \in Nat /\ Cardinality(Owed) \in Nat /\ Cardinality(Owed \cup {r}) \in Nat
  BY <1>1, <1>2, FS_CardinalityType DEF Counted
<1> QED BY <1>1, <1>2, <1>3 DEF Counted

\* The joins and leaves in flight stay as they are.
SameChanges ==
    /\ \A k \in DOMAIN calls' : calls'[k].tool \in MembershipTools => k \in DOMAIN calls /\ calls[k] = calls'[k]
    /\ \A k \in DOMAIN calls : Changes(k) => k \in DOMAIN calls' /\ calls'[k] = calls[k]

\* Such a step, with the members and the subscriptions as they were, keeps AgreeInv.
LEMMA AgreeNeutral ==
    ASSUME AgreeInv, UNCHANGED <<subscribed, bMembers, unsent>>, raced => raced', SameChanges,
           faults \in Nat, faults' \in Nat, faults <= faults'
    PROVE  AgreeInv'
<1>1. OneCallEach'
  BY DEF AgreeInv, OneCallEach, SameChanges, Changes
<1>2. Owed' \subseteq Owed
  BY DEF Owed, SameChanges, Changes, IsSubscribed
<1>3. ~raced' => Counted'
  BY <1>2, CountSubset DEF AgreeInv, Counted
<1> QED BY <1>1, <1>3 DEF AgreeInv, Counted

\* A call of another tool that begins, ...
LEMMA SameStart ==
    ASSUME NEW slot, NEW c, c.tool \notin MembershipTools, Start(slot, c)
    PROVE  SameChanges /\ (raced => raced') /\ unsent' = unsent
<1>1. slot \notin DOMAIN calls /\ calls' = Put(calls, slot, c) /\ (raced => raced') /\ unsent' = unsent
  BY DEF Start
<1> QED BY <1>1 DEF SameChanges, Changes, Put

\* ... ends ...
LEMMA SameFinish ==
    ASSUME NEW slot \in DOMAIN calls, ~Changes(slot), Finish(slot)
    PROVE  SameChanges
BY DEF SameChanges, Changes, Finish, Del

\* ... or goes on is such a step.
LEMMA SameMove ==
    ASSUME CallsInv, NEW slot \in DOMAIN calls, ~Changes(slot), NEW c, c.tool \notin MembershipTools,
           calls' = [calls EXCEPT ![slot] = c]
    PROVE  SameChanges
BY DEF SameChanges, Changes, CallsInv, IsMap

\* Joining or leaving a channel begins: none of that channel was in flight.
LEMMA AgreeSend ==
    ASSUME AgreeInv, CallsInv, faults \in Nat, raced \in BOOLEAN,
           NEW slot, NEW tool \in MembershipTools, NEW r \in Refs, NEW location,
           Send(slot, tool, r, None, location)
    PROVE  AgreeInv'
<1> DEFINE c == [tool |-> tool, ref |-> r, id |-> None, phase |-> PhaseAt(location),
                 archived |-> FALSE, byName |-> FALSE]
<1>2. c.tool = tool /\ c.ref = r /\ c.phase \in {"request", "reply"}
  BY DEF PhaseAt
<1>a. Start(slot, c)
  BY DEF Send
<1> HIDE DEF c
<1>1. /\ slot \notin DOMAIN calls /\ calls' = Put(calls, slot, c)
      /\ UNCHANGED <<ctxVars, backendVars, feedVars, faults>>
      /\ ~raced' => ~raced /\ \A k \in DOMAIN calls : Changes(k) => calls[k].ref # r
      /\ unsent' = IF c.phase = "request" THEN unsent \ {r} ELSE unsent \cup {r}
  BY <1>2, <1>a DEF Start, Changes
<1>3. CASE raced'
  BY <1>3 DEF AgreeInv, OneCallEach
<1>4. CASE ~raced'
  <2>1. OneCallEach'
    BY <1>1, <1>2, <1>4 DEF AgreeInv, OneCallEach, Changes, Put
  <2>2. r \notin Owed'
    <3>1. CASE c.phase = "request"
      BY <1>1, <1>2, <1>4, <3>1 DEF Owed, Changes, Put
    <3>2. CASE c.phase = "reply"
      BY <1>1, <3>2 DEF Owed
    <3> QED BY <1>2, <3>1, <3>2
  <2>3. ASSUME NEW q, q # r, q \in Owed' PROVE q \in Owed
    BY <1>1, <1>2, <2>3 DEF Owed, Changes, IsSubscribed, Put, ctxVars, backendVars
  <2>4. Owed' \subseteq Owed
    BY <2>2, <2>3
  <2> QED BY <1>1, <1>4, <2>1, <2>4, CountSubset DEF AgreeInv, Counted
<1> QED BY <1>3, <1>4

\* The backend handles a join or leave: the context will follow.
LEMMA AgreeMembership ==
    ASSUME AgreeInv, CallsInv, faults \in Nat, NEW slot, BackendMembership(slot)
    PROVE  AgreeInv'
<1>1. /\ slot \in DOMAIN calls /\ Changes(slot) /\ calls[slot] \in Call
      /\ UNCHANGED <<subscribed, faults, raced, unsent>>
  BY DEF BackendMembership, InPhase, Changes, MembershipTools, ctxVars, transportVars, CallsInv, IsMap
<1>2. PICK r : r = calls[slot].ref
  OBVIOUS
<1>3. /\ DOMAIN calls' = DOMAIN calls /\ \A k \in DOMAIN calls : k # slot => calls'[k] = calls[k]
      /\ calls'[slot].tool = calls[slot].tool /\ calls'[slot].ref = r /\ calls'[slot].phase = "reply"
  BY <1>1, <1>2 DEF BackendMembership, Answer, CallsInv, IsMap, Call
<1>4. bMembers' = IF calls[slot].tool = "join_channel" THEN bMembers \cup {r} ELSE bMembers \ {r}
  BY <1>2 DEF BackendMembership
<1>5. OneCallEach'
  BY <1>1, <1>2, <1>3 DEF AgreeInv, OneCallEach, Changes
<1>6. ASSUME ~raced PROVE Owed' \subseteq Owed
  <2>1. \A k \in DOMAIN calls : Changes(k) /\ calls[k].ref = r => k = slot
    BY <1>1, <1>2, <1>6 DEF AgreeInv, OneCallEach
  <2>2. r \notin Owed'
    BY <1>1, <1>2, <1>3, <1>4, <2>1 DEF Owed, Changes
  <2>3. \A q : q # r => (q \in bMembers' <=> q \in bMembers)
    BY <1>4
  <2>4. ASSUME NEW q, q # r, q \in Owed' PROVE q \in Owed
    BY <1>1, <1>2, <1>3, <2>3, <2>4 DEF Owed, Changes, IsSubscribed
  <2> QED BY <2>2, <2>4
<1> QED BY <1>1, <1>5, <1>6, CountSubset DEF AgreeInv, Counted

\* The reply: what the call owed is now in the context.
LEMMA AgreeReply ==
    ASSUME AgreeInv, ToolsInv, NEW slot, ReplyJoinChannel(slot) \/ ReplyLeaveChannel(slot)
    PROVE  AgreeInv'
<1>1. /\ slot \in DOMAIN calls /\ Changes(slot) /\ calls[slot].phase = "reply" /\ calls[slot].ref \in Refs
      /\ Finish(slot) /\ UNCHANGED <<bMembers, faults, raced, unsent>>
  BY DEF ReplyJoinChannel, ReplyLeaveChannel, InPhase, Changes, MembershipTools, ToolsInv, CallsInv, CallOK, backendVars, transportVars
<1>2. PICK r \in Refs : r = calls[slot].ref
  BY <1>1
<1>3. \A q : q # r => (IsSubscribed(q)' <=> IsSubscribed(q))
  BY <1>2, SubscribedByJoin, SubscribedByLeave DEF ReplyJoinChannel, ReplyLeaveChannel, ToolsInv
<1>4. IsSubscribed(r)' <=> calls[slot].tool = "join_channel"
  BY <1>2, SubscribedByJoin, SubscribedByLeave DEF ReplyJoinChannel, ReplyLeaveChannel, ToolsInv, InPhase
<1>5. DOMAIN calls' = DOMAIN calls \ {slot} /\ \A k \in DOMAIN calls' : calls'[k] = calls[k]
  BY <1>1 DEF Finish, Del
<1>6. OneCallEach'
  BY <1>1, <1>5 DEF AgreeInv, OneCallEach, Changes
<1>7. ASSUME ~raced PROVE Owed' \subseteq Owed
  <2>1. \A k \in DOMAIN calls' : calls'[k].tool \in MembershipTools => calls'[k].ref # r
    BY <1>1, <1>2, <1>5, <1>7 DEF AgreeInv, OneCallEach, Changes
  <2>2. r \in Owed' => r \in Owed
    BY <1>1, <1>2, <1>4, <2>1 DEF Owed, Changes
  <2>3. ASSUME NEW q, q # r, q \in Owed' PROVE q \in Owed
    BY <1>1, <1>2, <1>3, <1>5, <2>3 DEF Owed, Changes
  <2> QED BY <2>2, <2>3
<1>8. faults \in Nat
  BY DEF ToolsInv, ToolsTypeOK
<1> QED BY <1>1, <1>6, <1>7, <1>8, CountSubset DEF AgreeInv, Counted

\* A request or reply of a join or leave is lost: one channel more.
LEMMA AgreeLost ==
    ASSUME AgreeInv, ToolsInv, NEW slot, Changes(slot), Lost(slot)
    PROVE  AgreeInv'
<1>0. faults \in Nat
  BY DEF ToolsInv, ToolsTypeOK
<1>1. /\ slot \in DOMAIN calls /\ calls[slot] \in Call /\ UNCHANGED <<subscribed, bMembers, raced, unsent>>
      /\ faults' = faults + 1 /\ (Finish(slot) \/ Answer(slot))
  BY DEF Lost, Fail, FailSilently, ctxVars, backendVars, transportVars, ToolsInv, CallsInv, IsMap
<1>2. PICK r : r = calls[slot].ref
  OBVIOUS
<1>3. /\ \A k \in DOMAIN calls' : /\ k \in DOMAIN calls /\ calls'[k].tool = calls[k].tool /\ calls'[k].ref = calls[k].ref
                                  /\ k # slot => calls'[k] = calls[k]
      /\ DOMAIN calls \ {slot} \subseteq DOMAIN calls'
  BY <1>1 DEF Finish, Del, Answer, ToolsInv, CallsInv, IsMap, Call
<1>4. OneCallEach'
  BY <1>1, <1>3 DEF AgreeInv, OneCallEach, Changes
<1>5. Owed' \subseteq Owed \cup {r}
  BY <1>1, <1>2, <1>3 DEF Owed, Changes, IsSubscribed
<1> QED BY <1>0, <1>1, <1>4, <1>5, CountOneMore DEF AgreeInv, Counted

\* The other tools, and what peers do, leave joins and leaves alone.
LEMMA AgreeOther ==
    ASSUME AgreeInv, ToolsInv, NEW slot \in Slots,
           \/ \E r \in Refs : CallStartTopic(slot, r)
           \/ CallJoinTopic(slot) \/ CallUnarchiveTopic(slot)
           \/ CallLeaveTopic(slot) \/ CallArchiveTopic(slot)
           \/ BackendLookup(slot) \/ BackendCreate(slot)
           \/ BackendJoinOrLeaveTopic(slot) \/ BackendSetState(slot)
           \/ ResumeLookup(slot) \/ ReplyJoined(slot) \/ ReplyLeaveTopic(slot)
           \/ ReplyArchive(slot) \/ ReplyUnarchive(slot)
           \/ Refused(slot) \/ (Lost(slot) /\ ~Changes(slot))
    PROVE  AgreeInv'
<1>0. CallsInv /\ raced \in BOOLEAN /\ faults \in Nat
  BY DEF ToolsInv, ToolsTypeOK
<1>1. ASSUME NEW c, c.tool \notin MembershipTools, Start(slot, c) PROVE AgreeInv'
  <2>1. UNCHANGED <<subscribed, bMembers, faults>>
    BY <1>1 DEF Start, ctxVars, backendVars
  <2> QED BY <1>0, <1>1, <2>1, SameStart, AgreeNeutral
<1>2. CASE \/ \E r \in Refs : CallStartTopic(slot, r)
           \/ CallJoinTopic(slot) \/ CallUnarchiveTopic(slot)
           \/ CallLeaveTopic(slot) \/ CallArchiveTopic(slot)
  <2>1. \/ \E tool \in Tools \ MembershipTools : \E r, id, location : Send(slot, tool, r, id, location)
        \/ \E tool \in Tools \ MembershipTools : \E id, byName : Lookup(slot, tool, id, byName)
    BY <1>2 DEF CallStartTopic, CallJoinTopic, CallUnarchiveTopic, CallLeaveTopic, CallArchiveTopic,
                CallWithLookup, Tools, MembershipTools
  <2>2. \E c : c.tool \notin MembershipTools /\ Start(slot, c)
    BY <2>1 DEF Send, Lookup
  <2> QED BY <1>1, <2>2
<1>3. ASSUME slot \in DOMAIN calls, ~Changes(slot), UNCHANGED <<subscribed, bMembers, raced, unsent>>, faults' \in {faults, faults + 1},
             Finish(slot) \/ \E c : c.tool \notin MembershipTools /\ calls' = [calls EXCEPT ![slot] = c]
      PROVE  AgreeInv'
  <2>1. SameChanges
    BY <1>0, <1>3, SameFinish, SameMove
  <2>2. faults' \in Nat /\ faults <= faults'
    BY <1>0, <1>3
  <2> QED BY <1>0, <1>3, <2>1, <2>2, AgreeNeutral
<1>4. CASE \/ BackendLookup(slot) \/ BackendCreate(slot)
           \/ BackendJoinOrLeaveTopic(slot) \/ BackendSetState(slot)
           \/ ResumeLookup(slot) \/ ReplyJoined(slot) \/ ReplyLeaveTopic(slot)
           \/ ReplyArchive(slot) \/ ReplyUnarchive(slot)
  <2>1. slot \in DOMAIN calls /\ ~Changes(slot) /\ calls[slot] \in Call
    BY <1>0, <1>4 DEF BackendLookup, BackendCreate, BackendJoinOrLeaveTopic, BackendSetState, ResumeLookup,
       ReplyJoined, ReplyLeaveTopic, ReplyArchive, ReplyUnarchive, InPhase, LookingUp, Changes, MembershipTools,
       CallsInv, IsMap
  <2>2. UNCHANGED <<subscribed, bMembers, raced, faults, unsent>>
    BY <1>4 DEF BackendLookup, BackendCreate, BackendJoinOrLeaveTopic, BackendSetState, ResumeLookup,
       ReplyJoined, ReplyLeaveTopic, ReplyArchive, ReplyUnarchive, ctxVars, backendVars, transportVars, JoinTopic, LeaveTopic
  <2>3. Finish(slot) \/ \E c : c.tool \notin MembershipTools /\ calls' = [calls EXCEPT ![slot] = c]
    <3>1. CASE Finish(slot)
      BY <3>1
    <3>2. CASE Answer(slot)
      <4>1. PICK phase : calls' = [calls EXCEPT ![slot] = [calls[slot] EXCEPT !.phase = phase]]
        BY <3>2 DEF Answer
      <4>2. [calls[slot] EXCEPT !.phase = phase].tool = calls[slot].tool
        BY <2>1 DEF Call
      <4> QED BY <2>1, <4>1, <4>2 DEF Changes
    <3>3. CASE BackendLookup(slot)
      <4>1. PICK c : c = [calls[slot] EXCEPT !.phase = "found", !.ref = bTopics[calls[slot].id].ref,
                                             !.archived = (bTopics[calls[slot].id].state = "archived")]
        OBVIOUS
      <4>2. calls' = [calls EXCEPT ![slot] = c] /\ c.tool = calls[slot].tool
        BY <1>0, <2>1, <3>3, <4>1 DEF BackendLookup, CallsInv, IsMap, Call
      <4> QED BY <2>1, <4>2 DEF Changes
    <3>4. CASE BackendCreate(slot)
      <4>1. PICK id : calls' = [calls EXCEPT ![slot].phase = "reply", ![slot].id = id]
        BY <3>4 DEF BackendCreate
      <4>2. PICK c : c = [calls[slot] EXCEPT !.phase = "reply", !.id = id]
        OBVIOUS
      <4>3. calls' = [calls EXCEPT ![slot] = c] /\ c.tool = calls[slot].tool
        BY <1>0, <2>1, <4>1, <4>2 DEF CallsInv, IsMap, Call
      <4> QED BY <2>1, <4>3 DEF Changes
    <3>5. CASE ReplyUnarchive(slot)
      <4>1. PICK c : c = [calls[slot] EXCEPT !.tool = "join_topic", !.phase = PhaseAt(calls[slot].ref.location)]
        OBVIOUS
      <4>2. calls' = [calls EXCEPT ![slot] = c] /\ c.tool = "join_topic"
        BY <1>0, <2>1, <3>5, <4>1 DEF ReplyUnarchive, CallsInv, IsMap, Call
      <4> QED BY <4>2 DEF MembershipTools
    <3>6. CASE ResumeLookup(slot) /\ ~Finish(slot)
      <4>1. PICK c : c = [calls[slot] EXCEPT !.phase = PhaseAt(calls[slot].ref.location),
                                             !.archived = FALSE, !.byName = FALSE]
        OBVIOUS
      <4>2. calls' = [calls EXCEPT ![slot] = c] /\ c.tool = calls[slot].tool
        BY <1>0, <2>1, <3>6, <4>1 DEF ResumeLookup, CallsInv, IsMap, Call
      <4> QED BY <2>1, <4>2 DEF Changes
    <3> QED BY <1>4, <3>1, <3>2, <3>3, <3>4, <3>5, <3>6 DEF BackendJoinOrLeaveTopic, BackendSetState, ResumeLookup,
               ReplyJoined, ReplyLeaveTopic, ReplyArchive
  <2> QED BY <1>3, <2>1, <2>2, <2>3
<1>5. ASSUME slot \in DOMAIN calls, Fail(slot)
      PROVE  Finish(slot) \/ calls' = [calls EXCEPT ![slot] = [calls[slot] EXCEPT !.phase = "reply"]]
  BY <1>5 DEF Fail, FailSilently, Answer
<1>6. CASE Refused(slot) \/ (Lost(slot) /\ ~Changes(slot))
  <2>1. /\ slot \in DOMAIN calls /\ ~Changes(slot) /\ UNCHANGED <<subscribed, bMembers, raced, unsent>>
        /\ faults' \in {faults, faults + 1} /\ (Finish(slot) \/ Fail(slot))
    BY <1>0, <1>6 DEF Refused, Lost, Changes, CallsInv, CallOK, MembershipTools, ctxVars, backendVars, transportVars
  <2>2. [calls[slot] EXCEPT !.phase = "reply"].tool = calls[slot].tool
    BY <1>0, <2>1 DEF CallsInv, IsMap, Call
  <2> QED BY <1>3, <1>5, <2>1, <2>2 DEF Changes
<1> QED BY <1>2, <1>4, <1>6

\* AgreeInv is inductive relative to ToolsInv.
LEMMA AgreeStep ==
    ASSUME AgreeInv, ToolsInv, [Next]_vars
    PROVE  AgreeInv'
<1>0. CallsInv /\ raced \in BOOLEAN /\ faults \in Nat
  BY DEF ToolsInv, ToolsTypeOK
<1>1. ASSUME NEW slot \in Slots, NEW raw \in RawNames, NEW location \in Locations,
             CallJoinChannel(slot, raw, location) \/ CallLeaveChannel(slot, raw, location)
      PROVE  AgreeInv'
  <2>1. RefOf(raw, location) \in Refs
    BY <1>1, RefOfTyped DEF CallJoinChannel, CallLeaveChannel
  <2>2. \E tool \in MembershipTools : Send(slot, tool, RefOf(raw, location), None, location)
    BY <1>1 DEF CallJoinChannel, CallLeaveChannel, MembershipTools
  <2> QED BY <1>0, <2>1, <2>2, AgreeSend
<1>2. CASE UNCHANGED <<subscribed, bMembers, raced, calls, faults, unsent>>
  <2>1. SameChanges
    BY <1>2 DEF SameChanges, Changes
  <2> QED BY <1>0, <1>2, <2>1, AgreeNeutral
<1>3. ASSUME NEW raw \in RawNames, NEW location \in Locations, SetActiveChannelTool(raw, location)
      PROVE  UNCHANGED <<subscribed, bMembers, raced, calls, faults, unsent>>
  BY <1>3 DEF SetActiveChannelTool, SetActiveChannel, backendVars, transportVars
<1>4. ASSUME NEW id \in TopicIds,
             SetActiveTopicTool(id) \/ PeerToggle(id) \/ (\E r \in Refs : PeerCreate(id, r))
      PROVE  UNCHANGED <<subscribed, bMembers, raced, calls, faults, unsent>>
  BY <1>4 DEF SetActiveTopicTool, JoinTopic, PeerToggle, PeerCreate, ctxVars, backendVars, transportVars
<1>5. CASE UNCHANGED vars
  BY <1>2, <1>5 DEF vars, ctxVars
<1>6. ASSUME NEW slot \in Slots, BackendMembership(slot) PROVE AgreeInv'
  BY <1>0, <1>6, AgreeMembership
<1>7. ASSUME NEW slot \in Slots, ReplyJoinChannel(slot) \/ ReplyLeaveChannel(slot) PROVE AgreeInv'
  BY <1>7, AgreeReply
<1>8. ASSUME NEW slot \in Slots, Lost(slot) PROVE AgreeInv'
  BY <1>8, AgreeLost, AgreeOther
<1>9. ASSUME NEW location, NEW now, TransportChanges(location, now)
      PROVE  UNCHANGED <<subscribed, bMembers, raced, calls, faults, unsent>>
  BY <1>9 DEF TransportChanges, ctxVars, backendVars
<1> QED BY <1>1, <1>2, <1>3, <1>4, <1>5, <1>6, <1>7, <1>8, <1>9, AgreeOther DEF Next

\* With no call in flight, what is owed is the difference.
LEMMA AgreeLemma == ToolsInv /\ AgreeInv => BackendAgrees
<1> SUFFICES ASSUME ToolsInv, AgreeInv, calls = EmptyMap, ~raced
             PROVE  Cardinality(((SubscribedRefs \ bMembers) \cup (bMembers \ SubscribedRefs)) \ unsent) <= faults
  BY DEF BackendAgrees
<1>1. DOMAIN calls = {}
  BY DEF EmptyMap
<1>2. \A r : r \in SubscribedRefs <=> IsSubscribed(r)
  BY DEF SubscribedRefs, IsSubscribed
<1>3. \A r : IsSubscribed(r) => r \in Refs
  BY DEF ToolsInv, ToolsTypeOK, ContextTypeOK, IsSubscribed
<1>4. bMembers \subseteq Refs
  BY DEF ToolsInv, ToolsTypeOK
<1>5. ((SubscribedRefs \ bMembers) \cup (bMembers \ SubscribedRefs)) \ unsent = Owed
  BY <1>1, <1>2, <1>3, <1>4 DEF Owed
<1> QED BY <1>5 DEF AgreeInv, Counted

-----------------------------------------------------------------------------
(* The theorems *)

\* A new session has no calls, channels, topics or feeds.
LEMMA InitInv == Init => Inductive
<1> SUFFICES ASSUME Init PROVE Inductive
  OBVIOUS
<1>1. ContextInv
  BY DEF Init, ContextInit, ContextInv, ContextTypeOK, SubscribedOnce, OneChannelActive,
         JoinedInSubscribed, IsSubscribed, IsMap, EmptyMap
<1>2. DOMAIN calls = {} /\ DOMAIN bTopics = {} /\ DOMAIN joinedTopics = {} /\ DOMAIN subscribed = {}
  BY DEF Init, ContextInit, EmptyMap
<1>3. CallsInv
  BY <1>2 DEF Init, CallsInv, IsMap, EmptyMap
<1>4. IsMap(bTopics, TopicIds, [ref: Refs, state: {"active", "archived"}])
  BY <1>2 DEF Init, IsMap, EmptyMap
<1>5. ToolsInv
  <2>1. faults \in 0 .. MaxFaults /\ bMembers \subseteq Refs /\ channelFeeds \subseteq Refs /\ topicFeeds \subseteq TopicIds
    BY ToolsAssumption DEF Init
  <2>2. raced \in BOOLEAN
    BY Zenon DEF Init
  <2>3. IsMap(calls, Slots, Call)
    BY <1>2 DEF Init, IsMap, EmptyMap
  <2>4. /\ standing \in [Locations -> {"unintroduced", "ready", "off"}]
        /\ standing[Local] = "ready" /\ unsent \subseteq Refs
    BY ToolsAssumption DEF Init
  <2>5. ToolsTypeOK
    BY <1>1, <1>4, <2>1, <2>2, <2>3, <2>4, Zenon DEF ToolsTypeOK, ContextInv
  <2> QED BY <1>1, <1>3, <2>5 DEF ToolsInv
<1>6. FeedInv
  BY <1>2 DEF Init, FeedInv, ChannelFeedsMatch, JoinedHaveFeeds, SubscribedRefs
<1>7. Owed = {}
  BY <1>2 DEF Init, Owed, IsSubscribed
<1>8. AgreeInv
  BY <1>2, <1>7, FS_EmptySet DEF Init, AgreeInv, Counted, OneCallEach
<1> QED BY <1>5, <1>6, <1>8 DEF Inductive

\* The inductive invariants hold in every state of a session, however its tool
\* calls overlap and whatever messages are lost.
THEOREM ToolsInvariant == Spec => []Inductive
<1>1. Inductive /\ [Next]_vars => Inductive'
  BY ToolsStep, FeedStep, AgreeStep DEF Inductive
<1> QED BY <1>1, InitInv, PTL DEF Spec

\* The types of the tools, the backends and the feeds
THEOREM ToolsTypeCorrect == Spec => []ToolsTypeOK
<1>1. Inductive => ToolsTypeOK
  BY DEF Inductive, ToolsInv
<1> QED BY <1>1, ToolsInvariant, PTL

\* What ActiveContext promises holds of the context that the tools keep: no
\* channel twice, one active channel, joined topics in subscribed channels.
THEOREM ToolsContextCorrect == Spec => []ContextInv
<1>1. Inductive => ContextInv
  BY DEF Inductive, ToolsInv
<1> QED BY <1>1, ToolsInvariant, PTL

\* A broadcast feed is open for exactly the remote channels the session is
\* subscribed to (handleJoinChannel, handleLeaveChannel).
THEOREM ChannelFeedsCorrect == Spec => []ChannelFeedsMatch
<1>1. Inductive => ChannelFeedsMatch
  BY DEF Inductive, FeedInv
<1> QED BY <1>1, ToolsInvariant, PTL

\* A joined remote topic has a live feed.
THEOREM JoinedFeedsCorrect == Spec => []JoinedHaveFeeds
<1>1. Inductive => JoinedHaveFeeds
  BY DEF Inductive, FeedInv
<1> QED BY <1>1, ToolsInvariant, PTL

\* Context and backend end in agreement but for one channel per lost message and
\* those whose last join or leave the transport did not send, unless a join and
\* a leave of one channel overlapped.
THEOREM BackendAgreesCorrect == Spec => []BackendAgrees
<1>1. Inductive => BackendAgrees
  BY AgreeLemma DEF Inductive
<1> QED BY <1>1, ToolsInvariant, PTL
=============================================================================
