---------------------------- MODULE AttachProofs ----------------------------
(***************************************************************************)
(* Proofs about Attach for every set of tool calls and every number of     *)
(* attempts: the inductive invariants behind its safety invariants.        *)
(*                                                                         *)
(* CoreInv is about the attempts and the router alone, AttachInv adds the  *)
(* types of the rest; the other five each stand on AttachInv, and two of   *)
(* them on NamedFirst.                                                     *)
(***************************************************************************)
EXTENDS Attach, TLAPS

-----------------------------------------------------------------------------
(* The inductive invariants *)

coreVars == <<made, pc, prior, life, registered>>

\* The part of TypeOK that speaks of the attempts and the router, ...
CoreTypes ==
    /\ made \in 0 .. MaxAttempts
    /\ pc \in [Attempts -> {"unborn"} \cup InProgress \cup {"attached", "failed", "threw"}]
    /\ prior \in [Attempts -> 0 .. made]
    /\ life \in [Attempts -> {"none", "enabled", "degraded", "closed"}]
    /\ registered \in {0} \cup {t \in Attempts : pc[t] \in {"joining", "attached"}}

\* ... and the other part.
RestTypes ==
    /\ configured \in BOOLEAN /\ named \in BOOLEAN /\ tokens \in BOOLEAN /\ ready \in BOOLEAN
    /\ failure \in BOOLEAN /\ joined \in BOOLEAN /\ strayed \in BOOLEAN
    /\ implicit \in 0 .. made /\ inflight \in 0 .. made
    /\ introduced \subseteq Attempts /\ unintroduced \subseteq Attempts
    /\ feed \in [through: 0 .. made, noop: BOOLEAN]
    /\ IsMap(calls, Slots, Call)

\* The attempt has taken a prior transport out of the router and not yet
\* registered its own.
Replacing(t) == pc[t] \in {"deregistering", "closing"}

\* Where an attempt is says what has become of its transport.
LifeOfAttempts ==
    \A t \in Attempts :
        /\ pc[t] = "unborn" <=> t > made
        /\ pc[t] = "unborn" => life[t] = "none"
        /\ pc[t] = "failed" => life[t] \in {"none", "closed"}
        /\ pc[t] = "cleaningUp" => life[t] = "closed"
        /\ pc[t] \in {"introducing", "deregistering", "closing"} => life[t] = "enabled"

\* A transport that is replaced had been registered and is not any more, and
\* it is shut down before the next is registered.
PriorsLeft ==
    \A t \in Attempts :
        /\ prior[t] # 0 <=> Replacing(t)
        /\ prior[t] # 0 => prior[t] # registered /\ pc[prior[t]] \in {"joining", "attached"}
        /\ pc[t] = "closing" => life[prior[t]] = "closed"

\* A transport that was registered is the router's, is being replaced, or was
\* shut down: also while its attempt still joins the channel.
Owned ==
    \A t \in Attempts :
        pc[t] \in {"joining", "attached"} /\ life[t] # "closed" =>
            registered = t \/ \E u \in Attempts : prior[u] = t

CoreInv == CoreTypes /\ LifeOfAttempts /\ PriorsLeft /\ RouterHealthy /\ Owned

\* Calls wait for, and call, what an attempt has made.
CallsKnow ==
    \A c \in DOMAIN calls :
        calls[c].through <= made /\ (calls[c].at = "calling" => calls[c].through # 0)

AttachInv == CoreInv /\ RestTypes /\ CallsKnow

\* Who started an attempt has left it in the map.
TriedInv == TriedOnce /\ (implicit # 0 => inflight # 0)

\* The router is empty only before the first registration or in the middle of
\* a replacement; before the first one, a failure is on record.
LossInv ==
    registered = 0 /\ (\A u \in Attempts : ~Replacing(u)) =>
        /\ \A t \in Attempts : pc[t] \notin {"joining", "attached", "threw"}
        /\ \A t \in Attempts : pc[t] = "failed" => failure

\* What only happens in a session with a name.
NamedFirst ==
    ~named => /\ ~joined
              /\ \A t \in Attempts : pc[t] \notin {"introducing", "deregistering", "joining"}
              /\ \A c \in DOMAIN calls : calls[c].at # "calling"

\* An open feed is one of the router's transport, and there is one unless the
\* attempt that registered it is about to open it.
FeedInv ==
    /\ feed # NoFeed => feed.through # 0
    /\ ~strayed /\ feed # NoFeed =>
            feed.through = registered /\ (feed.noop => ~Enabled(registered))
    /\ configured /\ joined /\ registered # 0 => feed # NoFeed \/ pc[registered] = "joining"

\* A call of the introduce tool is on its way to transport t.
Introducing(t) ==
    \E c \in DOMAIN calls :
        calls[c].at = "calling" /\ calls[c].op = "introduce" /\ calls[c].through = t

\* The router's transport has a session, was refused one or is being asked;
\* so has and was the next one, while it replaces it.
KnownInv ==
    named =>
        /\ Enabled(registered) =>
              registered \in introduced \cup unintroduced \/ Introducing(registered)
        /\ \A t \in Attempts : Replacing(t) => t \in introduced \cup unintroduced

Inductive == AttachInv /\ TriedInv /\ LossInv /\ NamedFirst /\ FeedInv /\ KnownInv

-----------------------------------------------------------------------------
(* CoreInv, action by action *)

USE AttachAssumption DEF Attempts

\* TypeOK in two parts.
LEMMA SplitTypes == TypeOK <=> CoreTypes /\ RestTypes
BY DEF TypeOK, CoreTypes, RestTypes

\* A step that leaves the attempts and the router alone.
LEMMA CoreSame == ASSUME CoreInv, UNCHANGED coreVars PROVE CoreInv'
BY DEF CoreInv, coreVars, CoreTypes, LifeOfAttempts, PriorsLeft, RouterHealthy, Owned, Replacing

\* Taking over keeps CoreInv, wherever attachLocation does it: after introduce,
\* or at its start in a session without a name.
LEMMA TakeOverCore ==
    ASSUME CoreInv, NEW t \in Attempts,
           \/ pc[t] = "introducing" /\ made' = made
           \/ t = made + 1 /\ made' = t,
           NEW lives, lives = [life EXCEPT ![t] = "enabled"],
           TakeOver(t, lives)
    PROVE  CoreInv'
<1>0. CoreTypes /\ LifeOfAttempts /\ PriorsLeft /\ RouterHealthy /\ Owned
  BY DEF CoreInv
<1>1. /\ made' \in 0 .. MaxAttempts /\ made <= made' /\ t <= made'
      /\ \A u \in Attempts : u # t => (u > made' <=> u > made)
      /\ pc[t] \in {"introducing", "unborn"} /\ prior[t] = 0 /\ registered # t
      /\ \A u \in Attempts : prior[u] # t
  BY <1>0 DEF CoreTypes, LifeOfAttempts, PriorsLeft, Replacing
<1>2. CASE registered = 0
  <2>1. /\ registered' = t /\ life' = lives /\ prior' = prior
        /\ pc' = [pc EXCEPT ![t] = "joining"] \/ pc' = [pc EXCEPT ![t] = "attached"]
    BY <1>2 DEF TakeOver, Register, Goto
  <2>2. CoreTypes'
    BY <1>0, <1>1, <2>1 DEF CoreTypes, InProgress
  <2>3. LifeOfAttempts'
    BY <1>0, <1>1, <2>1 DEF CoreTypes, LifeOfAttempts
  <2>4. PriorsLeft'
    BY <1>0, <1>1, <2>1 DEF CoreTypes, PriorsLeft, Replacing
  <2>5. RouterHealthy'
    BY <1>0, <1>1, <2>1 DEF CoreTypes, RouterHealthy
  <2>6. Owned'
    BY <1>0, <1>1, <1>2, <2>1 DEF CoreTypes, Owned, InProgress
  <2> QED BY <2>2, <2>3, <2>4, <2>5, <2>6 DEF CoreInv
<1>3. CASE registered # 0
  <2>1. /\ registered' = 0 /\ prior' = [prior EXCEPT ![t] = registered]
        /\ \/ pc' = [pc EXCEPT ![t] = "deregistering"] /\ life' = lives
           \/ pc' = [pc EXCEPT ![t] = "closing"] /\ life' = [lives EXCEPT ![registered] = "closed"]
    BY <1>3 DEF TakeOver, Goto
  <2>2. registered \in Attempts /\ pc[registered] \in {"joining", "attached"} /\ registered <= made
    BY <1>0, <1>3 DEF CoreTypes, LifeOfAttempts
  <2>3. CoreTypes'
    <3>1. prior' \in [Attempts -> 0 .. made']
      <4>1. 0 .. made \subseteq 0 .. made' /\ registered \in 0 .. made'
        BY <1>0, <1>1, <2>2 DEF CoreTypes
      <4> QED BY <1>0, <2>1, <4>1 DEF CoreTypes
    <3>2. life' \in [Attempts -> {"none", "enabled", "degraded", "closed"}]
      BY <1>0, <2>1, <2>2 DEF CoreTypes
    <3>3. pc' \in [Attempts -> {"unborn"} \cup InProgress \cup {"attached", "failed", "threw"}]
      BY <1>0, <2>1 DEF CoreTypes, InProgress
    <3> QED BY <1>1, <2>1, <3>1, <3>2, <3>3 DEF CoreTypes
  <2>4. LifeOfAttempts'
    BY <1>0, <1>1, <2>1, <2>2 DEF CoreTypes, LifeOfAttempts
  <2>5. PriorsLeft'
    <3>1. /\ prior'[t] = registered /\ pc'[t] \in {"deregistering", "closing"}
          /\ pc'[registered] = pc[registered]
          /\ pc'[t] = "closing" => life'[registered] = "closed"
      BY <1>0, <1>1, <2>1, <2>2 DEF CoreTypes
    <3>2. ASSUME NEW u \in Attempts, u # t
          PROVE  /\ prior'[u] = prior[u] /\ pc'[u] = pc[u]
                 /\ prior[u] # 0 => prior[u] \in Attempts /\ prior[u] # t /\ pc'[prior[u]] = pc[prior[u]]
                 /\ prior[u] # 0 /\ life[prior[u]] = "closed" => life'[prior[u]] = "closed"
      BY <1>0, <1>1, <2>1, <2>2, <3>2 DEF CoreTypes
    <3> QED BY <1>0, <1>3, <2>1, <2>2, <3>1, <3>2 DEF PriorsLeft, Replacing
  <2>6. RouterHealthy'
    BY <2>1 DEF RouterHealthy
  <2>7. Owned'
    BY <1>0, <1>1, <1>3, <2>1, <2>2 DEF CoreTypes, Owned, InProgress
  <2> QED BY <2>3, <2>4, <2>5, <2>6, <2>7 DEF CoreInv
<1> QED BY <1>2, <1>3

\* attachLocation up to its first await keeps CoreInv.
LEMMA StartCore ==
    ASSUME CoreInv, NEW t, Start(t)
    PROVE  CoreInv'
<1>0. CoreTypes /\ LifeOfAttempts /\ PriorsLeft /\ RouterHealthy /\ Owned
  BY DEF CoreInv
<1>1. /\ t \in Attempts /\ t = made + 1 /\ made' = t /\ pc[t] = "unborn" /\ life[t] = "none"
      /\ prior[t] = 0 /\ registered # t
  BY <1>0 DEF Start, CoreTypes, LifeOfAttempts, PriorsLeft, Replacing
<1>2. CASE pc' = [pc EXCEPT ![t] = "failed"] /\ UNCHANGED <<prior, life, registered>>
  BY <1>0, <1>1, <1>2 DEF CoreInv, CoreTypes, LifeOfAttempts, PriorsLeft, RouterHealthy, Owned, Replacing, InProgress
<1>3. CASE /\ pc' = [pc EXCEPT ![t] = "introducing"] /\ life' = [life EXCEPT ![t] = "enabled"]
           /\ UNCHANGED <<prior, registered>>
  BY <1>0, <1>1, <1>3 DEF CoreInv, CoreTypes, LifeOfAttempts, PriorsLeft, RouterHealthy, Owned, Replacing, InProgress
<1>4. CASE TakeOver(t, [life EXCEPT ![t] = "enabled"])
  BY <1>1, <1>4, TakeOverCore
<1> QED BY <1>2, <1>3, <1>4 DEF Start, Goto

\* The prior transport is shut down: what is registered next is still enabled,
\* or another attempt has registered meanwhile.
LEMMA ClosedCore ==
    ASSUME CoreInv, NEW t \in Attempts, Closed(t)
    PROVE  CoreInv'
<1>0. CoreTypes /\ LifeOfAttempts /\ PriorsLeft /\ RouterHealthy /\ Owned
  BY DEF CoreInv
<1>1. /\ pc[t] = "closing" /\ life[t] = "enabled" /\ prior' = [prior EXCEPT ![t] = 0]
      /\ UNCHANGED <<made, life>> /\ life[prior[t]] = "closed" /\ t # registered
      /\ prior[t] \in Attempts
  BY <1>0 DEF Closed, CoreTypes, LifeOfAttempts, PriorsLeft, Replacing
<1>2. \/ registered # 0 /\ registered' = registered /\ pc' = [pc EXCEPT ![t] = "threw"]
      \/ /\ registered = 0 /\ registered' = t
         /\ pc' = [pc EXCEPT ![t] = "joining"] \/ pc' = [pc EXCEPT ![t] = "attached"]
  BY DEF Closed, Register, Goto
<1>3. CoreTypes'
  <2>1. prior' \in [Attempts -> 0 .. made']
    BY <1>0, <1>1 DEF CoreTypes
  <2> QED BY <1>0, <1>1, <1>2, <2>1 DEF CoreTypes, InProgress
<1>4. LifeOfAttempts'
  BY <1>0, <1>1, <1>2 DEF CoreTypes, LifeOfAttempts
<1>5. PriorsLeft'
  <2>1. \A u \in Attempts : prior[u] # t
    BY <1>0, <1>1 DEF PriorsLeft
  <2>2. \A u \in Attempts \ {t} : prior'[u] = prior[u] /\ pc'[u] = pc[u]
    BY <1>0, <1>1, <1>2 DEF CoreTypes
  <2>3. prior'[t] = 0 /\ ~Replacing(t)'
    BY <1>0, <1>1, <1>2 DEF CoreTypes, Replacing
  <2>4. \A u \in Attempts : prior[u] # 0 => prior[u] \in Attempts \ {t}
    BY <1>0, <2>1 DEF CoreTypes
  <2> QED BY <1>0, <1>1, <1>2, <2>1, <2>2, <2>3, <2>4 DEF PriorsLeft, Replacing
<1>6. RouterHealthy'
  BY <1>0, <1>1, <1>2 DEF CoreTypes, RouterHealthy
<1>7. Owned'
  BY <1>0, <1>1, <1>2 DEF CoreTypes, Owned, InProgress
<1> QED BY <1>3, <1>4, <1>5, <1>6, <1>7 DEF CoreInv

\* The shutdown of the prior transport closes none that the router has.
LEMMA DeregisteredCore ==
    ASSUME CoreInv, NEW t \in Attempts, Deregistered(t)
    PROVE  CoreInv'
<1>0. CoreTypes /\ LifeOfAttempts /\ PriorsLeft /\ RouterHealthy /\ Owned
  BY DEF CoreInv
<1>1. /\ pc[t] = "deregistering" /\ pc' = [pc EXCEPT ![t] = "closing"]
      /\ life' = [life EXCEPT ![prior[t]] = "closed"] /\ UNCHANGED <<made, prior, registered>>
      /\ prior[t] \in Attempts /\ prior[t] # registered /\ pc[prior[t]] \in {"joining", "attached"}
      /\ prior[t] # t
  BY <1>0 DEF Deregistered, Goto, CoreTypes, PriorsLeft, Replacing
<1>2. CoreTypes'
  BY <1>0, <1>1 DEF CoreTypes, InProgress
<1>3. LifeOfAttempts'
  BY <1>0, <1>1 DEF CoreTypes, LifeOfAttempts
<1>4. PriorsLeft'
  BY <1>0, <1>1 DEF CoreTypes, PriorsLeft, Replacing
<1>5. RouterHealthy'
  BY <1>0, <1>1 DEF CoreTypes, RouterHealthy
<1>6. Owned'
  BY <1>0, <1>1 DEF CoreTypes, Owned, InProgress
<1> QED BY <1>2, <1>3, <1>4, <1>5, <1>6 DEF CoreInv

\* Every later step of an attempt, and the loss of a transport, keeps CoreInv.
LEMMA AttemptCore ==
    ASSUME CoreInv, NEW t \in Attempts, AttemptStep(t) \/ Degrade(t)
    PROVE  CoreInv'
<1>0. CoreTypes /\ LifeOfAttempts /\ PriorsLeft /\ RouterHealthy /\ Owned
  BY DEF CoreInv
<1>1. CASE Introduced(t)
  <2>1. life = [life EXCEPT ![t] = "enabled"] /\ made' = made /\ pc[t] = "introducing"
    BY <1>0, <1>1 DEF Introduced, CoreTypes, LifeOfAttempts
  <2> QED BY <1>1, <2>1, TakeOverCore DEF Introduced
<1>2. CASE IntroduceFails(t)
  BY <1>0, <1>2 DEF CoreInv, CoreTypes, LifeOfAttempts, PriorsLeft, RouterHealthy, Owned,
                    Replacing, InProgress, IntroduceFails, Goto
<1>3. CASE CleanedUp(t)
  BY <1>0, <1>3 DEF CoreInv, CoreTypes, LifeOfAttempts, PriorsLeft, RouterHealthy, Owned,
                    Replacing, InProgress, CleanedUp, Goto
<1>4. CASE AutoJoined(t)
  BY <1>0, <1>4 DEF CoreInv, CoreTypes, LifeOfAttempts, PriorsLeft, RouterHealthy, Owned,
                    Replacing, InProgress, AutoJoined, Goto
<1>5. CASE Degrade(t)
  BY <1>0, <1>5 DEF CoreInv, CoreTypes, LifeOfAttempts, PriorsLeft, RouterHealthy, Owned,
                    Replacing, InProgress, Degrade, attemptVars
<1> QED BY <1>1, <1>2, <1>3, <1>4, <1>5, DeregisteredCore, ClosedCore DEF AttemptStep

\* No transport is lost track of.
LEMMA NoOrphanLemma == CoreInv => NoOrphan
BY DEF CoreInv, CoreTypes, LifeOfAttempts, Owned, NoOrphan, InProgress

-----------------------------------------------------------------------------
(* The types of the rest, and AttachInv *)

\* The absent feed is typed from the start.
LEMMA NoFeedTyped == \A n \in Nat : NoFeed \in [through: 0 .. n, noop: BOOLEAN]
BY DEF NoFeed

\* What the start of an attempt does to the rest.
LEMMA StartRest ==
    ASSUME AttachInv, NEW t, Start(t)
    PROVE  /\ t \in Attempts /\ t = made + 1 /\ made' = t /\ made \in Nat
           /\ failure' \in BOOLEAN /\ feed' \in {feed, NoFeed}
           /\ introduced' = introduced
           /\ feed' \in [through: 0 .. made', noop: BOOLEAN]
           /\ 0 .. made \subseteq 0 .. made'
<1>1. t \in Attempts /\ t = made + 1 /\ made' = t /\ introduced' = introduced /\ made \in Nat
  BY DEF Start, AttachInv, CoreInv, CoreTypes
<1>2. failure' \in BOOLEAN /\ feed' \in {feed, NoFeed}
  BY DEF Start, TakeOver, Register, AttachInv, RestTypes
<1>3. feed' \in [through: 0 .. made', noop: BOOLEAN]
  <2>1. \A f \in [through: 0 .. made, noop: BOOLEAN] : f \in [through: 0 .. made', noop: BOOLEAN]
    BY <1>1
  <2>2. feed \in [through: 0 .. made, noop: BOOLEAN]
    BY DEF AttachInv, RestTypes
  <2> QED BY <1>1, <1>2, <2>1, <2>2, NoFeedTyped
<1> QED BY <1>1, <1>2, <1>3

\* What taking over does to the rest.
LEMMA TakeOverRest ==
    ASSUME AttachInv, NEW t \in Attempts, NEW lives, TakeOver(t, lives)
    PROVE  failure' \in BOOLEAN /\ feed' \in {feed, NoFeed}
BY DEF TakeOver, Register, AttachInv, RestTypes

\* What a call that begins adds to the calls
LEMMA BeginRest ==
    ASSUME AttachInv, NEW c \in Slots, NEW op \in Operations,
           NEW at \in {"attaching", "calling", "signingIn", "hotAttaching"}, NEW t \in 0 .. made',
           at = "calling" => t # 0,
           made' \in 0 .. MaxAttempts, made <= made',
           Begin(c, op, at, t)
    PROVE  IsMap(calls', Slots, Call) /\ CallsKnow'
<1>1. [op |-> op, at |-> at, through |-> t] \in Call
  BY DEF Call
<1>2. IsMap(calls, Slots, Call) /\ CallsKnow /\ made \in Nat
  BY DEF AttachInv, RestTypes, CoreInv, CoreTypes
<1>3. calls' = Put(calls, c, [op |-> op, at |-> at, through |-> t])
  BY DEF Begin
<1>4. IsMap(calls', Slots, Call)
  BY <1>1, <1>2, <1>3 DEF IsMap, Put
<1>5. \A x \in DOMAIN calls : calls[x] \in Call
  BY <1>2 DEF IsMap
<1>6. CallsKnow'
  BY <1>2, <1>3, <1>5 DEF CallsKnow, Put, Call
<1> QED BY <1>4, <1>6

\* ... one that goes on changes
LEMMA MoveRest ==
    ASSUME AttachInv, NEW c \in DOMAIN calls,
           NEW at \in {"attaching", "calling", "signingIn", "hotAttaching"}, NEW t \in 0 .. made',
           at = "calling" => t # 0,
           made' \in 0 .. MaxAttempts, made <= made',
           Move(c, at, t)
    PROVE  IsMap(calls', Slots, Call) /\ CallsKnow'
<1>1. IsMap(calls, Slots, Call) /\ CallsKnow /\ made \in Nat
  BY DEF AttachInv, RestTypes, CoreInv, CoreTypes
<1>2. calls[c] \in Call /\ \A x \in DOMAIN calls : calls[x] \in Call
  BY <1>1 DEF IsMap
<1>3. /\ DOMAIN calls' = DOMAIN calls
      /\ calls'[c] = [op |-> calls[c].op, at |-> at, through |-> t]
      /\ \A x \in DOMAIN calls : x # c => calls'[x] = calls[x]
      /\ calls' = [x \in DOMAIN calls |-> calls'[x]]
  BY <1>1, <1>2 DEF Move, IsMap, Call
<1>4. calls'[c] \in Call
  BY <1>2, <1>3 DEF Call
<1>5. IsMap(calls', Slots, Call)
  BY <1>1, <1>2, <1>3, <1>4 DEF IsMap
<1>6. CallsKnow'
  BY <1>1, <1>2, <1>3 DEF CallsKnow, Call
<1> QED BY <1>5, <1>6

\* ... and one that returns removes.
LEMMA ReturnRest ==
    ASSUME AttachInv, NEW c, Return(c), made' = made
    PROVE  IsMap(calls', Slots, Call) /\ CallsKnow'
BY DEF AttachInv, RestTypes, Return, IsMap, Del, CallsKnow

\* ensureChannelSubscription keeps the types.
LEMMA EnsureFeedRest ==
    ASSUME AttachInv, made' = made, NEW t \in 0 .. made, EnsureFeed(t)
    PROVE  feed' \in [through: 0 .. made, noop: BOOLEAN] /\ strayed' \in BOOLEAN
<1>1. feed \in [through: 0 .. made, noop: BOOLEAN] /\ strayed \in BOOLEAN
  BY DEF AttachInv, RestTypes
<1>2. CASE feed # NoFeed
  BY <1>1, <1>2 DEF EnsureFeed
<1>3. CASE feed = NoFeed
  <2>1. feed' \in {[through |-> t, noop |-> b] : b \in BOOLEAN}
    BY <1>3 DEF EnsureFeed, Enabled
  <2>2. strayed' \in BOOLEAN
    BY <1>3 DEF EnsureFeed
  <2> QED BY <2>1, <2>2
<1> QED BY <1>2, <1>3

\* Every later step of an attempt keeps the types.
LEMMA AttemptRest ==
    ASSUME AttachInv, NEW t \in Attempts, AttemptStep(t) \/ Degrade(t)
    PROVE  RestTypes' /\ CallsKnow'
<1>0. RestTypes /\ CallsKnow
  BY DEF AttachInv
<1>1. CASE Introduced(t)
  <2>1. failure' \in BOOLEAN /\ feed' \in {feed, NoFeed}
    BY <1>1, TakeOverRest DEF Introduced
  <2>2. feed' \in [through: 0 .. made, noop: BOOLEAN]
    BY <1>0, <2>1, NoFeedTyped DEF RestTypes, AttachInv, CoreInv, CoreTypes
  <2>3. introduced' \subseteq Attempts
    BY <1>0, <1>1 DEF Introduced, RestTypes
  <2> QED BY <1>0, <1>1, <2>1, <2>2, <2>3 DEF RestTypes, CallsKnow, Introduced, configVars
<1>2. CASE IntroduceFails(t) \/ CleanedUp(t) \/ Degrade(t)
  BY <1>0, <1>2 DEF RestTypes, CallsKnow, IntroduceFails, CleanedUp, Degrade, configVars, feedVars, attemptVars
<1>3. CASE Deregistered(t)
  BY <1>0, <1>3 DEF RestTypes, CallsKnow, Deregistered, configVars, feedVars
<1>4. CASE Closed(t)
  <2>1. failure' \in BOOLEAN
    BY <1>0, <1>4 DEF Closed, Register, RestTypes
  <2> QED BY <1>0, <1>4, <2>1 DEF RestTypes, CallsKnow, Closed, configVars, feedVars
<1>5. CASE AutoJoined(t)
  <2>1. t \in 0 .. made
    BY <1>5 DEF AutoJoined, AttachInv, CoreInv, CoreTypes, LifeOfAttempts
  <2>2. feed' \in [through: 0 .. made, noop: BOOLEAN] /\ strayed' \in BOOLEAN
    BY <1>5, <2>1, EnsureFeedRest DEF AutoJoined
  <2> QED BY <1>0, <1>5, <2>2 DEF RestTypes, CallsKnow, AutoJoined, configVars
<1> QED BY <1>1, <1>2, <1>3, <1>4, <1>5 DEF AttemptStep

\* Every step keeps AttachInv.
LEMMA AttachInvStep ==
    ASSUME AttachInv, [Next]_vars
    PROVE  AttachInv'
<1>0. CoreInv /\ RestTypes /\ CallsKnow
  BY DEF AttachInv
<1>a. made \in 0 .. MaxAttempts /\ registered \in 0 .. made
  BY <1>0 DEF CoreInv, CoreTypes, LifeOfAttempts
<1>1. CASE StartupAttach
  <2>1. Start(1) /\ UNCHANGED <<configVars, named, ready, inflight, implicit, joined, strayed, calls, unintroduced>>
    BY <1>1 DEF StartupAttach
  <2>2. CoreInv'
    BY <1>0, <2>1, StartCore
  <2>3. RestTypes' /\ CallsKnow'
    <3>1. \A c \in DOMAIN calls : calls[c].through \in Nat
      BY <1>0 DEF RestTypes, IsMap, Call
    <3>2. CallsKnow'
      BY <1>0, <2>1, <3>1, StartRest DEF CallsKnow
    <3> QED BY <1>0, <2>1, <3>2, StartRest DEF RestTypes, configVars
  <2> QED BY <2>2, <2>3 DEF AttachInv
<1>2. CASE StartupDone
  BY <1>0, <1>2, CoreSame DEF StartupDone, AttachInv, coreVars, RestTypes, CallsKnow,
                              configVars, attemptVars, routerVars, feedVars
<1>3. ASSUME NEW t \in Attempts, AttemptStep(t) \/ Degrade(t) PROVE AttachInv'
  BY <1>0, <1>3, AttemptCore, AttemptRest DEF AttachInv
<1>4. ASSUME NEW c \in Slots, NEW op \in Operations, BeginCall(c, op) PROVE AttachInv'
  <2>1. UNCHANGED <<configVars, named, ready, joined, strayed, unintroduced>>
    BY <1>4 DEF BeginCall
  <2>2. CASE /\ Start(made + 1) /\ inflight' = made + 1
             /\ implicit' \in {implicit, implicit + 1}
             /\ Begin(c, op, "attaching", made + 1)
    <3>1. CoreInv'
      BY <1>0, <2>2, StartCore
    <3>2. made + 1 = made' /\ made' \in 0 .. MaxAttempts
      BY <2>2, StartRest
    <3>3. IsMap(calls', Slots, Call) /\ CallsKnow'
      BY <1>a, <2>2, <3>2, BeginRest
    <3>4. implicit' \in 0 .. made' /\ inflight' \in 0 .. made'
      BY <1>0, <1>a, <2>2, <3>2 DEF RestTypes
    <3> QED BY <1>0, <2>1, <2>2, <3>1, <3>3, <3>4, StartRest DEF AttachInv, RestTypes, configVars
  <2>3. CASE /\ Begin(c, op, "attaching", IF NameGate(op) /\ ~NeedsWork(op) THEN inflight ELSE 0)
             /\ UNCHANGED <<attemptVars, routerVars, feed>>
    <3>1. CoreInv'
      BY <1>0, <2>3, CoreSame DEF coreVars, attemptVars, routerVars
    <3>2. (IF NameGate(op) /\ ~NeedsWork(op) THEN inflight ELSE 0) \in 0 .. made
      BY <1>0, <1>a DEF RestTypes
    <3>3. made' = made
      BY <2>3 DEF attemptVars
    <3>4. IsMap(calls', Slots, Call) /\ CallsKnow'
      BY <1>a, <2>3, <3>2, <3>3, BeginRest
    <3> QED BY <1>0, <2>1, <2>3, <3>1, <3>4 DEF AttachInv, RestTypes, configVars, attemptVars, routerVars
  <2> QED BY <1>4, <2>2, <2>3 DEF BeginCall, EnsureAttached
<1>5. ASSUME NEW c \in Slots, AttachReturns(c) PROVE AttachInv'
  <2>1. UNCHANGED <<configVars, named, ready, attemptVars, routerVars, feedVars, unintroduced>>
    BY <1>5 DEF AttachReturns
  <2>2. (Move(c, "calling", registered) /\ registered # 0) \/ Move(c, "signingIn", 0) \/ Return(c)
    BY <1>5 DEF AttachReturns, Enabled
  <2>3. c \in DOMAIN calls /\ made' = made
    BY <1>5, <2>1 DEF AttachReturns, At, attemptVars
  <2>4. IsMap(calls', Slots, Call) /\ CallsKnow'
    BY <1>a, <2>2, <2>3, MoveRest, ReturnRest
  <2>5. CoreInv'
    BY <1>0, <2>1, CoreSame DEF coreVars, attemptVars, routerVars
  <2> QED BY <1>0, <2>1, <2>4, <2>5 DEF AttachInv, RestTypes, configVars, attemptVars, routerVars, feedVars
<1>6. ASSUME NEW c \in Slots, Join(c) PROVE AttachInv'
  <2>1. /\ UNCHANGED <<configVars, named, ready, attemptVars, routerVars, unintroduced>>
        /\ Return(c) /\ joined' = TRUE /\ EnsureFeed(calls[c].through) /\ c \in DOMAIN calls
    BY <1>6 DEF Join, At
  <2>2. calls[c].through \in 0 .. made /\ made' = made
    BY <1>0, <1>a, <2>1 DEF CallsKnow, RestTypes, IsMap, Call, attemptVars
  <2>3. feed' \in [through: 0 .. made, noop: BOOLEAN] /\ strayed' \in BOOLEAN
    BY <2>1, <2>2, EnsureFeedRest
  <2>4. IsMap(calls', Slots, Call) /\ CallsKnow'
    BY <2>1, <2>2, ReturnRest
  <2>5. CoreInv'
    BY <1>0, <2>1, CoreSame DEF coreVars, attemptVars, routerVars
  <2> QED BY <1>0, <2>1, <2>2, <2>3, <2>4, <2>5 DEF AttachInv, RestTypes, configVars, attemptVars, routerVars
<1>7. ASSUME NEW c \in Slots, BeginLeave(c) \/ BeginSignIn(c) PROVE AttachInv'
  <2>1. UNCHANGED <<configVars, named, ready, attemptVars, routerVars, feedVars, unintroduced>>
    BY <1>7 DEF BeginLeave, BeginSignIn
  <2>2. made' = made
    BY <2>1 DEF attemptVars
  <2>3. \/ Begin(c, "leave", "calling", registered) /\ registered # 0
        \/ Begin(c, "authenticate", "signingIn", 0)
    BY <1>7 DEF BeginLeave, BeginSignIn, Enabled
  <2>4. IsMap(calls', Slots, Call) /\ CallsKnow'
    BY <1>a, <2>2, <2>3, BeginRest DEF Operations
  <2>5. CoreInv'
    BY <1>0, <2>1, CoreSame DEF coreVars, attemptVars, routerVars
  <2> QED BY <1>0, <2>1, <2>4, <2>5 DEF AttachInv, RestTypes, configVars, attemptVars, routerVars, feedVars
<1>8. ASSUME NEW c \in Slots, Leave(c) PROVE AttachInv'
  <2>1. /\ UNCHANGED <<configVars, named, ready, attemptVars, routerVars, strayed, unintroduced>>
        /\ Return(c) /\ joined' = FALSE /\ feed' = NoFeed
    BY <1>8 DEF Leave
  <2>2. IsMap(calls', Slots, Call) /\ CallsKnow'
    BY <2>1, ReturnRest DEF attemptVars
  <2>3. CoreInv'
    BY <1>0, <2>1, CoreSame DEF coreVars, attemptVars, routerVars
  <2>4. NoFeed \in [through: 0 .. made', noop: BOOLEAN]
    BY <1>a, <2>1 DEF NoFeed, attemptVars
  <2> QED BY <1>0, <2>1, <2>2, <2>3, <2>4 DEF AttachInv, RestTypes, configVars, attemptVars, routerVars
<1>9. ASSUME NEW c \in Slots, BeginIntroduce(c) PROVE AttachInv'
  <2>1. UNCHANGED <<configVars, ready, attemptVars, routerVars, feedVars>> /\ named' = TRUE
        /\ unintroduced' \subseteq unintroduced \cup Attempts
    BY <1>9 DEF BeginIntroduce
  <2>2. made' = made
    BY <2>1 DEF attemptVars
  <2>3. (Begin(c, "introduce", "calling", registered) /\ registered # 0) \/ UNCHANGED calls
    BY <1>9 DEF BeginIntroduce, Enabled
  <2>4. CASE UNCHANGED calls
    BY <1>0, <2>1, <2>4, CoreSame DEF AttachInv, RestTypes, CallsKnow, coreVars, configVars, attemptVars, routerVars, feedVars
  <2>5. CASE Begin(c, "introduce", "calling", registered) /\ registered # 0
    <3>1. IsMap(calls', Slots, Call) /\ CallsKnow'
      BY <1>a, <2>2, <2>5, BeginRest DEF Operations
    <3>2. CoreInv'
      BY <1>0, <2>1, CoreSame DEF coreVars, attemptVars, routerVars
    <3> QED BY <1>0, <2>1, <3>1, <3>2 DEF AttachInv, RestTypes, configVars, attemptVars, routerVars, feedVars
  <2> QED BY <2>3, <2>4, <2>5
<1>10. ASSUME NEW c \in Slots, IntroduceReturns(c) PROVE AttachInv'
  <2>1. UNCHANGED <<configVars, named, ready, attemptVars, registered, life, failure, feedVars>> /\ Return(c)
        /\ At(c, "calling") /\ calls[c].op = "introduce"
    BY <1>10 DEF IntroduceReturns
  <2>2. IsMap(calls', Slots, Call) /\ CallsKnow'
    BY <2>1, ReturnRest DEF attemptVars
  <2>3. CoreInv'
    BY <1>0, <2>1, CoreSame DEF coreVars, attemptVars
  <2>4. introduced' \subseteq Attempts /\ unintroduced' \subseteq Attempts
    <3>1. calls[c].through \in Attempts
      BY <1>0, <1>a, <2>1 DEF CallsKnow, RestTypes, IsMap, Call, At
    <3> QED BY <1>0, <1>10, <3>1 DEF IntroduceReturns, RestTypes
  <2> QED BY <1>0, <2>1, <2>2, <2>3, <2>4 DEF AttachInv, RestTypes, configVars, attemptVars, feedVars
<1>11. ASSUME NEW c \in Slots, SignedIn(c) PROVE AttachInv'
  <2>1. /\ UNCHANGED <<configured, named, ready, inflight, implicit, joined, strayed, unintroduced>>
        /\ tokens' = TRUE /\ Start(made + 1) /\ Move(c, "hotAttaching", made + 1) /\ c \in DOMAIN calls
    BY <1>11 DEF SignedIn, At
  <2>2. CoreInv'
    BY <1>0, <2>1, StartCore
  <2>3. made + 1 = made' /\ made' \in 0 .. MaxAttempts
    BY <2>1, StartRest
  <2>4. IsMap(calls', Slots, Call) /\ CallsKnow'
    BY <1>a, <2>1, <2>3, MoveRest
  <2> QED BY <1>0, <2>1, <2>2, <2>4, StartRest DEF AttachInv, RestTypes
<1>12. ASSUME NEW c \in Slots, SignInFails(c) \/ HotAttachReturns(c) PROVE AttachInv'
  <2>1. UNCHANGED <<configVars, named, ready, attemptVars, routerVars, feedVars, unintroduced>> /\ Return(c)
    BY <1>12 DEF SignInFails, HotAttachReturns
  <2>2. IsMap(calls', Slots, Call) /\ CallsKnow'
    BY <2>1, ReturnRest DEF attemptVars
  <2>3. CoreInv'
    BY <1>0, <2>1, CoreSame DEF coreVars, attemptVars, routerVars
  <2> QED BY <1>0, <2>1, <2>2, <2>3 DEF AttachInv, RestTypes, configVars, attemptVars, routerVars, feedVars
<1>13. CASE PeerSignsIn
  BY <1>0, <1>13, CoreSame DEF PeerSignsIn, AttachInv, coreVars, RestTypes, CallsKnow,
                               configVars, attemptVars, routerVars, feedVars
<1>14. CASE UNCHANGED vars
  BY <1>0, <1>14, CoreSame DEF vars, AttachInv, coreVars, RestTypes, CallsKnow,
                               configVars, attemptVars, routerVars, feedVars
<1> QED BY <1>1, <1>2, <1>3, <1>4, <1>5, <1>6, <1>7, <1>8, <1>9, <1>10, <1>11, <1>12, <1>13, <1>14
        DEF Next, CallStep

-----------------------------------------------------------------------------
(* The invariants that stand on AttachInv *)

\* A step starts an attempt, goes on with one, or leaves the attempts alone.
LEMMA StepKinds ==
    ASSUME [Next]_vars
    PROVE  \/ \E t : Start(t) /\ UNCHANGED <<configured, named, joined, strayed, unintroduced>>
           \/ \E t \in Attempts : AttemptStep(t) \/ Degrade(t)
           \/ UNCHANGED <<coreVars, failure>>
<1>1. CASE StartupAttach
  BY <1>1 DEF StartupAttach, configVars
<1>2. CASE StartupDone \/ PeerSignsIn \/ UNCHANGED vars
  BY <1>2 DEF StartupDone, PeerSignsIn, vars, coreVars, attemptVars, routerVars
<1>3. ASSUME NEW c \in Slots, NEW op \in Operations, BeginCall(c, op)
      PROVE  \/ Start(made + 1) /\ UNCHANGED <<configured, named, joined, strayed, unintroduced>>
             \/ UNCHANGED <<coreVars, failure>>
  BY <1>3 DEF BeginCall, EnsureAttached, coreVars, configVars, attemptVars, routerVars
<1>4. ASSUME NEW c \in Slots, SignedIn(c)
      PROVE  Start(made + 1) /\ UNCHANGED <<configured, named, joined, strayed, unintroduced>>
  BY <1>4 DEF SignedIn
<1>5. ASSUME NEW c \in Slots,
             \/ BeginLeave(c) \/ BeginIntroduce(c) \/ BeginSignIn(c)
             \/ AttachReturns(c) \/ Join(c) \/ Leave(c) \/ IntroduceReturns(c)
             \/ SignInFails(c) \/ HotAttachReturns(c)
      PROVE  UNCHANGED <<coreVars, failure>>
  BY <1>5 DEF BeginLeave, BeginIntroduce, BeginSignIn, AttachReturns, Join, Leave, IntroduceReturns,
              SignInFails, HotAttachReturns, coreVars, attemptVars, routerVars
<1> QED BY <1>1, <1>2, <1>3, <1>4, <1>5 DEF Next, CallStep

\* NeedsWork finds the map taken: no second attempt on a tool's own account.
LEMMA TriedStep ==
    ASSUME AttachInv, TriedInv, [Next]_vars
    PROVE  TriedInv'
<1>1. implicit \in Nat /\ inflight \in Nat /\ made \in Nat
  BY DEF AttachInv, RestTypes, CoreInv, CoreTypes
<1>2. ASSUME NEW c \in Slots, NEW op \in Operations, BeginCall(c, op) PROVE TriedInv'
  BY <1>1, <1>2 DEF BeginCall, EnsureAttached, NeedsWork, Forced, TriedInv, TriedOnce, attemptVars
<1>3. CASE UNCHANGED <<implicit, inflight>>
  BY <1>3 DEF TriedInv, TriedOnce
<1>4. ASSUME NEW t \in Attempts, AttemptStep(t) \/ Degrade(t) PROVE UNCHANGED <<implicit, inflight>>
  BY <1>4 DEF AttemptStep, Introduced, IntroduceFails, CleanedUp, Deregistered, Closed, AutoJoined,
              Degrade, attemptVars
<1>5. ASSUME NEW c \in Slots,
             \/ BeginLeave(c) \/ BeginIntroduce(c) \/ BeginSignIn(c) \/ CallStep(c)
      PROVE  UNCHANGED <<implicit, inflight>>
  BY <1>5 DEF CallStep, BeginLeave, BeginIntroduce, BeginSignIn, AttachReturns, Join, Leave, IntroduceReturns,
              SignedIn, SignInFails, HotAttachReturns, attemptVars
<1>6. CASE StartupAttach \/ StartupDone \/ PeerSignsIn \/ UNCHANGED vars
  BY <1>3, <1>6 DEF StartupAttach, StartupDone, PeerSignsIn, vars, attemptVars
<1> QED BY <1>2, <1>3, <1>4, <1>5, <1>6 DEF Next

\* Every step keeps LossInv.
LEMMA LossStep ==
    ASSUME AttachInv, LossInv, [Next]_vars
    PROVE  LossInv'
<1>0. CoreTypes /\ LifeOfAttempts /\ PriorsLeft
  BY DEF AttachInv, CoreInv
<1>1. ASSUME NEW t \in Attempts, NEW lives, TakeOver(t, lives) PROVE LossInv'
  <2>1. CASE registered = 0
    BY <1>1, <2>1 DEF TakeOver, Register, LossInv
  <2>2. CASE registered # 0
    BY <1>0, <1>1, <2>2 DEF TakeOver, Goto, LossInv, CoreTypes, Replacing
  <2> QED BY <2>1, <2>2
<1>b. ASSUME NEW t \in Attempts, ~Replacing(t), NEW at \in {"introducing", "cleaningUp", "failed"},
             Goto(t, at), UNCHANGED registered
      PROVE  /\ pc'[t] = at /\ \A u \in Attempts : u # t => pc'[u] = pc[u]
             /\ (\A u \in Attempts : ~Replacing(u))' => (\A u \in Attempts : ~Replacing(u))
  <2>1. pc'[t] = at /\ \A u \in Attempts \ {t} : pc'[u] = pc[u]
    BY <1>0, <1>b DEF Goto, CoreTypes
  <2> QED BY <1>b, <2>1 DEF Replacing
<1>2. ASSUME NEW t, Start(t) PROVE LossInv'
  <2>1. t \in Attempts /\ ~Replacing(t)
    BY <1>0, <1>2, StartRest DEF Replacing, LifeOfAttempts
  <2>2. CASE Goto(t, "failed") /\ failure' = TRUE /\ UNCHANGED registered
    BY <1>b, <2>1, <2>2 DEF LossInv
  <2>3. CASE Goto(t, "introducing") /\ UNCHANGED <<registered, failure>>
    BY <1>b, <2>1, <2>3 DEF LossInv
  <2>4. CASE TakeOver(t, [life EXCEPT ![t] = "enabled"])
    BY <1>1, <2>1, <2>4
  <2> QED BY <1>2, <2>2, <2>3, <2>4 DEF Start
<1>3. ASSUME NEW t \in Attempts, AttemptStep(t) \/ Degrade(t) PROVE LossInv'
  <2>1. CASE Introduced(t)
    BY <1>1, <2>1 DEF Introduced
  <2>2. CASE IntroduceFails(t) \/ CleanedUp(t)
    <3>1. ~Replacing(t) /\ UNCHANGED registered
      BY <2>2 DEF IntroduceFails, CleanedUp, Replacing
    <3>2. CASE Goto(t, "cleaningUp") /\ UNCHANGED failure
      BY <1>b, <3>1, <3>2 DEF LossInv
    <3>3. CASE Goto(t, "failed") /\ failure' = TRUE
      BY <1>b, <3>1, <3>3 DEF LossInv
    <3> QED BY <2>2, <3>2, <3>3 DEF IntroduceFails, CleanedUp
  <2>3. CASE Deregistered(t)
    BY <1>0, <2>3 DEF Deregistered, Goto, LossInv, CoreTypes, Replacing
  <2>4. CASE Closed(t)
    BY <2>4 DEF Closed, Register, LossInv
  <2>5. CASE AutoJoined(t)
    BY <1>0, <2>5 DEF AutoJoined, Goto, LossInv, CoreTypes, Replacing
  <2>6. CASE Degrade(t)
    BY <2>6 DEF Degrade, LossInv, Replacing, attemptVars
  <2> QED BY <1>3, <2>1, <2>2, <2>3, <2>4, <2>5, <2>6 DEF AttemptStep
<1>4. CASE UNCHANGED <<coreVars, failure>>
  BY <1>4 DEF LossInv, Replacing, coreVars
<1> QED BY <1>2, <1>3, <1>4, StepKinds

\* At rest an empty router means that all attempts failed.
LEMMA LossShownLemma == AttachInv /\ LossInv => LossShown
BY DEF AttachInv, CoreInv, CoreTypes, LifeOfAttempts, LossInv, LossShown, InProgress, Replacing

\* Without a name nothing is introduced, joined or called.
LEMMA NamedStep ==
    ASSUME AttachInv, NamedFirst, [Next]_vars
    PROVE  NamedFirst'
<1>0. /\ CoreTypes /\ LifeOfAttempts /\ IsMap(calls, Slots, Call) /\ named \in BOOLEAN
      /\ \A c \in DOMAIN calls : calls[c] \in Call
  BY DEF AttachInv, CoreInv, RestTypes, IsMap
<1>1. CASE named'
  BY <1>1 DEF NamedFirst
<1>2. CASE ~named'
  <2>0. ~named
    <3>1. CASE StartupAttach \/ StartupDone \/ PeerSignsIn \/ UNCHANGED vars
      BY <1>2, <3>1 DEF StartupAttach, StartupDone, PeerSignsIn, vars
    <3>2. ASSUME NEW t \in Attempts, AttemptStep(t) \/ Degrade(t) PROVE named' = named
      BY <3>2 DEF AttemptStep, Introduced, IntroduceFails, CleanedUp, Deregistered, Closed, AutoJoined, Degrade
    <3>3. ASSUME NEW c \in Slots, NEW op \in Operations, BeginCall(c, op) PROVE named' = named
      BY <3>3 DEF BeginCall
    <3>4. ASSUME NEW c \in Slots, BeginLeave(c) \/ BeginIntroduce(c) \/ BeginSignIn(c) \/ CallStep(c)
          PROVE  named' = named \/ named' = TRUE
      BY <3>4 DEF CallStep, BeginLeave, BeginIntroduce, BeginSignIn, AttachReturns, Join, Leave, IntroduceReturns,
                  SignedIn, SignInFails, HotAttachReturns
    <3> QED BY <1>2, <3>1, <3>2, <3>3, <3>4 DEF Next
  <2>1. /\ ~joined
        /\ \A t \in Attempts : pc[t] \notin {"introducing", "deregistering", "joining"}
        /\ \A c \in DOMAIN calls : calls[c].at # "calling"
    BY <2>0 DEF NamedFirst
  <2>2. ASSUME NEW t, Start(t)
        PROVE  \A u \in Attempts : pc'[u] \notin {"introducing", "deregistering", "joining"}
    <3>1. \E at \in {"failed", "closing", "attached", "threw"} : Goto(t, at)
      BY <2>0, <2>2 DEF Start, TakeOver, Register
    <3> QED BY <1>0, <2>1, <3>1 DEF Goto, CoreTypes
  <2>3. CASE StartupAttach \/ StartupDone \/ PeerSignsIn \/ UNCHANGED vars
    BY <1>2, <2>1, <2>2, <2>3 DEF StartupAttach, StartupDone, PeerSignsIn, vars, attemptVars, feedVars, NamedFirst
  <2>4. ASSUME NEW t \in Attempts, AttemptStep(t) \/ Degrade(t) PROVE NamedFirst'
    <3>1. UNCHANGED <<joined, calls>>
      BY <2>1, <2>4 DEF AttemptStep, Introduced, IntroduceFails, CleanedUp, Deregistered, Closed, AutoJoined, Degrade, feedVars
    <3>2. pc' = pc \/ \E at \in {"failed", "attached", "threw"} : Goto(t, at)
      BY <2>0, <2>1, <2>4 DEF AttemptStep, Introduced, IntroduceFails, CleanedUp, Deregistered, Closed, AutoJoined,
                         Degrade, attemptVars, Register
    <3>3. \A u \in Attempts : pc'[u] \notin {"introducing", "deregistering", "joining"}
      BY <1>0, <2>1, <3>2 DEF Goto, CoreTypes
    <3> QED BY <2>1, <3>1, <3>3 DEF NamedFirst
  <2>5. ASSUME NEW c \in Slots, NEW op \in Operations, BeginCall(c, op) PROVE NamedFirst'
    <3>1. (\E t : Start(t)) \/ pc' = pc
      BY <2>5 DEF BeginCall, EnsureAttached, attemptVars
    <3>2. \E t : Begin(c, op, "attaching", t)
      BY <2>5 DEF BeginCall, EnsureAttached
    <3>3. \A x \in DOMAIN calls' : calls'[x].at # "calling"
      BY <2>1, <3>2 DEF Begin, Put
    <3>4. joined' = joined
      BY <2>5 DEF BeginCall
    <3> QED BY <2>1, <2>2, <3>1, <3>3, <3>4 DEF NamedFirst
  <2>6. ASSUME NEW c \in Slots, BeginLeave(c) \/ BeginIntroduce(c) \/ Join(c) \/ Leave(c) \/ IntroduceReturns(c)
        PROVE  FALSE
    BY <1>2, <2>1, <2>6 DEF BeginLeave, BeginIntroduce, Join, Leave, IntroduceReturns, At
  <2>7. ASSUME NEW c \in Slots, BeginSignIn(c) PROVE NamedFirst'
    BY <2>1, <2>7 DEF BeginSignIn, Begin, Put, NamedFirst, attemptVars, feedVars
  <2>8. ASSUME NEW c \in Slots, AttachReturns(c) \/ SignInFails(c) \/ HotAttachReturns(c) PROVE NamedFirst'
    <3>1. c \in DOMAIN calls /\ UNCHANGED <<joined, pc>>
      BY <2>8 DEF AttachReturns, SignInFails, HotAttachReturns, At, attemptVars, feedVars
    <3>2. Move(c, "signingIn", 0) \/ Return(c)
      BY <2>0, <2>8 DEF AttachReturns, SignInFails, HotAttachReturns
    <3>3. \A x \in DOMAIN calls' : calls'[x].at # "calling"
      BY <1>0, <2>1, <3>1, <3>2 DEF Move, Return, Del, IsMap, Call
    <3> QED BY <2>1, <3>1, <3>3 DEF NamedFirst
  <2>9. ASSUME NEW c \in Slots, SignedIn(c) PROVE NamedFirst'
    <3>1. c \in DOMAIN calls /\ joined' = joined /\ Start(made + 1) /\ Move(c, "hotAttaching", made + 1)
      BY <2>9 DEF SignedIn, At
    <3>2. \A x \in DOMAIN calls' : calls'[x].at # "calling"
      BY <1>0, <2>1, <3>1 DEF Move, IsMap, Call
    <3> QED BY <2>1, <2>2, <3>1, <3>2 DEF NamedFirst
  <2> QED BY <2>3, <2>4, <2>5, <2>6, <2>7, <2>8, <2>9 DEF Next, CallStep
<1> QED BY <1>1, <1>2

-----------------------------------------------------------------------------
(* The feed *)

\* Whoever opens the feed, it is one of the router's transport or strayed.
LEMMA EnsureFeedInv ==
    ASSUME FeedInv, NEW t, t # 0, EnsureFeed(t), UNCHANGED <<registered, life>>
    PROVE  FeedInv'
<1>1. CASE feed # NoFeed
  BY <1>1 DEF EnsureFeed, FeedInv, Enabled
<1>2. CASE feed = NoFeed
  <2>1. feed' = [through |-> t, noop |-> ~Enabled(t)] /\ strayed' = (strayed \/ t # registered)
    BY <1>2 DEF EnsureFeed
  <2>2. feed' # NoFeed /\ feed'.through = t /\ feed'.noop = ~Enabled(t)
    BY <2>1 DEF NoFeed
  <2>3. Enabled(t)' = Enabled(t)
    BY DEF Enabled
  <2> QED BY <2>1, <2>2, <2>3 DEF FeedInv
<1> QED BY <1>1, <1>2

\* Registering finds no feed of another transport: the router was empty.
LEMMA RegisterFeed ==
    ASSUME AttachInv, NamedFirst, FeedInv, NEW t \in Attempts, Register(t), t # registered,
           registered = 0 \/ life' = life,
           UNCHANGED <<configured, named, joined, feed, strayed>>
    PROVE  FeedInv'
<1>1. CASE registered = 0
  <2>1. feed = NoFeed \/ strayed
    BY <1>1 DEF FeedInv
  <2>2. configured /\ joined => pc'[t] = "joining"
    BY <1>1 DEF Register, Goto, NamedFirst, AttachInv, CoreInv, CoreTypes
  <2>3. registered' = t
    BY <1>1 DEF Register
  <2> QED BY <2>1, <2>2, <2>3 DEF FeedInv
<1>2. CASE registered # 0
  <2>1. registered' = registered /\ life' = life
    BY <1>2 DEF Register
  <2>2. pc[registered] = "joining" => pc'[registered] = "joining"
    BY <1>2 DEF Register, Goto, AttachInv, CoreInv, CoreTypes
  <2> QED BY <1>2, <2>1, <2>2 DEF FeedInv, Enabled
<1> QED BY <1>1, <1>2

\* Taking over closes the feeds of the prior transport.
LEMMA TakeOverFeed ==
    ASSUME AttachInv, NamedFirst, FeedInv, NEW t \in Attempts, t # registered, NEW lives, TakeOver(t, lives),
           UNCHANGED <<configured, named, joined, strayed>>
    PROVE  FeedInv'
<1>1. CASE registered = 0
  BY <1>1, RegisterFeed DEF TakeOver
<1>2. CASE registered # 0
  BY <1>2 DEF TakeOver, FeedInv
<1> QED BY <1>1, <1>2

\* The router's transport and its life, the channel and its feed stay.
LEMMA FeedSame ==
    ASSUME FeedInv, UNCHANGED <<configured, joined, feed, strayed, registered>>,
           registered # 0 => (pc[registered] = "joining" => pc'[registered] = "joining"),
           registered # 0 => (Enabled(registered)' => Enabled(registered))
    PROVE  FeedInv'
BY DEF FeedInv, Enabled

\* Every step keeps FeedInv.
LEMMA FeedStep ==
    ASSUME AttachInv, NamedFirst, FeedInv, [Next]_vars
    PROVE  FeedInv'
<1>0. CoreTypes /\ LifeOfAttempts /\ PriorsLeft /\ CallsKnow
  BY DEF AttachInv, CoreInv
<1>1. ASSUME NEW t, Start(t), UNCHANGED <<configured, named, joined, strayed>> PROVE FeedInv'
  <2>1. t \in Attempts /\ pc[t] = "unborn" /\ t # registered
    BY <1>0, <1>1, StartRest DEF LifeOfAttempts, CoreTypes
  <2>2. CASE UNCHANGED <<life, registered, feed>> /\ Goto(t, "failed")
    BY <1>0, <1>1, <2>1, <2>2, FeedSame DEF Goto, CoreTypes, Enabled
  <2>3. CASE life' = [life EXCEPT ![t] = "enabled"] /\ UNCHANGED <<registered, feed>> /\ Goto(t, "introducing")
    BY <1>0, <1>1, <2>1, <2>3, FeedSame DEF Goto, CoreTypes, Enabled
  <2>4. CASE TakeOver(t, [life EXCEPT ![t] = "enabled"])
    BY <1>1, <2>1, <2>4, TakeOverFeed
  <2> QED BY <1>1, <2>2, <2>3, <2>4 DEF Start
<1>2. ASSUME NEW t \in Attempts, AttemptStep(t) \/ Degrade(t) PROVE FeedInv'
  <2>1. CASE Introduced(t)
    <3>1. t # registered /\ UNCHANGED <<configured, named, joined, strayed>>
      BY <1>0, <2>1 DEF Introduced, CoreTypes, configVars
    <3> QED BY <2>1, <3>1, TakeOverFeed DEF Introduced
  <2>2. CASE IntroduceFails(t)
    BY <1>0, <2>2, FeedSame DEF IntroduceFails, Goto, CoreTypes, Enabled, configVars, feedVars
  <2>3. CASE CleanedUp(t)
    BY <1>0, <2>3, FeedSame DEF CleanedUp, Goto, CoreTypes, Enabled, configVars, feedVars
  <2>4. CASE Deregistered(t)
    <3>1. prior[t] # registered /\ pc[t] = "deregistering"
      BY <1>0, <2>4 DEF Deregistered, PriorsLeft, Replacing
    <3> QED BY <1>0, <2>4, <3>1, FeedSame DEF Deregistered, Goto, CoreTypes, Enabled, configVars, feedVars
  <2>5. CASE Closed(t)
    <3>1. t # registered
      BY <1>0, <2>5 DEF Closed, CoreTypes
    <3> QED BY <2>5, <3>1, RegisterFeed DEF Closed, configVars, feedVars
  <2>6. CASE AutoJoined(t)
    <3>1. t # 0
      BY AttachAssumption DEF Attempts
    <3> QED BY <2>6, <3>1, EnsureFeedInv DEF AutoJoined
  <2>7. CASE Degrade(t)
    BY <1>0, <2>7, FeedSame DEF Degrade, CoreTypes, Enabled, configVars, feedVars, attemptVars
  <2> QED BY <1>2, <2>1, <2>2, <2>3, <2>4, <2>5, <2>6, <2>7 DEF AttemptStep
<1>3. CASE UNCHANGED <<configured, feedVars, registered, pc, life>>
  BY <1>3, FeedSame DEF feedVars, Enabled
<1>4. ASSUME NEW c \in Slots, NEW op \in Operations, BeginCall(c, op) PROVE FeedInv'
  <2>1. CASE Start(made + 1)
    BY <1>1, <1>4, <2>1 DEF BeginCall, configVars
  <2>2. CASE UNCHANGED <<attemptVars, routerVars, feed>>
    BY <1>3, <1>4, <2>2 DEF BeginCall, configVars, attemptVars, routerVars, feedVars
  <2> QED BY <1>4, <2>1, <2>2 DEF BeginCall, EnsureAttached
<1>5. ASSUME NEW c \in Slots, Join(c) PROVE FeedInv'
  <2>1. calls[c].through # 0
    BY <1>0, <1>5 DEF Join, At, CallsKnow
  <2> QED BY <1>5, <2>1, EnsureFeedInv DEF Join, routerVars
<1>6. ASSUME NEW c \in Slots, Leave(c) PROVE FeedInv'
  BY <1>6 DEF Leave, FeedInv
<1>7. ASSUME NEW c \in Slots, SignedIn(c) PROVE FeedInv'
  BY <1>1, <1>7 DEF SignedIn
<1>8. ASSUME NEW c \in Slots,
             \/ BeginLeave(c) \/ BeginIntroduce(c) \/ BeginSignIn(c) \/ AttachReturns(c)
             \/ IntroduceReturns(c) \/ SignInFails(c) \/ HotAttachReturns(c)
      PROVE  UNCHANGED <<configured, feedVars, registered, pc, life>>
  BY <1>8 DEF BeginLeave, BeginIntroduce, BeginSignIn, AttachReturns, IntroduceReturns, SignInFails,
              HotAttachReturns, configVars, attemptVars, routerVars
<1>9. CASE StartupAttach
  BY <1>1, <1>9 DEF StartupAttach, configVars
<1>10. CASE StartupDone \/ PeerSignsIn \/ UNCHANGED vars
  BY <1>3, <1>10 DEF StartupDone, PeerSignsIn, vars, configVars, attemptVars, routerVars
<1> QED BY <1>2, <1>3, <1>4, <1>5, <1>6, <1>7, <1>8, <1>9, <1>10 DEF Next, CallStep

\* At rest nobody is about to open the feed, so that it is there.
LEMMA FeedsLiveLemma == AttachInv /\ FeedInv => FeedsLive
<1> SUFFICES ASSUME AttachInv, FeedInv, AtRest, configured, joined, Enabled(registered), ~strayed
             PROVE  feed = [through |-> registered, noop |-> FALSE]
  BY DEF FeedsLive
<1>1. registered # 0 /\ pc[registered] # "joining"
  BY DEF Enabled, AtRest, InProgress, AttachInv, CoreInv, CoreTypes
<1>2. feed # NoFeed
  BY <1>1 DEF FeedInv
<1>3. feed.through = registered /\ ~feed.noop
  BY <1>2 DEF FeedInv
<1>4. feed \in [through: 0 .. made, noop: BOOLEAN]
  BY DEF AttachInv, RestTypes
<1> QED BY <1>3, <1>4

-----------------------------------------------------------------------------
(* The sessions at the deployment *)

\* A call that begins leaves the introduce calls on their way.
LEMMA BeginKeeps ==
    ASSUME NEW c, NEW op, NEW at, NEW u, Begin(c, op, at, u), NEW t, Introducing(t)
    PROVE  Introducing(t)'
<1>1. PICK x \in DOMAIN calls :
        calls[x].at = "calling" /\ calls[x].op = "introduce" /\ calls[x].through = t
  BY DEF Introducing
<1>2. x \in DOMAIN calls' /\ calls'[x] = calls[x]
  BY <1>1 DEF Begin, Put
<1> QED BY <1>1, <1>2 DEF Introducing

\* So does another call that returns or goes on.
LEMMA EndKeeps ==
    ASSUME AttachInv, NEW c, NEW t, Introducing(t), Return(c) \/ \E at, u : Move(c, at, u),
           ~(calls[c].at = "calling" /\ calls[c].op = "introduce" /\ calls[c].through = t)
    PROVE  Introducing(t)'
<1>1. PICK x \in DOMAIN calls :
        calls[x].at = "calling" /\ calls[x].op = "introduce" /\ calls[x].through = t
  BY DEF Introducing
<1>2. x # c /\ calls = [y \in DOMAIN calls |-> calls[y]]
  BY <1>1 DEF AttachInv, RestTypes, IsMap
<1>3. x \in DOMAIN calls' /\ calls'[x] = calls[x]
  BY <1>1, <1>2 DEF Return, Del, Move
<1> QED BY <1>1, <1>3 DEF Introducing

\* A step that forgets no session.
LEMMA KnownSame ==
    ASSUME KnownInv, named' = named, registered' = registered,
           introduced \cup unintroduced \subseteq (introduced \cup unintroduced)',
           Enabled(registered)' => Enabled(registered),
           \A r : Introducing(r) => Introducing(r)' \/ r \in (introduced \cup unintroduced)',
           \A t \in Attempts : Replacing(t)' => Replacing(t)
    PROVE  KnownInv'
BY DEF KnownInv, Introducing

\* A transport that was introduced takes over.
LEMMA TakeOverKnown ==
    ASSUME KnownInv, named' = named, UNCHANGED <<unintroduced>>, introduced \subseteq introduced',
           NEW t \in Attempts, t \in introduced', CoreTypes,
           NEW lives, TakeOver(t, lives)
    PROVE  KnownInv'
<1>1. \A u \in Attempts : Replacing(u)' => Replacing(u) \/ u = t
  BY DEF TakeOver, Register, Goto, Replacing, CoreTypes
<1>2. registered' \in {0, t}
  BY DEF TakeOver, Register
<1> QED BY <1>1, <1>2 DEF KnownInv, Enabled

\* Every step keeps KnownInv.
LEMMA KnownStep ==
    ASSUME AttachInv, NamedFirst, KnownInv, [Next]_vars
    PROVE  KnownInv'
<1>0. CoreTypes /\ LifeOfAttempts /\ PriorsLeft /\ RouterHealthy /\ CallsKnow /\ named \in BOOLEAN
  BY DEF AttachInv, CoreInv, RestTypes
<1>1. ASSUME NEW t, Start(t), UNCHANGED <<named, unintroduced>>,
             \A r : Introducing(r) => Introducing(r)'
      PROVE KnownInv'
  <2>1. t \in Attempts /\ pc[t] = "unborn" /\ t # registered /\ introduced' = introduced
    BY <1>0, <1>1, StartRest DEF LifeOfAttempts, CoreTypes
  <2>2. CASE UNCHANGED <<life, registered>> /\ Goto(t, "failed")
    BY <1>0, <1>1, <2>1, <2>2, KnownSame DEF Goto, CoreTypes, Enabled, Replacing
  <2>3. CASE life' = [life EXCEPT ![t] = "enabled"] /\ UNCHANGED registered /\ Goto(t, "introducing")
    BY <1>0, <1>1, <2>1, <2>3, KnownSame DEF Goto, CoreTypes, Enabled, Replacing
  <2>4. CASE ~named
    BY <1>1, <2>4 DEF KnownInv
  <2> QED BY <1>1, <2>2, <2>3, <2>4 DEF Start
<1>2. ASSUME NEW t \in Attempts, AttemptStep(t) \/ Degrade(t) PROVE KnownInv'
  <2>1. CASE Introduced(t)
    <3>1. CoreTypes
      BY <1>0
    <3>2. introduced' = introduced \cup {t} /\ TakeOver(t, life) /\ UNCHANGED <<named, unintroduced>>
      BY <2>1 DEF Introduced
    <3> QED BY <3>1, <3>2, TakeOverKnown
  <2>2. CASE IntroduceFails(t)
    BY <1>0, <2>2, KnownSame DEF IntroduceFails, Goto, CoreTypes, Enabled, Replacing, Introducing
  <2>3. CASE CleanedUp(t)
    BY <1>0, <2>3, KnownSame DEF CleanedUp, Goto, CoreTypes, Enabled, Replacing, Introducing
  <2>4. CASE Deregistered(t)
    <3>1. /\ prior[t] # registered /\ ~Replacing(prior[t]) /\ pc[t] = "deregistering"
          /\ prior[t] \in Attempts
      BY <1>0, <2>4 DEF Deregistered, PriorsLeft, Replacing, CoreTypes
    <3>2. UNCHANGED <<named, registered, calls>>
          /\ introduced' = introduced \ {prior[t]} /\ unintroduced' = unintroduced \ {prior[t]}
      BY <2>4 DEF Deregistered
    <3>3. \A u \in Attempts : Replacing(u)' => Replacing(u) /\ u # prior[t]
      BY <1>0, <2>4, <3>1 DEF Deregistered, Goto, CoreTypes, Replacing
    <3>4. Enabled(registered)' => Enabled(registered)
      BY <1>0, <2>4, <3>1, <3>2 DEF Deregistered, Enabled, CoreTypes
    <3> QED BY <3>1, <3>2, <3>3, <3>4 DEF KnownInv, Introducing
  <2>5. CASE Closed(t)
    <3>1. UNCHANGED <<named, calls, introduced, unintroduced, life>> /\ Replacing(t)
          /\ (registered' = registered \/ registered' = t)
      BY <2>5 DEF Closed, Register, Replacing
    <3>2. \A u \in Attempts : Replacing(u)' => Replacing(u)
      BY <1>0, <2>5 DEF Closed, Register, Goto, CoreTypes, Replacing
    <3> QED BY <3>1, <3>2 DEF KnownInv, Introducing, Enabled
  <2>6. CASE AutoJoined(t)
    BY <1>0, <2>6, KnownSame DEF AutoJoined, Goto, CoreTypes, Enabled, Replacing, Introducing
  <2>7. CASE Degrade(t)
    BY <1>0, <2>7, KnownSame DEF Degrade, CoreTypes, Enabled, Replacing, Introducing, attemptVars
  <2> QED BY <1>2, <2>1, <2>2, <2>3, <2>4, <2>5, <2>6, <2>7 DEF AttemptStep
<1>3. ASSUME UNCHANGED <<named, introduced, unintroduced, registered, pc, life>>,
             \A r : Introducing(r) => Introducing(r)'
      PROVE  KnownInv'
  BY <1>3, KnownSame DEF Enabled, Replacing
<1>4. ASSUME NEW c \in Slots, NEW op \in Operations, BeginCall(c, op) PROVE KnownInv'
  <2>1. \E at, t : Begin(c, op, at, t)
    BY <1>4 DEF BeginCall, EnsureAttached
  <2>2. \A r : Introducing(r) => Introducing(r)'
    BY <2>1, BeginKeeps
  <2> QED BY <1>1, <1>3, <1>4, <2>2 DEF BeginCall, EnsureAttached, attemptVars, routerVars
<1>5. ASSUME NEW c \in Slots, AttachReturns(c) \/ Join(c) \/ Leave(c) \/ SignInFails(c) \/ HotAttachReturns(c)
      PROVE  KnownInv'
  <2>1. UNCHANGED <<named, introduced, unintroduced, registered, pc, life>>
    BY <1>5 DEF AttachReturns, Join, Leave, SignInFails, HotAttachReturns, attemptVars, routerVars
  <2>2. Return(c) \/ \E at, u : Move(c, at, u)
    BY <1>5 DEF AttachReturns, Join, Leave, SignInFails, HotAttachReturns
  <2>3. calls[c].at # "calling" \/ calls[c].op # "introduce"
    BY <1>5 DEF AttachReturns, Join, Leave, SignInFails, HotAttachReturns, At
  <2>4. \A r : Introducing(r) => Introducing(r)'
    BY <2>2, <2>3, EndKeeps
  <2> QED BY <1>3, <2>1, <2>4
<1>6. ASSUME NEW c \in Slots, SignedIn(c) PROVE KnownInv'
  <2>1. Move(c, "hotAttaching", made + 1) /\ calls[c].at # "calling"
    BY <1>6 DEF SignedIn, At
  <2>2. \A r : Introducing(r) => Introducing(r)'
    BY <2>1, EndKeeps
  <2> QED BY <1>1, <1>6, <2>2 DEF SignedIn
<1>7. ASSUME NEW c \in Slots, BeginLeave(c) \/ BeginSignIn(c) PROVE KnownInv'
  <2>1. UNCHANGED <<named, introduced, unintroduced, registered, pc, life>>
    BY <1>7 DEF BeginLeave, BeginSignIn, attemptVars, routerVars
  <2>2. \A r : Introducing(r) => Introducing(r)'
    BY <1>7, BeginKeeps DEF BeginLeave, BeginSignIn
  <2> QED BY <1>3, <2>1, <2>2
<1>8. ASSUME NEW c \in Slots, BeginIntroduce(c) PROVE KnownInv'
  <2>1. UNCHANGED <<introduced, registered, pc, life>>
    BY <1>8 DEF BeginIntroduce, attemptVars, routerVars
  <2>2. unintroduced' = unintroduced \cup {t \in Attempts : pc[t] = "closing" /\ t \notin introduced}
    BY <1>8 DEF BeginIntroduce
  <2>3. \A t \in Attempts : Replacing(t) => t \in introduced \cup unintroduced'
    <3>1. CASE named
      BY <2>2, <3>1 DEF KnownInv
    <3>2. CASE ~named
      BY <2>2, <3>2 DEF NamedFirst, Replacing
    <3> QED BY <3>1, <3>2
  <2>4. Enabled(registered) => Introducing(registered)'
    <3>1. CASE Enabled(registered)
      <4>1. calls' = Put(calls, c, [op |-> "introduce", at |-> "calling", through |-> registered])
        BY <1>8, <3>1 DEF BeginIntroduce, Begin
      <4> QED BY <2>1, <4>1 DEF Put, Introducing
    <3> QED BY <3>1
  <2> QED BY <2>1, <2>3, <2>4 DEF KnownInv, Introducing, Enabled, Replacing
<1>9. ASSUME NEW c \in Slots, IntroduceReturns(c) PROVE KnownInv'
  <2>1. UNCHANGED <<named, registered, pc, life>> /\ Return(c)
    BY <1>9 DEF IntroduceReturns, attemptVars
  <2>2. introduced \cup unintroduced \subseteq (introduced \cup unintroduced)'
    BY <1>9 DEF IntroduceReturns
  <2>3. life[calls[c].through] # "closed" => calls[c].through \in (introduced \cup unintroduced)'
    BY <1>9 DEF IntroduceReturns
  <2>4. \A r : r # calls[c].through /\ Introducing(r) => Introducing(r)'
    BY <2>1, EndKeeps
  <2> QED BY <1>0, <2>1, <2>2, <2>3, <2>4 DEF KnownInv, Introducing, Enabled, Replacing
<1>10. CASE StartupAttach
  BY <1>1, <1>10 DEF StartupAttach, Introducing
<1>11. CASE StartupDone \/ PeerSignsIn \/ UNCHANGED vars
  BY <1>3, <1>11 DEF StartupDone, PeerSignsIn, vars, attemptVars, routerVars, Introducing
<1> QED BY <1>2, <1>4, <1>5, <1>6, <1>7, <1>8, <1>9, <1>10, <1>11 DEF Next, CallStep

\* At rest no introduce call is on its way.
LEMMA KnownLemma == AttachInv /\ KnownInv => Known
<1> SUFFICES ASSUME AttachInv, KnownInv, AtRest, named, Enabled(registered)
             PROVE  registered \in introduced \cup unintroduced
  BY DEF Known
<1>1. DOMAIN calls = {}
  BY DEF AtRest, EmptyMap
<1> QED BY <1>1 DEF KnownInv, Introducing

-----------------------------------------------------------------------------
(* The theorems *)

\* All hold when the session starts.
LEMMA InitInv == Init => Inductive
<1> SUFFICES ASSUME Init
             PROVE  Inductive
  OBVIOUS
<1>1. configured \in BOOLEAN /\ tokens \in BOOLEAN /\ ready \in BOOLEAN
  BY DEF Init, StartsWith, Dormant
<1>2. CoreInv
  BY DEF Init, CoreInv, CoreTypes, LifeOfAttempts, PriorsLeft, RouterHealthy, Owned, Replacing
<1>3. RestTypes /\ CallsKnow
  <2>1. feed \in [through: 0 .. made, noop: BOOLEAN]
    BY NoFeedTyped DEF Init
  <2>2. IsMap(calls, Slots, Call) /\ CallsKnow
    BY DEF Init, IsMap, EmptyMap, CallsKnow
  <2>3. named \in BOOLEAN /\ failure \in BOOLEAN /\ joined \in BOOLEAN /\ strayed \in BOOLEAN
    BY Zenon DEF Init
  <2>5. implicit \in 0 .. made /\ inflight \in 0 .. made
    BY DEF Init
  <2>4. introduced \subseteq Attempts /\ unintroduced \subseteq Attempts
    BY DEF Init
  <2> QED BY <1>1, <2>1, <2>2, <2>3, <2>4, <2>5 DEF RestTypes
<1>4. TriedInv /\ LossInv /\ NamedFirst /\ FeedInv
  BY DEF Init, TriedInv, TriedOnce, LossInv, NamedFirst, FeedInv, Replacing, EmptyMap
<1>5. KnownInv
  BY DEF Init, KnownInv, Replacing, Enabled
<1> QED BY <1>2, <1>3, <1>4, <1>5 DEF AttachInv, Inductive

\* All are kept together.
LEMMA InvStep ==
    ASSUME Inductive, [Next]_vars
    PROVE  Inductive'
BY AttachInvStep, TriedStep, LossStep, NamedStep, FeedStep, KnownStep DEF Inductive

\* The inductive invariants hold in every state a session reaches, whatever the
\* attempts, tool calls, failures and sign-ins that overlap in it.
THEOREM AttachInvariant == Spec => []Inductive
<1>1. Inductive /\ [Next]_vars => Inductive'
  BY InvStep
<1> QED BY <1>1, InitInv, PTL DEF Spec

\* Types, and: the router only has a transport whose attempt got as far as to
\* register it.
THEOREM TypeCorrect == Spec => []TypeOK
<1>1. Inductive => TypeOK
  BY SplitTypes DEF Inductive, AttachInv, CoreInv
<1> QED BY <1>1, AttachInvariant, PTL

\* The router never has a transport that was shut down.
THEOREM RouterHealthyCorrect == Spec => []RouterHealthy
<1>1. Inductive => RouterHealthy
  BY DEF Inductive, AttachInv, CoreInv
<1> QED BY <1>1, AttachInvariant, PTL

\* No transport that was made is lost track of, unless its registration threw.
THEOREM NoOrphanCorrect == Spec => []NoOrphan
<1>1. Inductive => NoOrphan
  BY NoOrphanLemma DEF Inductive, AttachInv
<1> QED BY <1>1, AttachInvariant, PTL

\* A session that joined the configured channel hears it through the router's
\* transport, whatever was replaced on the way.
THEOREM FeedsLiveCorrect == Spec => []FeedsLive
<1>1. Inductive => FeedsLive
  BY FeedsLiveLemma DEF Inductive
<1> QED BY <1>1, AttachInvariant, PTL

\* Tools on their own account start one attempt in the life of the process.
THEOREM TriedOnceCorrect == Spec => []TriedOnce
<1>1. Inductive => TriedOnce
  BY DEF Inductive, TriedInv
<1> QED BY <1>1, AttachInvariant, PTL

\* A location that was tried and is not attached is on record as failed.
THEOREM LossShownCorrect == Spec => []LossShown
<1>1. Inductive => LossShown
  BY LossShownLemma DEF Inductive
<1> QED BY <1>1, AttachInvariant, PTL

\* The router's transport has a session at the deployment, or was refused one.
THEOREM KnownCorrect == Spec => []Known
<1>1. Inductive => Known
  BY KnownLemma DEF Inductive
<1> QED BY <1>1, AttachInvariant, PTL
=============================================================================
