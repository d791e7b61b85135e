------------------------------- MODULE Attach -------------------------------
(***************************************************************************)
(* How one remote location comes online in a session, is replaced and goes *)
(* away: attachLocation and ensureLazyAttach (transport/attach.ts), the    *)
(* transport router, the registry of failed attaches, and the callers:     *)
(* startup (server.ts), the authenticate and introduce tools               *)
(* (tools/identity.ts), and the tools that attach on demand                *)
(* (tools/channels.ts, tools/organizations.ts).                            *)
(*                                                                         *)
(* attachLocation runs from one await to the next; at each, the other      *)
(* attempts and the tool calls in flight may run.  An attempt and the      *)
(* transport it makes have one number.                                     *)
(*                                                                         *)
(* A transport degrades whenever it likes (RemoteTransport says when).     *)
(* The location has at most one configured channel, the one the tools join *)
(* and leave; topics go the same way.  The server, the deployment and the  *)
(* sign-in in the browser are external: they answer or fail, at any time.  *)
(***************************************************************************)
EXTENDS Naturals, Maps

CONSTANTS
    Slots,          \* tool calls that can be in flight at once
    MaxAttempts     \* bound: attaches of the location in this process

ASSUME AttachAssumption == MaxAttempts \in Nat

Attempts == 1 .. MaxAttempts

VARIABLES
    configured,     \* the channel is one of the location's configured channels
    named,          \* session.hasName()
    tokens,         \* the location can be constructed: its tokens are on disk
    ready,          \* the startup loop is over and tools are registered
    made,           \* attempts so far
    pc,             \* where an attempt is
    prior,          \* the transport an attempt is replacing; 0: none
    life,           \* of a transport: enabled, degraded, or shut down
    registered,     \* the router's transport; 0: none
    introduced,     \* transports not shut down that have a session at the deployment
    inflight,       \* the attempt in the map of lazy attaches; 0: none
    failure,        \* the registry of failed attaches has the location
    joined,         \* ActiveContext has the channel
    feed,           \* the channel's entry in remoteChannelUnsubscribes
    calls,          \* tool calls in flight
    implicit,       \* history: attaches started by tools on their own account
    strayed,        \* history: a feed was opened on a transport that was not the router's
    unintroduced    \* history: transports the introduce tool was refused by or did not reach

configVars == <<configured, tokens>>
attemptVars == <<made, pc, prior, inflight, implicit>>
routerVars == <<registered, life, introduced, failure>>
feedVars == <<joined, feed, strayed>>
vars == <<configVars, named, ready, attemptVars, routerVars, feedVars, calls, unintroduced>>

InProgress == {"introducing", "cleaningUp", "deregistering", "closing", "joining"}
\* The promise of an attempt, if there is one to wait for, is settled.
Settled(t) == t # 0 => pc[t] \in {"attached", "failed", "threw"}

Operations == {"listOrganizations", "join", "leave", "introduce", "authenticate"}

\* through: the attempt that is waited for, or the transport that is called
Call == [op: Operations, at: {"attaching", "calling", "signingIn", "hotAttaching"},
         through: 0 .. MaxAttempts]

\* noop: it was opened on a disabled transport and is none
NoFeed == [through |-> 0, noop |-> FALSE]

\* Types, and what an attempt must have passed when the router has its transport.
TypeOK ==
    /\ {configured, named, tokens, ready, failure, joined, strayed} \subseteq BOOLEAN
    /\ made \in 0 .. MaxAttempts /\ implicit \in 0 .. made /\ inflight \in 0 .. made
    /\ pc \in [Attempts -> {"unborn"} \cup InProgress \cup {"attached", "failed", "threw"}]
    /\ prior \in [Attempts -> 0 .. made]
    /\ life \in [Attempts -> {"none", "enabled", "degraded", "closed"}]
    /\ registered \in {0} \cup {t \in Attempts : pc[t] \in {"joining", "attached"}}
    /\ introduced \subseteq Attempts /\ unintroduced \subseteq Attempts
    /\ feed \in [through: 0 .. made, noop: BOOLEAN]
    /\ IsMap(calls, Slots, Call)

Location == "remote"

Config == INSTANCE ConfigActive
          WITH Locations <- {"local", Location}, Channels <- {"dev"}, Topics <- {"standup"}

\* What a file may say of the location, its channel and the channel's topic; it
\* gives the url and the Clerk app pointer.
Files ==
    {file \in [names: {{Location}}, urls: {{Location}}, tokens: {{}, {Location}},
               entries: SUBSET Config!ChannelPath, on: Config!Flags,
               off: {Config!NoFlags, [Config!NoFlags EXCEPT !.locations = {Location}]}] :
        /\ \A e \in file.entries : e.location = Location
        /\ Config!ActiveChannels(file) \subseteq file.entries
        /\ file.on.locations \cap file.off.locations = {}}

\* planStartupAttachments: startup attaches the location if it is the active
\* one or has a configured channel.
Dormant(cfg) == Location \notin cfg.tokens \/ ~Config!Engaged(cfg, Location)

\* What the session starts with, when resolveActive does not throw.
StartsWith(cfg) ==
    /\ ~Config!Throws(cfg)
    /\ configured = (\E e \in cfg.entries : e.location = Location)
    /\ tokens = (Location \in cfg.tokens)
    /\ ready = Dormant(cfg)

Init ==
    /\ \E user, project \in Files, optOut, envUrl \in BOOLEAN :
           StartsWith(Config!Final(user, project, optOut, envUrl))
    /\ named \in BOOLEAN
    /\ made = 0 /\ implicit = 0 /\ inflight = 0
    /\ pc = [t \in Attempts |-> "unborn"]
    /\ prior = [t \in Attempts |-> 0]
    /\ life = [t \in Attempts |-> "none"]
    /\ registered = 0 /\ introduced = {} /\ failure = FALSE
    /\ joined = FALSE /\ feed = NoFeed /\ strayed = FALSE
    /\ calls = EmptyMap /\ unintroduced = {}

Enabled(t) == t # 0 /\ life[t] = "enabled"

Goto(t, at) == pc' = [pc EXCEPT ![t] = at]

-----------------------------------------------------------------------------
(* attachLocation *)

\* router.register, which throws if the name is taken, and on to the
\* auto-subscription, or to the end if there is none.
Register(t) ==
    IF registered # 0
    THEN Goto(t, "threw") /\ UNCHANGED <<registered, failure>>
    ELSE /\ registered' = t
         /\ IF named /\ configured
            THEN Goto(t, "joining") /\ UNCHANGED failure
            ELSE Goto(t, "attached") /\ failure' = FALSE

\* Faulty TakeOver: the prior transport stays in the router.
TakeOverInPlace(t, lives) ==
    IF registered = 0
    THEN Register(t) /\ life' = lives /\ UNCHANGED <<prior, feed>>
    ELSE /\ feed' = NoFeed
         /\ prior' = [prior EXCEPT ![t] = registered]
         /\ IF named
            THEN Goto(t, "deregistering") /\ life' = lives
            ELSE Goto(t, "closing") /\ life' = [lives EXCEPT ![registered] = "closed"]
         /\ UNCHANGED <<registered, failure>>

\* Faulty TakeOver: the feeds of the prior transport stay.
TakeOverKeepingFeeds(t, lives) ==
    IF registered = 0
    THEN Register(t) /\ life' = lives /\ UNCHANGED <<prior, feed>>
    ELSE /\ registered' = 0
         /\ prior' = [prior EXCEPT ![t] = registered]
         /\ IF named
            THEN Goto(t, "deregistering") /\ life' = lives
            ELSE Goto(t, "closing") /\ life' = [lives EXCEPT ![registered] = "closed"]
         /\ UNCHANGED <<failure, feed>>

\* The prior transport leaves the router and its feeds are closed; then it is
\* deregistered, if the session has a name, and shut down.  lives: life as this
\* step has left it.
TakeOver(t, lives) ==
    IF registered = 0
    THEN Register(t) /\ life' = lives /\ UNCHANGED <<prior, feed>>
    ELSE /\ registered' = 0
         /\ feed' = NoFeed
         /\ prior' = [prior EXCEPT ![t] = registered]
         /\ IF named
            THEN Goto(t, "deregistering") /\ life' = lives
            ELSE Goto(t, "closing") /\ life' = [lives EXCEPT ![registered] = "closed"]
         /\ UNCHANGED failure

\* Faulty Start: the router has the transport before introduce.
StartRegistered(t) ==
    /\ made < MaxAttempts /\ t = made + 1
    /\ made' = t
    /\ UNCHANGED introduced
    /\ LET lives == [life EXCEPT ![t] = "enabled"] IN
       IF named
       THEN /\ Goto(t, "introducing") /\ life' = lives
            /\ registered' = t
            /\ UNCHANGED <<prior, failure, feed>>
       ELSE TakeOver(t, lives)

\* Faulty Start: no introduce.
StartWithoutIntroduce(t) ==
    /\ made < MaxAttempts /\ t = made + 1
    /\ made' = t
    /\ UNCHANGED introduced
    /\ TakeOver(t, [life EXCEPT ![t] = "enabled"])

\* attachLocation up to its first await.  The factory throws on a URL that is
\* not secure.  Without a name there is no introduce.
Start(t) ==
    /\ made < MaxAttempts /\ t = made + 1
    /\ made' = t
    /\ UNCHANGED introduced
    /\ \/ /\ Goto(t, "failed") /\ failure' = TRUE
          /\ UNCHANGED <<prior, life, registered, feed>>
       \/ LET lives == [life EXCEPT ![t] = "enabled"] IN
          IF named
          THEN /\ Goto(t, "introducing") /\ life' = lives
               /\ UNCHANGED <<prior, registered, failure, feed>>
          ELSE TakeOver(t, lives)

Introduced(t) ==
    /\ pc[t] = "introducing"
    /\ introduced' = introduced \cup {t}
    /\ TakeOver(t, life)
    /\ UNCHANGED <<configVars, named, ready, made, inflight, implicit, joined, strayed, calls, unintroduced>>

\* Faulty IntroduceFails: the failed transport is not shut down.
IntroduceFailsOpen(t) ==
    /\ pc[t] = "introducing"
    /\ Goto(t, "failed")
    /\ failure' = TRUE
    /\ UNCHANGED <<configVars, named, ready, made, prior, inflight, implicit, registered, life,
                   introduced, feedVars, calls, unintroduced>>

\* The failed transport is shut down, with nobody owning it.
IntroduceFails(t) ==
    /\ pc[t] = "introducing"
    /\ Goto(t, "cleaningUp")
    /\ life' = [life EXCEPT ![t] = "closed"]
    /\ UNCHANGED <<configVars, named, ready, made, prior, inflight, implicit, registered,
                   introduced, failure, feedVars, calls, unintroduced>>

\* Faulty CleanedUp: the failure is not recorded.
CleanedUpSilently(t) ==
    /\ pc[t] = "cleaningUp"
    /\ Goto(t, "failed")
    /\ UNCHANGED <<configVars, named, ready, made, prior, inflight, implicit, routerVars,
                   feedVars, calls, unintroduced>>

CleanedUp(t) ==
    /\ pc[t] = "cleaningUp"
    /\ Goto(t, "failed")
    /\ failure' = TRUE
    /\ UNCHANGED <<configVars, named, ready, made, prior, inflight, implicit, registered, life,
                   introduced, feedVars, calls, unintroduced>>

\* The prior transport's session is gone, or its deregistration failed; next
\* its shutdown, which disables it at once.
Deregistered(t) ==
    /\ pc[t] = "deregistering"
    /\ introduced' = introduced \ {prior[t]}
    /\ unintroduced' = unintroduced \ {prior[t]}
    /\ Goto(t, "closing")
    /\ life' = [life EXCEPT ![prior[t]] = "closed"]
    /\ UNCHANGED <<configVars, named, ready, made, prior, inflight, implicit, registered,
                   failure, feedVars, calls>>

Closed(t) ==
    /\ pc[t] = "closing"
    /\ prior' = [prior EXCEPT ![t] = 0]
    /\ Register(t)
    /\ UNCHANGED <<configVars, named, ready, made, inflight, implicit, life, introduced,
                   feedVars, calls, unintroduced>>

\* ensureChannelSubscription, by whoever joined through this transport
EnsureFeed(t) ==
    IF feed # NoFeed THEN UNCHANGED <<feed, strayed>>
    ELSE /\ feed' = [through |-> t, noop |-> ~Enabled(t)]
         /\ strayed' = (strayed \/ t # registered)

\* The configured channel is joined, or the request failed; the feed is opened
\* and the channel joined in the session's context all the same.
AutoJoined(t) ==
    /\ pc[t] = "joining"
    /\ EnsureFeed(t)
    /\ joined' = TRUE
    /\ failure' = FALSE
    /\ Goto(t, "attached")
    /\ UNCHANGED <<configVars, named, ready, made, prior, inflight, implicit, registered, life,
                   introduced, calls, unintroduced>>

-----------------------------------------------------------------------------
(* Startup *)

StartupAttach ==
    /\ ~ready /\ made = 0
    /\ Start(1)
    /\ UNCHANGED <<configVars, named, ready, inflight, implicit, joined, strayed, calls, unintroduced>>

StartupDone ==
    /\ ~ready /\ made = 1 /\ Settled(1)
    /\ ready' = TRUE
    /\ UNCHANGED <<configVars, named, attemptVars, routerVars, feedVars, calls, unintroduced>>

-----------------------------------------------------------------------------
(* Tool calls *)

Begin(c, op, at, t) ==
    /\ ready /\ c \notin DOMAIN calls
    /\ calls' = Put(calls, c, [op |-> op, at |-> at, through |-> t])

Move(c, at, t) == calls' = [calls EXCEPT ![c].at = at, ![c].through = t]
Return(c) == calls' = Del(calls, c)
At(c, at) == c \in DOMAIN calls /\ calls[c].at = at

Forced(op) == op = "authenticate"

\* list_organizations runs before the session has a name
NameGate(op) == named \/ Forced(op) \/ op = "listOrganizations"

\* Faulty NeedsWork: a tried remote is tried again.
NeedsWorkEachTime(op) == registered = 0

NeedsWork(op) == registered = 0 /\ (Forced(op) \/ inflight = 0)

\* ensureAttached on behalf of a call: it starts an attempt, waits for the one
\* in the map (though the location be attached), or has nothing to do.
EnsureAttached(c, op) ==
    IF NameGate(op) /\ NeedsWork(op) /\ tokens
    THEN /\ Start(made + 1)
         /\ inflight' = made + 1
         /\ implicit' = IF Forced(op) THEN implicit ELSE implicit + 1
         /\ Begin(c, op, "attaching", made + 1)
    ELSE /\ Begin(c, op, "attaching",
                  IF NameGate(op) /\ ~NeedsWork(op) THEN inflight ELSE 0)
         /\ UNCHANGED <<attemptVars, routerVars, feed>>

BeginCall(c, op) ==
    /\ op \in {"listOrganizations", "join", "authenticate"}
    /\ EnsureAttached(c, op)
    /\ UNCHANGED <<configVars, named, ready, joined, strayed, unintroduced>>

\* ensureAttached returns; a rejected attempt rejects the call.  join_channel
\* takes the transport from the router, authenticate goes to the browser
\* unless the location has come online.  Without a name "join" stands for the
\* listing tools, which take nothing: join_channel is refused before it comes
\* here.
AttachReturns(c) ==
    /\ At(c, "attaching")
    /\ LET t == calls[c].through
           op == calls[c].op
           rejected == t # 0 /\ pc[t] = "threw"
       IN /\ Settled(t)
          /\ IF op = "join" /\ ~rejected /\ named /\ Enabled(registered)
             THEN Move(c, "calling", registered)
             ELSE IF op = "authenticate" /\ ~rejected /\ ~Enabled(registered)
             THEN Move(c, "signingIn", 0)
             ELSE Return(c)
    /\ UNCHANGED <<configVars, named, ready, attemptVars, routerVars, feedVars, unintroduced>>

Join(c) ==
    /\ At(c, "calling") /\ calls[c].op = "join"
    /\ joined' = TRUE
    /\ EnsureFeed(calls[c].through)
    /\ Return(c)
    /\ UNCHANGED <<configVars, named, ready, attemptVars, routerVars, unintroduced>>

BeginLeave(c) ==
    /\ joined /\ Enabled(registered)
    /\ Begin(c, "leave", "calling", registered)
    /\ UNCHANGED <<configVars, named, ready, attemptVars, routerVars, feedVars, unintroduced>>

Leave(c) ==
    /\ At(c, "calling") /\ calls[c].op = "leave"
    /\ joined' = FALSE /\ feed' = NoFeed
    /\ Return(c)
    /\ UNCHANGED <<configVars, named, ready, attemptVars, routerVars, strayed, unintroduced>>

\* introduce, with the organization it needs once a remote is enabled: it
\* reaches the transport the router has now, and none that an attempt which
\* began without a name has yet to put there.
BeginIntroduce(c) ==
    /\ named' = TRUE
    /\ IF Enabled(registered)
       THEN Begin(c, "introduce", "calling", registered)
       ELSE ready /\ UNCHANGED calls
    /\ unintroduced' = unintroduced \cup {t \in Attempts : pc[t] = "closing" /\ t \notin introduced}
    /\ UNCHANGED <<configVars, ready, attemptVars, routerVars, feedVars>>

IntroduceReturns(c) ==
    /\ At(c, "calling") /\ calls[c].op = "introduce"
    /\ LET t == calls[c].through IN
       IF life[t] = "closed" THEN UNCHANGED <<introduced, unintroduced>>
       ELSE \/ introduced' = introduced \cup {t} /\ UNCHANGED unintroduced
            \/ unintroduced' = unintroduced \cup ({t} \ introduced) /\ UNCHANGED introduced
    /\ Return(c)
    /\ UNCHANGED <<configVars, named, ready, attemptVars, registered, life, failure, feedVars>>

\* authenticate with force: true goes to the browser at once.
BeginSignIn(c) ==
    /\ Begin(c, "authenticate", "signingIn", 0)
    /\ UNCHANGED <<configVars, named, ready, attemptVars, routerVars, feedVars, unintroduced>>

\* The tokens are saved and the location is attached by authenticate itself,
\* past the map of lazy attaches.
SignedIn(c) ==
    /\ At(c, "signingIn")
    /\ tokens' = TRUE
    /\ Start(made + 1)
    /\ Move(c, "hotAttaching", made + 1)
    /\ UNCHANGED <<configured, named, ready, inflight, implicit, joined, strayed, unintroduced>>

\* The user did not sign in, or not in time.
SignInFails(c) ==
    /\ At(c, "signingIn")
    /\ Return(c)
    /\ UNCHANGED <<configVars, named, ready, attemptVars, routerVars, feedVars, unintroduced>>

HotAttachReturns(c) ==
    /\ At(c, "hotAttaching") /\ Settled(calls[c].through)
    /\ Return(c)
    /\ UNCHANGED <<configVars, named, ready, attemptVars, routerVars, feedVars, unintroduced>>

-----------------------------------------------------------------------------
(* The environment *)

\* Nothing looks at a transport before it is in the router or after it left it.
Degrade(t) ==
    /\ t = registered /\ life[t] = "enabled"
    /\ life' = [life EXCEPT ![t] = "degraded"]
    /\ UNCHANGED <<configVars, named, ready, attemptVars, registered, introduced, failure,
                   feedVars, calls, unintroduced>>

\* Another process signs in and writes the tokens.
PeerSignsIn ==
    /\ ~tokens
    /\ tokens' = TRUE
    /\ UNCHANGED <<configured, named, ready, attemptVars, routerVars, feedVars, calls, unintroduced>>

AttemptStep(t) ==
    Introduced(t) \/ IntroduceFails(t) \/ CleanedUp(t) \/ Deregistered(t) \/ Closed(t) \/ AutoJoined(t)

CallStep(c) ==
    \/ AttachReturns(c) \/ Join(c) \/ Leave(c) \/ IntroduceReturns(c)
    \/ SignedIn(c) \/ SignInFails(c) \/ HotAttachReturns(c)

Next ==
    \/ StartupAttach \/ StartupDone
    \/ \E t \in Attempts : AttemptStep(t) \/ Degrade(t)
    \/ \E c \in Slots :
        \/ \E op \in Operations : BeginCall(c, op)
        \/ BeginLeave(c) \/ BeginIntroduce(c) \/ BeginSignIn(c)
        \/ CallStep(c)
    \/ PeerSignsIn

Spec == Init /\ [][Next]_vars

-----------------------------------------------------------------------------
(* Properties *)

\* "Never leave a broken transport in the router": what the router has was not
\* shut down, by whichever of the attempts that overlap.
RouterHealthy == registered # 0 => life[registered] # "closed"

\* "No live references to the prior transport survive": a transport that was
\* made is the router's, or is still being attached or replaced, or was shut
\* down.  The one way to lose one is a registration that throws because an
\* overlapping attempt had put its own transport there meanwhile.
NoOrphan ==
    \A t \in Attempts :
        life[t] \in {"enabled", "degraded"} =>
            \/ registered = t
            \/ pc[t] \in InProgress
            \/ \E u \in Attempts : prior[u] = t
            \/ pc[t] = "threw"

AtRest == calls = EmptyMap /\ \A t \in Attempts : pc[t] \notin InProgress

\* A session that has the configured channel of an attached location hears it:
\* whatever was replaced on the way, the feed is one of the router's transport
\* and no empty entry of another one, unless a join answered after its
\* transport had been replaced had opened the feed on that one.
FeedsLive ==
    AtRest /\ ready /\ configured /\ joined /\ Enabled(registered) /\ ~strayed =>
        feed = [through |-> registered, noop |-> FALSE]

\* "The dead remote is tried at most once per process": of all tool calls that
\* attach on their own account one starts an attempt, however they overlap
\* with each other, with sign-ins and with failures.
TriedOnce == implicit <= 1

\* A location that was tried and is not attached is shown as failed: its
\* transport is nowhere to be seen in the router.
LossShown ==
    made > 0 /\ registered = 0 /\ (\A t \in Attempts : pc[t] \notin InProgress) => failure

\* With a name, the router's transport has a session at the deployment,
\* whether the name came before the attach, during or after it, unless the
\* introduce tool was refused, or ran when an attach without a name was
\* waiting for the shutdown of the transport it replaces.
Known == AtRest /\ named /\ Enabled(registered) => registered \in introduced \cup unintroduced
=============================================================================
