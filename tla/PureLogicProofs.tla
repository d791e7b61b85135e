-------------------------- MODULE PureLogicProofs --------------------------
(***************************************************************************)
(* Proofs about the two parts of the server that are pure functions: the   *)
(* cascade of the `active` flags of a configuration (ConfigActive), for    *)
(* any configuration, and the pages of a topic's history (HistoryPaging),  *)
(* for any history and any page sizes.  Neither uses the other.            *)
(***************************************************************************)
EXTENDS ConfigActive, HistoryPaging, SequenceTheorems, WellFoundedInduction, TLAPS

-----------------------------------------------------------------------------
(* What the cascade of the `active` flags guarantees, and when it throws *)

\* docs/config.md: "An active topic marks its channel and its location active."
\* A configuration that resolves has at most one topic with a flag, wherever
\* it is, and that topic, its channel and its location are the active ones: the
\* order of the keys makes no difference, and a topic that was seen is never
\* given up for being in the wrong channel (active.ts:131).
THEOREM TopicCascades ==
    ASSUME NEW cfg \in Config, ~Throws(cfg), NEW t \in cfg.on.topics,
           NEW last \in LastSeen(cfg)
    PROVE  /\ cfg.on.topics = {t}
           /\ activeTopic(cfg, last) = {t}
           /\ activeChannel(cfg) = {[location |-> t.location, name |-> t.channel]}
           /\ activeLocation(cfg) = {t.location}
<1> DEFINE c == [location |-> t.location, name |-> t.channel]
<1>1. cfg.on.topics \subseteq TopicPath /\ cfg.on.channels \subseteq ChannelPath
  BY DEF Config, Flags
<1>2. ActiveChannels(cfg) \subseteq ChannelPath
  BY <1>1 DEF ActiveChannels, ChannelPath, TopicPath
<1>3. c \in ActiveChannels(cfg) /\ c.location = t.location /\ c.name = t.channel
  BY DEF ActiveChannels
<1>4. \A d \in ActiveChannels(cfg) : d.location = t.location
  BY <1>3 DEF Throws, TwoLocations, ActiveLocations
<1>5. ActiveChannels(cfg) = {c}
  BY <1>2, <1>3, <1>4 DEF Throws, TwoChannels
<1>6. activeLocation(cfg) = {t.location}
  <2>1. t.location \in ActiveLocations(cfg)
    BY <1>3 DEF ActiveLocations
  <2> QED
    BY <2>1 DEF Throws, TwoLocations, activeLocation
<1>7. activeChannel(cfg) = {c}
  BY <1>3, <1>5, <1>6 DEF activeChannel
<1>8. cfg.on.topics = {t}
  <2> SUFFICES ASSUME NEW s \in cfg.on.topics PROVE s = t
    OBVIOUS
  <2>1. [location |-> s.location, name |-> s.channel] = c
    BY <1>5 DEF ActiveChannels
  <2>2. s.location = t.location /\ s.channel = t.channel
    BY <2>1
  <2> QED
    BY <2>2 DEF Throws, TwoTopics
<1>9. last = {t}
  BY <1>8 DEF LastSeen
<1>10. activeTopic(cfg, last) = {t}
  BY <1>7, <1>9 DEF activeTopic
<1> QED
  BY <1>6, <1>7, <1>8, <1>10

\* active.ts: "exactly one active at each level": a configuration that resolves
\* has at most one active location and one active channel, and the channel is
\* in the location.
THEOREM FocusIsNested ==
    ASSUME NEW cfg \in Config, ~Throws(cfg)
    PROVE  /\ \A k, l \in activeLocation(cfg) : k = l
           /\ \A c, d \in activeChannel(cfg) : c = d
           /\ \A c \in activeChannel(cfg) : activeLocation(cfg) = {c.location}
<1>1. \A k, l \in activeLocation(cfg) : k = l
  BY DEF Throws, TwoLocations, activeLocation
<1>2. \A c \in activeChannel(cfg) : c.location \in activeLocation(cfg)
  BY DEF activeChannel
<1>3. \A c, d \in activeChannel(cfg) : c = d
  BY <1>1, <1>2 DEF Throws, TwoChannels, activeChannel
<1> QED
  BY <1>1, <1>2, <1>3

\* env.ts: with CCCOLLAB_REMOTE_URL "only the env-registered one is active":
\* whatever flags the two files have at any depth, resolution does not throw
\* for them, and the location of the environment is active, no channel is.
THEOREM EnvironmentDecides ==
    ASSUME NEW user \in Config, NEW project \in Config, NEW optOut \in BOOLEAN,
           ~MissingUrl(Final(user, project, optOut, TRUE))
    PROVE  LET cfg == Final(user, project, optOut, TRUE) IN
           /\ ~Throws(cfg)
           /\ activeLocation(cfg) = {DEFAULT_REMOTE_LOCATION_NAME}
           /\ activeChannel(cfg) = {}
<1> DEFINE merged == applyDefaults(mergeConfigs(user, project), optOut)
           cfg == Final(user, project, optOut, TRUE)
<1>1. merged = [names |-> merged.names, urls |-> merged.urls, tokens |-> merged.tokens,
                entries |-> merged.entries, on |-> merged.on, off |-> merged.off]
  BY DEF applyDefaults, mergeConfigs
<1> HIDE DEF merged
<1>2. cfg.on = [locations |-> {DEFAULT_REMOTE_LOCATION_NAME}, channels |-> {}, topics |-> {}]
  BY <1>1 DEF Final, applyEnvOverrides, NoFlags, merged
<1> HIDE DEF cfg
<1>3. /\ cfg.on.locations = {DEFAULT_REMOTE_LOCATION_NAME}
      /\ cfg.on.channels = {} /\ cfg.on.topics = {}
  BY <1>2
<1>4. ActiveChannels(cfg) = {}
  BY <1>3 DEF ActiveChannels
<1>5. ActiveLocations(cfg) = {DEFAULT_REMOTE_LOCATION_NAME}
  BY <1>3, <1>4 DEF ActiveLocations
<1>6. ~Throws(cfg)
  BY <1>3, <1>4, <1>5 DEF Throws, TwoTopics, TwoChannels, TwoLocations, cfg
<1> QED
  BY <1>4, <1>5, <1>6 DEF activeLocation, activeChannel, cfg

\* defaults.ts: the hosted location is added "present-but-inactive": it changes
\* nothing of what is active, and no configuration is refused because of it.
THEOREM DefaultsAreInactive ==
    ASSUME NEW cfg \in Config, NEW optOut \in BOOLEAN, NEW last
    PROVE  /\ activeLocation(applyDefaults(cfg, optOut)) = activeLocation(cfg)
           /\ activeChannel(applyDefaults(cfg, optOut)) = activeChannel(cfg)
           /\ activeTopic(applyDefaults(cfg, optOut), last) = activeTopic(cfg, last)
           /\ ~Throws(cfg) => ~Throws(applyDefaults(cfg, optOut))
<1> DEFINE new == applyDefaults(cfg, optOut)
<1>1. new.on = cfg.on
  BY DEF applyDefaults, Config
<1>2. ~MissingUrl(cfg) => ~MissingUrl(new)
  BY DEF applyDefaults, MissingUrl, Config
<1> HIDE DEF new
<1>3. ActiveChannels(new) = ActiveChannels(cfg)
  BY <1>1 DEF ActiveChannels
<1>4. ActiveLocations(new) = ActiveLocations(cfg)
  BY <1>1, <1>3 DEF ActiveLocations
<1>5. activeLocation(new) = activeLocation(cfg) /\ activeChannel(new) = activeChannel(cfg)
  BY <1>3, <1>4 DEF activeLocation, activeChannel
<1>6. activeTopic(new, last) = activeTopic(cfg, last)
  BY <1>5 DEF activeTopic
<1>7. ~Throws(cfg) => ~Throws(new)
  BY <1>1, <1>2, <1>3, <1>4 DEF Throws, TwoTopics, TwoChannels, TwoLocations
<1> QED
  BY <1>5, <1>6, <1>7 DEF new

\* merge.ts: "The project value wins whenever both sides define the same scalar
\* field".  A project that activates a location other than the user's does not
\* win by that: unless it says false to the flag of the user, or the environment
\* decides, the session does not start.
THEOREM RivalFocusThrows ==
    ASSUME NEW user \in Config, NEW project \in Config, NEW optOut \in BOOLEAN,
           NEW k \in user.on.locations \ project.off.locations,
           NEW l \in project.on.locations, k # l
    PROVE  Throws(Final(user, project, optOut, FALSE))
<1> DEFINE merged == mergeConfigs(user, project)
           cfg == Final(user, project, optOut, FALSE)
<1>1. k \in merged.on.locations /\ l \in merged.on.locations
  BY DEF mergeConfigs, Overlay
<1>2. merged = [names |-> merged.names, urls |-> merged.urls, tokens |-> merged.tokens,
                entries |-> merged.entries, on |-> merged.on, off |-> merged.off]
  BY DEF mergeConfigs
<1> HIDE DEF merged
<1>3. cfg.on = merged.on
  BY <1>2 DEF Final, applyDefaults, applyEnvOverrides, merged
<1> HIDE DEF cfg
<1>4. k \in ActiveLocations(cfg) /\ l \in ActiveLocations(cfg)
  BY <1>1, <1>3 DEF ActiveLocations
<1> QED
  BY <1>4 DEF Throws, TwoLocations, cfg

-----------------------------------------------------------------------------
(* Paging: the inductive invariant *)

\* The clock does not run backwards: no message is later than the next.
Sorted(all) == \A i, j \in DOMAIN all : i <= j => all[i].ts <= all[j].ts

\* How many messages the reader has not been given, of those there were
Left == begun - Len(pages)

\* The cursor is the time of the oldest message the reader has, and what is left
\* is older: no group of equal times is split between two pages.
CursorExact ==
    /\ before = oldestTs(pages)
    /\ hasMore => pages # <<>> /\ messages[Left].ts < before

PagingInv ==
    /\ TypeOK
    /\ Sorted(messages) /\ \A i \in DOMAIN messages : messages[i].ts <= now
    /\ begun <= Len(messages)
    /\ PagesExact
    /\ CursorExact

-----------------------------------------------------------------------------
(* Induction over sets of numbers *)

\* A set of numbers that is not empty has a least one.
LEMMA LeastNumber ==
    ASSUME NEW T \in SUBSET Nat, T # {}
    PROVE  \E x \in T : \A y \in T : x <= y
<1>1. /\ IsWellFoundedOn(OpToRel(<, Nat), Nat)
      /\ \A x, y \in Nat : x < y => <<x, y>> \in OpToRel(<, Nat)
  BY NatLessThanWellFounded DEF OpToRel
<1>2. PICK R : IsWellFoundedOn(R, Nat) /\ \A x, y \in Nat : x < y => <<x, y>> \in R
  BY <1>1, Zenon
<1>3. PICK x \in T : \A y \in T : ~ (<<y, x>> \in R)
  <2>1. IsWellFoundedOn(R, Nat) /\ T \subseteq Nat
    BY <1>2
  <2> QED
    BY <2>1, WFMin
<1>4. \A y \in T : ~ (y < x)
  BY <1>2, <1>3
<1> QED
  BY <1>4

\* A set with 0 and the successor of each of its numbers has them all.
LEMMA SetInduction ==
    ASSUME NEW S, 0 \in S, \A n \in Nat : n \in S => n + 1 \in S
    PROVE  Nat \subseteq S
<1> SUFFICES ASSUME Nat \ S # {} PROVE FALSE
  OBVIOUS
<1>1. PICK x \in Nat \ S : \A y \in Nat \ S : x <= y
  BY LeastNumber
<1>2. x # 0 /\ x - 1 \in Nat /\ x - 1 \in S
  BY <1>1
<1> QED
  BY <1>1, <1>2

-----------------------------------------------------------------------------
(* Filtering by the cursor *)

\* The times of messages are numbers.
LEMMA EntryTypes ==
    ASSUME NEW all \in Seq(HistoryEntry)
    PROVE  /\ DOMAIN all = 1 .. Len(all) /\ Len(all) \in Nat
           /\ \A i \in 1 .. Len(all) :
                all[i] \in HistoryEntry /\ all[i].ts \in 0 .. MaxTime /\ all[i].ts \in Nat
<1>1. DOMAIN all = 1 .. Len(all) /\ Len(all) \in Nat
  OBVIOUS
<1>2. \A i \in 1 .. Len(all) : all[i] \in HistoryEntry
  BY ElementOfSeq
<1>3. \A m \in HistoryEntry : m.ts \in 0 .. MaxTime
  BY DEF HistoryEntry
<1>4. \A t \in 0 .. MaxTime : t \in Nat
  BY PagingAssumption
<1> QED
  BY <1>1, <1>2, <1>3, <1>4

\* One more message is looked at.
Keep(all, cursor, kept, n) == IF all[n].ts < cursor THEN Append(kept, all[n]) ELSE kept

\* g is what Older goes through over the first n messages.
IsFilter(all, cursor, n, g) ==
    g = [i \in 0 .. n |-> IF i = 0 THEN <<>> ELSE Keep(all, cursor, g[i - 1], i)]

\* There is such a function: the recursion is well defined.
LEMMA FilterExists ==
    ASSUME NEW all, NEW cursor
    PROVE  \A n \in Nat : \E g : IsFilter(all, cursor, n, g)
<1> DEFINE S == {n \in Nat : \E g : IsFilter(all, cursor, n, g)}
<1>1. 0 \in S
  <2> DEFINE g == [i \in 0 .. 0 |-> <<>>]
  <2>1. IsFilter(all, cursor, 0, g)
    BY DEF IsFilter
  <2> QED
    BY <2>1
<1>2. ASSUME NEW n \in Nat, n \in S PROVE n + 1 \in S
  <2>1. PICK g : IsFilter(all, cursor, n, g)
    BY <1>2
  <2> DEFINE h == [i \in 0 .. n + 1 |-> IF i = n + 1 THEN Keep(all, cursor, g[n], n + 1) ELSE g[i]]
  <2>2. \A i \in 0 .. n : g[i] = IF i = 0 THEN <<>> ELSE Keep(all, cursor, g[i - 1], i)
    BY <2>1 DEF IsFilter
  <2>3. \A i \in 0 .. n + 1 : h[i] = IF i = 0 THEN <<>> ELSE Keep(all, cursor, h[i - 1], i)
    BY <2>2
  <2>4. IsFilter(all, cursor, n + 1, h)
    <3>1. h = [i \in 0 .. n + 1 |-> h[i]]
      OBVIOUS
    <3> HIDE DEF h
    <3> QED
      BY <2>3, <3>1 DEF IsFilter
  <2> QED
    BY <2>4
<1> HIDE DEF S
<1>3. Nat \subseteq S
  BY <1>1, <1>2, SetInduction
<1> QED
  BY <1>3 DEF S

\* Older is the last value of such a function.
LEMMA OlderFilter ==
    ASSUME NEW all, NEW cursor, cursor # NoNumber, Len(all) \in Nat
    PROVE  \E g : /\ g[0] = <<>>
                  /\ \A i \in 1 .. Len(all) : g[i] = Keep(all, cursor, g[i - 1], i)
                  /\ Older(all, cursor) = g[Len(all)]
<1> DEFINE G == CHOOSE g : IsFilter(all, cursor, Len(all), g)
<1>1. IsFilter(all, cursor, Len(all), G)
  BY FilterExists, Zenon
<1>2. Older(all, cursor) = G[Len(all)]
  BY Zenon DEF Older, IsFilter, Keep
<1> HIDE DEF G
<1>3. G[0] = <<>> /\ \A i \in 1 .. Len(all) : G[i] = Keep(all, cursor, G[i - 1], i)
  BY <1>1 DEF IsFilter
<1> QED
  BY <1>2, <1>3

\* Of messages in the order of time, those older than a time between the k-th
\* and the next are the first k.
LEMMA OlderIsPrefix ==
    ASSUME NEW all \in Seq(HistoryEntry), NEW cursor \in Nat, NEW k \in 0 .. Len(all),
           \A i \in 1 .. k : all[i].ts < cursor,
           \A i \in k + 1 .. Len(all) : ~ (all[i].ts < cursor)
    PROVE  Older(all, cursor) = SubSeq(all, 1, k)
<1> DEFINE N == Len(all)
<1>1. N \in Nat /\ k \in Nat /\ k <= N /\ cursor # NoNumber
  BY PagingAssumption
<1>2. PICK g : /\ g[0] = <<>>
               /\ \A i \in 1 .. N : g[i] = Keep(all, cursor, g[i - 1], i)
               /\ Older(all, cursor) = g[N]
  BY <1>1, OlderFilter
<1>3. \A i \in 1 .. N : all[i] \in HistoryEntry
  OBVIOUS
<1> DEFINE First(n) == IF n <= k THEN n ELSE k
           S == {n \in Nat : n <= N => g[n] = SubSeq(all, 1, First(n))}
<1>4. 0 \in S
  <2>1. SubSeq(all, 1, 0) = <<>>
    BY SubSeqEmpty
  <2>2. First(0) = 0
    BY <1>1
  <2> HIDE DEF First
  <2> QED
    BY <1>2, <2>1, <2>2
<1>5. ASSUME NEW n \in Nat, n \in S, n + 1 <= N PROVE g[n + 1] = SubSeq(all, 1, First(n + 1))
  <2>1. g[n] = SubSeq(all, 1, First(n)) /\ g[n + 1] = Keep(all, cursor, g[n], n + 1)
        /\ n + 1 \in 1 .. N
    BY <1>1, <1>2, <1>5
  <2>2. CASE n + 1 <= k
    <3>1. First(n) = n /\ First(n + 1) = n + 1 /\ n + 1 \in 1 .. k
      BY <1>1, <2>2
    <3>2. g[n + 1] = Append(SubSeq(all, 1, n), all[n + 1])
      BY <2>1, <3>1 DEF Keep
    <3>3. SubSeq(all, 1, n) \in Seq(HistoryEntry)
      BY <1>1, <1>3, <2>1, SubSeqProperties
    <3>4. Append(SubSeq(all, 1, n), all[n + 1]) = SubSeq(all, 1, n) \o <<all[n + 1]>>
      BY <1>3, <2>1, <3>3, AppendIsConcat
    <3>5. SubSeq(all, 1, n + 1) = SubSeq(all, 1, (n + 1) - 1) \o <<all[n + 1]>>
      <4>1. 1 \in 1 .. Len(all) /\ n + 1 \in 1 .. Len(all)
        BY <2>1
      <4> QED
        BY <4>1, SubSeqRecursiveSecond
    <3> QED
      BY <3>1, <3>2, <3>4, <3>5
  <2>3. CASE ~ (n + 1 <= k)
    <3>1. First(n) = k /\ First(n + 1) = k /\ n + 1 \in k + 1 .. N
      BY <1>1, <2>1, <2>3
    <3> QED
      BY <2>1, <3>1 DEF Keep
  <2> QED
    BY <2>2, <2>3
<1>6. \A n \in Nat : n \in S => n + 1 \in S
  BY <1>5
<1> HIDE DEF S
<1>7. Nat \subseteq S
  BY <1>4, <1>6, SetInduction
<1>8. g[N] = SubSeq(all, 1, First(N)) /\ First(N) = k
  BY <1>1, <1>7 DEF S
<1> QED
  BY <1>2, <1>8

-----------------------------------------------------------------------------
(* Where a page starts *)

\* A limit is at least 1.
LEMMA LimitLemma ==
    ASSUME NEW raw \in RawLimits
    PROVE  clampHistoryLimit(raw) \in Nat \ {0}
BY PagingAssumption DEF clampHistoryLimit

\* The loop that moves the start down to a boundary between two times ends, at
\* the latest at the oldest message, and keeps at least limit messages.
LEMMA StartLemma ==
    ASSUME NEW older \in Seq(HistoryEntry), NEW limit \in Nat \ {0}
    PROVE  /\ Start(older, limit) \in 0 .. Len(older)
           /\ Start(older, limit) # 0 =>
                /\ Start(older, limit) + limit <= Len(older)
                /\ older[Start(older, limit)].ts # older[Start(older, limit) + 1].ts
           /\ older # <<>> => Start(older, limit) < Len(older)
<1> DEFINE M == StartByCount(older, limit)
           N == Len(older)
           Boundary(s) == s = 0 \/ older[s].ts # older[s + 1].ts
           T == {d \in 0 .. M : Boundary(M - d)}
<1>1. N \in Nat /\ M \in Nat /\ M <= N /\ (M # 0 => M + limit = N) /\ (N # 0 => M < N)
  BY DEF StartByCount
<1>a. older # <<>> => N # 0
  BY EmptySeq
<1>2. PICK d \in T : \A e \in T : d <= e
  <2>1. M \in T /\ T \in SUBSET Nat
    BY <1>1
  <2> HIDE DEF T
  <2> QED
    BY <2>1, LeastNumber
<1>3. d \in Nat /\ M - d \in 0 .. M /\ Boundary(M - d)
  BY <1>1, <1>2
<1>4. \A k \in (M - d + 1) .. M : older[k].ts = older[k + 1].ts
  <2>1. SUFFICES ASSUME NEW k \in (M - d + 1) .. M PROVE older[k].ts = older[k + 1].ts
    OBVIOUS
  <2>2. M - k \in 0 .. M /\ M - (M - k) = k /\ M - k < d /\ k # 0
    BY <1>1, <1>3
  <2>3. ~ (M - k \in T)
    <3>1. ~ (d <= M - k)
      BY <1>1, <1>3, <2>2
    <3> HIDE DEF T
    <3> QED
      BY <1>2, <3>1
  <2> QED
    BY <2>2, <2>3
<1>5. Start(older, limit) \in 0 .. M /\ Boundary(Start(older, limit))
  BY <1>3, <1>4, Zenon DEF Start
<1> HIDE DEF T, M, N
<1>6. Start(older, limit) \in 0 .. M /\ (Start(older, limit) # 0 => M # 0)
  BY <1>1, <1>5
<1> QED
  BY <1>1, <1>a, <1>5, <1>6 DEF N

-----------------------------------------------------------------------------
(* One page *)

\* What a page is if k messages are older than the cursor: the last of them from
\* a boundary between two times on, limit or more if any stay behind.
LEMMA PageLemma ==
    ASSUME messages \in Seq(HistoryEntry), Sorted(messages), NEW limit \in Nat \ {0},
           NEW k \in 0 .. Len(messages)
    PROVE  LET older == SubSeq(messages, 1, k)
               start == Start(older, limit)
           IN  /\ start \in 0 .. k
               /\ start # 0 => start + limit <= k /\ messages[start].ts < messages[start + 1].ts
               /\ k # 0 => start < k
               /\ SubSeq(older, start + 1, Len(older)) = SubSeq(messages, start + 1, k)
<1> DEFINE older == SubSeq(messages, 1, k)
           start == Start(older, limit)
<1>1. k \in Nat /\ Len(messages) \in Nat /\ k <= Len(messages)
  OBVIOUS
<1>2. \A i \in 1 .. Len(messages) : messages[i] \in HistoryEntry /\ messages[i].ts \in Nat
  BY EntryTypes
<1>3. older \in Seq(HistoryEntry) /\ Len(older) = k /\ \A i \in 1 .. k : older[i] = messages[i]
  <2>1. /\ older \in Seq(HistoryEntry) /\ Len(older) = IF 1 <= k THEN k - 1 + 1 ELSE 0
        /\ \A i \in 1 .. k - 1 + 1 : older[i] = messages[1 + i - 1]
    BY <1>1, <1>2, SubSeqProperties
  <2> HIDE DEF older
  <2> QED
    BY <1>1, <2>1
<1> HIDE DEF older
<1>4. /\ start \in 0 .. k
      /\ start # 0 => start + limit <= k /\ older[start].ts # older[start + 1].ts
      /\ older # <<>> => start < k
  BY <1>3, StartLemma
<1>5. k # 0 => older # <<>>
  BY <1>3
<1> HIDE DEF start
<1>6. ASSUME start # 0 PROVE messages[start].ts < messages[start + 1].ts
  <2>1. start \in 1 .. k /\ start + 1 \in 1 .. k
    BY <1>1, <1>4, <1>6
  <2>2. messages[start].ts # messages[start + 1].ts
    BY <1>3, <1>4, <1>6, <2>1
  <2>3. start \in DOMAIN messages /\ start + 1 \in DOMAIN messages /\ start <= start + 1
    BY <1>1, <2>1
  <2>4. messages[start].ts <= messages[start + 1].ts
    BY <2>3 DEF Sorted
  <2>5. messages[start].ts \in Nat /\ messages[start + 1].ts \in Nat
    BY <1>1, <1>2, <2>1
  <2> QED
    BY <2>2, <2>4, <2>5
<1>7. SubSeq(older, start + 1, Len(older)) = SubSeq(messages, start + 1, k)
  <2>1. CASE k = 0
    BY <1>3, <1>4, <2>1, SubSeqEmpty
  <2>2. CASE k # 0
    <3>1. start + 1 \in 1 .. k - 1 + 1 /\ k \in 1 .. k - 1 + 1 /\ 1 \in 1 .. Len(messages)
          /\ k \in 1 .. Len(messages)
      BY <1>1, <1>4, <1>5, <2>2
    <3>2. SubSeq(SubSeq(messages, 1, k), start + 1, k)
            = SubSeq(messages, 1 + (start + 1) - 1, 1 + k - 1)
      BY <3>1, SubSeqOfSubSeq
    <3>3. 1 + (start + 1) - 1 = start + 1 /\ 1 + k - 1 = k
      BY <1>1, <1>4
    <3> QED
      BY <1>3, <3>2, <3>3 DEF older
  <2> QED
    BY <2>1, <2>2
<1> QED
  BY <1>4, <1>5, <1>6, <1>7 DEF start, older

\* A page after the ones that are there, read when k messages were left: the
\* first one, or the next.
LEMMA ReadKeeps ==
    ASSUME PagingInv, NEW raw \in RawLimits, NEW cursor,
           NEW b \in 0 .. Len(messages), NEW k \in 0 .. b, k # 0 \/ b = 0,
           Older(messages, cursor) = SubSeq(messages, 1, k),
           Read(raw, cursor, SubSeq(messages, k + 1, b)), begun' = b
    PROVE  /\ PagingInv'
           /\ Len(pages') - (b - k) >= clampHistoryLimit(raw) \/ ~hasMore'
<1> DEFINE limit == clampHistoryLimit(raw)
           older == SubSeq(messages, 1, k)
           start == Start(older, limit)
           page == SubSeq(older, start + 1, Len(older))
<1>1. /\ messages \in Seq(HistoryEntry) /\ Len(messages) \in Nat /\ Len(messages) <= MaxMessages
      /\ now \in 0 .. MaxTime /\ Sorted(messages)
      /\ b \in Nat /\ k \in Nat /\ k <= b /\ b <= Len(messages) /\ MaxMessages \in Nat /\ MaxTime \in Nat
  BY PagingAssumption DEF PagingInv, TypeOK
<1>2. limit \in Nat \ {0}
  BY LimitLemma
<1>3. /\ pages' = page \o SubSeq(messages, k + 1, b)
      /\ hasMore' = (start > 0)
      /\ before' = oldestTs(page)
      /\ UNCHANGED <<now, messages>>
  BY DEF Read
<1> HIDE DEF limit
<1>4. /\ start \in 0 .. k
      /\ start # 0 => start + limit <= k /\ messages[start].ts < messages[start + 1].ts
      /\ k # 0 => start < k
      /\ page = SubSeq(messages, start + 1, k)
  <2>1. k \in 0 .. Len(messages)
    BY <1>1
  <2> QED
    BY <1>1, <1>2, <2>1, PageLemma
<1> HIDE DEF page, start, older
<1>a. start \in Nat /\ (hasMore' <=> start # 0)
  <2>1. start \in Nat
    BY <1>1, <1>4
  <2>2. start > 0 <=> start # 0
    BY <2>1
  <2> QED
    BY <1>3, <2>1, <2>2, Zenon
<1>5. pages' = SubSeq(messages, start + 1, b)
  <2>1. start + 1 \in 1 .. Len(messages) + 1 /\ k \in (start + 1) - 1 .. Len(messages) /\ b \in k .. Len(messages)
    BY <1>1, <1>4
  <2> QED
    BY <1>1, <1>3, <1>4, <2>1, ConcatAdjacentSubSeq
<1>6. \A i \in 1 .. Len(messages) : messages[i] \in HistoryEntry /\ messages[i].ts \in 0 .. MaxTime
  BY <1>1, EntryTypes
<1>7. /\ pages' \in Seq(HistoryEntry) /\ Len(pages') = b - start
      /\ b # start => pages'[1] = messages[start + 1]
  <2>1. \A i \in start + 1 .. b : messages[i] \in HistoryEntry
    BY <1>1, <1>4, <1>6
  <2>2. start + 1 \in Int /\ b \in Int /\ start <= b
    BY <1>1, <1>4
  <2>3. /\ pages' \in Seq(HistoryEntry)
        /\ Len(pages') = IF start + 1 <= b THEN b - (start + 1) + 1 ELSE 0
        /\ \A i \in 1 .. b - (start + 1) + 1 : pages'[i] = messages[(start + 1) + i - 1]
    BY <1>5, <2>1, <2>2, SubSeqProperties
  <2>4. b # start => 1 \in 1 .. b - (start + 1) + 1 /\ (start + 1) + 1 - 1 = start + 1
    BY <1>1, <1>4
  <2> QED
    BY <1>1, <1>4, <2>2, <2>3, <2>4
<1>8. k # 0 => page # <<>> /\ page[1] = messages[start + 1]
  <2>1. SUFFICES ASSUME k # 0 PROVE page # <<>> /\ page[1] = messages[start + 1]
    OBVIOUS
  <2>2. \A i \in start + 1 .. k : messages[i] \in HistoryEntry
    BY <1>1, <1>4, <1>6
  <2>3. start + 1 \in Int /\ k \in Int /\ start + 1 <= k /\ 1 \in 1 .. k - (start + 1) + 1
        /\ (start + 1) + 1 - 1 = start + 1 /\ k - (start + 1) + 1 # 0
    BY <1>1, <1>4, <2>1
  <2>4. /\ Len(page) = k - (start + 1) + 1
        /\ \A i \in 1 .. k - (start + 1) + 1 : page[i] = messages[(start + 1) + i - 1]
    BY <1>4, <2>2, <2>3, SubSeqProperties
  <2> QED
    BY <2>3, <2>4
<1>9. before' = oldestTs(pages') /\ before' \in 0 .. MaxTime \cup {NoNumber}
  <2>1. CASE k = 0
    <3>1. page = <<>> /\ pages' = <<>>
      BY <1>1, <1>4, <1>5, <2>1, SubSeqEmpty
    <3> QED
      BY <1>3, <3>1 DEF oldestTs
  <2>2. CASE k # 0
    <3>1. b # start /\ start + 1 \in 1 .. Len(messages) /\ Len(pages') # 0
      BY <1>1, <1>4, <1>7, <2>2
    <3>2. pages' # <<>>
      BY <3>1
    <3> QED
      BY <1>3, <1>6, <1>7, <1>8, <2>2, <3>1, <3>2 DEF oldestTs
  <2> QED
    BY <2>1, <2>2
<1>10. Left' = start
  BY <1>1, <1>4, <1>7 DEF Left
<1>11. (TypeOK)'
  BY <1>1, <1>3, <1>7, <1>9 DEF TypeOK
<1>12. PagesExact'
  <2>1. Len(pages') <= begun' /\ begun' - Len(pages') + 1 = start + 1
    BY <1>1, <1>4, <1>7
  <2>2. hasMore' <=> Len(pages') < begun'
    BY <1>1, <1>4, <1>7, <1>a
  <2> QED
    BY <1>3, <1>5, <2>1, <2>2 DEF PagesExact
<1>13. CursorExact'
  <2>1. SUFFICES ASSUME hasMore' PROVE pages' # <<>> /\ messages'[start].ts < before'
    BY <1>9, <1>10 DEF CursorExact
  <2>2. start # 0 /\ k # 0
    BY <1>1, <1>4, <1>a, <2>1
  <2>3. Len(pages') # 0 /\ b # start
    BY <1>1, <1>4, <1>7, <1>a, <2>2
  <2>4. pages' # <<>> /\ before' = messages[start + 1].ts
    BY <1>7, <1>9, <2>3 DEF oldestTs
  <2> QED
    BY <1>3, <1>4, <2>2, <2>4
<1>14. Len(pages') - (b - k) >= limit \/ ~hasMore'
  <2>1. start # 0 => start + limit <= k
    BY <1>4
  <2> QED
    BY <1>1, <1>2, <1>7, <1>a, <2>1
<1> QED
  BY <1>1, <1>3, <1>11, <1>12, <1>13, <1>14 DEF PagingInv, limit, Sorted

-----------------------------------------------------------------------------
(* The actions *)

LEMMA FirstPageKeeps ==
    ASSUME PagingInv, NEW raw \in RawLimits, FirstPage(raw) PROVE PagingInv'
<1> DEFINE b == Len(messages)
<1>1. messages \in Seq(HistoryEntry) /\ b \in Nat
  BY DEF PagingInv, TypeOK
<1>2. SubSeq(messages, b + 1, b) = <<>>
  BY <1>1, SubSeqEmpty
<1>3. Older(messages, NoNumber) = SubSeq(messages, 1, b)
  BY <1>1, SubSeqFull DEF Older
<1>4. Read(raw, NoNumber, SubSeq(messages, b + 1, b)) /\ begun' = b
  BY <1>2 DEF FirstPage
<1>5. b \in 0 .. Len(messages) /\ b \in 0 .. b /\ (b # 0 \/ b = 0)
  BY <1>1
<1> QED
  BY <1>3, <1>4, <1>5, ReadKeeps

\* The messages older than the cursor are those the reader has not been given.
LEMMA NextPageKeeps ==
    ASSUME PagingInv, NEW raw \in RawLimits, NextPage(raw)
    PROVE  /\ PagingInv'
           /\ Len(pages') - Len(pages) >= clampHistoryLimit(raw) \/ ~hasMore'
<1> DEFINE b == begun
           k == Left
<1>1. /\ messages \in Seq(HistoryEntry) /\ Len(messages) \in Nat /\ Sorted(messages)
      /\ pages \in Seq(HistoryEntry) /\ Len(pages) \in Nat
      /\ b \in Nat /\ b <= Len(messages)
  BY DEF PagingInv, TypeOK
<1>2. /\ hasMore /\ Read(raw, before, pages) /\ begun' = b
  BY DEF NextPage
<1>3. Len(pages) < b /\ pages = SubSeq(messages, k + 1, b) /\ k = b - Len(pages)
  BY <1>1, <1>2 DEF PagingInv, PagesExact, Left
<1>4. pages # <<>> /\ messages[k].ts < before /\ before = pages[1].ts
  BY <1>2 DEF PagingInv, CursorExact, oldestTs
<1> HIDE DEF k
<1>5. Len(pages) # 0
  BY <1>1, <1>4, EmptySeq
<1>6. k \in Nat /\ k # 0 /\ k < b /\ k \in 0 .. b /\ b \in 0 .. Len(messages)
  BY <1>1, <1>3, <1>5
<1>7. \A i \in 1 .. Len(messages) : messages[i] \in HistoryEntry /\ messages[i].ts \in Nat
  BY <1>1, EntryTypes
<1>8. before = messages[k + 1].ts
  <2>1. \A i \in k + 1 .. b : messages[i] \in HistoryEntry
    BY <1>1, <1>6, <1>7
  <2>2. k + 1 \in Int /\ b \in Int /\ 1 \in 1 .. b - (k + 1) + 1 /\ (k + 1) + 1 - 1 = k + 1
    BY <1>1, <1>6
  <2>3. \A i \in 1 .. b - (k + 1) + 1 : SubSeq(messages, k + 1, b)[i] = messages[(k + 1) + i - 1]
    BY <2>1, <2>2, SubSeqProperties
  <2> QED
    BY <1>3, <1>4, <2>2, <2>3
<1>9. before \in Nat
  BY <1>1, <1>6, <1>7, <1>8
<1>10. ASSUME NEW i \in 1 .. k PROVE messages[i].ts < before
  <2>1. i \in DOMAIN messages /\ k \in DOMAIN messages /\ i <= k /\ i \in 1 .. Len(messages)
        /\ k \in 1 .. Len(messages)
    BY <1>1, <1>6
  <2>2. messages[i].ts <= messages[k].ts
    BY <1>1, <2>1 DEF Sorted
  <2> QED
    BY <1>4, <1>7, <1>9, <2>1, <2>2
<1>11. ASSUME NEW i \in k + 1 .. Len(messages) PROVE ~ (messages[i].ts < before)
  <2>1. i \in DOMAIN messages /\ k + 1 \in DOMAIN messages /\ k + 1 <= i /\ i \in 1 .. Len(messages)
    BY <1>1, <1>6
  <2>2. messages[k + 1].ts <= messages[i].ts
    BY <1>1, <2>1 DEF Sorted
  <2> QED
    BY <1>7, <1>8, <1>9, <2>1, <2>2
<1>12. Older(messages, before) = SubSeq(messages, 1, k)
  <2>1. k \in 0 .. Len(messages)
    BY <1>1, <1>6
  <2> QED
    BY <1>1, <1>9, <1>10, <1>11, <2>1, OlderIsPrefix
<1>13. Read(raw, before, SubSeq(messages, k + 1, b))
  BY <1>2, <1>3
<1>14. /\ PagingInv'
       /\ Len(pages') - (b - k) >= clampHistoryLimit(raw) \/ ~hasMore'
  <2> HIDE DEF b
  <2> QED
    BY <1>2, <1>6, <1>12, <1>13, ReadKeeps
<1>15. b - k = Len(pages)
  BY <1>1, <1>3, <1>6
<1> QED
  BY <1>14, <1>15

\* What is posted meanwhile is newer than all that the reader was given.
LEMMA PostKeeps ==
    ASSUME PagingInv, Post PROVE PagingInv'
<1> DEFINE N == Len(messages)
           m == [number |-> N + 1, ts |-> now]
<1>1. /\ messages \in Seq(HistoryEntry) /\ N \in Nat /\ N < MaxMessages /\ MaxMessages \in Nat
      /\ now \in 0 .. MaxTime /\ MaxTime \in Nat /\ begun \in 0 .. MaxMessages /\ begun <= N
      /\ pages \in Seq(HistoryEntry) /\ Len(pages) \in Nat
      /\ before \in 0 .. MaxTime \cup {NoNumber} /\ hasMore \in BOOLEAN
  BY PagingAssumption DEF PagingInv, TypeOK, Post
<1>2. messages' = Append(messages, m) /\ UNCHANGED <<now, readerVars>>
  BY DEF Post
<1>3. m \in HistoryEntry /\ m.ts = now
  BY <1>1 DEF HistoryEntry
<1> HIDE DEF m
<1>4. /\ messages' \in Seq(HistoryEntry) /\ Len(messages') = N + 1
      /\ \A i \in 1 .. N : messages'[i] = messages[i]
      /\ messages'[N + 1] = m
  BY <1>1, <1>2, <1>3, AppendProperties
<1>5. DOMAIN messages' = 1 .. N + 1 /\ DOMAIN messages = 1 .. N
  BY <1>1, <1>4
<1> HIDE DEF N
<1>6. \A i \in DOMAIN messages' : messages'[i].ts <= now'
  <2>1. SUFFICES ASSUME NEW i \in 1 .. N + 1 PROVE messages'[i].ts <= now
    BY <1>2, <1>5 DEF readerVars
  <2>2. CASE i \in 1 .. N
    BY <1>4, <1>5, <2>2 DEF PagingInv
  <2>3. CASE i = N + 1
    BY <1>1, <1>3, <1>4, <2>3
  <2> QED
    BY <1>1, <2>2, <2>3
<1>7. Sorted(messages')
  <2>1. SUFFICES ASSUME NEW i \in 1 .. N + 1, NEW j \in 1 .. N + 1, i <= j
                 PROVE  messages'[i].ts <= messages'[j].ts
    BY <1>5 DEF Sorted
  <2>2. CASE j \in 1 .. N
    <3>1. i \in 1 .. N
      BY <1>1, <2>1, <2>2
    <3> QED
      BY <1>4, <1>5, <2>1, <2>2, <3>1 DEF PagingInv, Sorted
  <2>3. CASE j = N + 1
    BY <1>2, <1>3, <1>4, <1>5, <1>6, <2>3
  <2> QED
    BY <1>1, <2>2, <2>3
<1>8. UNCHANGED <<before, hasMore, begun, pages, now, Left>>
  BY <1>2 DEF readerVars, Left
<1>9. TypeOK' /\ begun' <= Len(messages')
  BY <1>1, <1>4, <1>8 DEF TypeOK, N
<1>10. Len(pages) <= begun /\ pages = SubSeq(messages, begun - Len(pages) + 1, begun)
       /\ (hasMore <=> Len(pages) < begun)
  BY DEF PagingInv, PagesExact
<1>11. SubSeq(messages', begun - Len(pages) + 1, begun) = SubSeq(messages, begun - Len(pages) + 1, begun)
  <2>1. \A i \in begun - Len(pages) + 1 .. begun : i \in 1 .. N
    BY <1>1, <1>10
  <2>2. \A i \in begun - Len(pages) + 1 .. begun : messages'[i] = messages[i]
    BY <1>4, <2>1
  <2> DEFINE from == begun - Len(pages) + 1
  <2>3. from \in Int /\ begun \in Int /\ Len(pages) \in Nat /\ (begun - from + 1 = Len(pages))
    BY <1>1
  <2>4. \A i \in from .. begun : messages[i] \in HistoryEntry /\ messages'[i] \in HistoryEntry
    BY <1>1, <1>5, <2>1, <2>2
  <2> HIDE DEF from
  <2>5. /\ SubSeq(messages, from, begun) \in Seq(HistoryEntry)
        /\ Len(SubSeq(messages, from, begun)) = IF from <= begun THEN begun - from + 1 ELSE 0
        /\ \A i \in 1 .. begun - from + 1 : SubSeq(messages, from, begun)[i] = messages[from + i - 1]
    BY <2>3, <2>4, SubSeqProperties
  <2>6. /\ SubSeq(messages', from, begun) \in Seq(HistoryEntry)
        /\ Len(SubSeq(messages', from, begun)) = IF from <= begun THEN begun - from + 1 ELSE 0
        /\ \A i \in 1 .. begun - from + 1 : SubSeq(messages', from, begun)[i] = messages'[from + i - 1]
    BY <2>3, <2>4, SubSeqProperties
  <2>7. \A i \in 1 .. begun - from + 1 : from + i - 1 \in from .. begun
    BY <2>3
  <2>8. (IF from <= begun THEN begun - from + 1 ELSE 0) = begun - from + 1
    BY <2>3
  <2>9. SubSeq(messages', from, begun) = SubSeq(messages, from, begun)
    BY <2>2, <2>5, <2>6, <2>7, <2>8, SeqEqual DEF from
  <2> QED
    BY <2>9 DEF from
<1>12. PagesExact'
  BY <1>8, <1>10, <1>11 DEF PagesExact
<1>13. CursorExact'
  <2>1. hasMore => Left \in 1 .. N
    BY <1>1, <1>10 DEF Left
  <2> QED
    BY <1>4, <1>8, <2>1 DEF PagingInv, CursorExact
<1> QED
  BY <1>6, <1>7, <1>9, <1>12, <1>13 DEF PagingInv

LEMMA PagingStep == PagingInv /\ [Next]_vars => PagingInv'
<1> SUFFICES ASSUME PagingInv, [Next]_vars PROVE PagingInv'
  OBVIOUS
<1>1. ASSUME NEW raw \in RawLimits, NextPage(raw) PROVE PagingInv'
  BY <1>1, NextPageKeeps
<1>2. ASSUME NEW raw \in RawLimits, FirstPage(raw) PROVE PagingInv'
  BY <1>2, FirstPageKeeps
<1>3. CASE Post
  BY <1>3, PostKeeps
<1>4. ASSUME Tick \/ UNCHANGED vars PROVE PagingInv'
  <2>1. UNCHANGED <<messages, before, hasMore, begun, pages>> /\ now \in 0 .. MaxTime
        /\ (now' = now \/ (now' = now + 1 /\ now < MaxTime))
    BY <1>4 DEF Tick, vars, readerVars, PagingInv, TypeOK
  <2>2. MaxTime \in Nat /\ now' \in 0 .. MaxTime /\ now <= now'
    BY <2>1, PagingAssumption
  <2>3. \A i \in DOMAIN messages : messages[i].ts <= now'
    <3>1. \A i \in DOMAIN messages : messages[i].ts \in Nat /\ messages[i].ts <= now
      BY EntryTypes DEF PagingInv, TypeOK
    <3> QED
      BY <2>1, <2>2, <3>1
  <2> QED
    BY <2>1, <2>2, <2>3 DEF PagingInv, TypeOK, PagesExact, CursorExact, Left, Sorted
<1> QED
  BY <1>1, <1>2, <1>3, <1>4 DEF Next

LEMMA PagingInit == Init => PagingInv
<1> SUFFICES ASSUME Init PROVE PagingInv
  OBVIOUS
<1>1. /\ now = 0 /\ messages = <<>> /\ before = NoNumber /\ hasMore = FALSE
      /\ begun = 0 /\ pages = <<>> /\ MaxTime \in Nat /\ MaxMessages \in Nat
  BY PagingAssumption DEF Init
<1>2. Len(<<>>) = 0 /\ DOMAIN <<>> = {}
  OBVIOUS
<1>3. SubSeq(<<>>, 1, 0) = <<>>
  BY SubSeqEmpty
<1>4. <<>> \in Seq(HistoryEntry)
  BY EmptySeq
<1>5. TypeOK
  <2>1. 0 \in 0 .. MaxTime /\ 0 \in 0 .. MaxMessages /\ 0 <= MaxMessages
    BY <1>1
  <2> QED
    BY <1>1, <1>2, <1>4, <2>1 DEF TypeOK
<1>6. PagesExact
  BY <1>1, <1>2, <1>3 DEF PagesExact
<1> QED
  BY <1>1, <1>2, <1>5, <1>6 DEF PagingInv, CursorExact, oldestTs, Sorted

-----------------------------------------------------------------------------
(* Pages are the history *)

\* The inductive invariant: the pages are a suffix of the history there was, and
\* the cursor cuts it where they begin.
THEOREM PagingInvariant == Spec => []PagingInv
<1> QED
  BY PagingInit, PagingStep, PTL DEF Spec

\* "the strict-`<` cursor then stays exact (no drop, no duplicate)": whatever the
\* limits, and whatever is posted between two pages in the same millisecond.
THEOREM PagesExactCorrect == Spec => []PagesExact
<1>1. PagingInv => PagesExact
  BY DEF PagingInv
<1> QED
  BY <1>1, PagingInvariant, PTL

\* A page holds what was asked for, or all that remains: the reader gets on.
THEOREM PageIsFullCorrect == Spec => PageIsFull
<1>1. PagingInv /\ [Next]_vars
        => [\A raw \in RawLimits :
              NextPage(raw) => \/ Len(pages') - Len(pages) >= clampHistoryLimit(raw)
                               \/ ~hasMore']_vars
  BY NextPageKeeps
<1> QED
  BY <1>1, PagingInvariant, PTL DEF Spec, PageIsFull
=============================================================================
