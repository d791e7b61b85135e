--------------------------- MODULE DeliveryProofs ---------------------------
(***************************************************************************)
(* Proofs about Delivery for every number of connections, topics, texts    *)
(* and events, for every size of the dedup cache and every window: the bus *)
(* passes nothing twice, and nothing that is wanted is dropped.            *)
(*                                                                         *)
(* The two stand on BusInv, which says what the bounded cache still knows  *)
(* of the events that were accepted.                                       *)
(***************************************************************************)
EXTENDS Delivery, SequenceTheorems, WellFoundedInduction, TLAPS

-----------------------------------------------------------------------------
(* The inductive invariant *)

\* Nobody posts the very text with which an archival is announced.
NoticeIsNotSaid == "Topic archived" \notin Texts

\* What is under way, accepted or owed has been sent.
NumbersSent ==
    /\ \A i \in Numbers : UnderWay(i) => i \in DOMAIN sent
    /\ \A k \in DOMAIN accepted : accepted[k].event \in DOMAIN sent
    /\ owed \subseteq DOMAIN sent

\* No event is sent in the future or under way for a whole window.
Prompt ==
    /\ \A i \in DOMAIN sent : sent[i].second <= now
    /\ \A i \in DOMAIN sent : UnderWay(i) => now - sent[i].second < DedupWindow
    /\ \A p \in DOMAIN dedupSeen : dedupSeen[p].at <= now

\* The key under which the bus remembers an event that came at a time
KeyAt(e, at) == <<e.sender, e.topic, IF e.type = "topic_archived" THEN at ELSE e.second, e.text>>

\* Every key in the cache is that of an event that passed the bus.
CacheIsAccepted ==
    \A p \in DOMAIN dedupSeen :
        \E j \in DOMAIN sent : Accepted(j) /\ dedupSeen[p].key = KeyAt(sent[j], dedupSeen[p].at)

\* What is owed and under way is still wanted.
OwedIsWanted == \A i \in owed : UnderWay(i) => Wanted(sent[i])

\* The j-th event accepted is in the cache and has no more entries behind it than
\* were accepted since.
Remembered(j) ==
    \E p \in DOMAIN dedupSeen :
        /\ dedupSeen[p].key = KeyAt(sent[accepted[j].event], dedupSeen[p].at)
        /\ dedupSeen[p].at >= sent[accepted[j].event].second
        /\ Len(dedupSeen) - p <= Len(accepted) - j

\* The bus remembers what is still under way elsewhere, unless the cache
\* has overflowed since.
RemembersUnderWay ==
    \A j \in DOMAIN accepted :
        /\ UnderWay(accepted[j].event)
        /\ sent[accepted[j].event].type # "topic_archived"
        => Remembered(j) \/ Len(accepted) - j >= MaxDedupEntries

BusInv ==
    /\ TypeOK /\ NumbersSent /\ Prompt
    /\ RemembersUnderWay /\ PassesOnce

OwedInv == CacheIsAccepted /\ OwedIsWanted /\ NothingDropped

DeliveryInv == BusInv /\ OwedInv

-----------------------------------------------------------------------------
(* Induction over sets of numbers *)

\* A set with 0 and the successor of each of its numbers has them all.
LEMMA SetInduction ==
    ASSUME NEW S, 0 \in S, \A n \in Nat : n \in S => n + 1 \in S
    PROVE  Nat \subseteq S
<1> SUFFICES ASSUME Nat \ S # {} PROVE FALSE
  OBVIOUS
<1>1. /\ IsWellFoundedOn(OpToRel(<, Nat), Nat)
      /\ \A x, y \in Nat : x < y => <<x, y>> \in OpToRel(<, Nat)
  BY NatLessThanWellFounded DEF OpToRel
<1>2. PICK R : IsWellFoundedOn(R, Nat) /\ \A x, y \in Nat : x < y => <<x, y>> \in R
  BY <1>1, Zenon
<1>3. PICK x \in Nat \ S : \A y \in Nat \ S : ~ (<<y, x>> \in R)
  <2>1. IsWellFoundedOn(R, Nat) /\ Nat \ S \subseteq Nat
    BY <1>2
  <2> QED
    BY <2>1, WFMin
<1>4. x # 0 /\ x - 1 \in Nat /\ x - 1 < x /\ (x - 1) + 1 = x
  OBVIOUS
<1>5. x - 1 \in S
  BY <1>2, <1>3, <1>4
<1> QED
  BY <1>4, <1>5

-----------------------------------------------------------------------------
(* Sweeping the cache *)

Entry == [key: Key, at: 0 .. MaxTime]

\* The p-th entry is within the window.
Fresh(p) == now - dedupSeen[p].at < DedupWindow

\* One more entry is looked at.
Sweep(kept, n) == IF Fresh(n) THEN Append(kept, dedupSeen[n]) ELSE kept

\* g is what vacuum goes through over the first n entries.
IsSweep(n, g) == g = [i \in 0 .. n |-> IF i = 0 THEN <<>> ELSE Sweep(g[i - 1], i)]

\* There is such a function: the recursion is well defined.
LEMMA SweepExists == \A n \in Nat : \E g : IsSweep(n, g)
<1> DEFINE S == {n \in Nat : \E g : IsSweep(n, g)}
<1>1. 0 \in S
  <2> DEFINE g == [i \in 0 .. 0 |-> <<>>]
  <2>1. IsSweep(0, g)
    BY DEF IsSweep
  <2> QED
    BY <2>1
<1>2. ASSUME NEW n \in Nat, n \in S PROVE n + 1 \in S
  <2>1. PICK g : IsSweep(n, g)
    BY <1>2
  <2> DEFINE h == [i \in 0 .. n + 1 |-> IF i = n + 1 THEN Sweep(g[n], n + 1) ELSE g[i]]
  <2>2. \A i \in 0 .. n : g[i] = IF i = 0 THEN <<>> ELSE Sweep(g[i - 1], i)
    BY <2>1 DEF IsSweep
  <2>3. \A i \in 0 .. n + 1 : h[i] = IF i = 0 THEN <<>> ELSE Sweep(h[i - 1], i)
    BY <2>2
  <2>4. IsSweep(n + 1, h)
    <3>1. h = [i \in 0 .. n + 1 |-> h[i]]
      OBVIOUS
    <3> HIDE DEF h
    <3> QED
      BY <2>3, <3>1 DEF IsSweep
  <2> QED
    BY <2>4
<1> HIDE DEF S
<1>3. Nat \subseteq S
  BY <1>1, <1>2, SetInduction
<1> QED
  BY <1>3 DEF S

\* vacuum is the last value of such a function.
LEMMA VacuumSweep ==
    ASSUME Len(dedupSeen) \in Nat
    PROVE  \E g : /\ g[0] = <<>>
                  /\ \A i \in 1 .. Len(dedupSeen) : g[i] = Sweep(g[i - 1], i)
                  /\ vacuum = g[Len(dedupSeen)]
<1> DEFINE G == CHOOSE g : IsSweep(Len(dedupSeen), g)
<1>1. IsSweep(Len(dedupSeen), G)
  BY SweepExists, Zenon
<1>2. vacuum = G[Len(dedupSeen)]
  BY Zenon DEF vacuum, IsSweep, Sweep, Fresh
<1> HIDE DEF G
<1>3. G[0] = <<>> /\ \A i \in 1 .. Len(dedupSeen) : G[i] = Sweep(G[i - 1], i)
  BY <1>1 DEF IsSweep
<1> QED
  BY <1>2, <1>3

\* What is true of the entries kept of the first n: they are entries, and no
\* fresh one is missing or has more entries behind it than it had.
Swept(kept, n) ==
    /\ kept \in Seq(Entry) /\ Len(kept) <= n
    /\ \A q \in 1 .. Len(kept) : \E p \in 1 .. n : kept[q] = dedupSeen[p]
    /\ \A p \in 1 .. n : Fresh(p) =>
        \E q \in 1 .. Len(kept) : kept[q] = dedupSeen[p] /\ Len(kept) - q <= n - p

LEMMA SweepStep ==
    ASSUME dedupSeen \in Seq(Entry), NEW n \in Nat, n + 1 <= Len(dedupSeen),
           NEW kept, Swept(kept, n)
    PROVE  Swept(Sweep(kept, n + 1), n + 1)
<1> DEFINE next == Sweep(kept, n + 1)
<1>1. n + 1 \in 1 .. Len(dedupSeen) /\ dedupSeen[n + 1] \in Entry
  OBVIOUS
<1>2. kept \in Seq(Entry) /\ Len(kept) \in Nat /\ Len(kept) <= n
  BY DEF Swept
<1>3. CASE ~Fresh(n + 1)
  <2>1. next = kept
    BY <1>3 DEF Sweep
  <2>2. \A p \in 1 .. n : p \in 1 .. n + 1
    OBVIOUS
  <2>3. \A p \in 1 .. n + 1 : Fresh(p) => p \in 1 .. n
    BY <1>3
  <2>4. \A p \in 1 .. n, q \in 1 .. Len(kept) : Len(kept) - q <= n - p => Len(kept) - q <= (n + 1) - p
    BY <1>2
  <2>5. \A p \in 1 .. n + 1 : Fresh(p) =>
            \E q \in 1 .. Len(kept) : kept[q] = dedupSeen[p] /\ Len(kept) - q <= (n + 1) - p
    BY <2>3, <2>4 DEF Swept
  <2>6. Len(kept) <= n + 1
    BY <1>2
  <2> QED
    BY <1>2, <2>1, <2>2, <2>5, <2>6 DEF Swept
<1>4. CASE Fresh(n + 1)
  <2>1. next = Append(kept, dedupSeen[n + 1])
    BY <1>4 DEF Sweep
  <2>2. /\ next \in Seq(Entry) /\ Len(next) = Len(kept) + 1
        /\ \A q \in 1 .. Len(kept) : next[q] = kept[q]
        /\ next[Len(kept) + 1] = dedupSeen[n + 1]
    BY <1>1, <1>2, <2>1, AppendProperties
  <2> HIDE DEF next
  <2>3. ASSUME NEW q \in 1 .. Len(next) PROVE \E p \in 1 .. n + 1 : next[q] = dedupSeen[p]
    <3>1. CASE q \in 1 .. Len(kept)
      <4>1. PICK p \in 1 .. n : kept[q] = dedupSeen[p]
        BY <3>1 DEF Swept
      <4> QED
        BY <2>2, <3>1, <4>1
    <3>2. CASE q = Len(kept) + 1
      BY <2>2, <3>2
    <3> QED
      BY <1>2, <2>2, <3>1, <3>2
  <2>4. ASSUME NEW p \in 1 .. n + 1, Fresh(p)
        PROVE  \E q \in 1 .. Len(next) : next[q] = dedupSeen[p] /\ Len(next) - q <= (n + 1) - p
    <3>1. CASE p \in 1 .. n
      <4>1. PICK q \in 1 .. Len(kept) : kept[q] = dedupSeen[p] /\ Len(kept) - q <= n - p
        BY <2>4, <3>1 DEF Swept
      <4>2. q \in 1 .. Len(next) /\ next[q] = dedupSeen[p] /\ Len(next) - q <= (n + 1) - p
        BY <1>2, <2>2, <3>1, <4>1
      <4> QED
        BY <4>2
    <3>2. CASE p = n + 1
      <4>1. /\ Len(next) \in 1 .. Len(next) /\ next[Len(next)] = dedupSeen[p]
            /\ Len(next) - Len(next) <= (n + 1) - p
        BY <1>2, <2>2, <3>2
      <4> QED
        BY <4>1
    <3> QED
      BY <3>1, <3>2
  <2>5. Len(next) <= n + 1
    BY <1>2, <2>2
  <2> QED
    BY <2>2, <2>3, <2>4, <2>5 DEF Swept, next
<1> QED
  BY <1>3, <1>4

LEMMA VacuumLemma ==
    ASSUME dedupSeen \in Seq(Entry)
    PROVE  Swept(vacuum, Len(dedupSeen))
<1>1. Len(dedupSeen) \in Nat
  OBVIOUS
<1>2. PICK g : /\ g[0] = <<>>
               /\ \A i \in 1 .. Len(dedupSeen) : g[i] = Sweep(g[i - 1], i)
               /\ vacuum = g[Len(dedupSeen)]
  BY <1>1, VacuumSweep
<1> DEFINE S == {n \in Nat : n <= Len(dedupSeen) => Swept(g[n], n)}
<1>3. 0 \in S
  <2>1. <<>> \in Seq(Entry) /\ Len(<<>>) = 0 /\ 1 .. 0 = {}
    BY EmptySeq
  <2>2. Swept(<<>>, 0)
    BY <2>1 DEF Swept
  <2> QED
    BY <1>2, <2>2
<1>4. ASSUME NEW n \in Nat, n \in S, n + 1 <= Len(dedupSeen) PROVE Swept(g[n + 1], n + 1)
  <2>1. n <= Len(dedupSeen) /\ n + 1 \in 1 .. Len(dedupSeen) /\ (n + 1) - 1 = n
    BY <1>1, <1>4
  <2>2. Swept(g[n], n) /\ g[n + 1] = Sweep(g[n], n + 1)
    BY <1>2, <1>4, <2>1
  <2> QED
    BY <1>4, <2>2, SweepStep
<1>5. \A n \in Nat : n \in S => n + 1 \in S
  BY <1>4
<1> HIDE DEF S
<1>6. Nat \subseteq S
  BY <1>3, <1>5, SetInduction
<1> QED
  BY <1>1, <1>2, <1>6 DEF S

-----------------------------------------------------------------------------
(* Events and their keys *)

LEMMA EventFields ==
    ASSUME NEW e \in Event, MaxTime \in Nat
    PROVE  /\ e.sender \in Senders /\ e.topic \in Topics \cup {NoTopic}
           /\ e.text \in Texts \cup {"Topic archived"} /\ e.second \in 0 .. MaxTime
           /\ e.second \in Nat
           /\ e.type \in {"broadcast", "message", "topic_archived"}
<1> DEFINE Fields ==
            /\ e.sender \in Senders /\ e.topic \in Topics \cup {NoTopic}
            /\ e.text \in Texts \cup {"Topic archived"} /\ e.second \in 0 .. MaxTime
            /\ e.type \in {"broadcast", "message", "topic_archived"}
<1>1. ASSUME e \in [location: Locations, type: {"broadcast"}, sender: Senders, topic: {NoTopic},
                  text: Texts, second: 0 .. MaxTime]
      PROVE  Fields
  BY <1>1
<1>2. ASSUME e \in [location: {"local"}, type: {"message"}, sender: Senders, topic: Topics,
                  text: Texts, second: 0 .. MaxTime]
      PROVE  Fields
  BY <1>2
<1>3. ASSUME e \in [location: {"local"}, type: {"topic_archived"}, sender: Senders, topic: Topics,
                  text: {"Topic archived"}, second: 0 .. MaxTime]
      PROVE  Fields
  BY <1>3
<1>4. Fields
  BY <1>1, <1>2, <1>3 DEF Event
<1>5. e.second \in Nat
  <2>1. e.second \in 0 .. MaxTime
    BY <1>4, Zenon
  <2> QED
    BY <2>1
<1> QED
  BY <1>4, <1>5, Zenon

LEMMA KeyIsKey ==
    ASSUME NEW e \in Event, MaxTime \in Nat, now \in 0 .. MaxTime
    PROVE  dedupKey(e) \in Key /\ dedupKey(e) = KeyAt(e, now)
<1>1. /\ e.sender \in Senders /\ e.topic \in Topics \cup {NoTopic}
      /\ e.text \in Texts \cup {"Topic archived"} /\ e.second \in 0 .. MaxTime
  BY EventFields
<1>2. (IF e.type = "topic_archived" THEN now ELSE e.second) \in 0 .. MaxTime
  BY <1>1
<1> QED
  BY <1>1, <1>2 DEF dedupKey, KeyAt, Key

\* As long as nobody says it, the text of an archival tells its type.
LEMMA SameKeySameType ==
    ASSUME NoticeIsNotSaid, NoTopic \notin Topics, NEW d \in Event, NEW e \in Event,
           d.topic = e.topic, d.text = e.text
    PROVE  d.type = e.type
  BY DEF Event, NoticeIsNotSaid

-----------------------------------------------------------------------------
(* One event pushed into the bus *)

\* Trimming: the new entry comes last, and an entry of before has one more behind
\* it, unless it was the oldest of a full cache.
Trimmed(t, cache, x) ==
    /\ t \in Seq(Entry) /\ Len(t) <= MaxDedupEntries
    /\ Len(t) \in DOMAIN t /\ t[Len(t)] = x
    /\ \A q \in DOMAIN t : t[q] = x \/ \E p \in DOMAIN cache : t[q] = cache[p]
    /\ \A p \in DOMAIN cache :
        \/ \E q \in DOMAIN t : t[q] = cache[p] /\ Len(t) - q = Len(cache) - p + 1
        \/ Len(cache) - p + 1 >= MaxDedupEntries

LEMMA TrimLemma ==
    ASSUME MaxDedupEntries \in Nat \ {0}, NEW cache \in Seq(Entry),
           Len(cache) <= MaxDedupEntries, NEW x \in Entry,
           NEW t, t = trimOldest(Append(cache, x))
    PROVE  Trimmed(t, cache, x)
<1> DEFINE a == Append(cache, x)
           n == Len(cache)
<1>1. /\ a \in Seq(Entry) /\ Len(a) = n + 1 /\ n \in Nat /\ a[n + 1] = x
      /\ \A p \in 1 .. n : a[p] = cache[p]
      /\ DOMAIN cache = 1 .. n /\ DOMAIN a = 1 .. n + 1 /\ n <= MaxDedupEntries
      /\ t = IF Len(a) > MaxDedupEntries THEN Tail(a) ELSE a
  BY AppendProperties DEF trimOldest
<1> HIDE DEF a, n
<1>2. CASE Len(a) > MaxDedupEntries
  <2>1. t = Tail(a) /\ n = MaxDedupEntries
    BY <1>1, <1>2
  <2>2. /\ t \in Seq(Entry) /\ Len(t) = n /\ DOMAIN t = 1 .. n
        /\ \A q \in 1 .. n : t[q] = a[q + 1]
    BY <1>1, <2>1
  <2>3. \A q \in 1 .. n : t[q] = x \/ \E p \in DOMAIN cache : t[q] = cache[p]
    <3> SUFFICES ASSUME NEW q \in 1 .. n PROVE t[q] = x \/ \E p \in DOMAIN cache : t[q] = cache[p]
      OBVIOUS
    <3>1. q = n \/ q + 1 \in 1 .. n
      BY <1>1
    <3> QED
      BY <1>1, <2>2, <3>1
  <2>4. ASSUME NEW p \in 1 .. n
        PROVE  \/ \E q \in DOMAIN t : t[q] = cache[p] /\ Len(t) - q = n - p + 1
               \/ n - p + 1 >= MaxDedupEntries
    <3>1. CASE p = 1
      BY <1>1, <2>1, <3>1
    <3>2. CASE p # 1
      <4>1. p - 1 \in 1 .. n /\ (p - 1) + 1 = p /\ n - (p - 1) = n - p + 1
        BY <1>1, <3>2
      <4>2. t[p - 1] = cache[p]
        BY <1>1, <2>2, <4>1
      <4> QED
        BY <2>2, <4>1, <4>2
    <3> QED
      BY <3>1, <3>2
  <2>5. n \in 1 .. n /\ t[n] = x
    BY <1>1, <2>1, <2>2
  <2> QED
    BY <1>1, <2>1, <2>2, <2>3, <2>4, <2>5 DEF Trimmed, n
<1>3. CASE ~(Len(a) > MaxDedupEntries)
  <2>1. t = a /\ n + 1 <= MaxDedupEntries
    BY <1>1, <1>3
  <2>2. \A q \in 1 .. n + 1 : a[q] = x \/ \E p \in 1 .. n : a[q] = cache[p]
    <3> SUFFICES ASSUME NEW q \in 1 .. n + 1 PROVE a[q] = x \/ \E p \in 1 .. n : a[q] = cache[p]
      OBVIOUS
    <3>1. q = n + 1 \/ q \in 1 .. n
      BY <1>1
    <3> QED
      BY <1>1, <3>1
  <2>3. \A p \in 1 .. n : p \in 1 .. n + 1 /\ a[p] = cache[p] /\ (n + 1) - p = n - p + 1
    BY <1>1
  <2>4. \A p \in 1 .. n : \E q \in 1 .. n + 1 : a[q] = cache[p] /\ (n + 1) - q = n - p + 1
    BY <2>3
  <2>5. /\ a \in Seq(Entry) /\ Len(a) = n + 1 /\ DOMAIN a = 1 .. n + 1 /\ a[n + 1] = x
        /\ n + 1 \in 1 .. n + 1 /\ DOMAIN cache = 1 .. n
    BY <1>1
  <2>6. \A q \in DOMAIN a : a[q] = x \/ \E p \in DOMAIN cache : a[q] = cache[p]
    BY <2>2, <2>5
  <2>7. \A p \in DOMAIN cache : \E q \in DOMAIN a : a[q] = cache[p] /\ Len(a) - q = n - p + 1
    BY <2>4, <2>5
  <2> QED
    BY <2>1, <2>5, <2>6, <2>7 DEF Trimmed, n
<1> QED
  BY <1>2, <1>3

\* The state in which an event can be pushed
BusTyped ==
    /\ now \in 0 .. MaxTime
    /\ dedupSeen \in Seq(Entry) /\ Len(dedupSeen) <= MaxDedupEntries
    /\ accepted \in Seq([event: Numbers, shown: BOOLEAN])
    /\ faults \in 0 .. MaxFaults

\* e is dropped: the cache has its key.
Dropped(e) ==
    /\ accepted' = accepted
    /\ \E p \in DOMAIN dedupSeen : dedupSeen[p].key = dedupKey(e)

\* e passes, as event i: its key is not fresh, and it is the last in the cache.
Passed(i, e) ==
    /\ \E shown \in BOOLEAN : accepted' = Append(accepted, [event |-> i, shown |-> shown])
    /\ Len(dedupSeen') \in DOMAIN dedupSeen'
    /\ dedupSeen'[Len(dedupSeen')] = [key |-> dedupKey(e), at |-> now]
    /\ \A p \in DOMAIN dedupSeen : Fresh(p) => dedupSeen[p].key # dedupKey(e)

\* What is in the cache afterwards was there, or it is the new entry of e.
NothingInvented(i, e) ==
    \A q \in DOMAIN dedupSeen' :
        \/ \E p \in DOMAIN dedupSeen : dedupSeen'[q] = dedupSeen[p]
        \/ dedupSeen'[q] = [key |-> dedupKey(e), at |-> now] /\ Passed(i, e)

\* A fresh entry stays, with at most as many more behind it as were accepted,
\* unless the cache overflows.
FreshStays ==
    \A p \in DOMAIN dedupSeen : Fresh(p) =>
        \/ \E q \in DOMAIN dedupSeen' :
            /\ dedupSeen'[q] = dedupSeen[p]
            /\ Len(dedupSeen') - q <= (Len(dedupSeen) - p) + (Len(accepted') - Len(accepted))
        \/ /\ Len(accepted') = Len(accepted) + 1
           /\ Len(dedupSeen) - p + 1 >= MaxDedupEntries

LEMMA PushLemma ==
    ASSUME DeliveryAssumption, BusTyped, NEW i \in Numbers, NEW e \in Event, push(i, e), now' = now
    PROVE  /\ BusTyped'
           /\ Dropped(e) \/ Passed(i, e)
           /\ NothingInvented(i, e)
           /\ FreshStays
<1> DEFINE n == Len(dedupSeen)
           V == vacuum
           x == [key |-> dedupKey(e), at |-> now]
<1>1. /\ MaxTime \in Nat /\ MaxFaults \in Nat /\ MaxDedupEntries \in Nat \ {0}
      /\ n \in Nat /\ n <= MaxDedupEntries /\ DOMAIN dedupSeen = 1 .. n
      /\ dedupSeen \in Seq(Entry)
  BY DEF DeliveryAssumption, BusTyped
<1>2. Swept(V, n)
  BY <1>1, VacuumLemma
<1> HIDE DEF V
<1>3. /\ V \in Seq(Entry) /\ Len(V) \in Nat /\ Len(V) <= n /\ Len(V) <= MaxDedupEntries
      /\ DOMAIN V = 1 .. Len(V)
      /\ \A q \in DOMAIN V : \E p \in 1 .. n : V[q] = dedupSeen[p]
      /\ \A p \in 1 .. n : Fresh(p) =>
            \E q \in DOMAIN V : V[q] = dedupSeen[p] /\ Len(V) - q <= n - p
  <2>1. /\ V \in Seq(Entry) /\ Len(V) <= n
        /\ \A q \in 1 .. Len(V) : \E p \in 1 .. n : V[q] = dedupSeen[p]
        /\ \A p \in 1 .. n : Fresh(p) =>
            \E q \in 1 .. Len(V) : V[q] = dedupSeen[p] /\ Len(V) - q <= n - p
    BY <1>2, Zenon DEF Swept
  <2>2. Len(V) \in Nat /\ DOMAIN V = 1 .. Len(V)
    BY <2>1
  <2>3. Len(V) <= MaxDedupEntries
    BY <1>1, <2>1, <2>2
  <2> QED
    BY <2>1, <2>2, <2>3, Zenon
<1>4. x \in Entry
  BY <1>1, KeyIsKey DEF Entry, BusTyped
<1> HIDE DEF n
<1>5. CASE \E k \in DOMAIN V : V[k].key = dedupKey(e)
  <2>1. dedupSeen' = V /\ accepted' = accepted /\ faults' = faults
    BY <1>5 DEF push, V
  <2>2. BusTyped'
    BY <1>3, <2>1 DEF BusTyped, Entry, Key, Numbers
  <2>3. Dropped(e)
    BY <1>1, <1>3, <1>5, <2>1 DEF Dropped
  <2>4. NothingInvented(i, e)
    BY <1>1, <1>3, <2>1 DEF NothingInvented
  <2>5. Len(accepted) \in Nat /\ Len(accepted') - Len(accepted) = 0
    BY <2>1 DEF BusTyped
  <2>6. \A p \in 1 .. n : Fresh(p) =>
            \E q \in DOMAIN V : /\ V[q] = dedupSeen[p]
                                /\ Len(V) - q <= (n - p) + (Len(accepted') - Len(accepted))
    BY <1>1, <1>3, <2>5
  <2>7. FreshStays
    BY <1>1, <2>1, <2>6 DEF FreshStays, n
  <2> QED
    BY <2>2, <2>3, <2>4, <2>7
<1>6. CASE ~ \E k \in DOMAIN V : V[k].key = dedupKey(e)
  <2>1. PICK shown \in BOOLEAN :
            /\ ~shown => faults < MaxFaults
            /\ faults' = IF shown THEN faults ELSE faults + 1
            /\ accepted' = Append(accepted, [event |-> i, shown |-> shown])
    BY <1>6 DEF push, V
  <2> DEFINE t == dedupSeen'
  <2>2. t = trimOldest(Append(V, x))
    BY <1>6 DEF push, V
  <2> HIDE DEF x, t
  <2>3. /\ t \in Seq(Entry) /\ Len(t) <= MaxDedupEntries
        /\ Len(t) \in DOMAIN t /\ t[Len(t)] = x
        /\ \A q \in DOMAIN t : t[q] = x \/ \E p \in DOMAIN V : t[q] = V[p]
        /\ \A p \in DOMAIN V :
            \/ \E q \in DOMAIN t : t[q] = V[p] /\ Len(t) - q = Len(V) - p + 1
            \/ Len(V) - p + 1 >= MaxDedupEntries
    <3>1. /\ V \in Seq(Entry) /\ Len(V) <= MaxDedupEntries
          /\ x \in Entry /\ MaxDedupEntries \in Nat \ {0}
      BY <1>1, <1>3, <1>4
    <3>2. Trimmed(t, V, x)
      BY <2>2, <3>1, TrimLemma
    <3> QED
      BY <3>2 DEF Trimmed
  <2>4. /\ accepted \in Seq([event: Numbers, shown: BOOLEAN])
        /\ [event |-> i, shown |-> shown] \in [event: Numbers, shown: BOOLEAN]
    BY DEF BusTyped
  <2>5. /\ accepted' \in Seq([event: Numbers, shown: BOOLEAN])
        /\ Len(accepted) \in Nat /\ Len(accepted') = Len(accepted) + 1
    BY <2>1, <2>4, AppendProperties
  <2>6. faults' \in 0 .. MaxFaults
    BY <1>1, <2>1 DEF BusTyped
  <2>7. BusTyped'
    BY <2>3, <2>5, <2>6 DEF BusTyped, Entry, Key, Numbers, t
  <2>8. \A p \in DOMAIN dedupSeen : Fresh(p) => dedupSeen[p].key # dedupKey(e)
    BY <1>1, <1>3, <1>6
  <2>9. Passed(i, e)
    BY <2>1, <2>3, <2>8 DEF Passed, t, x
  <2>10. NothingInvented(i, e)
    <3>1. \A q \in DOMAIN t : t[q] = x \/ \E p \in DOMAIN dedupSeen : t[q] = dedupSeen[p]
      <4> SUFFICES ASSUME NEW q \in DOMAIN t, t[q] # x
                   PROVE  \E p \in DOMAIN dedupSeen : t[q] = dedupSeen[p]
        OBVIOUS
      <4>1. PICK k \in DOMAIN V : t[q] = V[k]
        BY <2>3
      <4>2. PICK p \in 1 .. n : V[k] = dedupSeen[p]
        BY <1>3
      <4> QED
        BY <1>1, <4>1, <4>2
    <3> QED
      BY <2>9, <3>1 DEF NothingInvented, t, x
  <2>11. FreshStays
    <3> SUFFICES ASSUME NEW p \in 1 .. n, Fresh(p)
                 PROVE  \/ \E q \in DOMAIN t :
                            /\ t[q] = dedupSeen[p]
                            /\ Len(t) - q <= (n - p) + (Len(accepted') - Len(accepted))
                        \/ n - p + 1 >= MaxDedupEntries
      BY <1>1, <2>5 DEF FreshStays, t, n
    <3>1. PICK q \in DOMAIN V : V[q] = dedupSeen[p] /\ Len(V) - q <= n - p
      BY <1>3
    <3>2. CASE Len(V) - q + 1 >= MaxDedupEntries
      BY <1>1, <1>3, <3>1, <3>2
    <3>3. CASE \E r \in DOMAIN t : t[r] = V[q] /\ Len(t) - r = Len(V) - q + 1
      <4>1. PICK r \in DOMAIN t : t[r] = V[q] /\ Len(t) - r = Len(V) - q + 1
        BY <3>3
      <4>2. Len(t) - r <= (n - p) + (Len(accepted') - Len(accepted))
        BY <1>1, <1>3, <2>5, <3>1, <4>1
      <4> QED
        BY <3>1, <4>1, <4>2
    <3> QED
      BY <2>3, <3>2, <3>3
  <2> QED
    BY <2>7, <2>9, <2>10, <2>11
<1> QED
  BY <1>5, <1>6

-----------------------------------------------------------------------------
(* What a push does to BusInv *)

\* UnderWay, of given connections
On(cs, i) == \E c \in DOMAIN cs : \E k \in DOMAIN cs[c] : cs[c][k] = i

LEMMA UnderWayIsOn == \A i : UnderWay(i) <=> On(conns, i)
  BY DEF UnderWay, On

\* What is remembered of an event under way is fresh.
LEMMA RememberedIsFresh ==
    ASSUME DeliveryAssumption, BusInv, NEW j \in DOMAIN accepted,
           On(conns, accepted[j].event),
           sent[accepted[j].event].type # "topic_archived", Remembered(j)
    PROVE  \E p \in DOMAIN dedupSeen :
                /\ Fresh(p)
                /\ dedupSeen[p].key = KeyAt(sent[accepted[j].event], dedupSeen[p].at)
                /\ dedupSeen[p].at >= sent[accepted[j].event].second
                /\ Len(dedupSeen) - p <= Len(accepted) - j
<1> DEFINE d == sent[accepted[j].event]
<1>1. accepted[j].event \in DOMAIN sent /\ UnderWay(accepted[j].event)
  BY UnderWayIsOn DEF BusInv, NumbersSent
<1>2. sent \in Seq(Event) /\ now \in Nat /\ MaxTime \in Nat
  BY DEF BusInv, TypeOK, DeliveryAssumption
<1>3. d \in Event
  BY <1>1, <1>2
<1>4. now - d.second < DedupWindow
  BY <1>1 DEF BusInv, Prompt
<1>5. d.second \in Nat
  BY <1>2, <1>3, EventFields
<1> HIDE DEF d
<1>6. PICK p \in DOMAIN dedupSeen :
            /\ dedupSeen[p].key = KeyAt(d, dedupSeen[p].at) /\ dedupSeen[p].at >= d.second
            /\ Len(dedupSeen) - p <= Len(accepted) - j
  BY DEF Remembered, d
<1>7. dedupSeen \in Seq(Entry) /\ dedupSeen[p] \in Entry
  <2>1. dedupSeen \in Seq(Entry)
    BY DEF BusInv, TypeOK, Entry
  <2> QED
    BY <2>1
<1>8. dedupSeen[p].at \in Nat
  <2>1. dedupSeen[p].at \in 0 .. MaxTime
    BY <1>7, Zenon DEF Entry
  <2> QED
    BY <1>2, <2>1
<1>9. DedupWindow \in Nat
  BY DEF DeliveryAssumption
<1>10. Fresh(p)
  BY <1>2, <1>4, <1>5, <1>6, <1>8, <1>9 DEF Fresh
<1> QED
  BY <1>6, <1>10 DEF d

\* Pushing a new event, or a copy of one that was under way
PushOf(i, e) ==
    /\ push(i, e) /\ now' = now /\ e.second <= now
    /\ i \in DOMAIN sent' /\ sent'[i] = e
    /\ \A j \in DOMAIN sent : j \in DOMAIN sent' /\ sent'[j] = sent[j]
    /\ \A j \in Numbers : On(conns', j) => On(conns, j)
    /\ i \in DOMAIN sent => On(conns, i)

\* How accepted grows
LEMMA AcceptedGrows ==
    ASSUME accepted \in Seq([event: Numbers, shown: BOOLEAN]), NEW i \in Numbers, NEW e,
           Dropped(e) \/ Passed(i, e)
    PROVE  /\ Len(accepted) \in Nat /\ DOMAIN accepted = 1 .. Len(accepted)
           /\ DOMAIN accepted' = 1 .. Len(accepted')
           /\ \A k \in 1 .. Len(accepted) : accepted'[k] = accepted[k]
           /\ \/ Len(accepted') = Len(accepted)
              \/ /\ Len(accepted') = Len(accepted) + 1
                 /\ accepted'[Len(accepted) + 1].event = i /\ Passed(i, e)
<1>1. Len(accepted) \in Nat /\ DOMAIN accepted = 1 .. Len(accepted)
  OBVIOUS
<1>2. CASE Dropped(e)
  BY <1>1, <1>2 DEF Dropped
<1>3. CASE Passed(i, e)
  <2>1. PICK shown \in BOOLEAN : accepted' = Append(accepted, [event |-> i, shown |-> shown])
    BY <1>3 DEF Passed
  <2>2. [event |-> i, shown |-> shown] \in [event: Numbers, shown: BOOLEAN]
    OBVIOUS
  <2>3. /\ Len(accepted') = Len(accepted) + 1 /\ DOMAIN accepted' = 1 .. Len(accepted')
        /\ \A k \in 1 .. Len(accepted) : accepted'[k] = accepted[k]
        /\ accepted'[Len(accepted) + 1] = [event |-> i, shown |-> shown]
    BY <2>1, <2>2, AppendProperties
  <2> QED
    BY <1>1, <1>3, <2>3
<1> QED
  BY <1>2, <1>3

LEMMA PushKeeps ==
    ASSUME DeliveryAssumption, BusInv, NEW i \in Numbers, NEW e \in Event, PushOf(i, e)
    PROVE  /\ BusTyped'
           /\ \A k \in DOMAIN accepted' : accepted'[k].event \in DOMAIN sent'
           /\ \A p \in DOMAIN dedupSeen' : dedupSeen'[p].at <= now'
           /\ RemembersUnderWay'
           /\ PassesOnce'
<1> DEFINE n == Len(accepted)
           m == Len(accepted')
<1>1. /\ BusTyped /\ now \in Nat /\ MaxTime \in Nat /\ MaxDedupEntries \in Nat
      /\ accepted \in Seq([event: Numbers, shown: BOOLEAN])
  BY DEF BusInv, TypeOK, BusTyped, Entry, DeliveryAssumption
<1>2. /\ BusTyped' /\ (Dropped(e) \/ Passed(i, e))
      /\ NothingInvented(i, e) /\ FreshStays
  BY <1>1, PushLemma DEF PushOf
<1>3. /\ n \in Nat /\ DOMAIN accepted = 1 .. n /\ DOMAIN accepted' = 1 .. m
      /\ \A k \in 1 .. n : accepted'[k] = accepted[k]
      /\ m = n \/ (m = n + 1 /\ accepted'[n + 1].event = i /\ Passed(i, e))
  BY <1>1, <1>2, AcceptedGrows
<1>4. \A k \in 1 .. n : accepted[k].event \in DOMAIN sent /\ accepted[k].event \in Numbers
  <2> DEFINE Pass == [event: Numbers, shown: BOOLEAN]
  <2>1. \A x \in Pass : x.event \in Numbers
    OBVIOUS
  <2> HIDE DEF Pass
  <2>2. accepted \in Seq(Pass)
    BY <1>1 DEF Pass
  <2>3. \A k \in 1 .. n : accepted[k] \in Pass
    BY <2>2 DEF n
  <2> QED
    BY <1>3, <2>1, <2>3 DEF BusInv, NumbersSent
<1> HIDE DEF n, m
<1>5. \A k \in DOMAIN accepted' : k \in 1 .. n \/ (k = n + 1 /\ m = n + 1)
  BY <1>3
<1>6. \A k \in DOMAIN accepted' : accepted'[k].event \in DOMAIN sent'
  BY <1>3, <1>4, <1>5 DEF PushOf
<1>7. \A p \in DOMAIN dedupSeen' : dedupSeen'[p].at <= now'
  <2> SUFFICES ASSUME NEW p \in DOMAIN dedupSeen' PROVE dedupSeen'[p].at <= now
    BY DEF PushOf
  <2>1. CASE \E q \in DOMAIN dedupSeen : dedupSeen'[p] = dedupSeen[q]
    BY <2>1 DEF BusInv, Prompt
  <2>2. CASE dedupSeen'[p] = [key |-> dedupKey(e), at |-> now]
    BY <1>1, <2>2
  <2> QED
    BY <1>2, <2>1, <2>2 DEF NothingInvented
<1>8. RemembersUnderWay'
  <2> SUFFICES ASSUME NEW j \in DOMAIN accepted', On(conns', accepted'[j].event),
                      sent'[accepted'[j].event].type # "topic_archived"
               PROVE  Remembered(j)' \/ m - j >= MaxDedupEntries
    BY UnderWayIsOn DEF RemembersUnderWay, UnderWay, On, m
  <2> DEFINE d == sent'[accepted'[j].event]
  <2> SUFFICES ASSUME ~(m - j >= MaxDedupEntries)
               PROVE  \E q \in DOMAIN dedupSeen' :
                        /\ dedupSeen'[q].key = KeyAt(d, dedupSeen'[q].at)
                        /\ dedupSeen'[q].at >= d.second
                        /\ Len(dedupSeen') - q <= m - j
    BY DEF Remembered, KeyAt, m
  <2>1. CASE j \in 1 .. n
    <3>1. /\ accepted'[j] = accepted[j] /\ d = sent[accepted[j].event]
          /\ On(conns, accepted[j].event) /\ j \in DOMAIN accepted
      BY <1>3, <1>4, <2>1 DEF PushOf
    <3> HIDE DEF d
    <3>2. d.type # "topic_archived"
      BY DEF d
    <3>3. ~(n - j >= MaxDedupEntries)
      BY <1>1, <1>3, <2>1
    <3>4. Remembered(j)
      BY <3>1, <3>2, <3>3, UnderWayIsOn DEF BusInv, RemembersUnderWay, n
    <3>5. PICK p \in DOMAIN dedupSeen :
                /\ Fresh(p) /\ dedupSeen[p].key = KeyAt(d, dedupSeen[p].at)
                /\ dedupSeen[p].at >= d.second
                /\ Len(dedupSeen) - p <= n - j
      BY <3>1, <3>2, <3>4, RememberedIsFresh DEF n
    <3>6. Len(dedupSeen) \in Nat /\ p \in Nat
      BY <1>1 DEF BusTyped
    <3>7. ~(m = n + 1 /\ Len(dedupSeen) - p + 1 >= MaxDedupEntries)
      BY <1>1, <1>3, <2>1, <3>5, <3>6
    <3>8. PICK q \in DOMAIN dedupSeen' :
                /\ dedupSeen'[q] = dedupSeen[p]
                /\ Len(dedupSeen') - q <= (Len(dedupSeen) - p) + (m - n)
      BY <1>2, <3>5, <3>7 DEF FreshStays, m, n
    <3>9. Len(dedupSeen') \in Nat /\ q \in Nat
      BY <1>2 DEF BusTyped
    <3>10. Len(dedupSeen') - q <= m - j
      BY <1>3, <2>1, <3>5, <3>6, <3>8, <3>9
    <3> QED
      BY <3>5, <3>8, <3>10
  <2>2. CASE j = n + 1 /\ m = n + 1
    <3>1. Passed(i, e) /\ d = e
      BY <1>3, <2>2 DEF PushOf
    <3>2. /\ Len(dedupSeen') \in DOMAIN dedupSeen'
          /\ dedupSeen'[Len(dedupSeen')] = [key |-> dedupKey(e), at |-> now]
      BY <3>1 DEF Passed
    <3>3. e.second <= now /\ dedupKey(e) = KeyAt(e, now)
      BY <1>1, KeyIsKey DEF PushOf, BusTyped
    <3>4. Len(dedupSeen') - Len(dedupSeen') <= m - j
      <4>1. Len(dedupSeen') \in Nat
        BY <1>2 DEF BusTyped
      <4> QED
        BY <1>3, <2>2, <4>1
    <3>5. now >= e.second
      <4>1. e.second \in Nat
        BY <1>1, EventFields
      <4> QED
        BY <1>1, <3>3, <4>1
    <3> HIDE DEF d
    <3> QED
      BY <3>1, <3>2, <3>3, <3>4, <3>5
  <2> QED
    BY <1>5, <2>1, <2>2
<1>9. PassesOnce'
  <2> SUFFICES ASSUME NEW j \in DOMAIN accepted', NEW k \in DOMAIN accepted',
                      j < k, accepted'[j].event = accepted'[k].event,
                      sent'[accepted'[j].event].type # "topic_archived"
               PROVE  k - j > MaxDedupEntries
    BY DEF PassesOnce
  <2>1. j \in Nat /\ k \in Nat /\ j \in 1 .. n
    BY <1>3, <1>5
  <2>2. /\ j \in DOMAIN accepted /\ accepted'[j] = accepted[j]
        /\ sent'[accepted[j].event] = sent[accepted[j].event]
    BY <1>3, <1>4, <2>1 DEF PushOf
  <2>3. CASE k \in 1 .. n
    <3>1. k \in DOMAIN accepted /\ accepted'[k] = accepted[k]
      BY <1>3, <2>3
    <3> QED
      BY <2>2, <3>1 DEF BusInv, PassesOnce
  <2>4. CASE k = n + 1 /\ m = n + 1
    <3>1. accepted[j].event = i /\ Passed(i, e)
      BY <1>3, <2>2, <2>4
    <3>2. i \in DOMAIN sent /\ On(conns, i) /\ sent[i] = e
      BY <1>4, <2>1, <2>2, <3>1 DEF PushOf
    <3>3. ~Remembered(j)
      <4> SUFFICES ASSUME Remembered(j) PROVE FALSE
        OBVIOUS
      <4>1. PICK p \in DOMAIN dedupSeen : Fresh(p) /\ dedupSeen[p].key = KeyAt(e, dedupSeen[p].at)
        BY <2>2, <3>1, <3>2, RememberedIsFresh
      <4>2. dedupSeen[p].key = dedupKey(e)
        BY <2>2, <3>1, <3>2, <4>1 DEF KeyAt, dedupKey
      <4> QED
        BY <3>1, <4>1, <4>2 DEF Passed
    <3>4. n - j >= MaxDedupEntries
      BY <2>2, <3>1, <3>2, <3>3, UnderWayIsOn DEF BusInv, RemembersUnderWay, n
    <3> QED
      BY <1>1, <1>3, <2>1, <2>4, <3>4
  <2> QED
    BY <1>5, <2>3, <2>4
<1> QED
  BY <1>2, <1>6, <1>7, <1>8, <1>9

-----------------------------------------------------------------------------
(* What is under way *)

ConnsTyped == IsMap(conns, Conns, Seq(Numbers))

LEMMA SendUnderWay ==
    ASSUME ConnsTyped, NEW n \in Numbers,
           conns' = [c \in DOMAIN conns |-> Append(conns[c], n)]
    PROVE  /\ ConnsTyped'
           /\ \A i : On(conns', i) => On(conns, i) \/ i = n
           /\ \A i : On(conns, i) => On(conns', i)
           /\ DOMAIN conns # {} => On(conns', n)
<1>1. ASSUME NEW c \in DOMAIN conns
      PROVE  /\ conns[c] \in Seq(Numbers) /\ c \in Conns
             /\ conns'[c] \in Seq(Numbers) /\ Len(conns[c]) \in Nat
             /\ DOMAIN conns[c] = 1 .. Len(conns[c])
             /\ DOMAIN conns'[c] = 1 .. Len(conns[c]) + 1
             /\ \A k \in 1 .. Len(conns[c]) : conns'[c][k] = conns[c][k]
             /\ conns'[c][Len(conns[c]) + 1] = n
  <2>1. conns[c] \in Seq(Numbers) /\ c \in Conns /\ conns'[c] = Append(conns[c], n)
    BY <1>1 DEF ConnsTyped, IsMap
  <2> QED
    BY <2>1, AppendProperties
<1>2. DOMAIN conns' = DOMAIN conns
  OBVIOUS
<1>3. ConnsTyped'
  BY <1>1, <1>2 DEF ConnsTyped, IsMap
<1>4. ASSUME NEW i, On(conns', i), i # n PROVE On(conns, i)
  <2>1. PICK c \in DOMAIN conns : \E k \in DOMAIN conns'[c] : conns'[c][k] = i
    BY <1>2, <1>4 DEF On
  <2>2. PICK k \in 1 .. Len(conns[c]) + 1 : conns'[c][k] = i
    BY <1>1, <2>1
  <2>3. k \in 1 .. Len(conns[c])
    BY <1>1, <1>4, <2>2
  <2> QED
    BY <1>1, <2>2, <2>3 DEF On
<1>5. ASSUME NEW i, On(conns, i) PROVE On(conns', i)
  <2>1. PICK c \in DOMAIN conns : \E k \in DOMAIN conns[c] : conns[c][k] = i
    BY <1>5 DEF On
  <2>2. PICK k \in 1 .. Len(conns[c]) : conns[c][k] = i
    BY <1>1, <2>1
  <2>3. k \in DOMAIN conns'[c] /\ conns'[c][k] = i
    BY <1>1, <2>2
  <2> QED
    BY <1>2, <2>3 DEF On
<1>6. ASSUME DOMAIN conns # {} PROVE On(conns', n)
  <2>1. PICK c \in DOMAIN conns : TRUE
    BY <1>6
  <2>2. Len(conns[c]) + 1 \in DOMAIN conns'[c]
    BY <1>1
  <2> QED
    BY <1>1, <1>2, <2>2 DEF On
<1> QED
  BY <1>3, <1>4, <1>5, <1>6

LEMMA TakeUnderWay ==
    ASSUME ConnsTyped, NEW c \in DOMAIN conns, conns[c] # <<>>,
           conns' = [conns EXCEPT ![c] = Tail(@)]
    PROVE  /\ ConnsTyped'
           /\ Head(conns[c]) \in Numbers /\ On(conns, Head(conns[c]))
           /\ \A i : On(conns', i) => On(conns, i)
           /\ \A i : On(conns, i) => On(conns', i) \/ i = Head(conns[c])
<1> DEFINE q == conns[c]
<1>1. q \in Seq(Numbers) /\ q # <<>> /\ \A d \in DOMAIN conns : conns[d] \in Seq(Numbers)
  BY DEF ConnsTyped, IsMap
<1>2. /\ DOMAIN conns' = DOMAIN conns /\ conns'[c] = Tail(q)
      /\ \A d \in DOMAIN conns : d # c => conns'[d] = conns[d]
  BY DEF ConnsTyped, IsMap
<1> HIDE DEF q
<1>3. /\ Len(q) \in Nat \ {0} /\ DOMAIN q = 1 .. Len(q) /\ Head(q) = q[1] /\ q[1] \in Numbers
      /\ Tail(q) \in Seq(Numbers) /\ DOMAIN Tail(q) = 1 .. Len(q) - 1
      /\ \A k \in 1 .. Len(q) - 1 : Tail(q)[k] = q[k + 1]
  BY <1>1
<1>4. ConnsTyped'
  <2>1. \A d \in DOMAIN conns : conns'[d] \in Seq(Numbers)
    BY <1>1, <1>2, <1>3
  <2>2. conns' = [d \in DOMAIN conns' |-> conns'[d]]
    BY <1>2 DEF ConnsTyped, IsMap
  <2> QED
    BY <1>2, <2>1, <2>2 DEF ConnsTyped, IsMap
<1>5. On(conns, Head(q))
  <2>1. 1 \in DOMAIN q
    BY <1>3
  <2> QED
    BY <1>3, <2>1 DEF On, q
<1>6. ASSUME NEW i, On(conns', i) PROVE On(conns, i)
  <2>1. PICK d \in DOMAIN conns : \E k \in DOMAIN conns'[d] : conns'[d][k] = i
    BY <1>2, <1>6 DEF On
  <2>2. CASE d # c
    BY <1>2, <2>1, <2>2 DEF On
  <2>3. CASE d = c
    <3>1. PICK k \in 1 .. Len(q) - 1 : Tail(q)[k] = i
      BY <1>2, <1>3, <2>1, <2>3
    <3>2. k + 1 \in DOMAIN q /\ q[k + 1] = i
      BY <1>3, <3>1
    <3> QED
      BY <3>2 DEF On, q
  <2> QED
    BY <2>2, <2>3
<1>7. ASSUME NEW i, On(conns, i), i # Head(q) PROVE On(conns', i)
  <2>1. PICK d \in DOMAIN conns : \E k \in DOMAIN conns[d] : conns[d][k] = i
    BY <1>7 DEF On
  <2>2. CASE d # c
    BY <1>2, <2>1, <2>2 DEF On
  <2>3. CASE d = c
    <3>1. PICK k \in 1 .. Len(q) : q[k] = i
      BY <1>3, <2>1, <2>3 DEF q
    <3>2. k - 1 \in 1 .. Len(q) - 1 /\ (k - 1) + 1 = k
      BY <1>3, <1>7, <3>1
    <3>3. k - 1 \in DOMAIN conns'[c] /\ conns'[c][k - 1] = i
      BY <1>2, <1>3, <3>1, <3>2
    <3> QED
      BY <1>2, <3>3 DEF On
  <2> QED
    BY <2>2, <2>3
<1> QED
  BY <1>3, <1>4, <1>5, <1>6, <1>7 DEF q

LEMMA BreakUnderWay ==
    ASSUME ConnsTyped, NEW c, conns' = Del(conns, c)
    PROVE  ConnsTyped' /\ \A i : On(conns', i) => On(conns, i)
<1>1. /\ DOMAIN conns' = (DOMAIN conns) \ {c}
      /\ \A d \in DOMAIN conns' : d \in DOMAIN conns /\ conns'[d] = conns[d]
  BY DEF Del
<1>2. \A d \in DOMAIN conns : conns[d] \in Seq(Numbers) /\ d \in Conns
  BY DEF ConnsTyped, IsMap
<1>3. conns' = [d \in DOMAIN conns' |-> conns'[d]]
  BY DEF Del
<1>4. ConnsTyped'
  BY <1>1, <1>2, <1>3 DEF ConnsTyped, IsMap
<1>5. \A i : On(conns', i) => On(conns, i)
  BY <1>1, Zenon DEF On
<1> QED
  BY <1>4, <1>5

LEMMA ConnectUnderWay ==
    ASSUME ConnsTyped, NEW c \in Conns \ DOMAIN conns, conns' = Put(conns, c, <<>>)
    PROVE  ConnsTyped' /\ \A i : On(conns', i) <=> On(conns, i)
<1>1. /\ DOMAIN conns' = (DOMAIN conns) \cup {c} /\ conns'[c] = <<>>
      /\ \A d \in DOMAIN conns : conns'[d] = conns[d]
  BY DEF Put
<1>2. \A d \in DOMAIN conns : conns[d] \in Seq(Numbers) /\ d \in Conns
  BY DEF ConnsTyped, IsMap
<1>3. conns' = [d \in DOMAIN conns' |-> conns'[d]]
  BY DEF Put
<1>4. <<>> \in Seq(Numbers) /\ DOMAIN <<>> = {}
  BY EmptySeq
<1>5. ConnsTyped'
  BY <1>1, <1>2, <1>3, <1>4 DEF ConnsTyped, IsMap
<1>6. \A i : On(conns', i) => On(conns, i)
  <2> SUFFICES ASSUME NEW i, On(conns', i) PROVE On(conns, i)
    OBVIOUS
  <2>1. PICK d \in DOMAIN conns' : \E k \in DOMAIN conns'[d] : conns'[d][k] = i
    BY Zenon DEF On
  <2>2. d # c
    BY <1>1, <1>4, <2>1
  <2> QED
    BY <1>1, <2>1, <2>2 DEF On
<1>7. \A i : On(conns, i) => On(conns', i)
  BY <1>1 DEF On
<1> QED
  BY <1>5, <1>6, <1>7

-----------------------------------------------------------------------------
(* Each step keeps BusInv *)

LEMMA Typed ==
    ASSUME DeliveryAssumption, BusInv
    PROVE  /\ now \in Nat /\ now \in 0 .. MaxTime /\ MaxTime \in Nat /\ MaxEvents \in Nat
           /\ MaxFaults \in Nat /\ DedupWindow \in Nat \ {0}
           /\ sent \in Seq(Event) /\ Len(sent) \in Nat /\ Len(sent) <= MaxEvents
           /\ DOMAIN sent = 1 .. Len(sent)
           /\ ConnsTyped /\ BusTyped /\ owed \subseteq Numbers /\ owed \subseteq DOMAIN sent
           /\ \A i \in DOMAIN sent : i \in Numbers /\ sent[i] \in Event
<1>1. /\ now \in Nat /\ MaxTime \in Nat /\ MaxEvents \in Nat
      /\ MaxFaults \in Nat /\ DedupWindow \in Nat \ {0}
      /\ now \in 0 .. MaxTime /\ sent \in Seq(Event) /\ Len(sent) <= MaxEvents
      /\ ConnsTyped /\ BusTyped /\ owed \subseteq Numbers /\ owed \subseteq DOMAIN sent
  BY DEF DeliveryAssumption, BusInv, TypeOK, NumbersSent, ConnsTyped, BusTyped, Entry
<1>2. Len(sent) \in Nat /\ DOMAIN sent = 1 .. Len(sent)
  BY <1>1
<1>3. \A i \in DOMAIN sent : i \in Numbers
  BY <1>1, <1>2 DEF Numbers
<1>4. \A i \in DOMAIN sent : sent[i] \in Event
  BY <1>1, <1>2
<1> QED
  BY <1>1, <1>2, <1>3, <1>4

\* One more event is sent.
LEMMA SentGrows ==
    ASSUME DeliveryAssumption, BusInv, NEW e \in Event, Len(sent) < MaxEvents,
           sent' = Append(sent, e)
    PROVE  /\ sent' \in Seq(Event) /\ Len(sent') <= MaxEvents
           /\ Len(sent) + 1 \in Numbers /\ Len(sent) + 1 \in DOMAIN sent'
           /\ Len(sent) + 1 \notin DOMAIN sent /\ sent'[Len(sent) + 1] = e
           /\ \A j \in DOMAIN sent : j \in DOMAIN sent' /\ sent'[j] = sent[j]
           /\ \A j \in DOMAIN sent' : j \in DOMAIN sent \/ j = Len(sent) + 1
<1> DEFINE n == Len(sent)
<1>1. sent \in Seq(Event) /\ n \in Nat /\ DOMAIN sent = 1 .. n /\ MaxEvents \in Nat
  BY Typed
<1>2. /\ sent' \in Seq(Event) /\ Len(sent') = n + 1 /\ DOMAIN sent' = 1 .. n + 1
      /\ sent'[n + 1] = e /\ \A j \in 1 .. n : sent'[j] = sent[j]
  BY <1>1, AppendProperties
<1>3. n < MaxEvents
  OBVIOUS
<1> HIDE DEF n
<1>4. /\ n + 1 \in Numbers /\ n + 1 \in 1 .. n + 1 /\ n + 1 \notin 1 .. n
      /\ \A j \in 1 .. n : j \in 1 .. n + 1
      /\ \A j \in 1 .. n + 1 : j \in 1 .. n \/ j = n + 1
      /\ n + 1 <= MaxEvents
  BY <1>1, <1>3 DEF Numbers
<1> QED
  BY <1>1, <1>2, <1>4 DEF n

\* A step that leaves the bus alone, and puts no event under way again
LEMMA QuietKeeps ==
    ASSUME BusInv, UNCHANGED busVars,
           \A j \in DOMAIN sent : j \in DOMAIN sent' /\ sent'[j] = sent[j],
           \A j \in DOMAIN sent : On(conns', j) => On(conns, j)
    PROVE  /\ \A k \in DOMAIN accepted' : accepted'[k].event \in DOMAIN sent'
           /\ RemembersUnderWay' /\ PassesOnce'
<1>1. \A k \in DOMAIN accepted : accepted[k].event \in DOMAIN sent
  BY DEF BusInv, NumbersSent
<1>2. accepted' = accepted /\ dedupSeen' = dedupSeen
  BY DEF busVars
<1>3. RemembersUnderWay'
  <2> SUFFICES ASSUME NEW j \in DOMAIN accepted, On(conns', accepted[j].event),
                      sent[accepted[j].event].type # "topic_archived"
               PROVE  Remembered(j) \/ Len(accepted) - j >= MaxDedupEntries
    BY <1>1, <1>2 DEF RemembersUnderWay, Remembered, UnderWay, On, KeyAt
  <2>1. UnderWay(accepted[j].event)
    BY <1>1, UnderWayIsOn
  <2> QED
    BY <2>1 DEF BusInv, RemembersUnderWay
<1>4. PassesOnce'
  BY <1>1, <1>2 DEF BusInv, PassesOnce
<1> QED
  BY <1>1, <1>2, <1>3, <1>4

\* BusInv in the terms of On
LEMMA BusInvNext ==
    ASSUME TypeOK',
           \A i \in Numbers : On(conns', i) => i \in DOMAIN sent',
           \A k \in DOMAIN accepted' : accepted'[k].event \in DOMAIN sent',
           owed' \subseteq DOMAIN sent',
           \A i \in DOMAIN sent' : sent'[i].second <= now',
           \A i \in DOMAIN sent' : On(conns', i) => now' - sent'[i].second < DedupWindow,
           \A p \in DOMAIN dedupSeen' : dedupSeen'[p].at <= now',
           RemembersUnderWay', PassesOnce'
    PROVE  BusInv'
<1>1. NumbersSent'
  BY DEF NumbersSent, UnderWay, On
<1>2. Prompt'
  BY DEF Prompt, UnderWay, On
<1> QED
  BY <1>1, <1>2 DEF BusInv

LEMMA Before ==
    ASSUME BusInv
    PROVE  /\ \A i \in Numbers : On(conns, i) => i \in DOMAIN sent
           /\ \A i \in DOMAIN sent : sent[i].second <= now
           /\ \A i \in DOMAIN sent : On(conns, i) => now - sent[i].second < DedupWindow
           /\ \A p \in DOMAIN dedupSeen : dedupSeen[p].at <= now
  BY UnderWayIsOn DEF BusInv, NumbersSent, Prompt

LEMMA SendKeeps ==
    ASSUME DeliveryAssumption, BusInv, NEW type, NEW sender, NEW topic, NEW text,
           BrokerSends(type, sender, topic, text),
           [location |-> "local", type |-> type, sender |-> sender, topic |-> topic,
            text |-> text, second |-> now] \in Event
    PROVE  BusInv'
<1> DEFINE e == [location |-> "local", type |-> type, sender |-> sender, topic |-> topic,
                 text |-> text, second |-> now]
           n == Len(sent) + 1
<1>1. /\ Len(sent) < MaxEvents /\ sent' = Append(sent, e)
      /\ conns' = [c \in DOMAIN conns |-> Append(conns[c], n)]
      /\ owed' \subseteq owed \cup {n}
      /\ UNCHANGED <<now, timers, subscribed, joined, busVars, faults>>
  BY DEF BrokerSends
<1>2. e \in Event /\ e.second = now
  OBVIOUS
<1> HIDE DEF e
<1>3. /\ sent' \in Seq(Event) /\ Len(sent') <= MaxEvents /\ n \in Numbers
      /\ n \in DOMAIN sent' /\ n \notin DOMAIN sent /\ sent'[n] = e
      /\ \A j \in DOMAIN sent : j \in DOMAIN sent' /\ sent'[j] = sent[j]
      /\ \A j \in DOMAIN sent' : j \in DOMAIN sent \/ j = n
  BY <1>1, <1>2, SentGrows
<1> HIDE DEF n
<1>4. ConnsTyped
  BY Typed
<1>5. /\ ConnsTyped' /\ \A i : On(conns', i) => On(conns, i) \/ i = n
  BY <1>1, <1>3, <1>4, SendUnderWay
<1>6. /\ owed \subseteq Numbers /\ owed \subseteq DOMAIN sent
      /\ now \in Nat /\ DedupWindow \in Nat \ {0}
  BY Typed
<1>7. TypeOK'
  BY <1>1, <1>3, <1>5, <1>6 DEF BusInv, TypeOK, ConnsTyped, busVars
<1>8. /\ \A k \in DOMAIN accepted' : accepted'[k].event \in DOMAIN sent'
      /\ RemembersUnderWay' /\ PassesOnce'
  BY <1>1, <1>3, <1>5, QuietKeeps
<1>9. \A i \in Numbers : On(conns', i) => i \in DOMAIN sent'
  BY <1>3, <1>5, Before
<1>10. \A i \in DOMAIN sent' : /\ sent'[i].second <= now'
                               /\ On(conns', i) => now' - sent'[i].second < DedupWindow
  BY <1>1, <1>2, <1>3, <1>5, <1>6, Before
<1>11. \A p \in DOMAIN dedupSeen' : dedupSeen'[p].at <= now'
  BY <1>1, Before DEF busVars
<1>12. owed' \subseteq DOMAIN sent'
  BY <1>1, <1>3, <1>6
<1> QED
  BY <1>7, <1>8, <1>9, <1>10, <1>11, <1>12, BusInvNext

LEMMA ProcessKeeps ==
    ASSUME DeliveryAssumption, BusInv, NEW c \in Conns, processLocalEvent(c)
    PROVE  BusInv'
<1> DEFINE i == Head(conns[c])
<1>1. /\ c \in DOMAIN conns /\ conns[c] # <<>>
      /\ conns' = [conns EXCEPT ![c] = Tail(@)]
      /\ IF Deliverable(sent[i]) THEN push(i, sent[i]) ELSE UNCHANGED <<busVars, faults>>
      /\ UNCHANGED <<now, sent, timers, subscribed, joined, owed>>
  BY DEF processLocalEvent
<1>2. /\ ConnsTyped' /\ i \in Numbers /\ On(conns, i)
      /\ \A j : On(conns', j) => On(conns, j)
  <2>1. ConnsTyped
    BY Typed
  <2> QED
    BY <1>1, <2>1, TakeUnderWay
<1> HIDE DEF i
<1>3. i \in DOMAIN sent /\ sent[i] \in Event /\ sent[i].second <= now
  BY <1>2, Before, Typed
<1>4. /\ BusTyped'
      /\ \A k \in DOMAIN accepted' : accepted'[k].event \in DOMAIN sent'
      /\ \A p \in DOMAIN dedupSeen' : dedupSeen'[p].at <= now'
      /\ RemembersUnderWay' /\ PassesOnce'
  <2>1. CASE push(i, sent[i])
    <3>1. PushOf(i, sent[i])
      BY <1>1, <1>2, <1>3, <2>1 DEF PushOf
    <3> QED
      BY <1>2, <1>3, <3>1, PushKeeps
  <2>2. CASE UNCHANGED <<busVars, faults>>
    <3>1. BusTyped'
      BY <1>1, <2>2, Typed DEF BusTyped, busVars, Entry, Key, Numbers
    <3>2. \A p \in DOMAIN dedupSeen' : dedupSeen'[p].at <= now'
      BY <1>1, <2>2, Before DEF busVars
    <3> QED
      BY <1>1, <1>2, <2>2, <3>1, <3>2, QuietKeeps
  <2> QED
    BY <1>1, <2>1, <2>2
<1>5. TypeOK'
  BY <1>1, <1>2, <1>4 DEF BusInv, TypeOK, ConnsTyped, BusTyped, Entry, Event, Key
<1>6. /\ \A j \in Numbers : On(conns', j) => j \in DOMAIN sent'
      /\ \A j \in DOMAIN sent' : /\ sent'[j].second <= now'
                                 /\ On(conns', j) => now' - sent'[j].second < DedupWindow
  BY <1>1, <1>2, Before
<1>7. owed' \subseteq DOMAIN sent'
  BY <1>1, Typed
<1> QED
  BY <1>4, <1>5, <1>6, <1>7, BusInvNext

LEMMA RemoteKeeps ==
    ASSUME DeliveryAssumption, BusInv, NEW text \in Texts, RemoteFeed(text)
    PROVE  BusInv'
<1> DEFINE e == [location |-> "remote", type |-> "broadcast", sender |-> "peer",
                 topic |-> NoTopic, text |-> text, second |-> now]
           n == Len(sent) + 1
<1>1. /\ Len(sent) < MaxEvents /\ sent' = Append(sent, e) /\ push(n, e)
      /\ UNCHANGED <<now, conns, timers, subscribed, joined, owed>>
  BY DEF RemoteFeed
<1>2. e \in Event /\ e.second = now
  <2>1. now \in 0 .. MaxTime
    BY Typed
  <2> QED
    BY <2>1 DEF Event, Locations, Senders
<1> HIDE DEF e
<1>3. /\ sent' \in Seq(Event) /\ Len(sent') <= MaxEvents /\ n \in Numbers
      /\ n \in DOMAIN sent' /\ n \notin DOMAIN sent /\ sent'[n] = e
      /\ \A j \in DOMAIN sent : j \in DOMAIN sent' /\ sent'[j] = sent[j]
      /\ \A j \in DOMAIN sent' : j \in DOMAIN sent \/ j = n
  BY <1>1, <1>2, SentGrows
<1> HIDE DEF n
<1>4. now \in Nat /\ DedupWindow \in Nat \ {0} /\ ConnsTyped /\ owed \subseteq DOMAIN sent
  BY Typed
<1>5. PushOf(n, e)
  BY <1>1, <1>2, <1>3, <1>4 DEF PushOf
<1>6. /\ BusTyped'
      /\ \A k \in DOMAIN accepted' : accepted'[k].event \in DOMAIN sent'
      /\ \A p \in DOMAIN dedupSeen' : dedupSeen'[p].at <= now'
      /\ RemembersUnderWay' /\ PassesOnce'
  BY <1>2, <1>3, <1>5, PushKeeps
<1>7. TypeOK'
  BY <1>1, <1>3, <1>6 DEF BusInv, TypeOK, BusTyped, Entry, Event, Key
<1>8. \A i \in Numbers : On(conns', i) => i \in DOMAIN sent'
  BY <1>1, <1>3, Before
<1>9. \A i \in DOMAIN sent' : /\ sent'[i].second <= now'
                              /\ On(conns', i) => now' - sent'[i].second < DedupWindow
  BY <1>1, <1>2, <1>3, <1>4, Before
<1>10. owed' \subseteq DOMAIN sent'
  BY <1>1, <1>3, <1>4
<1> QED
  BY <1>6, <1>7, <1>8, <1>9, <1>10, BusInvNext

\* A step in which nothing is sent and nothing reaches the bus, and time stands still
LEMMA StillKeeps ==
    ASSUME DeliveryAssumption, BusInv, TypeOK', UNCHANGED <<now, sent, busVars>>,
           \A i : On(conns', i) => On(conns, i), owed' \subseteq owed
    PROVE  BusInv'
<1>1. now' = now /\ sent' = sent /\ dedupSeen' = dedupSeen
  BY DEF busVars
<1>2. /\ \A k \in DOMAIN accepted' : accepted'[k].event \in DOMAIN sent'
      /\ RemembersUnderWay' /\ PassesOnce'
  BY QuietKeeps
<1>3. /\ \A i \in Numbers : On(conns', i) => i \in DOMAIN sent'
      /\ \A i \in DOMAIN sent' : sent'[i].second <= now'
      /\ \A i \in DOMAIN sent' : On(conns', i) => now' - sent'[i].second < DedupWindow
      /\ \A p \in DOMAIN dedupSeen' : dedupSeen'[p].at <= now'
  BY <1>1, Before
<1>4. owed' \subseteq DOMAIN sent'
  BY <1>1, Typed
<1> QED
  BY <1>2, <1>3, <1>4, BusInvNext

LEMMA BreakKeeps ==
    ASSUME DeliveryAssumption, BusInv, NEW c \in Conns, Break(c)
    PROVE  BusInv'
<1>1. /\ faults < MaxFaults /\ faults' = faults + 1 /\ conns' = Del(conns, c)
      /\ \E errors \in {1, 2} : timers' = timers + errors
      /\ owed' \subseteq owed
      /\ UNCHANGED <<now, sent, subscribed, joined, busVars>>
  BY DEF Break, scheduleReconnect
<1>2. ConnsTyped /\ MaxFaults \in Nat /\ owed \subseteq Numbers
  BY Typed
<1>3. ConnsTyped' /\ \A i : On(conns', i) => On(conns, i)
  BY <1>1, <1>2, BreakUnderWay
<1>4. timers' \in Nat /\ faults' \in 0 .. MaxFaults
  BY <1>1, <1>2 DEF BusInv, TypeOK
<1>5. TypeOK'
  BY <1>1, <1>2, <1>3, <1>4 DEF BusInv, TypeOK, ConnsTyped, busVars
<1> QED
  BY <1>1, <1>3, <1>5, StillKeeps

LEMMA ConnectKeeps ==
    ASSUME DeliveryAssumption, BusInv, NEW c \in Conns, connect(c)
    PROVE  BusInv'
<1>1. /\ timers > 0 /\ c \notin DOMAIN conns /\ timers' = timers - 1
      /\ conns' = Put(conns, c, <<>>)
      /\ UNCHANGED <<now, sent, subscribed, joined, busVars, owed, faults>>
  BY DEF connect
<1>2. ConnsTyped
  BY Typed
<1>3. ConnsTyped' /\ \A i : On(conns', i) => On(conns, i)
  BY <1>1, <1>2, ConnectUnderWay
<1>4. timers' \in Nat
  BY <1>1 DEF BusInv, TypeOK
<1>5. TypeOK'
  BY <1>1, <1>3, <1>4 DEF BusInv, TypeOK, ConnsTyped, busVars
<1> QED
  BY <1>1, <1>3, <1>5, StillKeeps

LEMMA MembershipKeeps ==
    ASSUME DeliveryAssumption, BusInv, NEW locations \in SUBSET Locations,
           NEW topics \in SUBSET Topics, Membership(locations, topics)
    PROVE  BusInv'
<1>1. /\ subscribed' = locations /\ joined' = topics
      /\ UNCHANGED <<now, sent, conns, timers, busVars, faults>>
      /\ owed' \subseteq owed
  BY DEF Membership
<1>2. \A i : On(conns', i) => On(conns, i)
  BY <1>1
<1>3. TypeOK'
  BY <1>1 DEF BusInv, TypeOK, busVars
<1> QED
  BY <1>1, <1>2, <1>3, StillKeeps

LEMMA TickKeeps ==
    ASSUME DeliveryAssumption, BusInv, Tick
    PROVE  BusInv'
<1>1. /\ now < MaxTime /\ now' = now + 1
      /\ \A i \in DOMAIN sent : On(conns, i) => now' - sent[i].second < DedupWindow
      /\ UNCHANGED <<sent, conns, timers, subscribed, joined, busVars, owed, faults>>
  <2>1. /\ now < MaxTime /\ now' = now + 1
        /\ \A i \in DOMAIN sent : UnderWay(i) => (now + 1) - sent[i].second < DedupWindow
        /\ UNCHANGED <<sent, conns, timers, subscribed, joined, busVars, owed, faults>>
    BY DEF Tick
  <2>2. \A i \in DOMAIN sent : On(conns, i) => now' - sent[i].second < DedupWindow
    <3> SUFFICES ASSUME NEW i \in DOMAIN sent, On(conns, i)
                 PROVE  now' - sent[i].second < DedupWindow
      OBVIOUS
    <3>1. UnderWay(i)
      BY UnderWayIsOn
    <3>2. (now + 1) - sent[i].second < DedupWindow
      BY <2>1, <3>1
    <3> QED
      BY <2>1, <3>2
  <2> QED
    BY <2>1, <2>2
<1>2. now \in Nat /\ MaxTime \in Nat
  BY Typed
<1>3. now' \in 0 .. MaxTime
  BY <1>1, <1>2
<1>4. TypeOK'
  BY <1>1, <1>3 DEF BusInv, TypeOK, busVars
<1>5. /\ \A k \in DOMAIN accepted' : accepted'[k].event \in DOMAIN sent'
      /\ RemembersUnderWay' /\ PassesOnce'
  BY <1>1, QuietKeeps
<1>6. \A i \in DOMAIN sent : sent[i].second <= now'
  <2> SUFFICES ASSUME NEW i \in DOMAIN sent PROVE sent[i].second <= now'
    OBVIOUS
  <2>1. sent[i].second <= now /\ sent[i] \in Event
    BY Before, Typed
  <2>2. sent[i].second \in Nat
    BY <1>2, <2>1, EventFields
  <2> QED
    BY <1>1, <1>2, <2>1, <2>2
<1>7. \A p \in DOMAIN dedupSeen : dedupSeen[p].at <= now'
  <2> SUFFICES ASSUME NEW p \in DOMAIN dedupSeen PROVE dedupSeen[p].at <= now'
    OBVIOUS
  <2>1. dedupSeen \in Seq(Entry)
    BY Typed DEF BusTyped
  <2>2. dedupSeen[p] \in Entry
    BY <2>1
  <2>3. dedupSeen[p].at \in 0 .. MaxTime
    BY <2>2, Zenon DEF Entry
  <2>4. dedupSeen[p].at <= now
    BY Before
  <2> QED
    BY <1>1, <1>2, <2>3, <2>4
<1>8. \A i \in Numbers : On(conns', i) => i \in DOMAIN sent'
  BY <1>1, Before
<1>9. owed' \subseteq DOMAIN sent'
  BY <1>1, Typed
<1> QED
  BY <1>1, <1>4, <1>5, <1>6, <1>7, <1>8, <1>9, BusInvNext DEF busVars

-----------------------------------------------------------------------------
(* The bus: every step together *)

LEMMA BroadcastIsEvent ==
    ASSUME now \in 0 .. MaxTime, NEW sender \in Senders, NEW text \in Texts
    PROVE  [location |-> "local", type |-> "broadcast", sender |-> sender, topic |-> NoTopic,
            text |-> text, second |-> now] \in Event
  BY DEF Event, Locations

LEMMA MessageIsEvent ==
    ASSUME now \in 0 .. MaxTime, NEW sender \in Senders, NEW topic \in Topics, NEW text \in Texts
    PROVE  [location |-> "local", type |-> "message", sender |-> sender, topic |-> topic,
            text |-> text, second |-> now] \in Event
  BY DEF Event

LEMMA ArchivalIsEvent ==
    ASSUME now \in 0 .. MaxTime, NEW sender \in Senders, NEW topic \in Topics
    PROVE  [location |-> "local", type |-> "topic_archived", sender |-> sender, topic |-> topic,
            text |-> "Topic archived", second |-> now] \in Event
  BY DEF Event

LEMMA BusInit ==
    ASSUME DeliveryAssumption, Init
    PROVE  BusInv
<1>1. /\ MaxTime \in Nat /\ MaxFaults \in Nat /\ MaxEvents \in Nat
      /\ MaxDedupEntries \in Nat \ {0} /\ Conns # {}
  BY DEF DeliveryAssumption
<1>2. (CHOOSE d \in Conns : TRUE) \in Conns
  BY <1>1
<1>3. /\ <<>> \in Seq(Event) /\ <<>> \in Seq(Numbers) /\ <<>> \in Seq([key: Key, at: 0 .. MaxTime])
      /\ <<>> \in Seq([event: Numbers, shown: BOOLEAN]) /\ Len(<<>>) = 0 /\ DOMAIN <<>> = {}
  BY EmptySeq
<1>4. IsMap(conns, Conns, Seq(Numbers))
  BY <1>2, <1>3 DEF Init, IsMap
<1>5. TypeOK
  BY <1>1, <1>3, <1>4 DEF Init, TypeOK, Locations
<1>6. \A i : ~On(conns, i)
  BY <1>3 DEF Init, On
<1>7. NumbersSent
  BY <1>3, <1>6, UnderWayIsOn DEF Init, NumbersSent
<1>8. Prompt
  BY <1>3 DEF Init, Prompt
<1>9. RemembersUnderWay /\ PassesOnce
  BY <1>3 DEF Init, RemembersUnderWay, PassesOnce
<1> QED
  BY <1>5, <1>7, <1>8, <1>9 DEF BusInv

LEMMA BusStutters ==
    ASSUME BusInv, UNCHANGED vars
    PROVE  BusInv'
  BY DEF vars, busVars, BusInv, TypeOK, NumbersSent, Prompt, RemembersUnderWay, Remembered,
         PassesOnce, UnderWay, KeyAt, Fresh

LEMMA BusStep ==
    ASSUME DeliveryAssumption, BusInv, [Next]_vars
    PROVE  BusInv'
<1>1. now \in 0 .. MaxTime /\ subscribed \subseteq Locations /\ joined \subseteq Topics
  BY DEF BusInv, TypeOK
<1>2. ASSUME NEW sender \in Senders, NEW text \in Texts,
             BrokerSends("broadcast", sender, NoTopic, text)
      PROVE  BusInv'
  BY <1>1, <1>2, BroadcastIsEvent, SendKeeps
<1>3. ASSUME NEW sender \in Senders, NEW text \in Texts, NEW topic \in Topics,
             BrokerSends("message", sender, topic, text)
      PROVE  BusInv'
  BY <1>1, <1>3, MessageIsEvent, SendKeeps
<1>4. ASSUME NEW sender \in Senders, NEW topic \in Topics,
             BrokerSends("topic_archived", sender, topic, "Topic archived")
      PROVE  BusInv'
  BY <1>1, <1>4, ArchivalIsEvent, SendKeeps
<1>5. ASSUME NEW text \in Texts, RemoteFeed(text) PROVE BusInv'
  BY <1>5, RemoteKeeps
<1>6. ASSUME NEW c \in Conns, processLocalEvent(c) \/ Break(c) \/ connect(c) PROVE BusInv'
  BY <1>6, ProcessKeeps, BreakKeeps, ConnectKeeps
<1>7. ASSUME NEW location \in Locations, JoinChannel(location) \/ LeaveChannel(location)
      PROVE  BusInv'
  <2>1. CASE JoinChannel(location)
    BY <1>1, <2>1, MembershipKeeps DEF JoinChannel
  <2>2. CASE LeaveChannel(location)
    <3>1. subscribed \ {location} \in SUBSET Locations
      BY <1>1
    <3>2. (IF location = "local" THEN {} ELSE joined) \in SUBSET Topics
      BY <1>1
    <3> QED
      BY <2>2, <3>1, <3>2, MembershipKeeps DEF LeaveChannel
  <2> QED
    BY <1>7, <2>1, <2>2
<1>8. ASSUME NEW topic \in Topics, JoinTopic(topic) \/ LeaveTopic(topic) PROVE BusInv'
  <2>1. CASE JoinTopic(topic)
    BY <1>1, <2>1, MembershipKeeps DEF JoinTopic
  <2>2. CASE LeaveTopic(topic)
    <3>1. joined \ {topic} \in SUBSET Topics
      BY <1>1
    <3> QED
      BY <1>1, <2>2, <3>1, MembershipKeeps DEF LeaveTopic
  <2> QED
    BY <1>8, <2>1, <2>2
<1>9. CASE Tick
  BY <1>9, TickKeeps
<1>10. CASE UNCHANGED vars
  BY <1>10, BusStutters
<1> QED
  BY <1>2, <1>3, <1>4, <1>5, <1>6, <1>7, <1>8, <1>9, <1>10 DEF Next

\* The inductive invariant of the bus: whatever is under way has been sent and is
\* younger than the window, and the bounded cache still knows an event that was
\* accepted and is under way on another connection, unless it overflowed.
THEOREM BusInvariant == Spec => []BusInv
<1>1. Init => BusInv
  BY DeliveryAssumption, BusInit
<1>2. BusInv /\ [Next]_vars => BusInv'
  BY DeliveryAssumption, BusStep
<1> QED
  BY <1>1, <1>2, PTL DEF Spec

\* The types, and the dedup cache of the message bus stays within its cap, however
\* many events are pushed.
THEOREM TypeCorrect == Spec => []TypeOK
<1>1. BusInv => TypeOK
  BY DEF BusInv
<1> QED
  BY <1>1, BusInvariant, PTL

\* Whatever connections a reset doubled, the bus passes an event with a timestamp
\* of its own once; a second copy passes only after the cache overflowed.
THEOREM PassesOnceCorrect == Spec => []PassesOnce
<1>1. BusInv => PassesOnce
  BY DEF BusInv
<1> QED
  BY <1>1, BusInvariant, PTL

-----------------------------------------------------------------------------
(* Nothing that is wanted is dropped *)

\* Two events the bus takes for one another are twins.
LEMMA SameKeyTwins ==
    ASSUME DeliveryAssumption, NoticeIsNotSaid, NEW d \in Event, NEW e \in Event,
           NEW s, NEW t, KeyAt(d, s) = KeyAt(e, t)
    PROVE  /\ d.sender = e.sender /\ d.topic = e.topic /\ d.text = e.text /\ d.type = e.type
           /\ d.type # "topic_archived" => d.second = e.second
<1>1. /\ d.sender = e.sender /\ d.topic = e.topic /\ d.text = e.text
      /\ (IF d.type = "topic_archived" THEN s ELSE d.second)
            = (IF e.type = "topic_archived" THEN t ELSE e.second)
  BY DEF KeyAt
<1>2. d.type = e.type
  BY <1>1, SameKeySameType DEF DeliveryAssumption
<1> QED
  BY <1>1, <1>2

\* A twin of i passed the bus.
Heard(i) == \E j \in DOMAIN sent : Twins(i, j) /\ Accepted(j)

\* What passed the bus stays passed.
LEMMA HeardStays ==
    ASSUME \A k \in DOMAIN accepted : k \in DOMAIN accepted' /\ accepted'[k] = accepted[k],
           \A j \in DOMAIN sent : j \in DOMAIN sent' /\ sent'[j] = sent[j]
    PROVE  /\ \A j \in DOMAIN sent : Accepted(j) => Accepted(j)'
           /\ \A i \in DOMAIN sent : Heard(i) => Heard(i)'
<1>1. ASSUME NEW j \in DOMAIN sent, Accepted(j) PROVE Accepted(j)'
  BY <1>1 DEF Accepted
<1>2. ASSUME NEW i \in DOMAIN sent, Heard(i) PROVE Heard(i)'
  <2>1. PICK j \in DOMAIN sent : Twins(i, j) /\ Accepted(j)
    BY <1>2 DEF Heard
  <2>2. Accepted(j)' /\ Twins(i, j)'
    BY <1>1, <2>1 DEF Twins
  <2> QED
    BY <2>1, <2>2 DEF Heard
<1> QED
  BY <1>1, <1>2

\* After a push of i, a twin of it has passed, and the cache still holds keys of
\* accepted events only.
LEMMA PushHears ==
    ASSUME DeliveryAssumption, BusInv, BusInv', CacheIsAccepted, NoticeIsNotSaid,
           NEW i \in Numbers, NEW e \in Event, PushOf(i, e)
    PROVE  /\ Heard(i)' /\ CacheIsAccepted'
           /\ \A k \in DOMAIN accepted : k \in DOMAIN accepted' /\ accepted'[k] = accepted[k]
<1>1. BusTyped /\ accepted \in Seq([event: Numbers, shown: BOOLEAN])
      /\ now \in 0 .. MaxTime /\ MaxTime \in Nat
  BY Typed DEF BusTyped
<1>2. (Dropped(e) \/ Passed(i, e)) /\ NothingInvented(i, e)
  BY <1>1, PushLemma DEF PushOf
<1>3. /\ Len(accepted) \in Nat /\ DOMAIN accepted = 1 .. Len(accepted)
      /\ DOMAIN accepted' = 1 .. Len(accepted')
      /\ \A k \in 1 .. Len(accepted) : accepted'[k] = accepted[k]
      /\ \/ Len(accepted') = Len(accepted)
         \/ /\ Len(accepted') = Len(accepted) + 1
            /\ accepted'[Len(accepted) + 1].event = i /\ Passed(i, e)
  BY <1>1, <1>2, AcceptedGrows
<1>4. \A k \in DOMAIN accepted : k \in DOMAIN accepted' /\ accepted'[k] = accepted[k]
  <2> DEFINE n == Len(accepted)
             m == Len(accepted')
  <2>1. /\ n \in Nat /\ (m = n \/ m = n + 1) /\ DOMAIN accepted = 1 .. n
        /\ DOMAIN accepted' = 1 .. m /\ \A k \in 1 .. n : accepted'[k] = accepted[k]
    BY <1>3
  <2> HIDE DEF n, m
  <2>2. \A k \in 1 .. n : k \in 1 .. m
    BY <2>1
  <2> QED
    BY <2>1, <2>2
<1>5. \A j \in DOMAIN sent : Accepted(j) => Accepted(j)'
  BY <1>4, HeardStays DEF PushOf
<1>6. dedupKey(e) = KeyAt(e, now) /\ sent'[i] = e /\ i \in DOMAIN sent'
  BY <1>1, KeyIsKey DEF PushOf
<1>7. Passed(i, e) => Accepted(i)'
  <2> SUFFICES ASSUME Passed(i, e) PROVE \E k \in DOMAIN accepted' : accepted'[k].event = i
    BY DEF Accepted
  <2>1. PICK shown \in BOOLEAN : accepted' = Append(accepted, [event |-> i, shown |-> shown])
    BY DEF Passed
  <2>2. [event |-> i, shown |-> shown] \in [event: Numbers, shown: BOOLEAN]
    OBVIOUS
  <2>3. /\ Len(accepted') = Len(accepted) + 1
        /\ accepted'[Len(accepted) + 1] = [event |-> i, shown |-> shown]
    BY <1>1, <2>1, <2>2, AppendProperties
  <2>4. Len(accepted) + 1 \in DOMAIN accepted'
    BY <1>3, <2>3
  <2> QED
    BY <2>3, <2>4
<1>8. CacheIsAccepted'
  <2> SUFFICES ASSUME NEW q \in DOMAIN dedupSeen'
               PROVE  \E j \in DOMAIN sent' :
                        Accepted(j)' /\ dedupSeen'[q].key = KeyAt(sent'[j], dedupSeen'[q].at)
    BY DEF CacheIsAccepted, KeyAt, Accepted
  <2>1. CASE \E p \in DOMAIN dedupSeen : dedupSeen'[q] = dedupSeen[p]
    <3>1. PICK p \in DOMAIN dedupSeen : dedupSeen'[q] = dedupSeen[p]
      BY <2>1
    <3>2. PICK j \in DOMAIN sent : Accepted(j) /\ dedupSeen[p].key = KeyAt(sent[j], dedupSeen[p].at)
      BY DEF CacheIsAccepted
    <3>3. j \in DOMAIN sent' /\ sent'[j] = sent[j] /\ Accepted(j)'
      BY <1>5, <3>2 DEF PushOf
    <3> QED
      BY <3>1, <3>2, <3>3
  <2>2. CASE dedupSeen'[q] = [key |-> dedupKey(e), at |-> now] /\ Passed(i, e)
    BY <1>6, <1>7, <2>2
  <2> QED
    BY <1>2, <2>1, <2>2 DEF NothingInvented
<1>9. Heard(i)'
  <2>1. CASE Passed(i, e)
    <3>1. Twins(i, i)'
      BY DEF Twins
    <3> QED
      BY <1>6, <1>7, <2>1, <3>1 DEF Heard
  <2>2. CASE Dropped(e)
    <3>1. PICK p \in DOMAIN dedupSeen : dedupSeen[p].key = dedupKey(e)
      BY <2>2 DEF Dropped
    <3>2. PICK j \in DOMAIN sent : Accepted(j) /\ dedupSeen[p].key = KeyAt(sent[j], dedupSeen[p].at)
      BY DEF CacheIsAccepted
    <3>3. j \in DOMAIN sent' /\ sent'[j] = sent[j] /\ Accepted(j)'
      BY <1>5, <3>2 DEF PushOf
    <3>4. KeyAt(sent'[i], now) = KeyAt(sent'[j], dedupSeen[p].at)
      BY <1>6, <3>1, <3>2, <3>3
    <3>5. Twins(i, j)'
      <4>1. sent'[i] \in Event /\ sent'[j] \in Event
        BY <1>6, <3>3 DEF BusInv, TypeOK
      <4> QED
        BY <3>4, <4>1, SameKeyTwins DEF Twins
    <3> QED
      BY <3>3, <3>5 DEF Heard
  <2> QED
    BY <1>2, <2>1, <2>2
<1> QED
  BY <1>4, <1>8, <1>9

-----------------------------------------------------------------------------
(* Each step keeps OwedInv *)

\* OwedInv in the terms of On and Heard
LEMMA OwedInvNext ==
    ASSUME CacheIsAccepted',
           \A i \in owed' : On(conns', i) => Wanted(sent[i])',
           \A i \in owed' : On(conns', i) \/ Heard(i)'
    PROVE  OwedInv'
  BY DEF OwedInv, OwedIsWanted, NothingDropped, Heard, UnderWay, On, Wanted, Deliverable

LEMMA OwedBefore ==
    ASSUME OwedInv
    PROVE  /\ CacheIsAccepted
           /\ \A i \in owed : On(conns, i) => Wanted(sent[i])
           /\ \A i \in owed : On(conns, i) \/ Heard(i)
  BY UnderWayIsOn DEF OwedInv, OwedIsWanted, NothingDropped, Heard

\* A step that leaves the bus alone keeps what was heard.
LEMMA QuietHears ==
    ASSUME BusInv, OwedInv, UNCHANGED busVars,
           \A j \in DOMAIN sent : j \in DOMAIN sent' /\ sent'[j] = sent[j]
    PROVE  CacheIsAccepted' /\ \A i \in DOMAIN sent : Heard(i) => Heard(i)'
<1>1. accepted' = accepted /\ dedupSeen' = dedupSeen
  BY DEF busVars
<1>2. /\ \A j \in DOMAIN sent : Accepted(j) => Accepted(j)'
      /\ \A i \in DOMAIN sent : Heard(i) => Heard(i)'
  BY <1>1, HeardStays
<1>3. CacheIsAccepted'
  <2> SUFFICES ASSUME NEW p \in DOMAIN dedupSeen
               PROVE  \E j \in DOMAIN sent' :
                        Accepted(j)' /\ dedupSeen[p].key = KeyAt(sent'[j], dedupSeen[p].at)
    BY <1>1 DEF CacheIsAccepted, KeyAt, Accepted
  <2>1. PICK j \in DOMAIN sent : Accepted(j) /\ dedupSeen[p].key = KeyAt(sent[j], dedupSeen[p].at)
    BY DEF OwedInv, CacheIsAccepted
  <2> QED
    BY <1>2, <2>1
<1> QED
  BY <1>2, <1>3

\* A step that leaves the bus, what is sent and the membership alone, and after
\* which what is still owed is under way if it was
LEMMA StillOwes ==
    ASSUME DeliveryAssumption, BusInv, OwedInv, UNCHANGED <<sent, subscribed, joined, busVars>>,
           owed' \subseteq owed,
           \A i \in owed' : On(conns', i) <=> On(conns, i)
    PROVE  OwedInv'
<1>1. CacheIsAccepted' /\ \A i \in DOMAIN sent : Heard(i) => Heard(i)'
  BY QuietHears
<1>2. \A i \in owed' : i \in DOMAIN sent /\ i \in owed
  BY Typed
<1>3. \A i \in owed' : On(conns', i) \/ Heard(i)'
  BY <1>1, <1>2, OwedBefore
<1>4. \A i \in owed' : On(conns', i) => Wanted(sent[i])'
  BY <1>2, OwedBefore DEF Wanted, Deliverable
<1> QED
  BY <1>1, <1>3, <1>4, OwedInvNext

LEMMA SendOwes ==
    ASSUME DeliveryAssumption, BusInv, OwedInv, NEW type, NEW sender, NEW topic, NEW text,
           BrokerSends(type, sender, topic, text),
           [location |-> "local", type |-> type, sender |-> sender, topic |-> topic,
            text |-> text, second |-> now] \in Event
    PROVE  OwedInv'
<1> DEFINE e == [location |-> "local", type |-> type, sender |-> sender, topic |-> topic,
                 text |-> text, second |-> now]
<1>0. PICK n : n = Len(sent) + 1
  OBVIOUS
<1>1. /\ Len(sent) < MaxEvents /\ sent' = Append(sent, e)
      /\ conns' = [c \in DOMAIN conns |-> Append(conns[c], n)]
      /\ owed' = IF Wanted(e) /\ DOMAIN conns # {} THEN owed \cup {n} ELSE owed
      /\ UNCHANGED <<now, timers, subscribed, joined, busVars, faults>>
  BY <1>0 DEF BrokerSends
<1>2. e \in Event
  OBVIOUS
<1> HIDE DEF e
<1>3. /\ n \in Numbers /\ n \notin DOMAIN sent /\ sent'[n] = e
      /\ \A j \in DOMAIN sent : j \in DOMAIN sent' /\ sent'[j] = sent[j]
  BY <1>0, <1>1, <1>2, SentGrows
<1>4. ConnsTyped /\ owed \subseteq DOMAIN sent
  BY Typed
<1>5. /\ \A i : On(conns', i) => On(conns, i) \/ i = n
      /\ \A i : On(conns, i) => On(conns', i)
      /\ DOMAIN conns # {} => On(conns', n)
  BY <1>1, <1>3, <1>4, SendUnderWay
<1>6. CacheIsAccepted' /\ \A i \in DOMAIN sent : Heard(i) => Heard(i)'
  BY <1>1, <1>3, QuietHears
<1>7. ASSUME NEW i \in owed'
      PROVE  (On(conns', i) => Wanted(sent[i])') /\ (On(conns', i) \/ Heard(i)')
  <2>1. CASE i \in owed
    <3>1. i \in DOMAIN sent /\ i # n /\ sent'[i] = sent[i]
      BY <1>3, <1>4, <2>1
    <3>2. On(conns, i) => Wanted(sent[i])
      BY <2>1, OwedBefore
    <3>3. On(conns', i) => Wanted(sent[i])'
      BY <1>1, <1>5, <3>1, <3>2 DEF Wanted, Deliverable
    <3> QED
      BY <1>5, <1>6, <2>1, <3>1, <3>3, OwedBefore
  <2>2. CASE i \notin owed
    <3>1. i = n /\ Wanted(e) /\ DOMAIN conns # {}
      BY <1>1, <2>2
    <3>2. Wanted(sent[n])'
      BY <1>1, <1>3, <3>1 DEF Wanted, Deliverable
    <3> QED
      BY <1>5, <3>1, <3>2
  <2> QED
    BY <2>1, <2>2
<1> QED
  BY <1>6, <1>7, OwedInvNext

LEMMA ProcessOwes ==
    ASSUME DeliveryAssumption, BusInv, BusInv', OwedInv, NoticeIsNotSaid,
           NEW c \in Conns, processLocalEvent(c)
    PROVE  OwedInv'
<1>0. PICK n : n = Head(conns[c])
  OBVIOUS
<1>1. /\ c \in DOMAIN conns /\ conns[c] # <<>>
      /\ conns' = [conns EXCEPT ![c] = Tail(@)]
      /\ IF Deliverable(sent[n]) THEN push(n, sent[n]) ELSE UNCHANGED <<busVars, faults>>
      /\ UNCHANGED <<now, sent, timers, subscribed, joined, owed>>
  BY <1>0 DEF processLocalEvent
<1>2. /\ n \in Numbers /\ On(conns, n)
      /\ \A j : On(conns', j) => On(conns, j)
      /\ \A j : On(conns, j) => On(conns', j) \/ j = n
  <2>1. ConnsTyped
    BY Typed
  <2> QED
    BY <1>0, <1>1, <2>1, TakeUnderWay
<1>3. n \in DOMAIN sent /\ sent[n] \in Event /\ sent[n].second <= now
  BY <1>2, Before, Typed
<1>4. owed \subseteq DOMAIN sent
  BY Typed
<1>5. ASSUME NEW i \in owed PROVE On(conns', i) => Wanted(sent[i])'
  <2>1. On(conns, i) => Wanted(sent[i])
    BY OwedBefore
  <2> QED
    BY <1>1, <1>2, <2>1 DEF Wanted, Deliverable
<1>6. CASE Deliverable(sent[n])
  <2>1. PushOf(n, sent[n])
    BY <1>1, <1>2, <1>3, <1>6 DEF PushOf
  <2>2. /\ Heard(n)' /\ CacheIsAccepted'
        /\ \A k \in DOMAIN accepted : k \in DOMAIN accepted' /\ accepted'[k] = accepted[k]
    BY <1>2, <1>3, <2>1, OwedBefore, PushHears
  <2>3. \A i \in DOMAIN sent : Heard(i) => Heard(i)'
    BY <1>1, <2>2, HeardStays
  <2>4. \A i \in owed : On(conns', i) \/ Heard(i)'
    BY <1>2, <1>4, <2>2, <2>3, OwedBefore
  <2> QED
    BY <1>1, <1>5, <2>2, <2>4, OwedInvNext
<1>7. CASE ~Deliverable(sent[n])
  <2>1. CacheIsAccepted' /\ \A i \in DOMAIN sent : Heard(i) => Heard(i)'
    BY <1>1, <1>7, QuietHears
  <2>2. n \notin owed
    BY <1>2, <1>7, OwedBefore DEF Wanted
  <2>3. \A i \in owed : On(conns', i) \/ Heard(i)'
    BY <1>2, <1>4, <2>1, <2>2, OwedBefore
  <2> QED
    BY <1>1, <1>5, <2>1, <2>3, OwedInvNext
<1> QED
  BY <1>6, <1>7

LEMMA RemoteOwes ==
    ASSUME DeliveryAssumption, BusInv, BusInv', OwedInv, NoticeIsNotSaid,
           NEW text \in Texts, RemoteFeed(text)
    PROVE  OwedInv'
<1> DEFINE e == [location |-> "remote", type |-> "broadcast", sender |-> "peer",
                 topic |-> NoTopic, text |-> text, second |-> now]
           n == Len(sent) + 1
<1>1. /\ Len(sent) < MaxEvents /\ sent' = Append(sent, e) /\ push(n, e)
      /\ UNCHANGED <<now, conns, timers, subscribed, joined, owed>>
  BY DEF RemoteFeed
<1>2. e \in Event /\ e.second = now
  <2>1. now \in 0 .. MaxTime
    BY Typed
  <2> QED
    BY <2>1 DEF Event, Locations, Senders
<1> HIDE DEF e
<1>3. /\ n \in Numbers /\ n \in DOMAIN sent' /\ n \notin DOMAIN sent /\ sent'[n] = e
      /\ \A j \in DOMAIN sent : j \in DOMAIN sent' /\ sent'[j] = sent[j]
  BY <1>1, <1>2, SentGrows
<1> HIDE DEF n
<1>4. now \in Nat /\ owed \subseteq DOMAIN sent
  BY Typed
<1>5. PushOf(n, e)
  BY <1>1, <1>2, <1>3, <1>4 DEF PushOf
<1>6. /\ CacheIsAccepted'
      /\ \A k \in DOMAIN accepted : k \in DOMAIN accepted' /\ accepted'[k] = accepted[k]
  BY <1>2, <1>3, <1>5, OwedBefore, PushHears
<1>7. \A i \in DOMAIN sent : Heard(i) => Heard(i)'
  BY <1>3, <1>6, HeardStays
<1>8. ASSUME NEW i \in owed'
      PROVE  (On(conns', i) => Wanted(sent[i])') /\ (On(conns', i) \/ Heard(i)')
  <2>1. i \in owed /\ i \in DOMAIN sent /\ sent'[i] = sent[i]
    BY <1>1, <1>3, <1>4
  <2>2. On(conns, i) => Wanted(sent[i])
    BY <2>1, OwedBefore
  <2>3. On(conns', i) => Wanted(sent[i])'
    BY <1>1, <2>1, <2>2 DEF Wanted, Deliverable
  <2> QED
    BY <1>1, <1>7, <2>1, <2>3, OwedBefore
<1> QED
  BY <1>6, <1>8, OwedInvNext

LEMMA BreakOwes ==
    ASSUME DeliveryAssumption, BusInv, OwedInv, NEW c \in Conns, Break(c)
    PROVE  OwedInv'
<1>1. /\ conns' = Del(conns, c)
      /\ owed' = {i \in owed : ~UnderWay(i) \/ UnderWay(i)'}
      /\ UNCHANGED <<now, sent, subscribed, joined, busVars>>
  BY DEF Break
<1>2. ConnsTyped
  BY Typed
<1>3. \A i : On(conns', i) => On(conns, i)
  BY <1>1, <1>2, BreakUnderWay
<1>4. \A i \in owed' : i \in owed /\ (On(conns, i) => On(conns', i))
  BY <1>1 DEF UnderWay, On
<1> QED
  BY <1>1, <1>3, <1>4, StillOwes

LEMMA ConnectOwes ==
    ASSUME DeliveryAssumption, BusInv, OwedInv, NEW c \in Conns, connect(c)
    PROVE  OwedInv'
<1>1. /\ c \notin DOMAIN conns /\ conns' = Put(conns, c, <<>>)
      /\ UNCHANGED <<now, sent, subscribed, joined, busVars, owed, faults>>
  BY DEF connect
<1>2. ConnsTyped
  BY Typed
<1>3. \A i : On(conns', i) <=> On(conns, i)
  BY <1>1, <1>2, ConnectUnderWay
<1> QED
  BY <1>1, <1>3, StillOwes

LEMMA MembershipOwes ==
    ASSUME DeliveryAssumption, BusInv, OwedInv, NEW locations, NEW topics,
           Membership(locations, topics)
    PROVE  OwedInv'
<1>1. /\ UNCHANGED <<now, sent, conns, timers, busVars, faults>>
      /\ owed' = {i \in owed : ~UnderWay(i) \/ Wanted(sent[i])'}
  BY DEF Membership
<1>2. CacheIsAccepted' /\ \A i \in DOMAIN sent : Heard(i) => Heard(i)'
  BY <1>1, QuietHears
<1>3. owed \subseteq DOMAIN sent
  BY Typed
<1>4. \A i \in owed' : i \in owed /\ (On(conns, i) => Wanted(sent[i])')
  BY <1>1, UnderWayIsOn
<1>5. \A i \in owed' : On(conns', i) \/ Heard(i)'
  BY <1>1, <1>2, <1>3, <1>4, OwedBefore
<1> QED
  BY <1>1, <1>2, <1>4, <1>5, OwedInvNext

-----------------------------------------------------------------------------
(* Delivery: every step together *)

LEMMA OwedInit ==
    ASSUME Init
    PROVE  OwedInv
<1>1. DOMAIN <<>> = {}
  BY EmptySeq
<1> QED
  BY <1>1 DEF Init, OwedInv, CacheIsAccepted, OwedIsWanted, NothingDropped

LEMMA OwedStep ==
    ASSUME DeliveryAssumption, NoticeIsNotSaid, BusInv, BusInv', OwedInv, [Next]_vars
    PROVE  OwedInv'
<1>1. now \in 0 .. MaxTime
  BY Typed
<1>2. ASSUME NEW sender \in Senders, NEW text \in Texts,
             BrokerSends("broadcast", sender, NoTopic, text)
      PROVE  OwedInv'
  BY <1>1, <1>2, BroadcastIsEvent, SendOwes
<1>3. ASSUME NEW sender \in Senders, NEW text \in Texts, NEW topic \in Topics,
             BrokerSends("message", sender, topic, text)
      PROVE  OwedInv'
  BY <1>1, <1>3, MessageIsEvent, SendOwes
<1>4. ASSUME NEW sender \in Senders, NEW topic \in Topics,
             BrokerSends("topic_archived", sender, topic, "Topic archived")
      PROVE  OwedInv'
  BY <1>1, <1>4, ArchivalIsEvent, SendOwes
<1>5. ASSUME NEW text \in Texts, RemoteFeed(text) PROVE OwedInv'
  BY <1>5, RemoteOwes
<1>6. ASSUME NEW c \in Conns, processLocalEvent(c) \/ Break(c) \/ connect(c) PROVE OwedInv'
  BY <1>6, ProcessOwes, BreakOwes, ConnectOwes
<1>7. ASSUME NEW locations, NEW topics, Membership(locations, topics) PROVE OwedInv'
  BY <1>7, MembershipOwes
<1>8. ASSUME NEW location \in Locations, JoinChannel(location) \/ LeaveChannel(location)
      PROVE  OwedInv'
  BY <1>7, <1>8 DEF JoinChannel, LeaveChannel
<1>9. ASSUME NEW topic \in Topics, JoinTopic(topic) \/ LeaveTopic(topic) PROVE OwedInv'
  BY <1>7, <1>9 DEF JoinTopic, LeaveTopic
<1>10. CASE Tick \/ UNCHANGED vars
  <2>1. UNCHANGED <<sent, conns, subscribed, joined, busVars, owed>>
    BY <1>10 DEF Tick, vars, busVars
  <2> QED
    BY <2>1, StillOwes
<1> QED
  BY <1>2, <1>3, <1>4, <1>5, <1>6, <1>8, <1>9, <1>10 DEF Next

\* The whole inductive invariant: what is owed is under way and wanted, or a twin
\* passed the bus; and the cache has keys of what passed the bus only.
THEOREM DeliveryInvariant == NoticeIsNotSaid /\ Spec => []DeliveryInv
<1>1. Init => DeliveryInv
  BY DeliveryAssumption, BusInit, OwedInit DEF DeliveryInv
<1>2. NoticeIsNotSaid /\ DeliveryInv /\ [Next]_vars => DeliveryInv'
  BY DeliveryAssumption, BusStep, OwedStep DEF DeliveryInv
<1>3. NoticeIsNotSaid => NoticeIsNotSaid'
  BY DEF NoticeIsNotSaid
<1> QED
  BY <1>1, <1>2, <1>3, PTL DEF Spec

\* Where nobody posts the text of an archival notice, an event that was sent over an
\* open connection and wanted until it arrived is not lost: no filter drops it, and
\* the dedup window drops it only for a twin that passed.
THEOREM NothingDroppedCorrect == NoticeIsNotSaid /\ Spec => []NothingDropped
<1>1. DeliveryInv => NothingDropped
  BY DEF DeliveryInv, OwedInv
<1> QED
  BY <1>1, DeliveryInvariant, PTL
=============================================================================
