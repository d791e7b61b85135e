------------------------ MODULE RemoteTransportProofs ------------------------
(***************************************************************************)
(* Proofs about RemoteTransport for every threshold and window of the      *)
(* degradation switch and every number of rows, feeds and calls in flight: *)
(* the switch follows its policy, the feed skips and repeats nothing, and  *)
(* keeps FeedContract.                                                     *)
(*                                                                         *)
(* The callback's loop over the rows is a recursive function; LoopOK is    *)
(* what holds of it after n rows, by induction on n.  The library's        *)
(* induction theorems take an operator as parameter, so the induction is   *)
(* on the set of the n for which it holds (SetInduction).                  *)
(***************************************************************************)
EXTENDS RemoteTransport, SequenceTheorems, WellFoundedInduction, TLAPS

-----------------------------------------------------------------------------
(* Induction over sets of numbers *)

\* A set of numbers that is not empty has a least one.
LEMMA LeastNumber ==
    ASSUME NEW T \in SUBSET Nat, T # {}
    PROVE  \E x \in T : \A y \in T : x <= y
<1>1. /\ IsWellFoundedOn(OpToRel(<, Nat), Nat)
      /\ \A x, y \in Nat : x < y => <<x, y>> \in OpToRel(<, Nat)
  BY NatLessThanWellFounded DEF OpToRel
<1>2. PICK R : IsWellFoundedOn(R, Nat) /\ \A x, y \in Nat : x < y => <<x, y>> \in R
  BY <1>1, Zenon
<1>3. T \subseteq Nat
  OBVIOUS
<1>4. \E x \in T : \A y \in T : ~ (<<y, x>> \in R)
  <2>1. IsWellFoundedOn(R, Nat)
    BY <1>2
  <2> QED BY <1>3, <2>1, WFMin
<1>5. PICK x \in T : \A y \in T : ~ (<<y, x>> \in R)
  BY <1>4
<1>6. \A y \in T : x <= y
  <2>1. SUFFICES ASSUME NEW y \in T PROVE x <= y
    OBVIOUS
  <2>2. x \in Nat /\ y \in Nat /\ ~ (y < x)
    BY <1>2, <1>3, <1>5
  <2> QED BY <2>2
<1> QED BY <1>6

\* A set with 0 and the successor of each of its numbers has them all.
LEMMA SetInduction ==
    ASSUME NEW S, 0 \in S, \A n \in Nat : n \in S => n + 1 \in S
    PROVE  Nat \subseteq S
<1> SUFFICES ASSUME Nat \ S # {} PROVE FALSE
  OBVIOUS
<1>1. PICK x \in Nat \ S : \A y \in Nat \ S : x <= y
  BY LeastNumber
<1>2. x # 0 /\ x - 1 \in Nat /\ x - 1 \in S
  BY <1>1
<1> QED BY <1>1, <1>2

-----------------------------------------------------------------------------
(* The degradation switch *)

\* How many failures have left recentFailures
Dropped == Len(failures) - Len(recentFailures)

\* The time of the last failure that counted
LastFailure == failures[Len(failures)]

\* The recent failures are the last ones, those within one window of the last.
RecentAreLast ==
    /\ \A i \in DOMAIN recentFailures : recentFailures[i] = failures[Dropped + i]
    /\ \A i \in 1 .. Dropped : LastFailure - failures[i] > DEGRADATION_WINDOW
    /\ \A i \in Dropped + 1 .. Len(failures) : LastFailure - failures[i] <= DEGRADATION_WINDOW

\* The clock does not run backwards.
FailuresOrdered ==
    /\ \A i, j \in DOMAIN failures : i <= j => failures[i] <= failures[j]
    /\ \A i \in DOMAIN failures : failures[i] <= now

\* BreakerExact, and what makes it inductive
SwitchInv == BreakerTypeOK /\ RecentAreLast /\ FailuresOrdered /\ BreakerExact

\* The loop that drops old failures stops at the latest at the one that was
\* just appended, the first within the window.
LEMMA ExpiredLemma ==
    ASSUME NEW times \in Seq(Nat), times # <<>>, now \in Nat, times[Len(times)] = now
    PROVE  /\ Expired(times) \in 0 .. Len(times) - 1
           /\ \A i \in 1 .. Expired(times) : now - times[i] > DEGRADATION_WINDOW
           /\ now - times[Expired(times) + 1] <= DEGRADATION_WINDOW
<1> DEFINE T == {n \in 0 .. Len(times) - 1 : now - times[n + 1] <= DEGRADATION_WINDOW}
<1>0. Len(times) \in Nat \ {0} /\ DEGRADATION_WINDOW \in Nat
  BY BreakerAssumption
<1>1. Len(times) - 1 \in T /\ T \in SUBSET Nat
  BY <1>0
<1>2. PICK n \in T : \A m \in T : n <= m
  BY <1>1, LeastNumber
<1>3. n \in 0 .. Len(times) /\ n < Len(times) /\ now - times[n + 1] <= DEGRADATION_WINDOW
  BY <1>0, <1>2
<1>4. \A i \in 1 .. n : now - times[i] > DEGRADATION_WINDOW
  <2>1. SUFFICES ASSUME NEW i \in 1 .. n PROVE now - times[i] > DEGRADATION_WINDOW
    OBVIOUS
  <2>2. i \in 1 .. Len(times) /\ i - 1 \in 0 .. Len(times) - 1 /\ (i - 1) + 1 = i
    BY <1>0, <1>3, <2>1
  <2>3. times[i] \in Nat
    BY <2>2, ElementOfSeq
  <2>4. i - 1 \notin T
    <3>1. n \in Nat /\ i - 1 \in Nat /\ ~ (n <= i - 1)
      BY <1>3, <2>1
    <3> HIDE DEF T
    <3> QED BY <1>2, <3>1
  <2> QED BY <1>0, <2>2, <2>3, <2>4
<1> HIDE DEF T
<1> DEFINE P(k) == /\ \A i \in 1 .. k : now - times[i] > DEGRADATION_WINDOW
                   /\ k < Len(times) => now - times[k + 1] <= DEGRADATION_WINDOW
<1>5. \E k \in 0 .. Len(times) : P(k)
  BY <1>3, <1>4
<1>6. Expired(times) \in 0 .. Len(times) /\ P(Expired(times))
  BY <1>5, Zenon DEF Expired
<1>7. Expired(times) # Len(times)
  <2>1. Len(times) \in 1 .. Len(times)
    BY <1>0
  <2> QED BY <1>0, <1>6, <2>1
<1> QED BY <1>0, <1>6, <1>7

\* A failure that counts: DEGRADATION_THRESHOLD of all failures come to be
\* within one window exactly if that many recent ones are left.
LEMMA CountLemma ==
    ASSUME BreakerTypeOK, RecentAreLast, FailuresOrdered, CountFailure
    PROVE  /\ BreakerTypeOK' /\ RecentAreLast' /\ FailuresOrdered'
           /\ TooManyFailures' <=> TooManyFailures \/ Len(recentFailures') >= DEGRADATION_THRESHOLD
           /\ enabled' <=> enabled /\ Len(recentFailures') < DEGRADATION_THRESHOLD
<1>0. /\ DEGRADATION_WINDOW \in Nat /\ DEGRADATION_THRESHOLD \in Nat \ {0}
      /\ MaxTime \in Nat /\ MaxFailures \in Nat
  BY BreakerAssumption
<1>1. /\ failures \in Seq(0 .. MaxTime) /\ recentFailures \in Seq(0 .. MaxTime) /\ now \in 0 .. MaxTime
      /\ enabled \in BOOLEAN /\ fatal \in BOOLEAN
      /\ Len(recentFailures) <= Len(failures) /\ Len(failures) < MaxFailures
  BY DEF BreakerTypeOK, CountFailure
<1> DEFINE times == Append(recentFailures, now)
           n == Expired(times)
           F == Len(failures)
           R == Len(recentFailures)
<1>2. /\ failures' = Append(failures, now) /\ now' = now /\ fatal' = fatal
      /\ recentFailures' = SubSeq(times, n + 1, Len(times))
      /\ enabled' = (enabled /\ Len(recentFailures') < DEGRADATION_THRESHOLD)
  BY DEF CountFailure, InWindow
<1>3. times \in Seq(0 .. MaxTime) /\ Len(times) = R + 1 /\ times[R + 1] = now
      /\ \A i \in 1 .. R : times[i] = recentFailures[i]
  BY <1>1
<1>4. /\ n \in 0 .. R
      /\ \A i \in 1 .. n : now - times[i] > DEGRADATION_WINDOW
      /\ now - times[n + 1] <= DEGRADATION_WINDOW
  <2>1. times \in Seq(Nat) /\ times # <<>> /\ now \in Nat /\ times[Len(times)] = now
    BY <1>0, <1>1, <1>3
  <2> HIDE DEF times
  <2> QED BY <1>1, <1>3, <2>1, ExpiredLemma
<1>5. F \in Nat /\ R \in Nat /\ R <= F
  BY <1>1
<1>6. /\ failures' \in Seq(0 .. MaxTime) /\ Len(failures') = F + 1 /\ failures'[F + 1] = now
      /\ \A i \in 1 .. F : failures'[i] = failures[i] /\ failures[i] \in 0 .. MaxTime /\ failures[i] <= now
  BY <1>0, <1>1, <1>2 DEF FailuresOrdered
<1>a. Len(failures) = F /\ Len(recentFailures) = R
  OBVIOUS
<1> HIDE DEF times, n, F, R
<1>7. /\ recentFailures' \in Seq(0 .. MaxTime) /\ Len(recentFailures') = R + 1 - n
      /\ \A i \in 1 .. R + 1 - n : recentFailures'[i] = times[n + i]
  <2>1. \A i \in n + 1 .. R + 1 : times[i] \in 0 .. MaxTime
    <3>1. \A i \in n + 1 .. R + 1 : i \in 1 .. Len(times)
      BY <1>3, <1>4, <1>5
    <3> QED BY <1>3, <3>1, ElementOfSeq
  <2>2. n + 1 \in Int /\ R + 1 \in Int /\ n + 1 <= R + 1 /\ (R + 1) - (n + 1) + 1 = R + 1 - n
    BY <1>4, <1>5
  <2>3. \A i \in 1 .. R + 1 - n : (n + 1) + i - 1 = n + i
    BY <1>4, <1>5
  <2> QED BY <1>2, <1>3, <2>1, <2>2, <2>3, SubSeqProperties
<1>8. Dropped' = F - R + n /\ Dropped = F - R /\ LastFailure' = now
  BY <1>4, <1>5, <1>6, <1>7, <1>a DEF Dropped, LastFailure
<1>9. \A i \in 1 .. R + 1 : times[i] = failures'[F - R + i]
  <2>1. \A i \in 1 .. R : recentFailures[i] = failures[F - R + i]
    BY <1>1, <1>8, <1>a DEF RecentAreLast
  <2>2. \A i \in 1 .. R : F - R + i \in 1 .. F
    BY <1>5
  <2>3. F - R + (R + 1) = F + 1 /\ \A i \in 1 .. R + 1 : i \in 1 .. R \/ i = R + 1
    BY <1>5
  <2> QED BY <2>2, <2>3, <1>3, <1>5, <1>6, <2>1
<1>10. FailuresOrdered'
  <2>1. \A i, j \in 1 .. F : i <= j => failures[i] <= failures[j]
    BY <1>1, <1>a DEF FailuresOrdered
  <2>2. DOMAIN failures' = 1 .. F + 1 /\ \A i \in 1 .. F + 1 : i \in 1 .. F \/ i = F + 1
    BY <1>5, <1>6
  <2>3. \A i \in 1 .. F + 1 : failures'[i] <= now /\ (i = F + 1 => failures'[i] = now)
    BY <1>1, <1>6, <2>2
  <2>4. \A i, j \in 1 .. F + 1 : i <= j => failures'[i] <= failures'[j]
    <3>1. SUFFICES ASSUME NEW i \in 1 .. F + 1, NEW j \in 1 .. F + 1, i <= j PROVE failures'[i] <= failures'[j]
      OBVIOUS
    <3>2. CASE j = F + 1
      BY <2>3, <3>2
    <3>3. CASE j # F + 1
      BY <1>5, <1>6, <2>1, <3>1, <3>3
    <3> QED BY <3>2, <3>3
  <2> QED BY <1>2, <2>2, <2>3, <2>4 DEF FailuresOrdered
<1>11. \A i \in 1 .. Dropped' : now - failures'[i] > DEGRADATION_WINDOW
  <2>1. ASSUME NEW i \in 1 .. F - R PROVE now - failures'[i] > DEGRADATION_WINDOW
    <3>1. i \in 1 .. F /\ F \in 1 .. F /\ LastFailure - failures[i] > DEGRADATION_WINDOW
      BY <1>5, <1>8, <2>1 DEF RecentAreLast
    <3>2. LastFailure = failures[F]
      BY <1>a DEF LastFailure
    <3>3. failures[F] \in Nat /\ failures[i] \in Nat /\ failures[F] <= now /\ failures'[i] = failures[i]
      BY <1>0, <1>6, <3>1
    <3> QED BY <1>0, <1>1, <3>1, <3>2, <3>3
  <2>2. ASSUME NEW i \in F - R + 1 .. F - R + n PROVE now - failures'[i] > DEGRADATION_WINDOW
    <3>1. i - (F - R) \in 1 .. n /\ i - (F - R) \in 1 .. R + 1 /\ F - R + (i - (F - R)) = i
      BY <1>4, <1>5, <2>2
    <3> QED BY <1>4, <1>9, <3>1
  <2> QED BY <1>4, <1>5, <1>8, <2>1, <2>2
<1>12. \A i \in Dropped' + 1 .. F + 1 : now - failures'[i] <= DEGRADATION_WINDOW
  <2>1. n + 1 \in 1 .. R + 1 /\ F - R + (n + 1) = Dropped' + 1
    BY <1>4, <1>5, <1>8
  <2>2. now - failures'[Dropped' + 1] <= DEGRADATION_WINDOW
    BY <1>4, <1>9, <2>1
  <2>3. Dropped' + 1 \in 1 .. F + 1
    BY <1>4, <1>5, <1>8
  <2>4. \A i \in Dropped' + 1 .. F + 1 : failures'[Dropped' + 1] <= failures'[i]
    BY <1>5, <1>6, <1>10, <2>3 DEF FailuresOrdered
  <2>5. \A i \in 1 .. F + 1 : failures'[i] \in Nat
    BY <1>0, <1>1, <1>6
  <2> QED BY <1>0, <1>1, <2>2, <2>3, <2>4, <2>5
<1>13. RecentAreLast'
  <2>1. \A i \in DOMAIN recentFailures' : recentFailures'[i] = failures'[Dropped' + i]
    <3>1. SUFFICES ASSUME NEW i \in 1 .. R + 1 - n PROVE recentFailures'[i] = failures'[Dropped' + i]
      BY <1>7
    <3>2. n + i \in 1 .. R + 1 /\ F - R + (n + i) = Dropped' + i
      BY <1>4, <1>5, <1>8, <3>1
    <3> QED BY <1>7, <1>9, <3>1, <3>2
  <2> QED BY <1>6, <1>8, <1>11, <1>12, <2>1 DEF RecentAreLast
<1>14. BreakerTypeOK'
  <2>1. enabled' \in BOOLEAN /\ fatal' \in BOOLEAN
    BY <1>1, <1>2, Zenon
  <2> QED BY <1>0, <1>1, <1>2, <1>4, <1>5, <1>6, <1>7, <2>1 DEF BreakerTypeOK
<1>15. TooManyFailures' <=> TooManyFailures \/ Len(recentFailures') >= DEGRADATION_THRESHOLD
  <2> DEFINE W == DEGRADATION_WINDOW
             D == DEGRADATION_THRESHOLD
             i0 == F + 1 - (D - 1)
  <2>1. TooManyFailures <=> \E i \in 1 .. F : i + D - 1 \in 1 .. F /\ failures[i + D - 1] - failures[i] <= W
    BY <1>1, <1>a DEF TooManyFailures
  <2>2. TooManyFailures' <=> \E i \in 1 .. F + 1 : i + D - 1 \in 1 .. F + 1 /\ failures'[i + D - 1] - failures'[i] <= W
    BY <1>5, <1>6 DEF TooManyFailures
  <2>3. ASSUME NEW i \in 1 .. F + 1, i + D - 1 \in 1 .. F
        PROVE  i \in 1 .. F /\ failures'[i + D - 1] = failures[i + D - 1] /\ failures'[i] = failures[i]
    <3>1. i \in 1 .. F
      BY <1>0, <1>5, <2>3
    <3> HIDE DEF D
    <3> QED BY <1>6, <2>3, <3>1
  <2>4. ASSUME NEW i \in 1 .. F + 1, i + D - 1 = F + 1
        PROVE  i = i0 /\ i0 \in 1 .. F + 1 /\ failures'[i + D - 1] = now
    BY <1>0, <1>5, <1>6, <2>4
  <2>5. TooManyFailures' <=> TooManyFailures \/ (i0 \in 1 .. F + 1 /\ now - failures'[i0] <= W)
    <3>1. ASSUME NEW i \in 1 .. F PROVE i \in 1 .. F + 1 /\ (i + D - 1 \in 1 .. F => i + D - 1 \in 1 .. F + 1)
      BY <1>5, <3>1
    <3>2. i0 \in 1 .. F + 1 => i0 + D - 1 = F + 1 /\ F + 1 \in 1 .. F + 1
      BY <1>0, <1>5
    <3>3. ASSUME NEW i \in 1 .. F + 1, i + D - 1 \in 1 .. F + 1 PROVE i + D - 1 \in 1 .. F \/ i + D - 1 = F + 1
      BY <1>0, <1>5, <3>3
    <3> HIDE DEF i0, W, D
    <3> QED BY <2>1, <2>2, <2>3, <2>4, <3>1, <3>2, <3>3
  <2>6. i0 \in 1 .. F + 1 /\ now - failures'[i0] <= W <=> i0 \in Dropped' + 1 .. F + 1
    <3>1. Dropped' \in 0 .. F
      BY <1>4, <1>5, <1>8
    <3>2. ASSUME i0 \in 1 .. F + 1, now - failures'[i0] <= W PROVE i0 > Dropped'
      <4>1. failures'[i0] \in Nat
        BY <1>0, <1>1, <1>6, <3>2
      <4> QED BY <1>0, <1>1, <1>11, <3>1, <3>2, <4>1
    <3>3. i0 \in Int
      BY <1>0, <1>5
    <3>4. i0 <= F + 1
      BY <1>0, <1>5
    <3> HIDE DEF i0
    <3>5. \A i \in Int, d \in 0 .. F : i <= F + 1 => (i \in d + 1 .. F + 1 <=> i > d)
      BY <1>5
    <3>6. i0 \in Dropped' + 1 .. F + 1 <=> i0 > Dropped'
      BY <3>1, <3>3, <3>4, <3>5
    <3>7. i0 > Dropped' => i0 \in 1 .. F + 1
      BY <1>5, <3>1, <3>3, <3>4
    <3> QED BY <1>12, <3>2, <3>6, <3>7
  <2>7. i0 \in Dropped' + 1 .. F + 1 <=> Len(recentFailures') >= D
    BY <1>0, <1>4, <1>5, <1>7, <1>8
  <2> QED BY <2>5, <2>6, <2>7
<1> QED BY <1>2, <1>10, <1>13, <1>14, <1>15

-----------------------------------------------------------------------------
(* The loop of the callback *)

\* The loop's accumulators before the first row
Start(f) == [seen |-> subscriptions[f].seen, cursor |-> cursor, passed |-> passed]

\* g is the loop over the first n rows.
IsLoop(f, n, g) == g = [i \in 0 .. n |-> IF i = 0 THEN Start(f) ELSE Row(f, g[i - 1], i)]

\* There is such a function: the recursion is well defined.
LEMMA LoopExists ==
    ASSUME NEW f PROVE \A n \in Nat : \E g : IsLoop(f, n, g)
<1> DEFINE S == {n \in Nat : \E g : IsLoop(f, n, g)}
<1>1. 0 \in S
  <2> DEFINE g == [i \in 0 .. 0 |-> Start(f)]
  <2>1. IsLoop(f, 0, g)
    BY DEF IsLoop
  <2> QED BY <2>1
<1>2. ASSUME NEW n \in Nat, n \in S PROVE n + 1 \in S
  <2>1. PICK g : IsLoop(f, n, g)
    BY <1>2
  <2> DEFINE h == [i \in 0 .. n + 1 |-> IF i = n + 1 THEN Row(f, g[n], n + 1) ELSE g[i]]
  <2>2. \A i \in 0 .. n : g[i] = IF i = 0 THEN Start(f) ELSE Row(f, g[i - 1], i)
    BY <2>1 DEF IsLoop
  <2>3. \A i \in 0 .. n + 1 : h[i] = IF i = 0 THEN Start(f) ELSE Row(f, h[i - 1], i)
    BY <2>2
  <2>4. IsLoop(f, n + 1, h)
    <3>1. h = [i \in 0 .. n + 1 |-> h[i]]
      OBVIOUS
    <3> HIDE DEF h
    <3> QED BY <2>3, <3>1 DEF IsLoop
  <2> QED BY <2>4
<1> HIDE DEF S
<1>3. Nat \subseteq S
  BY <1>1, <1>2, SetInduction
<1> QED BY <1>3 DEF S

\* Receive is the last value of a function that takes one turn per row.
LEMMA ReceiveLoop ==
    ASSUME NEW f, Len(rows) \in Nat
    PROVE  \E g : /\ g[0] = Start(f) /\ \A i \in 1 .. Len(rows) : g[i] = Row(f, g[i - 1], i)
                  /\ Receive(f) = g[Len(rows)]
<1> DEFINE G == CHOOSE g : IsLoop(f, Len(rows), g)
<1>1. IsLoop(f, Len(rows), G)
  BY LoopExists, Zenon
<1>2. Receive(f) = G[Len(rows)]
  BY Zenon DEF Receive, IsLoop, Start
<1> HIDE DEF G
<1>3. G[0] = Start(f) /\ \A i \in 1 .. Len(rows) : G[i] = Row(f, G[i - 1], i)
  BY <1>1 DEF IsLoop
<1> QED BY <1>2, <1>3

-----------------------------------------------------------------------------
(* Rows, the cursor and the feed.  Each is said of values, not of the state, *)
(* since the lemmas are about the values before a step and those after it.   *)

\* TsOf, in the rows rs
TsIn(rs, n) == IF n = 0 THEN 0 ELSE rs[n].ts

\* Times do not decrease, and the first is 1.
RowsOK(rs) ==
    /\ rs \in Seq([ts: 1 .. MaxRows, from: Senders]) /\ Len(rs) <= MaxRows
    /\ \A i, j \in 1 .. Len(rs) : i <= j => rs[i].ts <= rs[j].ts
    /\ \A i \in 1 .. Len(rs) : rs[i].ts <= i

\* The row was passed, is an own one, or has the time of an earlier row.
Covered(rs, ps, i) ==
    \/ i \in Range(ps)
    \/ rs[i].from # Peer
    \/ \E j \in 1 .. i - 1 : rs[j].ts = rs[i].ts

\* What was passed on is in order, and not after the cursor.
PassedOK(rs, ps, c) ==
    /\ ps \in Seq(1 .. Len(rs))
    /\ \A i \in 1 .. Len(ps) - 1 : ps[i] < ps[i + 1]
    /\ \A p \in Range(ps) : rs[p].ts <= c

\* The cursor is at least where the holder joined, and the rows that it makes
\* the next feed leave out need not come again.
CursorOK(rs, ps, c, j) ==
    /\ c \in 0 .. MaxRows /\ j \in 0 .. Len(rs)
    /\ TsIn(rs, j) <= c /\ c <= TsIn(rs, Len(rs))
    /\ \A i \in j + 1 .. Len(rs) : rs[i].ts <= c => Covered(rs, ps, i)

\* An open feed remembers the rows it was given, has passed on all but the own
\* ones, and nothing beyond them was passed on.
SubOK(rs, ps, c, s) ==
    /\ s \in Subscription /\ s.after <= Len(rs) /\ s.upTo <= Len(rs)
    /\ s.sinceTs <= c /\ TsIn(rs, s.after) <= s.sinceTs
    /\ Range(s.seen) = {i \in 1 .. s.upTo : rs[i].ts > s.sinceTs}
    /\ \A i \in 1 .. Len(s.seen) : i <= s.seen[i]
    /\ \A i \in 1 .. s.upTo : rs[i].ts <= c
    /\ \A i \in s.after + 1 .. Len(rs) : rs[i].ts <= s.sinceTs => Covered(rs, ps, i)
    /\ \A i \in 1 .. s.upTo : rs[i].ts > s.sinceTs => i \in Range(ps) \/ rs[i].from = s.ownSessionId
    /\ \A p \in Range(ps) : rs[p].ts <= s.sinceTs \/ p <= s.upTo

\* The facts about times that the lemmas below use
LEMMA RowTypes ==
    ASSUME NEW rs, RowsOK(rs)
    PROVE  /\ Len(rs) \in Nat /\ MaxRows \in Nat /\ Len(rs) <= MaxRows
           /\ \A i \in 1 .. Len(rs) : rs[i].ts \in 1 .. MaxRows /\ rs[i].ts \in Nat \ {0} /\ rs[i].from \in Senders
           /\ \A i, j \in 1 .. Len(rs) : i <= j => rs[i].ts <= rs[j].ts
           /\ \A i \in 0 .. Len(rs) : TsIn(rs, i) \in 0 .. MaxRows /\ TsIn(rs, i) \in Nat /\ TsIn(rs, i) <= TsIn(rs, Len(rs))
<1>1. MaxRows \in Nat /\ Len(rs) \in Nat /\ Len(rs) <= MaxRows
  BY RemoteAssumption DEF RowsOK
<1>2. \A i \in 1 .. Len(rs) : rs[i] \in [ts: 1 .. MaxRows, from: Senders]
  BY ElementOfSeq DEF RowsOK
<1>3. \A i \in 1 .. Len(rs) : rs[i].ts \in 1 .. MaxRows /\ rs[i].ts \in Nat \ {0} /\ rs[i].from \in Senders
  BY <1>1, <1>2
<1>4. \A i \in 0 .. Len(rs) : TsIn(rs, i) \in 0 .. MaxRows /\ TsIn(rs, i) \in Nat /\ TsIn(rs, i) <= TsIn(rs, Len(rs))
  BY <1>1, <1>3 DEF TsIn, RowsOK
<1> QED BY <1>1, <1>3, <1>4 DEF RowsOK

\* The cursor moves up to a row that the holder has: the rows of a join.
LEMMA CursorAdvances ==
    ASSUME NEW rs, NEW ps, NEW c, NEW j, RowsOK(rs), CursorOK(rs, ps, c, j), PassedOK(rs, ps, c),
           NEW u \in 0 .. Len(rs)
    PROVE  /\ CursorOK(rs, ps, Later(c, TsIn(rs, u)), Later(j, u))
           /\ PassedOK(rs, ps, Later(c, TsIn(rs, u)))
           /\ c <= Later(c, TsIn(rs, u))
<1> DEFINE c2 == Later(c, TsIn(rs, u))
           j2 == Later(j, u)
<1>0. /\ Len(rs) \in Nat /\ MaxRows \in Nat /\ c \in 0 .. MaxRows /\ c \in Nat /\ j \in 0 .. Len(rs)
      /\ \A i \in 1 .. Len(rs) : rs[i].ts \in Nat
      /\ \A i, k \in 1 .. Len(rs) : i <= k => rs[i].ts <= rs[k].ts
  BY RowTypes DEF CursorOK
<1>1. TsIn(rs, u) \in 0 .. MaxRows /\ TsIn(rs, u) <= TsIn(rs, Len(rs))
  BY RowTypes
<1>2. c2 \in 0 .. MaxRows /\ j2 \in 0 .. Len(rs) /\ c <= c2 /\ c2 <= TsIn(rs, Len(rs)) /\ TsIn(rs, j2) <= c2
  <2>1. TsIn(rs, j) \in Nat /\ TsIn(rs, j) <= c /\ c <= TsIn(rs, Len(rs)) /\ TsIn(rs, Len(rs)) \in Nat
    BY <1>0, RowTypes DEF CursorOK
  <2>2. j2 \in {j, u} /\ c2 \in {c, TsIn(rs, u)} /\ c <= c2 /\ TsIn(rs, u) <= c2
    BY <1>0, <1>1 DEF Later
  <2> HIDE DEF j2, c2
  <2> QED BY <1>0, <1>1, <2>1, <2>2
<1>3. ASSUME NEW i \in j2 + 1 .. Len(rs), rs[i].ts <= c2 PROVE Covered(rs, ps, i)
  <2>1. i \in 1 .. Len(rs) /\ i \in j + 1 .. Len(rs) /\ u < i
    BY <1>0, <1>3 DEF Later
  <2>2. CASE rs[i].ts <= c
    BY <2>1, <2>2 DEF CursorOK
  <2>3. CASE rs[i].ts > c
    <3>1. c2 = TsIn(rs, u) /\ c2 > c
      BY <1>0, <1>1, <1>3, <2>1, <2>3 DEF Later
    <3>2. u # 0
      BY <1>0, <3>1 DEF TsIn
    <3>3. u \in 1 .. Len(rs) /\ u \in 1 .. i - 1 /\ rs[u].ts = c2
      BY <1>0, <2>1, <3>1, <3>2 DEF TsIn
    <3>4. rs[u].ts = rs[i].ts
      <4>1. u <= i /\ rs[u].ts <= rs[i].ts /\ rs[i].ts <= rs[u].ts
        BY <1>0, <1>3, <2>1, <3>3
      <4> QED BY <1>0, <2>1, <3>3, <4>1
    <3> QED BY <3>3, <3>4 DEF Covered
  <2> QED BY <1>0, <2>1, <2>2, <2>3
<1>4. \A p \in Range(ps) : rs[p].ts <= c2
  <2>1. \A p \in Range(ps) : p \in 1 .. Len(rs)
    BY RangeOfSeq DEF PassedOK
  <2> QED BY <1>0, <1>2, <2>1 DEF PassedOK
<1> QED BY <1>2, <1>3, <1>4 DEF CursorOK, PassedOK

\* A feed that is opened
Opened(since, own, after) ==
    [sinceTs |-> since, ownSessionId |-> own, seen |-> <<>>, upTo |-> 0, after |-> after]

\* A feed opened at the cursor, by a holder that has the rows up to j
LEMMA OpenedOK ==
    ASSUME NEW rs, NEW ps, NEW c, NEW j, RowsOK(rs), CursorOK(rs, ps, c, j), PassedOK(rs, ps, c),
           NEW own \in SessionIds \cup {NoSession}
    PROVE  SubOK(rs, ps, c, Opened(c, own, j))
<1> DEFINE s == Opened(c, own, j)
<1>0. s.sinceTs = c /\ s.ownSessionId = own /\ s.seen = <<>> /\ s.upTo = 0 /\ s.after = j
  BY DEF Opened
<1>1. Len(rs) \in Nat /\ MaxRows \in Nat /\ Len(rs) <= MaxRows /\ c \in Nat
  BY RemoteAssumption DEF RowsOK, CursorOK
<1>2. s \in Subscription
  <2>1. <<>> \in Seq(1 .. MaxRows)
    BY EmptySeq
  <2> QED BY <1>1, <2>1 DEF Opened, Subscription, CursorOK
<1>3. Range(s.seen) = {} /\ Len(s.seen) = 0
  BY <1>0 DEF Range
<1> HIDE DEF s
<1>4. \A i \in 1 .. s.upTo : FALSE
  BY <1>0
<1>5. \A i \in 1 .. Len(s.seen) : FALSE
  BY <1>3
<1>6. \A i \in s.after + 1 .. Len(rs) : rs[i].ts <= s.sinceTs => Covered(rs, ps, i)
  BY <1>0 DEF CursorOK
<1>7. \A p \in Range(ps) : rs[p].ts <= s.sinceTs
  BY <1>0 DEF PassedOK
<1>8. j <= Len(rs) /\ 0 <= Len(rs) /\ c <= c /\ TsIn(rs, j) <= c
  BY <1>1 DEF CursorOK
<1>9. {i \in 1 .. s.upTo : rs[i].ts > s.sinceTs} = {}
  BY <1>4
<1>10. s.after <= Len(rs) /\ s.upTo <= Len(rs) /\ s.sinceTs <= c /\ TsIn(rs, s.after) <= s.sinceTs
  BY <1>0, <1>8
<1>11. Range(s.seen) = {i \in 1 .. s.upTo : rs[i].ts > s.sinceTs}
  BY <1>3, <1>9
<1>12. SubOK(rs, ps, c, s)
  BY <1>2, <1>4, <1>5, <1>6, <1>7, <1>10, <1>11 DEF SubOK
<1> QED BY <1>12 DEF s

\* A feed stays as it is while the cursor moves on.
LEMMA SubLater ==
    ASSUME NEW rs, NEW ps, NEW c, NEW d, NEW s, RowsOK(rs), SubOK(rs, ps, c, s), c \in Nat, d \in Nat, c <= d
    PROVE  SubOK(rs, ps, d, s)
<1>1. s.sinceTs \in Nat /\ s.upTo \in Nat /\ Len(rs) \in Nat /\ \A i \in 1 .. Len(rs) : rs[i].ts \in Nat
  BY RowTypes DEF SubOK, Subscription
<1>2. \A i \in 1 .. s.upTo : i \in 1 .. Len(rs)
  BY <1>1 DEF SubOK
<1> QED BY <1>1, <1>2 DEF SubOK

\* rs2 has one row more, at the time of the last one or later.
Posted(rs, rs2) ==
    \E ts \in {TsIn(rs, Len(rs)), TsIn(rs, Len(rs)) + 1} \ {0}, from \in Senders :
        rs2 = Append(rs, [ts |-> ts, from |-> from])

\* Posting a row disturbs neither the cursor nor an open feed.
LEMMA PostedOK ==
    ASSUME NEW rs, NEW ps, NEW c, NEW j, RowsOK(rs), CursorOK(rs, ps, c, j), PassedOK(rs, ps, c),
           Len(rs) < MaxRows, NEW rs2, Posted(rs, rs2)
    PROVE  /\ RowsOK(rs2) /\ Len(rs2) = Len(rs) + 1
           /\ CursorOK(rs2, ps, c, j) /\ PassedOK(rs2, ps, c)
           /\ \A s : SubOK(rs, ps, c, s) => SubOK(rs2, ps, c, s)
<1>0. PICK ts \in {TsIn(rs, Len(rs)), TsIn(rs, Len(rs)) + 1} \ {0}, from \in Senders :
        rs2 = Append(rs, [ts |-> ts, from |-> from])
  BY DEF Posted
<1> DEFINE n == Len(rs)
           row == [ts |-> ts, from |-> from]
<1>1. /\ n \in Nat /\ MaxRows \in Nat /\ n < MaxRows
      /\ \A i \in 1 .. n : rs[i].ts \in Nat \ {0} /\ rs[i].ts <= TsIn(rs, n)
      /\ TsIn(rs, n) \in Nat /\ TsIn(rs, n) <= n /\ c \in Nat /\ c <= TsIn(rs, n) /\ j \in 0 .. n
  <2>1. n \in Nat /\ MaxRows \in Nat /\ n < MaxRows /\ n \in 0 .. n /\ c \in Nat /\ c <= TsIn(rs, n) /\ j \in 0 .. n
    BY RowTypes DEF CursorOK
  <2>2. TsIn(rs, n) \in Nat /\ TsIn(rs, n) <= n
    <3>1. n # 0 => n \in 1 .. n
      BY <2>1
    <3> QED BY <2>1, <3>1, RowTypes DEF TsIn, RowsOK
  <2>3. ASSUME NEW i \in 1 .. n PROVE rs[i].ts \in Nat \ {0} /\ rs[i].ts <= TsIn(rs, n)
    <3>1. n \in 1 .. n /\ i <= n /\ n # 0
      BY <2>1
    <3> QED BY <3>1, RowTypes DEF TsIn
  <2> QED BY <2>1, <2>2, <2>3
<1>2. row \in [ts: 1 .. MaxRows, from: Senders] /\ row.ts = ts /\ row.from = from /\ ts \in Nat
      /\ ts <= n + 1 /\ TsIn(rs, n) <= ts
  BY <1>0, <1>1
<1> HIDE DEF row
<1>3. /\ rs2 \in Seq([ts: 1 .. MaxRows, from: Senders]) /\ Len(rs2) = n + 1 /\ rs2[n + 1] = row
      /\ \A i \in 1 .. n : rs2[i] = rs[i]
  BY <1>0, <1>2, AppendProperties DEF RowsOK, row
<1> HIDE DEF n
<1>4. \A i \in 1 .. n + 1 : i \in 1 .. n \/ i = n + 1
  BY <1>1
<1>5. \A i \in 1 .. n + 1 : rs2[i].ts <= i
  BY <1>2, <1>3, <1>4 DEF RowsOK, n
<1>6. ASSUME NEW i \in 1 .. n + 1, NEW k \in 1 .. n + 1, i <= k PROVE rs2[i].ts <= rs2[k].ts
  <2>1. CASE k = n + 1
    <3>1. CASE i = n + 1
      BY <1>2, <1>3, <2>1, <3>1
    <3>2. CASE i \in 1 .. n
      <4>1. rs2[i].ts \in Nat /\ rs2[i].ts <= TsIn(rs, n)
        BY <1>1, <1>3, <3>2
      <4> QED BY <1>1, <1>2, <1>3, <2>1, <4>1
    <3> QED BY <1>4, <3>1, <3>2
  <2>2. CASE k \in 1 .. n
    <3>1. i \in 1 .. n
      BY <1>1, <1>6, <2>2
    <3> QED BY <1>3, <1>6, <2>2, <3>1 DEF RowsOK, n
  <2> QED BY <1>4, <2>1, <2>2
<1>7. RowsOK(rs2)
  BY <1>1, <1>3, <1>5, <1>6 DEF RowsOK
<1>8. \A i \in 0 .. n : TsIn(rs2, i) = TsIn(rs, i)
  BY <1>1, <1>3 DEF TsIn
<1>9. TsIn(rs2, n + 1) = ts
  BY <1>1, <1>2, <1>3 DEF TsIn
<1>10. \A i \in 1 .. n : Covered(rs, ps, i) => Covered(rs2, ps, i)
  <2>1. \A i \in 1 .. n : \A k \in 1 .. i - 1 : k \in 1 .. n
    BY <1>1
  <2> QED BY <1>3, <2>1 DEF Covered
<1>11. ASSUME NEW since \in Nat, since <= TsIn(rs, n), ts <= since PROVE Covered(rs2, ps, n + 1)
  <2>1. ts = TsIn(rs, n) /\ n # 0
    BY <1>1, <1>2, <1>11 DEF TsIn
  <2>2. n \in 1 .. (n + 1) - 1 /\ rs2[n].ts = rs2[n + 1].ts
    BY <1>1, <1>2, <1>3, <2>1 DEF TsIn
  <2> QED BY <2>2 DEF Covered
<1>12. \A p \in Range(ps) : p \in 1 .. n
  BY RangeOfSeq DEF PassedOK, n
<1>13. PassedOK(rs2, ps, c)
  <2>1. ps \in Seq(1 .. n + 1)
    <3>1. 1 .. n \subseteq 1 .. n + 1
      BY <1>1
    <3> QED BY <3>1, SeqMonotonic DEF PassedOK, n
  <2>2. \A p \in Range(ps) : rs2[p].ts <= c
    BY <1>3, <1>12 DEF PassedOK
  <2> QED BY <1>3, <2>1, <2>2 DEF PassedOK
<1>14. CursorOK(rs2, ps, c, j)
  <2>1. ASSUME NEW i \in j + 1 .. n + 1, rs2[i].ts <= c PROVE Covered(rs2, ps, i)
    <3>1. CASE i = n + 1
      BY <1>1, <1>2, <1>3, <1>11, <2>1, <3>1
    <3>2. CASE i # n + 1
      <4>1. i \in 1 .. n /\ i \in j + 1 .. n
        <5>1. n \in Nat /\ j \in 0 .. n
          BY <1>1
        <5> QED BY <5>1, <2>1, <3>2
      <4> QED BY <1>3, <1>10, <2>1, <4>1 DEF CursorOK, n
    <3> QED BY <3>1, <3>2
  <2>2. c <= ts
    BY <1>1, <1>2
  <2>3. j \in 0 .. n + 1 /\ TsIn(rs2, j) <= c
    BY <1>1, <1>8 DEF CursorOK
  <2> QED BY <1>3, <1>9, <2>1, <2>2, <2>3 DEF CursorOK
<1>15. ASSUME NEW s, SubOK(rs, ps, c, s) PROVE SubOK(rs2, ps, c, s)
  <2>1. /\ s \in Subscription /\ s.after \in 0 .. n /\ s.upTo \in 0 .. n /\ s.sinceTs \in Nat
        /\ s.sinceTs <= c /\ TsIn(rs, s.after) <= s.sinceTs
    BY <1>15 DEF SubOK, Subscription, n
  <2>2. \A i \in 1 .. s.upTo : i \in 1 .. n /\ rs2[i] = rs[i]
    BY <1>1, <1>3, <2>1
  <2>3. Range(s.seen) = {i \in 1 .. s.upTo : rs2[i].ts > s.sinceTs}
    BY <1>15, <2>2 DEF SubOK
  <2>4. ASSUME NEW i \in s.after + 1 .. n + 1, rs2[i].ts <= s.sinceTs PROVE Covered(rs2, ps, i)
    <3>1. CASE i = n + 1
      <4>1. s.sinceTs <= TsIn(rs, n)
        BY <1>1, <2>1
      <4> QED BY <1>2, <1>3, <1>11, <2>1, <2>4, <3>1, <4>1
    <3>2. CASE i # n + 1
      <4>1. i \in 1 .. n /\ i \in s.after + 1 .. n
        BY <1>1, <2>1, <2>4, <3>2
      <4> QED BY <1>3, <1>10, <1>15, <2>4, <4>1 DEF SubOK, n
    <3> QED BY <3>1, <3>2
  <2>5. \A p \in Range(ps) : rs2[p].ts <= s.sinceTs \/ p <= s.upTo
    BY <1>3, <1>12, <1>15 DEF SubOK
  <2>6. s.after <= n + 1 /\ s.upTo <= n + 1 /\ TsIn(rs2, s.after) <= s.sinceTs
    BY <1>1, <1>8, <2>1
  <2>7. /\ \A i \in 1 .. s.upTo : rs2[i].ts <= c
        /\ \A i \in 1 .. s.upTo : rs2[i].ts > s.sinceTs => i \in Range(ps) \/ rs2[i].from = s.ownSessionId
    BY <1>15, <2>2 DEF SubOK
  <2> QED BY <1>3, <1>15, <2>1, <2>3, <2>4, <2>5, <2>6, <2>7 DEF SubOK
<1> QED BY <1>3, <1>7, <1>13, <1>14, <1>15 DEF n

-----------------------------------------------------------------------------
(* An update *)

\* Where the loop is when the feed s has been given the rows up to m.
LoopAt(acc, s, m) ==
    /\ acc = [seen |-> acc.seen, cursor |-> acc.cursor, passed |-> acc.passed]
    /\ acc.seen \in Seq(1 .. Len(rows))
    /\ Range(acc.seen) = {i \in 1 .. m : rows[i].ts > s.sinceTs}
    /\ \A i \in 1 .. Len(acc.seen) : i <= acc.seen[i]
    /\ acc.cursor \in Nat /\ cursor <= acc.cursor /\ acc.cursor <= TsIn(rows, Len(rows))
    /\ \A i \in 1 .. m : rows[i].ts <= acc.cursor
    /\ acc.passed \in Seq(1 .. Len(rows))
    /\ \A i \in 1 .. Len(acc.passed) - 1 : acc.passed[i] < acc.passed[i + 1]
    /\ Len(passed) <= Len(acc.passed)
    /\ \A i \in 1 .. Len(passed) : acc.passed[i] = passed[i]
    /\ \A i \in Len(passed) + 1 .. Len(acc.passed) :
           acc.passed[i] \in s.upTo + 1 .. m /\ rows[acc.passed[i]].ts > s.sinceTs
    /\ \A i \in 1 .. m : rows[i].ts > s.sinceTs => i \in Range(acc.passed) \/ rows[i].from = s.ownSessionId

\* ... after n rows: those it had before are skipped.
LoopOK(f, acc, n) == LoopAt(acc, subscriptions[f], Later(subscriptions[f].upTo, n))

\* A sequence whose members are not before their places is not longer than the
\* greatest of them.
LEMMA NotLonger ==
    ASSUME NEW m \in Nat, NEW n \in Nat, NEW seen \in Seq(1 .. n), Range(seen) \subseteq 1 .. m,
           \A i \in 1 .. Len(seen) : i <= seen[i]
    PROVE  Len(seen) <= m
<1>1. CASE Len(seen) = 0
  BY <1>1
<1>2. CASE Len(seen) # 0
  <2>1. Len(seen) \in 1 .. Len(seen) /\ Len(seen) \in DOMAIN seen
    BY <1>2
  <2>2. seen[Len(seen)] \in 1 .. m
    BY <2>1 DEF Range
  <2> QED BY <2>1, <2>2
<1> QED BY <1>1, <1>2

\* The members of a sequence with one more
LEMMA AppendRange ==
    ASSUME NEW S, NEW s \in Seq(S), NEW x \in S
    PROVE  /\ Append(s, x) \in Seq(S) /\ Len(Append(s, x)) = Len(s) + 1 /\ Append(s, x)[Len(s) + 1] = x
           /\ \A i \in 1 .. Len(s) : Append(s, x)[i] = s[i]
           /\ Range(Append(s, x)) = Range(s) \cup {x}
<1>1. /\ Append(s, x) \in Seq(S) /\ Len(Append(s, x)) = Len(s) + 1 /\ Append(s, x)[Len(s) + 1] = x
      /\ \A i \in 1 .. Len(s) : Append(s, x)[i] = s[i]
  BY AppendProperties
<1>2. Range(s) = {s[i] : i \in 1 .. Len(s)} /\ Range(Append(s, x)) = {Append(s, x)[i] : i \in 1 .. Len(s) + 1}
  BY <1>1, RangeEquality
<1>3. Len(s) \in Nat /\ \A i \in 1 .. Len(s) + 1 : i \in 1 .. Len(s) \/ i = Len(s) + 1
  OBVIOUS
<1>4. Len(s) + 1 \in 1 .. Len(s) + 1 /\ \A i \in 1 .. Len(s) : i \in 1 .. Len(s) + 1
  BY <1>3
<1> QED BY <1>1, <1>2, <1>3, <1>4

\* LoopAt, of accumulators given one by one
LEMMA LoopRecord ==
    ASSUME NEW seen \in Seq(1 .. Len(rows)), NEW c \in Nat, NEW ps \in Seq(1 .. Len(rows)), NEW s, NEW m,
           Range(seen) = {i \in 1 .. m : rows[i].ts > s.sinceTs},
           \A i \in 1 .. Len(seen) : i <= seen[i],
           cursor <= c, c <= TsIn(rows, Len(rows)),
           \A i \in 1 .. m : rows[i].ts <= c,
           \A i \in 1 .. Len(ps) - 1 : ps[i] < ps[i + 1],
           Len(passed) <= Len(ps),
           \A i \in 1 .. Len(passed) : ps[i] = passed[i],
           \A i \in Len(passed) + 1 .. Len(ps) : ps[i] \in s.upTo + 1 .. m /\ rows[ps[i]].ts > s.sinceTs,
           \A i \in 1 .. m : rows[i].ts > s.sinceTs => i \in Range(ps) \/ rows[i].from = s.ownSessionId
    PROVE  LoopAt([seen |-> seen, cursor |-> c, passed |-> ps], s, m)
<1> DEFINE acc == [seen |-> seen, cursor |-> c, passed |-> ps]
<1>1. acc.seen = seen /\ acc.cursor = c /\ acc.passed = ps
      /\ acc = [seen |-> acc.seen, cursor |-> acc.cursor, passed |-> acc.passed]
  OBVIOUS
<1> HIDE DEF acc
<1>2. LoopAt(acc, s, m)
  BY <1>1 DEF LoopAt
<1> QED BY <1>2 DEF acc

\* One turn of the loop
LEMMA LoopStep ==
    ASSUME NEW f, NEW acc, NEW n \in 1 .. Len(rows), RowsOK(rows), passed \in Seq(1 .. Len(rows)), cursor \in Nat,
           NEW s, s = subscriptions[f], SubOK(rows, passed, cursor, s),
           LoopAt(acc, s, Later(s.upTo, n - 1))
    PROVE  LoopAt(Row(f, acc, n), s, Later(s.upTo, n))
<1> DEFINE N == Len(rows)
           m == Later(s.upTo, n - 1)
           ts == rows[n].ts
<1>0. /\ N \in Nat /\ MaxRows \in Nat /\ MaxRows <= DEDUP_CAPACITY /\ DEDUP_CAPACITY \in Nat /\ N <= MaxRows
      /\ \A i \in 1 .. N : rows[i].ts \in Nat
      /\ s.upTo \in 0 .. N /\ s.sinceTs \in Nat /\ s.sinceTs <= cursor
      /\ n \in 1 .. N /\ ts \in Nat /\ ts <= TsIn(rows, N)
  <2>1. n <= N /\ N \in 1 .. N /\ N # 0
    BY RowTypes
  <2>2. ts <= TsIn(rows, N)
    BY <2>1, RowTypes DEF TsIn
  <2>3. s.upTo \in 0 .. N /\ s.sinceTs \in Nat /\ s.sinceTs <= cursor
    BY RowTypes DEF SubOK, Subscription
  <2> QED BY <2>2, <2>3, RowTypes, RemoteAssumption
<1>o. \A i, k \in 1 .. N : i <= k => rows[i].ts <= rows[k].ts
  BY RowTypes
<1>1. /\ n <= s.upTo => m = s.upTo /\ Later(s.upTo, n) = m
      /\ n > s.upTo => m = n - 1 /\ Later(s.upTo, n) = n
      /\ m \in 0 .. N
  BY <1>0 DEF Later
<1> HIDE DEF m
<1>2. LoopAt(acc, s, m)
  BY DEF m
<1>3. CASE n <= s.upTo
  <2>1. ts > s.sinceTs => n \in Range(acc.seen)
    BY <1>0, <1>1, <1>2, <1>3 DEF LoopAt
  <2>2. Row(f, acc, n) = acc
    BY <1>0, <2>1 DEF Row
  <2> QED BY <1>1, <1>2, <1>3, <2>2
<1>4. CASE n > s.upTo /\ ts <= s.sinceTs
  <2>1. Row(f, acc, n) = acc
    BY <1>4 DEF Row
  <2>2. m = n - 1 /\ Later(s.upTo, n) = n /\ \A i \in 1 .. n : i \in 1 .. m \/ i = n
    BY <1>0, <1>1, <1>4
  <2>3. ~ (ts > s.sinceTs) /\ \A i \in 1 .. m : i \in 1 .. n
    BY <1>0, <1>4, <2>2
  <2>4. LoopAt(acc, s, n)
    <3>1. \A i \in 1 .. n : rows[i].ts <= acc.cursor
      BY <1>0, <1>2, <1>4, <2>2 DEF LoopAt
    <3>2. Range(acc.seen) = {i \in 1 .. n : rows[i].ts > s.sinceTs}
      BY <1>2, <2>2, <2>3 DEF LoopAt
    <3>3. \A i \in Len(passed) + 1 .. Len(acc.passed) :
             acc.passed[i] \in s.upTo + 1 .. n /\ rows[acc.passed[i]].ts > s.sinceTs
      <4>1. \A x \in s.upTo + 1 .. m : x \in s.upTo + 1 .. n
        BY <1>0, <2>2
      <4> QED BY <1>2, <4>1 DEF LoopAt
    <3>4. \A i \in 1 .. n : rows[i].ts > s.sinceTs => i \in Range(acc.passed) \/ rows[i].from = s.ownSessionId
      BY <1>2, <2>2, <2>3 DEF LoopAt
    <3> QED BY <1>2, <3>1, <3>2, <3>3, <3>4 DEF LoopAt
  <2> QED BY <2>1, <2>2, <2>4
<1>5. CASE n > s.upTo /\ ts > s.sinceTs
  <2>0. m = n - 1 /\ Later(s.upTo, n) = n /\ (\A i \in 1 .. n : i \in 1 .. m \/ i = n) /\ \A i \in 1 .. m : i \in 1 .. n /\ i < n
    BY <1>0, <1>1, <1>5
  <2>1. n \notin Range(acc.seen)
    BY <1>2, <2>0 DEF LoopAt
  <2> DEFINE own == rows[n].from = s.ownSessionId
             ps == IF own THEN acc.passed ELSE Append(acc.passed, n)
             c == Later(acc.cursor, ts)
             seen == Append(acc.seen, n)
  <2>2. Len(acc.seen) <= m
    <3>1. Range(acc.seen) \subseteq 1 .. m /\ m \in Nat
      BY <1>1, <1>2 DEF LoopAt
    <3> QED BY <1>0, <1>2, <3>1, NotLonger DEF LoopAt
  <2>3. /\ seen \in Seq(1 .. N) /\ Len(seen) = Len(acc.seen) + 1 /\ seen[Len(acc.seen) + 1] = n
        /\ \A i \in 1 .. Len(acc.seen) : seen[i] = acc.seen[i]
        /\ Range(seen) = Range(acc.seen) \cup {n} /\ Len(acc.seen) \in Nat
    BY <1>0, <1>2, AppendRange DEF LoopAt
  <2>4. AddBounded(acc.seen, n) = seen
    <3>1. ~ (Len(seen) > DEDUP_CAPACITY)
      BY <1>0, <2>0, <2>2, <2>3
    <3> QED BY <3>1 DEF AddBounded
  <2>5. Row(f, acc, n) = [seen |-> seen, cursor |-> c, passed |-> ps]
    BY <1>0, <1>5, <2>1, <2>4 DEF Row
  <2>6. /\ \A i \in 1 .. Len(seen) : i <= seen[i]
        /\ Range(seen) = {i \in 1 .. n : rows[i].ts > s.sinceTs}
    <3> HIDE DEF seen, ts
    <3>1. \A i \in 1 .. Len(seen) : i <= seen[i]
      <4>1. \A i \in 1 .. Len(seen) : i \in 1 .. Len(acc.seen) \/ i = Len(acc.seen) + 1
        BY <2>3
      <4>2. Len(acc.seen) + 1 <= n
        BY <1>0, <1>1, <2>0, <2>2, <2>3
      <4> QED BY <1>2, <2>3, <4>1, <4>2 DEF LoopAt
    <3>2. Range(seen) = {i \in 1 .. n : rows[i].ts > s.sinceTs}
      <4>1. Range(acc.seen) = {i \in 1 .. m : rows[i].ts > s.sinceTs}
        BY <1>2 DEF LoopAt
      <4>2. n \in 1 .. n /\ rows[n].ts > s.sinceTs
        BY <1>0, <1>5 DEF ts
      <4>3. \A i \in Range(acc.seen) : i \in 1 .. n /\ rows[i].ts > s.sinceTs
        BY <2>0, <4>1
      <4> QED BY <2>0, <2>3, <4>1, <4>2, <4>3
    <3> QED BY <3>1, <3>2
  <2>7. /\ c \in Nat /\ cursor <= c /\ c <= TsIn(rows, N)
        /\ \A i \in 1 .. n : rows[i].ts <= c
    <3>1. /\ acc.cursor \in Nat /\ cursor <= acc.cursor /\ acc.cursor <= TsIn(rows, N)
          /\ \A i \in 1 .. m : rows[i].ts <= acc.cursor
      BY <1>2 DEF LoopAt
    <3>2. c \in {acc.cursor, ts} /\ acc.cursor <= c /\ ts <= c /\ c \in Nat
      BY <1>0, <3>1 DEF Later
    <3>3. \A i \in 1 .. m : i \in 1 .. N
      BY <1>0, <2>0
    <3> HIDE DEF c
    <3>4. cursor <= c /\ c <= TsIn(rows, N)
      BY <1>0, <3>1, <3>2
    <3>5. \A i \in 1 .. n : rows[i].ts <= c
      BY <1>0, <2>0, <3>1, <3>2, <3>3
    <3> QED BY <3>2, <3>4, <3>5
  <2>8. \A x \in Range(acc.passed) : x < n
    <3>0. Range(acc.passed) = {acc.passed[i] : i \in 1 .. Len(acc.passed)}
      <4>1. acc.passed \in Seq(1 .. N)
        BY <1>2 DEF LoopAt
      <4> QED BY <4>1, RangeEquality
    <3>1. SUFFICES ASSUME NEW i \in 1 .. Len(acc.passed) PROVE acc.passed[i] < n
      BY <3>0
    <3>2. CASE i \in 1 .. Len(passed)
      <4>1. acc.passed[i] = passed[i] /\ passed[i] \in 1 .. N /\ passed[i] \in Range(passed)
        BY <1>2, <3>2, ElementOfSeq, RangeEquality DEF LoopAt
      <4>2. CASE passed[i] <= s.upTo
        BY <1>0, <1>5, <4>1, <4>2
      <4>3. CASE rows[passed[i]].ts <= s.sinceTs
        <5>1. ~ (n <= passed[i])
          <6>1. SUFFICES ASSUME n <= passed[i] PROVE FALSE
            OBVIOUS
          <6>2. rows[n].ts <= rows[passed[i]].ts
            BY <1>0, <1>o, <4>1, <6>1
          <6>3. rows[n].ts \in Nat /\ rows[passed[i]].ts \in Nat
            BY <1>0, <4>1
          <6> QED BY <1>0, <1>5, <4>3, <6>2, <6>3
        <5> QED BY <1>0, <4>1, <5>1
      <4> QED BY <4>1, <4>2, <4>3 DEF SubOK
    <3>3. CASE i \in Len(passed) + 1 .. Len(acc.passed)
      <4>1. acc.passed[i] \in s.upTo + 1 .. m
        BY <1>2, <3>3 DEF LoopAt
      <4> QED BY <1>0, <1>1, <2>0, <4>1
    <3>4. Len(acc.passed) \in Nat /\ Len(passed) \in Nat
      BY <1>2 DEF LoopAt
    <3> QED BY <3>1, <3>2, <3>3, <3>4
  <2>9. CASE ~own
    <3>1. /\ ps \in Seq(1 .. N) /\ Len(ps) = Len(acc.passed) + 1 /\ ps[Len(acc.passed) + 1] = n
          /\ \A i \in 1 .. Len(acc.passed) : ps[i] = acc.passed[i]
          /\ Range(ps) = Range(acc.passed) \cup {n}
      BY <1>0, <1>2, <2>9, AppendRange DEF LoopAt
    <3> HIDE DEF ps, c, seen
    <3>2. /\ Len(acc.passed) \in Nat /\ Len(passed) \in Nat /\ Len(passed) <= Len(acc.passed)
          /\ \A i \in 1 .. Len(acc.passed) : acc.passed[i] \in Range(acc.passed) /\ acc.passed[i] \in 1 .. N
      BY <1>2, ElementOfSeq, RangeEquality DEF LoopAt
    <3>3. \A i \in 1 .. Len(ps) - 1 : ps[i] < ps[i + 1]
      <4>0. Len(ps) - 1 = Len(acc.passed)
        BY <3>1, <3>2
      <4>1. SUFFICES ASSUME NEW i \in 1 .. Len(acc.passed) PROVE ps[i] < ps[i + 1]
        BY <4>0
      <4>2. CASE i = Len(acc.passed)
        BY <2>8, <3>1, <3>2, <4>2
      <4>3. CASE i # Len(acc.passed)
        <5>1. i \in 1 .. Len(acc.passed) - 1 /\ i + 1 \in 1 .. Len(acc.passed)
          BY <3>2, <4>3
        <5> QED BY <1>2, <3>1, <5>1 DEF LoopAt
      <4> QED BY <4>2, <4>3
    <3>4. \A i \in Len(passed) + 1 .. Len(ps) : ps[i] \in s.upTo + 1 .. n /\ rows[ps[i]].ts > s.sinceTs
      <4>1. \A i \in Len(passed) + 1 .. Len(ps) : i \in Len(passed) + 1 .. Len(acc.passed) \/ i = Len(acc.passed) + 1
        BY <3>1, <3>2
      <4>2. n \in s.upTo + 1 .. n /\ \A x \in s.upTo + 1 .. m : x \in s.upTo + 1 .. n
        BY <1>0, <1>5, <2>0
      <4>3. \A i \in Len(passed) + 1 .. Len(acc.passed) : i \in 1 .. Len(acc.passed)
        BY <3>2
      <4> QED BY <1>2, <1>5, <3>1, <4>1, <4>2, <4>3 DEF LoopAt
    <3>5. \A i \in 1 .. n : rows[i].ts > s.sinceTs => i \in Range(ps) \/ rows[i].from = s.ownSessionId
      BY <1>2, <2>0, <3>1 DEF LoopAt
    <3>6. Len(passed) <= Len(ps) /\ \A i \in 1 .. Len(passed) : ps[i] = passed[i]
      BY <1>2, <3>1, <3>2 DEF LoopAt
    <3> QED BY <2>0, <2>3, <2>5, <2>6, <2>7, <3>1, <3>3, <3>4, <3>5, <3>6, LoopRecord
  <2>10. CASE own
    <3>1. ps = acc.passed
      BY <2>10
    <3>2. \A i \in 1 .. n : rows[i].ts > s.sinceTs => i \in Range(ps) \/ rows[i].from = s.ownSessionId
      BY <1>2, <2>0, <2>10, <3>1 DEF LoopAt
    <3> HIDE DEF ps, c, seen, own
    <3>3. \A x \in s.upTo + 1 .. m : x \in s.upTo + 1 .. n
      BY <1>0, <2>0
    <3>4. /\ ps \in Seq(1 .. N) /\ Len(passed) <= Len(ps)
          /\ \A i \in 1 .. Len(ps) - 1 : ps[i] < ps[i + 1]
          /\ \A i \in 1 .. Len(passed) : ps[i] = passed[i]
          /\ \A i \in Len(passed) + 1 .. Len(ps) : ps[i] \in s.upTo + 1 .. n /\ rows[ps[i]].ts > s.sinceTs
      BY <1>2, <3>1, <3>3 DEF LoopAt
    <3>5. LoopAt([seen |-> seen, cursor |-> c, passed |-> ps], s, n)
      BY <2>3, <2>6, <2>7, <3>2, <3>4, LoopRecord
    <3> QED BY <2>0, <2>5, <3>5
  <2> QED BY <2>9, <2>10
<1> QED BY <1>0, <1>3, <1>4, <1>5

\* The whole loop: the feed has been given all rows.
LEMMA ReceiveOK ==
    ASSUME NEW f, NEW s, s = subscriptions[f], RowsOK(rows), PassedOK(rows, passed, cursor),
           CursorOK(rows, passed, cursor, joinedUpTo), SubOK(rows, passed, cursor, s)
    PROVE  LoopAt(Receive(f), s, Len(rows))
<1> DEFINE N == Len(rows)
<1>0. N \in Nat /\ MaxRows \in Nat /\ cursor \in Nat /\ cursor <= TsIn(rows, N) /\ s.upTo \in 0 .. N /\ passed \in Seq(1 .. N)
  BY RowTypes DEF SubOK, Subscription, CursorOK, PassedOK
<1>1. s.seen \in Seq(1 .. N)
  <2>1. s.seen \in Seq(1 .. MaxRows) /\ Range(s.seen) \subseteq 1 .. s.upTo
    BY DEF SubOK, Subscription
  <2>2. s.seen \in Seq(Range(s.seen)) /\ Range(s.seen) \subseteq 1 .. N
    BY <1>0, <2>1, SeqOfRange
  <2> QED BY <2>2, SeqMonotonic
<1>2. LoopAt(Start(f), s, Later(s.upTo, 0))
  <2>1. Later(s.upTo, 0) = s.upTo
    BY <1>0 DEF Later
  <2>2. \A i \in Len(passed) + 1 .. Len(passed) : FALSE
    BY <1>0
  <2>3. /\ \A i \in 1 .. s.upTo : rows[i].ts <= cursor
        /\ \A i \in 1 .. Len(s.seen) : i <= s.seen[i]
        /\ Range(s.seen) = {i \in 1 .. s.upTo : rows[i].ts > s.sinceTs}
        /\ \A i \in 1 .. s.upTo : rows[i].ts > s.sinceTs => i \in Range(passed) \/ rows[i].from = s.ownSessionId
    BY DEF SubOK
  <2>4. \A i \in 1 .. Len(passed) - 1 : passed[i] < passed[i + 1]
    BY DEF PassedOK
  <2>5. cursor <= cursor /\ Len(passed) <= Len(passed)
    BY <1>0
  <2>6. LoopAt([seen |-> s.seen, cursor |-> cursor, passed |-> passed], s, s.upTo)
    BY <1>0, <1>1, <2>2, <2>3, <2>4, <2>5, LoopRecord
  <2> QED BY <2>1, <2>6 DEF Start
<1>3. PICK g : /\ g[0] = Start(f) /\ \A i \in 1 .. N : g[i] = Row(f, g[i - 1], i)
               /\ Receive(f) = g[N]
  BY <1>0, ReceiveLoop
<1> DEFINE S == {n \in Nat : n <= N => LoopAt(g[n], s, Later(s.upTo, n))}
<1>4. 0 \in S
  BY <1>2, <1>3
<1>5. ASSUME NEW n \in Nat, n \in S PROVE n + 1 \in S
  <2>1. SUFFICES ASSUME n + 1 <= N PROVE LoopAt(g[n + 1], s, Later(s.upTo, n + 1))
    OBVIOUS
  <2>2. n + 1 \in 1 .. N /\ (n + 1) - 1 = n /\ LoopAt(g[n], s, Later(s.upTo, n))
    BY <1>0, <1>5, <2>1
  <2>3. g[n + 1] = Row(f, g[n], n + 1)
    BY <1>3, <2>2
  <2> QED BY <1>0, <2>2, <2>3, LoopStep
<1> HIDE DEF S
<1>6. N \in S
  BY <1>0, <1>4, <1>5, SetInduction
<1>7. Later(s.upTo, N) = N
  BY <1>0 DEF Later
<1> QED BY <1>0, <1>3, <1>6, <1>7 DEF S

\* The rows of an update are passed on, remembered and behind the cursor.
LEMMA UpdateOK ==
    ASSUME NEW f, NEW s, s = subscriptions[f], RowsOK(rows), PassedOK(rows, passed, cursor),
           CursorOK(rows, passed, cursor, joinedUpTo), SubOK(rows, passed, cursor, s),
           NEW acc, acc = Receive(f)
    PROVE  /\ CursorOK(rows, acc.passed, acc.cursor, joinedUpTo)
           /\ PassedOK(rows, acc.passed, acc.cursor)
           /\ SubOK(rows, acc.passed, acc.cursor, [s EXCEPT !.seen = acc.seen, !.upTo = Len(rows)])
           /\ Len(passed) <= Len(acc.passed)
           /\ \A i \in 1 .. Len(passed) : acc.passed[i] = passed[i]
           /\ \A i \in Len(passed) + 1 .. Len(acc.passed) : acc.passed[i] \in s.after + 1 .. Len(rows)
<1> DEFINE N == Len(rows)
<1>0. /\ N \in Nat /\ MaxRows \in Nat /\ N <= MaxRows /\ cursor \in Nat /\ s.upTo \in 0 .. N /\ passed \in Seq(1 .. N)
      /\ s.sinceTs \in Nat /\ s.sinceTs <= cursor /\ s.after \in 0 .. N /\ s \in Subscription
      /\ TsIn(rows, s.after) <= s.sinceTs
  BY RowTypes DEF SubOK, Subscription, CursorOK, PassedOK
<1>1. LoopAt(acc, s, N)
  BY ReceiveOK
<1>2. /\ acc.seen \in Seq(1 .. N) /\ acc.cursor \in Nat /\ acc.passed \in Seq(1 .. N)
      /\ cursor <= acc.cursor /\ acc.cursor <= TsIn(rows, N)
      /\ \A i \in 1 .. N : rows[i].ts <= acc.cursor /\ rows[i].ts \in Nat
      /\ Len(passed) <= Len(acc.passed) /\ \A i \in 1 .. Len(passed) : acc.passed[i] = passed[i]
  BY <1>1, RowTypes DEF LoopAt
<1>3. Range(acc.passed) \subseteq 1 .. N
  BY <1>2, RangeOfSeq
<1>4. PassedOK(rows, acc.passed, acc.cursor)
  BY <1>1, <1>2, <1>3 DEF PassedOK, LoopAt
<1>5. Range(passed) \subseteq Range(acc.passed)
  <2>1. \A i \in 1 .. Len(passed) : i \in 1 .. Len(acc.passed)
    BY <1>0, <1>2
  <2>2. Range(passed) = {passed[i] : i \in 1 .. Len(passed)} /\ Range(acc.passed) = {acc.passed[i] : i \in 1 .. Len(acc.passed)}
    BY <1>0, <1>2, RangeEquality
  <2> QED BY <1>2, <2>1, <2>2
<1>6. \A i \in 1 .. N : Covered(rows, passed, i) => Covered(rows, acc.passed, i)
  BY <1>5 DEF Covered
<1>7. s.ownSessionId # Peer
  BY <1>0, RemoteAssumption DEF Subscription
<1>8. \A i \in 1 .. N : rows[i].ts > s.sinceTs => Covered(rows, acc.passed, i)
  BY <1>1, <1>7 DEF LoopAt, Covered
<1>9. CursorOK(rows, acc.passed, acc.cursor, joinedUpTo)
  <2>1. joinedUpTo \in 0 .. N /\ TsIn(rows, joinedUpTo) <= cursor /\ TsIn(rows, joinedUpTo) \in Nat
    BY RowTypes DEF CursorOK
  <2>2. ASSUME NEW i \in joinedUpTo + 1 .. N PROVE Covered(rows, acc.passed, i)
    <3>1. i \in 1 .. N
      BY <1>0, <2>1
    <3>2. CASE rows[i].ts <= s.sinceTs
      <4>1. rows[i].ts <= cursor
        BY <1>0, <1>2, <3>1, <3>2
      <4> QED BY <1>6, <3>1, <4>1 DEF CursorOK
    <3>3. rows[i].ts \in Nat
      BY <1>2, <3>1
    <3> QED BY <1>0, <1>8, <3>1, <3>2, <3>3
  <2>3. acc.cursor \in 0 .. MaxRows /\ TsIn(rows, joinedUpTo) <= acc.cursor
    <3>1. TsIn(rows, N) \in 0 .. MaxRows
      BY <1>0, RowTypes
    <3> QED BY <1>0, <1>2, <2>1, <3>1
  <2> QED BY <1>2, <2>1, <2>2, <2>3 DEF CursorOK
<1>10. \A i \in Len(passed) + 1 .. Len(acc.passed) : acc.passed[i] \in s.upTo + 1 .. N /\ rows[acc.passed[i]].ts > s.sinceTs
  BY <1>1 DEF LoopAt
<1>11. ASSUME NEW i \in Len(passed) + 1 .. Len(acc.passed) PROVE acc.passed[i] \in s.after + 1 .. N
  <2>1. acc.passed[i] \in 1 .. N /\ rows[acc.passed[i]].ts > s.sinceTs
    <3>1. \A x \in s.upTo + 1 .. N : x \in 1 .. N
      BY <1>0
    <3> QED BY <1>10, <3>1
  <2>2. CASE acc.passed[i] <= s.after
    <3>1. s.after \in 1 .. N /\ s.after # 0
      BY <1>0, <2>1, <2>2
    <3>2. rows[acc.passed[i]].ts <= rows[s.after].ts /\ rows[s.after].ts <= s.sinceTs
      BY <1>0, <2>1, <2>2, <3>1, RowTypes DEF TsIn
    <3>3. rows[acc.passed[i]].ts \in Nat /\ rows[s.after].ts \in Nat
      BY <1>2, <2>1, <3>1
    <3>4. s.sinceTs \in Nat
      BY <1>0
    <3> QED BY <2>1, <3>2, <3>3, <3>4
  <2>3. CASE acc.passed[i] > s.after
    BY <1>0, <2>1, <2>3
  <2>4. acc.passed[i] \in Int /\ s.after \in Int
    BY <1>0, <2>1
  <2> QED BY <2>2, <2>3, <2>4
<1> DEFINE s2 == [s EXCEPT !.seen = acc.seen, !.upTo = Len(rows)]
<1>12. /\ s2.sinceTs = s.sinceTs /\ s2.ownSessionId = s.ownSessionId /\ s2.after = s.after
       /\ s2.seen = acc.seen /\ s2.upTo = N
       /\ s2 \in Subscription
  <2>1. acc.seen \in Seq(1 .. MaxRows)
    <3>1. 1 .. N \subseteq 1 .. MaxRows
      BY <1>0
    <3> QED BY <1>2, <3>1, SeqMonotonic
  <2>2. N \in 0 .. MaxRows
    BY <1>0
  <2>3. s \in Subscription
    BY <1>0
  <2> QED BY <2>1, <2>2, <2>3 DEF Subscription
<1> HIDE DEF s2
<1>13. SubOK(rows, acc.passed, acc.cursor, s2)
  <2>1. s2.after <= N /\ s2.upTo <= N /\ s2.sinceTs <= acc.cursor /\ TsIn(rows, s2.after) <= s2.sinceTs
    BY <1>0, <1>2, <1>12
  <2>2. \A i \in s2.after + 1 .. N : rows[i].ts <= s2.sinceTs => Covered(rows, acc.passed, i)
    <3>1. \A i \in s.after + 1 .. N : i \in 1 .. N
      BY <1>0
    <3> QED BY <1>6, <1>12, <3>1 DEF SubOK
  <2>3. /\ Range(s2.seen) = {i \in 1 .. s2.upTo : rows[i].ts > s2.sinceTs}
        /\ \A i \in 1 .. Len(s2.seen) : i <= s2.seen[i]
        /\ \A i \in 1 .. s2.upTo : rows[i].ts > s2.sinceTs => i \in Range(acc.passed) \/ rows[i].from = s2.ownSessionId
    BY <1>1, <1>12 DEF LoopAt
  <2>4. \A p \in Range(acc.passed) : p <= s2.upTo
    BY <1>0, <1>3, <1>12
  <2> QED BY <1>2, <1>12, <2>1, <2>2, <2>3, <2>4 DEF SubOK
<1> QED BY <1>2, <1>4, <1>9, <1>11, <1>13 DEF s2

-----------------------------------------------------------------------------
(* The inductive invariants *)

\* The types of the session, the flags and the feed's kind
SessionTypes ==
    /\ kind \in {"channel", "topic"}
    /\ sessionId \in SessionIds \cup {NoSession}
    /\ introducing \in BOOLEAN /\ beating \in BOOLEAN
    /\ heartbeatTimer \in BOOLEAN /\ (heartbeatTimer => sessionId # NoSession)
    /\ shutdownStarted \in BOOLEAN /\ refusing \in BOOLEAN /\ idKnown \in BOOLEAN

\* A join or leave in flight
CallRec == [op: {"join", "leave"}, handled: BOOLEAN, upTo: 0 .. MaxRows]

\* A join was answered with rows there are.
CallsOK == IsMap(calls, Slots, CallRec) /\ \A k \in DOMAIN calls : calls[k].upTo <= Len(rows)

\* The types of the feeds
FeedTypes ==
    /\ feedsOpened \in 0 .. MaxFeeds /\ entry \in 0 .. feedsOpened
    /\ lookups \subseteq 1 .. feedsOpened
    /\ IsMap(subscriptions, 1 .. feedsOpened, Subscription)

\* FeedsOwned, and what makes NothingSkipped and the contract inductive
FeedInv ==
    /\ FeedTypes /\ FeedsOwned
    /\ RowsOK(rows) /\ PassedOK(rows, passed, cursor) /\ CursorOK(rows, passed, cursor, joinedUpTo)
    /\ \A f \in DOMAIN subscriptions : SubOK(rows, passed, cursor, subscriptions[f])

\* The inductive invariant
Inductive == SwitchInv /\ SessionTypes /\ CallsOK /\ FeedInv

\* A feed is opened where there is none.
LEMMA OpenStep ==
    ASSUME FeedTypes, FeedsOwned, entry = 0, sessionId \in SessionIds \cup {NoSession},
           NEW c, NEW known, NEW j, NEW e, Open(c, known, j, e),
           RowsOK(rows), CursorOK(rows, passed, c, j), PassedOK(rows, passed, c),
           shutdownStarted' = shutdownStarted
    PROVE  /\ FeedTypes' /\ FeedsOwned'
           /\ \A f \in DOMAIN subscriptions' : SubOK(rows, passed, c, subscriptions'[f])
<1>0. feedsOpened \in Nat /\ MaxFeeds \in Nat
  BY RemoteAssumption DEF FeedTypes
<1>1. DOMAIN subscriptions = {}
  BY <1>0 DEF FeedTypes, FeedsOwned, IsMap
<1>2. feedsOpened' = feedsOpened + 1 /\ entry' = feedsOpened + 1 /\ feedsOpened' \in 0 .. MaxFeeds
  BY <1>0 DEF Open
<1>3. \/ subscriptions' = subscriptions
      \/ subscriptions' = Put(subscriptions, entry', Opened(c, sessionId, j)) /\ ~shutdownStarted
  BY <1>2 DEF Open, Subscribe, Opened
<1>4. lookups' \subseteq lookups \cup {entry'}
  BY <1>2 DEF Open
<1>5. lookups' \subseteq 1 .. feedsOpened'
  BY <1>0, <1>2, <1>4 DEF FeedTypes
<1>6. CASE subscriptions' = subscriptions
  BY <1>0, <1>1, <1>2, <1>5, <1>6 DEF FeedTypes, FeedsOwned, IsMap
<1>7. CASE subscriptions' = Put(subscriptions, entry', Opened(c, sessionId, j)) /\ ~shutdownStarted
  <2>1. SubOK(rows, passed, c, Opened(c, sessionId, j))
    BY OpenedOK
  <2>2. DOMAIN subscriptions' = {entry'} /\ subscriptions'[entry'] = Opened(c, sessionId, j)
        /\ subscriptions' = [x \in {entry'} |-> Opened(c, sessionId, j)]
    BY <1>1, <1>7 DEF Put
  <2>3. IsMap(subscriptions', 1 .. feedsOpened', Subscription)
    BY <1>0, <1>2, <2>1, <2>2 DEF IsMap, SubOK
  <2> QED BY <1>0, <1>2, <1>5, <1>7, <2>1, <2>2, <2>3 DEF FeedTypes, FeedsOwned
<1> QED BY <1>3, <1>6, <1>7

\* The holder makes sure that there is a feed, after the cursor moved.
LEMMA EnsureStep ==
    ASSUME FeedInv, SessionTypes, NEW c, NEW j, NEW known, NEW e, c \in Nat, cursor <= c,
           RowsOK(rows), CursorOK(rows, passed, c, j), PassedOK(rows, passed, c),
           EnsureSubscription(c, known, j, e),
           UNCHANGED <<rows, passed, shutdownStarted>>, cursor' = c, joinedUpTo' = j
    PROVE  FeedInv'
<1>0. cursor \in Nat
  BY RowTypes DEF FeedInv, CursorOK
<1>1. CASE entry # 0
  <2>1. UNCHANGED <<feedsOpened, entry, lookups, subscriptions>>
    BY <1>1 DEF EnsureSubscription
  <2>2. FeedTypes' /\ FeedsOwned'
    BY <2>1 DEF FeedInv, FeedTypes, FeedsOwned
  <2>3. \A f \in DOMAIN subscriptions : SubOK(rows, passed, c, subscriptions[f])
    BY <1>0, SubLater DEF FeedInv
  <2> QED BY <2>1, <2>2, <2>3 DEF FeedInv
<1>2. CASE entry = 0
  <2>1. Open(c, known, j, e)
    BY <1>2 DEF EnsureSubscription
  <2>2. /\ FeedTypes' /\ FeedsOwned'
        /\ \A f \in DOMAIN subscriptions' : SubOK(rows, passed, c, subscriptions'[f])
    BY <1>2, <2>1, OpenStep DEF FeedInv, SessionTypes
  <2> QED BY <2>2 DEF FeedInv
<1> QED BY <1>1, <1>2

\* A step that neither moves the cursor nor touches the feeds
LEMMA QuietStep ==
    ASSUME FeedInv, lookups' \subseteq lookups,
           UNCHANGED <<rows, cursor, feedsOpened, entry, subscriptions, joinedUpTo, passed, shutdownStarted>>
    PROVE  FeedInv'
BY DEF FeedInv, FeedTypes, FeedsOwned

\* A step that closes the feed
LEMMA CloseStep ==
    ASSUME FeedInv, entry' \in {0, entry}, DOMAIN subscriptions' = {}, subscriptions' = [x \in {} |-> subscriptions'[x]],
           UNCHANGED <<rows, cursor, feedsOpened, lookups, joinedUpTo, passed>>
    PROVE  FeedInv'
<1>1. FeedTypes'
  BY DEF FeedInv, FeedTypes, IsMap
<1>2. subscriptions' = EmptyMap
  BY DEF EmptyMap
<1> QED BY <1>1, <1>2 DEF FeedInv, FeedsOwned

\* The steps that leave the cursor, the rows and the feeds alone
Quiet ==
    \/ Introduce \/ (\E id \in SessionIds : Introduced(id))
    \/ SendHeartbeat \/ HeartbeatReturns
    \/ \E err \in Errors :
        \/ IntroduceFails(err) \/ CallFails(err)
        \/ \E f \in lookups : LookupFails(f, err)
        \/ \E f \in DOMAIN subscriptions : SubscriptionFails(f, err)
    \/ \E slot \in Slots : JoinOrLeave(slot, "join") \/ JoinOrLeave(slot, "leave") \/ BackendJoins(slot)
    \/ ChannelResolved \/ Refuse
    \/ enabled /\ Tick /\ UNCHANGED <<kind, sessionVars, shutdownStarted, calls, backendVars, cursorVars, feedVars>>

\* They do.
LEMMA QuietFrame ==
    ASSUME Quiet
    PROVE  /\ lookups' \subseteq lookups
           /\ UNCHANGED <<rows, cursor, feedsOpened, entry, subscriptions, joinedUpTo, passed, shutdownStarted>>
BY DEF Quiet, Introduce, Introduced, SendHeartbeat, HeartbeatReturns, IntroduceFails, CallFails, LookupFails,
       SubscriptionFails, JoinOrLeave, BackendJoins, ChannelResolved, Refuse, feedVars, cursorVars, backendVars

\* Every step preserves FeedInv.
LEMMA FeedStep ==
    ASSUME Inductive, [Next]_vars
    PROVE  FeedInv'
<1>0. FeedInv /\ SessionTypes /\ CallsOK /\ cursor \in Nat /\ RowsOK(rows)
  BY RowTypes DEF Inductive, FeedInv, CursorOK
<1>1. CASE Quiet
  BY <1>0, <1>1, QuietFrame, QuietStep
<1>2. CASE JoinSkipped
  <2>1. /\ entry = 0 /\ Open(cursor, idKnown, joinedUpTo, enabled)
        /\ UNCHANGED <<rows, passed, shutdownStarted, cursor, joinedUpTo>>
    BY <1>2 DEF JoinSkipped, cursorVars, backendVars
  <2>2. /\ FeedTypes' /\ FeedsOwned'
        /\ \A f \in DOMAIN subscriptions' : SubOK(rows, passed, cursor, subscriptions'[f])
    BY <1>0, <2>1, OpenStep DEF FeedInv, SessionTypes
  <2> QED BY <1>0, <2>1, <2>2 DEF FeedInv
<1>3. ASSUME NEW slot \in Slots, NEW err \in Errors, JoinFails(slot, err) PROVE FeedInv'
  <2>1. /\ EnsureSubscription(cursor, idKnown, joinedUpTo, enabled')
        /\ UNCHANGED <<rows, passed, shutdownStarted>> /\ cursor' = cursor /\ joinedUpTo' = joinedUpTo
    BY <1>3 DEF JoinFails, cursorVars, backendVars
  <2>2. cursor <= cursor
    BY <1>0
  <2> QED BY <1>0, <2>1, <2>2, EnsureStep DEF FeedInv
<1>4. ASSUME NEW slot \in Slots, Joined(slot) PROVE FeedInv'
  <2>1. PICK u \in 0 .. Len(rows) : u = calls[slot].upTo
    <3>1. slot \in DOMAIN calls
      BY <1>4 DEF Joined, InFlight
    <3>2. calls[slot] \in CallRec /\ calls[slot].upTo <= Len(rows)
      BY <1>0, <3>1 DEF CallsOK, IsMap
    <3> QED BY <3>2, RowTypes, <1>0 DEF CallRec
  <2>2. /\ EnsureSubscription(cursor', idKnown', joinedUpTo', enabled)
        /\ UNCHANGED <<rows, passed, shutdownStarted>>
        /\ \/ cursor' = cursor /\ joinedUpTo' = joinedUpTo
           \/ cursor' = Later(cursor, TsIn(rows, u)) /\ joinedUpTo' = Later(joinedUpTo, u)
    BY <1>4, <2>1 DEF Joined, backendVars, TsOf, TsIn
  <2>3. /\ CursorOK(rows, passed, cursor', joinedUpTo') /\ PassedOK(rows, passed, cursor') /\ cursor <= cursor'
    BY <1>0, <2>2, CursorAdvances DEF FeedInv
  <2>4. cursor' \in Nat
    BY <2>3 DEF CursorOK
  <2> QED BY <1>0, <2>2, <2>3, <2>4, EnsureStep
<1>5. ASSUME LeaveSkipped \/ \E slot \in Slots : LeaveReturns(slot) PROVE FeedInv'
  <2>1. Unsubscribe /\ UNCHANGED <<rows, cursor, feedsOpened, lookups, joinedUpTo, passed>>
    BY <1>5 DEF LeaveSkipped, LeaveReturns, cursorVars, backendVars
  <2>2. entry' = 0 /\ subscriptions' = [x \in {} |-> subscriptions'[x]] /\ DOMAIN subscriptions' = {}
    BY <1>0, <2>1 DEF Unsubscribe, Del, FeedInv, FeedsOwned
  <2> QED BY <1>0, <2>1, <2>2, CloseStep
<1>6. ASSUME NEW f \in lookups, LookupReturns(f) PROVE FeedInv'
  <2>1. UNCHANGED <<rows, cursor, feedsOpened, entry, joinedUpTo, passed, shutdownStarted>> /\ lookups' \subseteq lookups
    BY <1>6 DEF LookupReturns, backendVars
  <2>2. CASE subscriptions' = subscriptions
    BY <1>0, <2>1, <2>2, QuietStep
  <2>3. CASE ~Unsubscribed(f) /\ Subscribe(f, cursor, joinedUpTo)
    <3>1. f = entry /\ ~shutdownStarted /\ f \in 1 .. feedsOpened
      BY <1>0, <2>3 DEF Unsubscribed, FeedInv, FeedTypes
    <3>2. /\ DOMAIN subscriptions' = {f} /\ subscriptions'[f] = Opened(cursor, sessionId, joinedUpTo)
          /\ subscriptions' = [x \in {f} |-> Opened(cursor, sessionId, joinedUpTo)]
      <4>1. DOMAIN subscriptions \cup {f} = {f}
        BY <1>0, <3>1 DEF FeedInv, FeedsOwned
      <4>2. subscriptions' = Put(subscriptions, f, Opened(cursor, sessionId, joinedUpTo))
        BY <2>3 DEF Subscribe, Opened
      <4> QED BY <4>1, <4>2 DEF Put
    <3>3. SubOK(rows, passed, cursor, Opened(cursor, sessionId, joinedUpTo))
      BY <1>0, OpenedOK DEF FeedInv, SessionTypes
    <3>4. FeedTypes'
      BY <1>0, <2>1, <3>1, <3>2, <3>3 DEF FeedInv, FeedTypes, IsMap, SubOK
    <3> QED BY <1>0, <2>1, <3>1, <3>2, <3>3, <3>4 DEF FeedInv, FeedsOwned
  <2> QED BY <1>6, <2>2, <2>3 DEF LookupReturns
<1>7. ASSUME NEW f \in DOMAIN subscriptions, Update(f) PROVE FeedInv'
  <2> DEFINE acc == Receive(f)
             s == subscriptions[f]
             s2 == [s EXCEPT !.seen = acc.seen, !.upTo = Len(rows)]
  <2>1. /\ CursorOK(rows, acc.passed, acc.cursor, joinedUpTo) /\ PassedOK(rows, acc.passed, acc.cursor)
        /\ SubOK(rows, acc.passed, acc.cursor, s2)
    BY <1>0, UpdateOK DEF FeedInv
  <2>2. /\ UNCHANGED <<rows, feedsOpened, entry, lookups, joinedUpTo, shutdownStarted>>
        /\ cursor' = acc.cursor /\ passed' = acc.passed
        /\ subscriptions' = [subscriptions EXCEPT ![f].seen = acc.seen, ![f].upTo = Len(rows)]
    BY <1>7 DEF Update, backendVars
  <2>3. DOMAIN subscriptions = {f} /\ f = entry
    BY <1>0 DEF FeedInv, FeedsOwned
  <2> HIDE DEF acc
  <2>4. DOMAIN subscriptions' = {f} /\ subscriptions'[f] = s2 /\ subscriptions' = [x \in {f} |-> s2]
    <3>1. s \in Subscription /\ subscriptions = [x \in {f} |-> s]
      BY <1>0, <2>3 DEF FeedInv, FeedTypes, IsMap
    <3> QED BY <2>2, <2>3, <3>1 DEF Subscription
  <2>5. FeedTypes' /\ FeedsOwned'
    BY <1>0, <2>1, <2>2, <2>3, <2>4 DEF FeedInv, FeedTypes, FeedsOwned, IsMap, SubOK, EmptyMap
  <2> HIDE DEF s2
  <2> QED BY <1>0, <2>1, <2>2, <2>4, <2>5 DEF FeedInv
<1>8. ASSUME NEW from \in {Peer, sessionId} \ {NoSession}, PostRow(from) PROVE FeedInv'
  <2>1. PICK ts \in {TsIn(rows, Len(rows)), TsIn(rows, Len(rows)) + 1} \ {0} : rows' = Append(rows, [ts |-> ts, from |-> from])
    BY <1>8 DEF PostRow, TsOf, TsIn
  <2>2. Len(rows) < MaxRows /\ UNCHANGED <<cursor, feedsOpened, entry, lookups, subscriptions, joinedUpTo, passed, shutdownStarted>>
    BY <1>8 DEF PostRow, feedVars, cursorVars
  <2>3. from \in Senders
    BY <1>0 DEF SessionTypes, Senders
  <2>4. /\ RowsOK(rows')
        /\ CursorOK(rows', passed, cursor, joinedUpTo) /\ PassedOK(rows', passed, cursor)
        /\ \A s : SubOK(rows, passed, cursor, s) => SubOK(rows', passed, cursor, s)
    <3>1. CursorOK(rows, passed, cursor, joinedUpTo) /\ PassedOK(rows, passed, cursor) /\ RowsOK(rows)
      BY <1>0 DEF FeedInv
    <3>2. Posted(rows, rows') /\ Len(rows) < MaxRows
      BY <2>1, <2>2, <2>3 DEF Posted
    <3> QED BY <3>1, <3>2, PostedOK
  <2> QED BY <1>0, <2>2, <2>4 DEF FeedInv, FeedTypes, FeedsOwned
<1>9. CASE Shutdown
  <2>1. UNCHANGED <<rows, cursor, feedsOpened, entry, lookups, joinedUpTo, passed>> /\ subscriptions' = EmptyMap
    BY <1>9 DEF Shutdown, cursorVars, backendVars
  <2> QED BY <1>0, <2>1, CloseStep DEF EmptyMap
<1>10. CASE UNCHANGED vars
  <2>1. UNCHANGED <<rows, cursor, feedsOpened, entry, lookups, subscriptions, joinedUpTo, passed, shutdownStarted>>
    BY <1>10 DEF vars, backendVars, cursorVars, feedVars
  <2> QED BY <1>0, <2>1, QuietStep
<1> QED BY <1>1, <1>2, <1>3, <1>4, <1>5, <1>6, <1>7, <1>8, <1>9, <1>10 DEF Next, Quiet
-----------------------------------------------------------------------------
(* The other parts of the invariant *)

\* What a step can do to the switch
LEMMA SwitchKinds ==
    ASSUME [Next]_vars
    PROVE  \/ UNCHANGED <<breakerVars, shutdownStarted>>
           \/ CountFailure /\ UNCHANGED shutdownStarted
           \/ Trip /\ UNCHANGED shutdownStarted
           \/ Tick /\ UNCHANGED shutdownStarted
           \/ /\ shutdownStarted' = TRUE /\ enabled' = FALSE
              /\ UNCHANGED <<recentFailures, now, failures, fatal>>
<1> DEFINE Fails == \/ CountFailure /\ UNCHANGED shutdownStarted
                    \/ Trip /\ UNCHANGED shutdownStarted
<1>1. \A err : registerFailure(err) \/ registerSubscriptionFailure(err) => CountFailure \/ Trip
  BY DEF registerFailure, registerSubscriptionFailure
<1>2. \A err : Recorded(err) => CountFailure \/ Trip
  BY <1>1 DEF Recorded
<1>3. ASSUME NEW err \in Errors, IntroduceFails(err) \/ CallFails(err) PROVE Fails
  BY <1>2, <1>3 DEF IntroduceFails, CallFails
<1>4. ASSUME NEW err \in Errors, NEW slot \in Slots, JoinFails(slot, err) PROVE Fails
  BY <1>2, <1>4 DEF JoinFails
<1>5. ASSUME NEW err \in Errors, NEW f, LookupFails(f, err) \/ SubscriptionFails(f, err) PROVE Fails
  BY <1>1, <1>2, <1>5 DEF LookupFails, SubscriptionFails
<1>6. CASE HeartbeatReturns
  BY <1>2, <1>6 DEF HeartbeatReturns
<1>7. ASSUME NEW slot \in Slots, LeaveReturns(slot) PROVE Fails \/ UNCHANGED <<breakerVars, shutdownStarted>>
  BY <1>2, <1>7 DEF LeaveReturns
<1>8. CASE Shutdown
  BY <1>8 DEF Shutdown
<1>9. CASE \/ Introduce \/ (\E id \in SessionIds : Introduced(id)) \/ SendHeartbeat
           \/ \E slot \in Slots : JoinOrLeave(slot, "join") \/ JoinOrLeave(slot, "leave")
                                  \/ BackendJoins(slot) \/ Joined(slot)
           \/ JoinSkipped \/ LeaveSkipped \/ ChannelResolved \/ Refuse \/ UNCHANGED vars
           \/ \E f \in lookups : LookupReturns(f)
           \/ \E f \in DOMAIN subscriptions : Update(f)
           \/ \E from \in {Peer, sessionId} \ {NoSession} : PostRow(from)
  BY <1>9 DEF Introduce, Introduced, SendHeartbeat, JoinOrLeave, BackendJoins, Joined, JoinSkipped,
              LeaveSkipped, ChannelResolved, Refuse, LookupReturns, Update, PostRow, vars
<1>10. CASE enabled /\ Tick /\ UNCHANGED <<kind, sessionVars, shutdownStarted, calls, backendVars, cursorVars, feedVars>>
  BY <1>10
<1> QED BY <1>3, <1>4, <1>5, <1>6, <1>7, <1>8, <1>9, <1>10 DEF Next

\* Every step preserves SwitchInv.
LEMMA SwitchStep ==
    ASSUME SwitchInv, shutdownStarted \in BOOLEAN, [Next]_vars
    PROVE  SwitchInv'
<1>0. /\ DEGRADATION_WINDOW \in Nat /\ DEGRADATION_THRESHOLD \in Nat \ {0}
      /\ MaxTime \in Nat /\ MaxFailures \in Nat
      /\ BreakerTypeOK /\ RecentAreLast /\ FailuresOrdered
  BY BreakerAssumption DEF SwitchInv
<1>1. CASE UNCHANGED <<breakerVars, shutdownStarted>>
  BY <1>1 DEF SwitchInv, breakerVars, BreakerTypeOK, RecentAreLast, FailuresOrdered, Dropped, LastFailure,
              BreakerExact, Cause, TooManyFailures
<1>2. CASE CountFailure /\ UNCHANGED shutdownStarted
  <2>1. /\ BreakerTypeOK' /\ RecentAreLast' /\ FailuresOrdered'
        /\ TooManyFailures' <=> TooManyFailures \/ Len(recentFailures') >= DEGRADATION_THRESHOLD
        /\ enabled' <=> enabled /\ Len(recentFailures') < DEGRADATION_THRESHOLD
    BY <1>0, <1>2, CountLemma
  <2>2. Len(recentFailures') < DEGRADATION_THRESHOLD <=> ~(Len(recentFailures') >= DEGRADATION_THRESHOLD)
    BY <1>0, <2>1 DEF BreakerTypeOK
  <2>3. fatal' = fatal /\ shutdownStarted' = shutdownStarted
    BY <1>2 DEF CountFailure
  <2>4. enabled <=> ~shutdownStarted /\ ~(fatal \/ TooManyFailures)
    BY DEF SwitchInv, BreakerExact, Cause
  <2>5. enabled' <=> ~shutdownStarted' /\ ~(fatal' \/ TooManyFailures')
    BY <2>1, <2>2, <2>3, <2>4
  <2> QED BY <2>1, <2>5 DEF SwitchInv, BreakerExact, Cause
<1>3. CASE Trip /\ UNCHANGED shutdownStarted
  <2>1. enabled' = FALSE /\ fatal' = TRUE /\ UNCHANGED <<recentFailures, now, failures>>
    BY <1>3 DEF Trip
  <2>2. BreakerTypeOK' /\ RecentAreLast' /\ FailuresOrdered'
    BY <1>0, <2>1 DEF BreakerTypeOK, RecentAreLast, FailuresOrdered, Dropped, LastFailure
  <2> QED BY <2>1, <2>2 DEF SwitchInv, BreakerExact, Cause
<1>4. CASE Tick /\ UNCHANGED shutdownStarted
  <2>1. now < MaxTime /\ now' = now + 1 /\ UNCHANGED <<enabled, recentFailures, failures, fatal, shutdownStarted>>
    BY <1>4 DEF Tick
  <2>2. BreakerTypeOK'
    BY <1>0, <2>1 DEF BreakerTypeOK
  <2>3. RecentAreLast' /\ BreakerExact'
    BY <1>0, <2>1 DEF RecentAreLast, Dropped, LastFailure, SwitchInv, BreakerExact, Cause, TooManyFailures
  <2>4. FailuresOrdered'
    <3>1. \A i \in DOMAIN failures : failures[i] \in Nat /\ failures[i] <= now
      BY <1>0, ElementOfSeq DEF BreakerTypeOK, FailuresOrdered
    <3>2. now \in Nat
      BY <1>0 DEF BreakerTypeOK
    <3> QED BY <1>0, <2>1, <3>1, <3>2 DEF FailuresOrdered
  <2> QED BY <2>2, <2>3, <2>4 DEF SwitchInv
<1>5. CASE shutdownStarted' = TRUE /\ enabled' = FALSE /\ UNCHANGED <<recentFailures, now, failures, fatal>>
  <2>1. BreakerTypeOK' /\ RecentAreLast' /\ FailuresOrdered'
    BY <1>0, <1>5 DEF BreakerTypeOK, RecentAreLast, FailuresOrdered, Dropped, LastFailure
  <2> QED BY <1>5, <2>1 DEF SwitchInv, BreakerExact
<1> QED BY <1>1, <1>2, <1>3, <1>4, <1>5, SwitchKinds

\* Every step preserves SessionTypes.
LEMMA SessionStep ==
    ASSUME SessionTypes, [Next]_vars
    PROVE  SessionTypes'
<1>1. CASE Introduce
  BY <1>1 DEF SessionTypes, Introduce, cursorVars, backendVars
<1>2. ASSUME NEW id \in SessionIds, Introduced(id) PROVE SessionTypes'
  BY <1>2, RemoteAssumption DEF SessionTypes, Introduced, cursorVars, backendVars
<1>3. CASE SendHeartbeat
  BY <1>3 DEF SessionTypes, SendHeartbeat, cursorVars, backendVars
<1>4. CASE HeartbeatReturns
  BY <1>4 DEF SessionTypes, HeartbeatReturns, cursorVars, backendVars
<1>5. ASSUME NEW err \in Errors, IntroduceFails(err) PROVE SessionTypes'
  BY <1>5 DEF SessionTypes, IntroduceFails, cursorVars, backendVars
<1>6. CASE Shutdown
  BY <1>6 DEF SessionTypes, Shutdown, cursorVars, backendVars
<1>7. CASE Refuse
  BY <1>7 DEF SessionTypes, Refuse, sessionVars, cursorVars
<1>8. CASE ChannelResolved
  BY <1>8 DEF SessionTypes, ChannelResolved, sessionVars, backendVars
<1>9. ASSUME NEW f \in lookups, LookupReturns(f) PROVE SessionTypes'
  BY <1>9 DEF SessionTypes, LookupReturns, sessionVars, backendVars
<1>10. ASSUME NEW slot \in Slots, Joined(slot) PROVE SessionTypes'
  <2>1. UNCHANGED <<kind, sessionVars, shutdownStarted, refusing>> /\ idKnown' = (idKnown \/ kind = "channel")
    BY <1>10 DEF Joined, backendVars
  <2>2. idKnown' \in BOOLEAN
    BY <2>1, Zenon
  <2> QED BY <2>1, <2>2 DEF SessionTypes, sessionVars
<1>11. CASE UNCHANGED <<kind, sessionVars, shutdownStarted, refusing, idKnown>>
  BY <1>11 DEF SessionTypes, sessionVars
<1>12. ASSUME NEW err \in Errors, NEW slot, NEW f,
              CallFails(err) \/ JoinFails(slot, err) \/ LookupFails(f, err) \/ SubscriptionFails(f, err)
       PROVE  SessionTypes'
  BY <1>11, <1>12 DEF CallFails, JoinFails, LookupFails, SubscriptionFails, backendVars, cursorVars
<1>13. ASSUME NEW slot, \/ JoinOrLeave(slot, "join") \/ JoinOrLeave(slot, "leave")
                        \/ BackendJoins(slot) \/ LeaveReturns(slot)
       PROVE  SessionTypes'
  BY <1>11, <1>13 DEF JoinOrLeave, BackendJoins, LeaveReturns, backendVars, cursorVars
<1>14. ASSUME JoinSkipped \/ LeaveSkipped \/ (\E f \in DOMAIN subscriptions : Update(f))
              \/ \E from \in {Peer, sessionId} \ {NoSession} : PostRow(from)
       PROVE  SessionTypes'
  BY <1>11, <1>14 DEF JoinSkipped, LeaveSkipped, Update, PostRow, backendVars, cursorVars
<1>15. CASE \/ UNCHANGED vars
            \/ enabled /\ Tick /\ UNCHANGED <<kind, sessionVars, shutdownStarted, calls, backendVars, cursorVars, feedVars>>
  BY <1>11, <1>15 DEF vars, backendVars, cursorVars
<1> QED BY <1>1, <1>2, <1>3, <1>4, <1>5, <1>6, <1>7, <1>8, <1>9, <1>10, <1>12, <1>13, <1>14, <1>15 DEF Next

\* A call ends.
LEMMA CallEnds ==
    ASSUME CallsOK, NEW slot, calls' = Del(calls, slot), rows' = rows
    PROVE  CallsOK'
<1>1. PICK D : D = DOMAIN calls \ {slot}
  OBVIOUS
<1>2. calls' = [k \in D |-> calls[k]]
  BY <1>1 DEF Del
<1>3. D \subseteq Slots /\ \A k \in D : calls[k] \in CallRec /\ calls[k].upTo <= Len(rows)
  BY <1>1 DEF CallsOK, IsMap
<1>4. calls' \in [D -> CallRec] /\ DOMAIN calls' = D /\ \A k \in D : calls'[k] = calls[k]
  BY <1>2, <1>3
<1> QED BY <1>3, <1>4 DEF CallsOK, IsMap

\* Every step preserves CallsOK.
LEMMA CallsStep ==
    ASSUME CallsOK, RowsOK(rows), [Next]_vars
    PROVE  CallsOK'
<1>0. Len(rows) \in Nat /\ MaxRows \in Nat /\ Len(rows) <= MaxRows
      /\ \A k \in DOMAIN calls : calls[k] \in CallRec /\ calls[k].upTo \in Nat /\ calls[k].upTo <= Len(rows)
  BY RowTypes DEF CallsOK, IsMap, CallRec
<1>1. ASSUME NEW slot \in Slots, NEW op \in {"join", "leave"}, JoinOrLeave(slot, op) PROVE CallsOK'
  <2> DEFINE c == [op |-> op, handled |-> FALSE, upTo |-> 0]
  <2>1. calls' = Put(calls, slot, c) /\ rows' = rows
    BY <1>1 DEF JoinOrLeave, Call, backendVars
  <2>2. c \in CallRec /\ c.upTo = 0
    BY <1>0 DEF CallRec
  <2> HIDE DEF c
  <2>3. /\ DOMAIN calls' = DOMAIN calls \cup {slot}
        /\ \A k \in DOMAIN calls' : calls'[k] = c \/ (k \in DOMAIN calls /\ calls'[k] = calls[k])
        /\ calls' = [k \in DOMAIN calls' |-> calls'[k]]
    BY <2>1 DEF Put
  <2> QED BY <1>0, <2>1, <2>2, <2>3 DEF CallsOK, IsMap
<1>2. ASSUME NEW slot \in Slots, BackendJoins(slot) PROVE CallsOK'
  <2>1. slot \in DOMAIN calls /\ rows' = rows
        /\ calls' = [calls EXCEPT ![slot] = [calls[slot] EXCEPT !.handled = TRUE, !.upTo = Len(rows)]]
    <3>1. slot \in DOMAIN calls /\ rows' = rows
          /\ calls' = [calls EXCEPT ![slot].handled = TRUE, ![slot].upTo = Len(rows)]
      BY <1>2 DEF BackendJoins, InFlight, backendVars
    <3> QED BY <1>0, <3>1 DEF CallRec
  <2> DEFINE c == [calls[slot] EXCEPT !.handled = TRUE, !.upTo = Len(rows)]
  <2>2. c \in CallRec /\ c.upTo = Len(rows)
    <3>1. calls[slot] \in CallRec /\ Len(rows) \in 0 .. MaxRows
      BY <1>0, <2>1
    <3> QED BY <3>1 DEF CallRec
  <2>3. calls' = [calls EXCEPT ![slot] = c]
    BY <2>1
  <2> HIDE DEF c
  <2> QED BY <1>0, <2>1, <2>2, <2>3 DEF CallsOK, IsMap
<1>3. ASSUME NEW slot \in Slots, NEW err \in Errors, Joined(slot) \/ JoinFails(slot, err) \/ LeaveReturns(slot)
      PROVE  CallsOK'
  BY <1>3, CallEnds DEF Joined, JoinFails, LeaveReturns, backendVars
<1>4. ASSUME NEW from, PostRow(from) PROVE CallsOK'
  <2>1. calls' = calls /\ \E row : rows' = Append(rows, row)
    BY <1>4 DEF PostRow
  <2>2. \A row : Len(Append(rows, row)) = Len(rows) + 1
    BY DEF RowsOK
  <2>3. Len(rows') = Len(rows) + 1
    BY <2>1, <2>2
  <2>4. \A k \in DOMAIN calls : calls[k].upTo <= Len(rows')
    BY <1>0, <2>3
  <2> QED BY <2>1, <2>4 DEF CallsOK
<1>5. CASE UNCHANGED <<calls, rows>>
  BY <1>5 DEF CallsOK
<1>6. CASE \/ Introduce \/ (\E id \in SessionIds : Introduced(id)) \/ SendHeartbeat \/ HeartbeatReturns
           \/ \E err \in Errors : IntroduceFails(err) \/ CallFails(err)
           \/ JoinSkipped \/ LeaveSkipped \/ ChannelResolved \/ Refuse \/ Shutdown \/ UNCHANGED vars
  BY <1>5, <1>6 DEF Introduce, Introduced, SendHeartbeat, HeartbeatReturns, IntroduceFails, CallFails, JoinSkipped,
                    LeaveSkipped, ChannelResolved, Refuse, Shutdown, vars, backendVars
<1>7. CASE \/ \E err \in Errors : \/ \E f \in lookups : LookupFails(f, err)
                                 \/ \E f \in DOMAIN subscriptions : SubscriptionFails(f, err)
           \/ \E f \in lookups : LookupReturns(f)
           \/ \E f \in DOMAIN subscriptions : Update(f)
           \/ enabled /\ Tick /\ UNCHANGED <<kind, sessionVars, shutdownStarted, calls, backendVars, cursorVars, feedVars>>
  BY <1>5, <1>7 DEF LookupFails, SubscriptionFails, LookupReturns, Update, backendVars
<1>8. Errors # {}
  BY DEF Errors
<1> QED BY <1>1, <1>2, <1>3, <1>4, <1>6, <1>7, <1>8 DEF Next

-----------------------------------------------------------------------------
(* The invariant and what follows from it *)

\* A prefix, read off its elements
LEMMA PrefixSubSeq ==
    ASSUME NEW S, NEW p \in Seq(S), NEW q \in Seq(S), Len(p) <= Len(q), \A i \in 1 .. Len(p) : q[i] = p[i]
    PROVE  SubSeq(q, 1, Len(p)) = p
<1>1. Len(p) \in Nat /\ Len(q) \in Nat
  OBVIOUS
<1>2. CASE Len(p) = 0
  <2>1. p = <<>> /\ SubSeq(q, 1, 0) = <<>>
    BY <1>2
  <2> QED BY <1>2, <2>1
<1>3. CASE Len(p) # 0
  <2>1. \A i \in 1 .. Len(p) : q[i] \in S
    BY <1>1, ElementOfSeq
  <2>2. /\ SubSeq(q, 1, Len(p)) \in Seq(S) /\ Len(SubSeq(q, 1, Len(p))) = Len(p)
        /\ \A i \in 1 .. Len(p) : SubSeq(q, 1, Len(p))[i] = q[i]
    BY <1>1, <2>1, SubSeqProperties
  <2> QED BY <2>2, SeqEqual
<1> QED BY <1>2, <1>3

\* It holds at the start.
LEMMA InitInv == Init => Inductive
<1> SUFFICES ASSUME Init PROVE Inductive
  OBVIOUS
<1>0. /\ DEGRADATION_THRESHOLD \in Nat \ {0} /\ MaxTime \in Nat /\ MaxFailures \in Nat
      /\ MaxRows \in Nat /\ MaxFeeds \in Nat
  BY BreakerAssumption, RemoteAssumption
<1>1. SwitchInv
  <2>1. enabled = TRUE /\ recentFailures = <<>> /\ now = 0 /\ failures = <<>> /\ fatal = FALSE
    BY DEF Init, BreakerInit
  <2>2. BreakerTypeOK
    <3>1. recentFailures \in Seq(0 .. MaxTime) /\ failures \in Seq(0 .. MaxTime)
      BY <2>1, EmptySeq
    <3>2. Len(recentFailures) = 0 /\ Len(failures) = 0 /\ now \in 0 .. MaxTime
      BY <1>0, <2>1
    <3>3. enabled \in BOOLEAN /\ fatal \in BOOLEAN
      BY <2>1
    <3> QED BY <1>0, <3>1, <3>2, <3>3 DEF BreakerTypeOK
  <2>3. Len(failures) = 0 /\ Len(recentFailures) = 0 /\ DOMAIN failures = {} /\ DOMAIN recentFailures = {}
    BY <2>1
  <2>4. RecentAreLast /\ FailuresOrdered /\ ~TooManyFailures
    BY <2>3 DEF RecentAreLast, FailuresOrdered, TooManyFailures, Dropped
  <2> QED BY <2>1, <2>2, <2>4 DEF SwitchInv, BreakerExact, Cause, Init
<1>2. SessionTypes
  BY DEF Init, SessionTypes
<1>3. rows = <<>> /\ passed = <<>> /\ Len(rows) = 0 /\ Len(passed) = 0 /\ cursor = 0 /\ joinedUpTo = 0
  BY DEF Init
<1>4. CallsOK
  BY DEF Init, CallsOK, IsMap, EmptyMap
<1>5. FeedTypes /\ FeedsOwned /\ \A f \in DOMAIN subscriptions : FALSE
  BY <1>0 DEF Init, FeedTypes, FeedsOwned, IsMap, EmptyMap
<1>6. RowsOK(rows)
  BY <1>0, <1>3, EmptySeq DEF RowsOK
<1>7. PassedOK(rows, passed, cursor)
  <2>1. Range(passed) = {}
    BY <1>3 DEF Range
  <2> QED BY <1>3, <2>1, EmptySeq DEF PassedOK
<1>8. CursorOK(rows, passed, cursor, joinedUpTo)
  BY <1>0, <1>3 DEF CursorOK, TsIn
<1> QED BY <1>1, <1>2, <1>4, <1>5, <1>6, <1>7, <1>8 DEF Inductive, FeedInv

\* The inductive invariant holds in every state.
THEOREM RemoteInvariant == Spec => []Inductive
<1>1. Inductive /\ [Next]_vars => Inductive'
  <2> SUFFICES ASSUME Inductive, [Next]_vars PROVE Inductive'
    OBVIOUS
  <2>1. SwitchInv /\ SessionTypes /\ CallsOK /\ RowsOK(rows) /\ shutdownStarted \in BOOLEAN
    BY DEF Inductive, FeedInv, SessionTypes
  <2>2. SwitchInv' /\ SessionTypes' /\ CallsOK' /\ FeedInv'
    BY <2>1, SwitchStep, SessionStep, CallsStep, FeedStep
  <2> QED BY <2>2 DEF Inductive
<1> QED BY <1>1, InitInv, PTL DEF Spec

\* Switch, calls, rows, cursor and feeds keep their types.
THEOREM RemoteTypeCorrect == Spec => []TypeOK
<1>1. Inductive => TypeOK
  <2> SUFFICES ASSUME Inductive PROVE TypeOK
    OBVIOUS
  <2>0. SwitchInv /\ SessionTypes /\ CallsOK /\ FeedInv /\ RowsOK(rows)
    BY DEF Inductive, FeedInv
  <2>1. /\ rows \in Seq([ts: 1 .. MaxRows, from: Senders]) /\ Len(rows) <= MaxRows /\ Len(rows) \in Nat
        /\ DOMAIN rows = 1 .. Len(rows)
    BY <2>0, RowTypes DEF RowsOK
  <2>2. cursor \in 0 .. MaxRows /\ joinedUpTo \in 0 .. Len(rows) /\ passed \in Seq(DOMAIN rows)
    BY <2>0, <2>1 DEF FeedInv, CursorOK, PassedOK
  <2>3. BreakerTypeOK
    BY <2>0 DEF SwitchInv
  <2>4. /\ kind \in {"channel", "topic"} /\ sessionId \in SessionIds \cup {NoSession}
        /\ introducing \in BOOLEAN /\ beating \in BOOLEAN
        /\ heartbeatTimer \in BOOLEAN /\ (heartbeatTimer => sessionId # NoSession)
        /\ shutdownStarted \in BOOLEAN /\ refusing \in BOOLEAN /\ idKnown \in BOOLEAN
    BY <2>0 DEF SessionTypes
  <2>5. IsMap(calls, Slots, [op: {"join", "leave"}, handled: BOOLEAN, upTo: 0 .. MaxRows])
    BY <2>0 DEF CallsOK, CallRec
  <2>6. /\ feedsOpened \in 0 .. MaxFeeds /\ entry \in 0 .. feedsOpened /\ lookups \subseteq 1 .. feedsOpened
        /\ IsMap(subscriptions, 1 .. feedsOpened, Subscription)
    BY <2>0 DEF FeedInv, FeedTypes
  <2> QED BY <2>1, <2>2, <2>3, <2>4, <2>5, <2>6 DEF TypeOK
<1> QED BY <1>1, RemoteInvariant, PTL

\* The switch is off exactly when the policy of registerFailure, read over all
\* failures there ever were, says so.
THEOREM BreakerExactCorrect == Spec => []BreakerExact
<1>1. Inductive => BreakerExact
  BY DEF Inductive, SwitchInv
<1> QED BY <1>1, RemoteInvariant, PTL

\* The only feed at the client is the one its holder has, and none is left
\* after shutdown.
THEOREM FeedsOwnedCorrect == Spec => []FeedsOwned
<1>1. Inductive => FeedsOwned
  BY DEF Inductive, FeedInv
<1> QED BY <1>1, RemoteInvariant, PTL

\* Of the rows an open feed has got to, those of others since the join were
\* passed on, unless the exclusive cursor cut them off by their time.
THEOREM NothingSkippedCorrect == Spec => []NothingSkipped
<1>1. Inductive => NothingSkipped
  <2> SUFFICES ASSUME Inductive, NEW f \in DOMAIN subscriptions,
                      NEW i \in subscriptions[f].after + 1 .. subscriptions[f].upTo
               PROVE  \/ i \in Range(passed)
                      \/ rows[i].from # Peer
                      \/ /\ rows[i].ts <= subscriptions[f].sinceTs
                         /\ \E j \in 1 .. i - 1 : rows[j].ts = rows[i].ts
    BY DEF NothingSkipped
  <2> DEFINE s == subscriptions[f]
  <2>1. SubOK(rows, passed, cursor, s) /\ RowsOK(rows)
    BY DEF Inductive, FeedInv
  <2>2. s \in Subscription
    BY <2>1 DEF SubOK
  <2>3. /\ s.after \in Nat /\ s.upTo \in Nat /\ s.sinceTs \in Nat /\ s.ownSessionId \in SessionIds \cup {NoSession}
        /\ Len(rows) \in Nat /\ s.upTo <= Len(rows)
    BY <2>1, <2>2, RowTypes DEF SubOK, Subscription
  <2>4. i \in s.after + 1 .. s.upTo
    OBVIOUS
  <2> HIDE DEF s
  <2>5. i \in 1 .. s.upTo /\ i \in s.after + 1 .. Len(rows) /\ i \in 1 .. Len(rows)
    BY <2>3, <2>4
  <2>6. rows[i].ts \in Nat
    BY <2>1, <2>5, RowTypes
  <2>7. CASE rows[i].ts > s.sinceTs
    <3>1. i \in Range(passed) \/ rows[i].from = s.ownSessionId
      BY <2>1, <2>5, <2>7 DEF SubOK
    <3>2. s.ownSessionId # Peer
      BY <2>3, RemoteAssumption
    <3> QED BY <3>1, <3>2
  <2>8. CASE rows[i].ts <= s.sinceTs
    BY <2>1, <2>5, <2>8 DEF SubOK, Covered, s
  <2> QED BY <2>3, <2>6, <2>7, <2>8
<1> QED BY <1>1, RemoteInvariant, PTL

\* The rows that the holder of the feed got as history
Shown == IF entry \in DOMAIN subscriptions THEN subscriptions[entry].after ELSE 0

\* A step that passes on nothing: at most the feed is another one.
LEMMA JoinsContract ==
    ASSUME FeedInv', rows' = rows, passed' = passed
    PROVE  Contract!Join
<1>1. Len(rows') \in Nat
  BY RowTypes DEF FeedInv
<1>2. Shown' \in 0 .. Len(rows')
  <2>1. CASE entry' \in DOMAIN subscriptions'
    <3>1. SubOK(rows', passed', cursor', subscriptions'[entry'])
      BY <2>1 DEF FeedInv
    <3>2. subscriptions'[entry'].after \in Nat /\ subscriptions'[entry'].after <= Len(rows')
      BY <3>1 DEF SubOK, Subscription
    <3> QED BY <1>1, <2>1, <3>2 DEF Shown
  <2>2. CASE entry' \notin DOMAIN subscriptions'
    BY <1>1, <2>2 DEF Shown
  <2> QED BY <2>1, <2>2
<1> QED BY <1>2 DEF Contract!Join, Shown

\* Every step is one of the contract's, or none.
LEMMA ContractStep ==
    ASSUME Inductive, FeedInv', [Next]_vars
    PROVE  Contract!Next \/ UNCHANGED Contract!contractVars
<1>0. FeedInv /\ RowsOK(rows) /\ Len(rows) \in Nat
  BY RowTypes DEF Inductive, FeedInv
<1>1. CASE rows' = rows /\ passed' = passed
  BY <1>1, JoinsContract DEF Contract!Next
<1>2. ASSUME NEW from, PostRow(from) PROVE Contract!Post
  <2>1. UNCHANGED <<entry, subscriptions, passed>> /\ \E row : rows' = Append(rows, row)
    BY <1>2 DEF PostRow, feedVars
  <2>2. \A row : Len(Append(rows, row)) = Len(rows) + 1
    BY <1>0 DEF RowsOK
  <2>3. Len(rows') = Len(rows) + 1
    BY <2>1, <2>2
  <2> QED BY <2>1, <2>3 DEF Contract!Post
<1>3. ASSUME NEW f \in DOMAIN subscriptions, Update(f) PROVE Contract!HandOver \/ (rows' = rows /\ passed' = passed)
  <2> DEFINE s == subscriptions[f]
             acc == Receive(f)
  <2>1. /\ Len(passed) <= Len(acc.passed)
        /\ \A i \in 1 .. Len(passed) : acc.passed[i] = passed[i]
        /\ \A i \in Len(passed) + 1 .. Len(acc.passed) : acc.passed[i] \in s.after + 1 .. Len(rows)
    BY <1>0, UpdateOK DEF FeedInv
  <2>2. /\ UNCHANGED <<rows, entry>> /\ passed' = acc.passed
        /\ subscriptions' = [subscriptions EXCEPT ![f].seen = acc.seen, ![f].upTo = Len(rows)]
    BY <1>3 DEF Update, backendVars
  <2> HIDE DEF acc
  <2>3. f = entry /\ s \in Subscription
    BY <1>0 DEF FeedInv, FeedsOwned, FeedTypes, IsMap
  <2>4. entry \in DOMAIN subscriptions /\ DOMAIN subscriptions' = DOMAIN subscriptions
        /\ subscriptions'[entry].after = s.after
    BY <2>2, <2>3 DEF Subscription
  <2>5. /\ passed \in Seq(1 .. Len(rows)) /\ passed' \in Seq(1 .. Len(rows))
        /\ \A i \in 1 .. Len(passed') - 1 : passed'[i] < passed'[i + 1]
    BY <1>0, <2>2 DEF FeedInv, PassedOK
  <2>6. CASE Len(passed') > Len(passed)
    <3>1. SubSeq(passed', 1, Len(passed)) = passed
      <4>1. \A i \in 1 .. Len(passed) : passed'[i] = passed[i]
        BY <2>1, <2>2
      <4>2. Len(passed) <= Len(passed')
        BY <2>1, <2>2
      <4> QED BY <2>5, <4>1, <4>2, PrefixSubSeq
    <3>2. \A i \in Len(passed) + 1 .. Len(passed') : passed'[i] \in s.after + 1 .. Len(rows)
      BY <2>1, <2>2
    <3> QED BY <2>2, <2>3, <2>4, <2>5, <2>6, <3>1, <3>2 DEF Contract!HandOver, Contract!Increasing
  <2>7. CASE ~(Len(passed') > Len(passed))
    <3>1. Len(passed') = Len(passed) /\ \A i \in 1 .. Len(passed) : passed'[i] = passed[i]
      BY <2>1, <2>2, <2>5, <2>7
    <3>2. passed' = passed
      BY <2>5, <3>1, SeqEqual
    <3> QED BY <2>2, <3>2
  <2> QED BY <2>6, <2>7
<1>4. CASE \/ Quiet \/ JoinSkipped \/ LeaveSkipped \/ Shutdown \/ UNCHANGED vars
           \/ \E slot \in Slots : Joined(slot) \/ LeaveReturns(slot)
           \/ \E err \in Errors, slot \in Slots : JoinFails(slot, err)
           \/ \E f \in lookups : LookupReturns(f)
  <2>1. rows' = rows /\ passed' = passed
    BY <1>4, QuietFrame DEF JoinSkipped, LeaveSkipped, Shutdown, vars, Joined, LeaveReturns, JoinFails, LookupReturns,
                            backendVars, feedVars
  <2> QED BY <1>1, <2>1
<1> QED BY <1>1, <1>2, <1>3, <1>4 DEF Next, Quiet, Contract!Next

\* The feed implements FeedContract: what is passed on is handed over in the
\* order of the posts, once, and none of it was history, over any number of
\* joins, feeds and failures.
THEOREM FeedContractImplemented == Spec => FeedSpec
<1>1. Init => Contract!Init
  BY DEF Init, Contract!Init, EmptyMap
<1>2. Inductive /\ Inductive' /\ [Next]_vars => [Contract!Next]_(Contract!contractVars)
  BY ContractStep DEF Inductive
<1> QED BY <1>1, <1>2, RemoteInvariant, PTL DEF Spec, FeedSpec, Contract!Spec
=============================================================================
