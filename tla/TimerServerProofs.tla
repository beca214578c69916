--------------------------- MODULE TimerServerProofs ---------------------------
(***************************************************************************)
(* Proofs about the timer server, for any timers, periods and latencies,   *)
(* any timers that each context may start and stop, and any number of      *)
(* calls: what runs is linked and served, never early and never late       *)
(* without bound.                                                          *)
(***************************************************************************)
EXTENDS TimerServer, SequenceTheorems, FiniteSetTheorems, TLAPS

-----------------------------------------------------------------------------
(***************************************************************************)
(* The inductive invariant, on a record s of the server's variables, which *)
(* the list operations take from one to the next.                          *)
(*                                                                         *)
(* Between two functions the list is armed: its head has the alarm, and    *)
(* the others follow in the order of their time stamps.  The head itself   *)
(* may be behind them, but only as far as TimerSetTimeout moves it, the    *)
(* minimum timeout from now.  Inside a function that has taken the head    *)
(* off, the list is unarmed and in order.                                  *)
(***************************************************************************)

Place(s) == 1 .. Len(s.list)
Stamp(s, k) == s.Timestamp[s.list[k]]
Soonest(s) == s.elapsed + MinTimeout

ServerState ==
  [list : Seq(Timer), Timestamp : [Timer -> Nat], IsPending : [Timer -> BOOLEAN],
   elapsed : Nat, alarm : Nat, irq : BOOLEAN]

Injective(q) == \A i, j \in 1 .. Len(q) : q[i] = q[j] => i = j

SortedFrom(s, first) ==
  \A i, j \in Place(s) : first <= i /\ i < j => Stamp(s, i) <= Stamp(s, j)

Unarmed(s) ==
  /\ SortedFrom(s, 1)
  /\ s.IsPending = [u \in Timer |-> FALSE]
  /\ ~s.irq

HeadServed(s) ==
  /\ s.alarm = Stamp(s, 1)
  /\ s.irq <=> s.elapsed >= s.alarm
  /\ s.elapsed <= s.alarm + MaxLatency
  /\ \A k \in Place(s) : s.alarm <= Stamp(s, k) \/ s.alarm <= Soonest(s)

Armed(s) ==
  /\ SortedFrom(s, 2)
  /\ s.IsPending = [u \in Timer |-> s.list # <<>> /\ u = s.list[1]]
  /\ s.list = <<>> => ~s.irq
  /\ s.list # <<>> => HeadServed(s)

(***************************************************************************)
(* Lateness.  Each timer before another one costs it a turn, the minimum   *)
(* timeout and the latency, at most; the timer at place k can still afford *)
(* that of all the places behind it, its slack.  A timer whose time stamp  *)
(* was moved by a re-base, or is the head's, is due soon at any rate;      *)
(* every other one is due within the minimum timeout before its stamp.     *)
(***************************************************************************)

Turn == MinTimeout + MaxLatency
Slack(k) == (Cardinality(Timer) - k) * Turn

OnTime(s, d, k) == d[s.list[k]] >= Stamp(s, k) - s.elapsed - MinTimeout
NotEarly(s, d, k) == d[s.list[k]] <= Stamp(s, k) - s.elapsed

DueUnarmed(s, d) ==
  \A k \in Place(s) :
    /\ NotEarly(s, d, k)
    /\ d[s.list[k]] >= -Slack(k)
    /\ OnTime(s, d, k) \/ Stamp(s, k) < Soonest(s)

DueArmed(s, d) ==
  \A k \in Place(s) :
    /\ NotEarly(s, d, k)
    /\ d[s.list[k]] >= s.alarm - Soonest(s) - Slack(k)
    /\ \/ OnTime(s, d, k)
       \/ Stamp(s, k) < Soonest(s)
       \/ k = 1 /\ Stamp(s, k) = Soonest(s)

WellFormed(s) == s \in ServerState /\ Injective(s.list)
Good(s, d) == WellFormed(s) /\ Armed(s) /\ DueArmed(s, d)
Taken(s, d) == WellFormed(s) /\ Unarmed(s) /\ DueUnarmed(s, d)

Due == [Timer -> Int]

-----------------------------------------------------------------------------
(* Arithmetic of turns.                                                     *)

(* What the constants are.                                                  *)
LEMMA Constants ==
  /\ MinTimeout \in Nat /\ MinTimeout >= 1 /\ MaxLatency \in Nat
  /\ Turn \in Nat /\ Turn = MinTimeout + MaxLatency
  /\ Cardinality(Timer) \in Nat
  /\ NoTimer \notin Timer
BY TimerServerAssumption, FS_CardinalityType DEF Turn

(* A place further back has one turn less to give away.                     *)
LEMMA SlackSteps ==
  \A k \in Nat : /\ Slack(k) \in Int
                 /\ Slack(k) = Slack(k + 1) + Turn
                 /\ k <= Cardinality(Timer) => Slack(k) >= 0
                 /\ k >= 1 => Slack(k) + Turn <= Cardinality(Timer) * Turn
<1> DEFINE n == Cardinality(Timer)
<1> TAKE k \in Nat
<1>1. n \in Nat /\ Turn \in Nat
  BY Constants
<1>2. \A x, y \in Int : x * Turn \in Int /\ (x + y) * Turn = x * Turn + y * Turn
  BY <1>1
<1>3. \A x \in Nat : x * Turn >= 0
  BY <1>1
<1> HIDE DEF n
<1>4. (n - k) * Turn = (n - (k + 1)) * Turn + 1 * Turn
  <2>1. n - k = (n - (k + 1)) + 1 /\ n - (k + 1) \in Int
    BY <1>1
  <2> QED BY <2>1, <1>2
<1>5. k >= 1 => (n - k) * Turn + Turn <= n * Turn
  <2> SUFFICES ASSUME k >= 1 PROVE (n - k) * Turn + Turn <= n * Turn
    OBVIOUS
  <2>1. n = (n - k) + 1 + (k - 1) /\ n - k \in Int /\ (n - k) + 1 \in Int /\ k - 1 \in Nat
    BY <1>1
  <2>2. n * Turn = ((n - k) + 1) * Turn + (k - 1) * Turn
    BY <2>1, <1>2
  <2>3. ((n - k) + 1) * Turn = (n - k) * Turn + 1 * Turn
    BY <2>1, <1>2
  <2>4. (k - 1) * Turn >= 0 /\ 1 * Turn = Turn
    BY <2>1, <1>3, <1>1
  <2>5. (n - k) * Turn \in Int /\ (k - 1) * Turn \in Int
    BY <2>1, <1>2
  <2> QED BY <2>2, <2>3, <2>4, <2>5, <1>1
<1>6. k <= n => (n - k) * Turn >= 0
  BY <1>1, <1>3
<1>7. (n - k) * Turn \in Int /\ (n - (k + 1)) * Turn \in Int /\ 1 * Turn = Turn
  BY <1>1, <1>2
<1> QED BY <1>4, <1>5, <1>6, <1>7, <1>1 DEF Slack, n

(* A list without repetition is not longer than there are timers.           *)
LEMMA ListIsShort ==
  ASSUME NEW q \in Seq(Timer), Injective(q)
  PROVE  Len(q) <= Cardinality(Timer)
<1>1. Len(q) \in Nat /\ q \in [1 .. Len(q) -> Timer]
  BY LenProperties
<1>2. q \in Injection(1 .. Len(q), Timer)
  BY <1>1 DEF Injection, IsInjective, Injective
<1>3. Cardinality(1 .. Len(q)) <= Cardinality(Timer)
  BY <1>2, FS_Injection, TimerServerAssumption
<1>4. Cardinality(1 .. Len(q)) = Len(q)
  BY <1>1, FS_Interval
<1> QED BY <1>3, <1>4

(* A set of natural numbers that is not empty has a least one.              *)
LEMMA HasMinimum ==
  ASSUME NEW S, S \subseteq Nat, S # {}
  PROVE  \E x \in S : \A y \in S : x <= y
<1> DEFINE R == OpToRel(<, Nat)
<1>1. IsWellFoundedOn(R, Nat)
  BY NatLessThanWellFounded
<1> HIDE DEF R
<1>2. PICK x \in S : \A y \in S : ~ (<<y, x>> \in R)
  BY <1>1, WFMin
<1>3. \A y \in S : y < x => <<y, x>> \in R
  BY DEF R, OpToRel
<1>4. \A y \in S : x <= y
  <2> TAKE y \in S
  <2>1. ~(y < x)
    BY <1>2, <1>3
  <2>2. x \in Nat /\ y \in Nat
    OBVIOUS
  <2> QED BY <2>1, <2>2
<1> QED BY <1>4

-----------------------------------------------------------------------------
(* Linking a timer behind the i-th one, and unlinking the i-th one.         *)

(* What stands where in two lists put together.                             *)
LEMMA ConcatAt ==
  ASSUME NEW a \in Seq(Timer), NEW b \in Seq(Timer)
  PROVE  /\ a \o b \in Seq(Timer)
         /\ Len(a \o b) = Len(a) + Len(b)
         /\ \A k \in 1 .. Len(a) : (a \o b)[k] = a[k]
         /\ \A k \in 1 .. Len(b) : (a \o b)[Len(a) + k] = b[k]
<1>1. Len(a) \in Nat /\ Len(b) \in Nat
  OBVIOUS
<1>2. /\ a \o b \in Seq(Timer)
      /\ Len(a \o b) = Len(a) + Len(b)
      /\ \A k \in 1 .. Len(a) + Len(b) : (a \o b)[k] = IF k <= Len(a) THEN a[k] ELSE b[k - Len(a)]
  BY ConcatProperties
<1>3. ASSUME NEW k \in 1 .. Len(a) PROVE (a \o b)[k] = a[k]
  <2>1. k \in 1 .. Len(a) + Len(b) /\ k <= Len(a)
    BY <1>1
  <2> QED BY <2>1, <1>2
<1>4. ASSUME NEW k \in 1 .. Len(b) PROVE (a \o b)[Len(a) + k] = b[k]
  <2>1. Len(a) + k \in 1 .. Len(a) + Len(b) /\ ~(Len(a) + k <= Len(a)) /\ (Len(a) + k) - Len(a) = k
    BY <1>1
  <2> QED BY <2>1, <1>2
<1> QED BY <1>2, <1>3, <1>4

(* What stands where when a timer is linked behind place i.                 *)
LEMMA LinkedBehind ==
  ASSUME NEW q \in Seq(Timer), NEW t \in Timer, NEW i \in 0 .. Len(q)
  PROVE  LET r == SubSeq(q, 1, i) \o <<t>> \o SubSeq(q, i + 1, Len(q)) IN
         /\ r \in Seq(Timer) /\ Len(r) = Len(q) + 1
         /\ \A k \in 1 .. i : r[k] = q[k]
         /\ r[i + 1] = t
         /\ \A k \in i + 1 .. Len(q) : r[k + 1] = q[k]
<1> DEFINE a == SubSeq(q, 1, i)
           b == SubSeq(q, i + 1, Len(q))
<1>1. /\ a \in Seq(Timer) /\ Len(a) = i /\ \A k \in 1 .. i : a[k] = q[k]
      /\ b \in Seq(Timer) /\ Len(b) = Len(q) - i /\ \A k \in 1 .. Len(q) - i : b[k] = q[i + k]
  OBVIOUS
<1> HIDE DEF a, b
<1>2. /\ Len(q) \in Nat /\ i \in Nat /\ i <= Len(q)
  OBVIOUS
<1> DEFINE c == a \o <<t>>
<1>3. /\ c \in Seq(Timer) /\ Len(c) = i + 1 /\ c[i + 1] = t
      /\ \A k \in 1 .. i : c[k] = a[k]
  <2> DEFINE u == <<t>>
  <2>1. u \in Seq(Timer) /\ Len(u) = 1 /\ u[1] = t
    OBVIOUS
  <2> HIDE DEF u
  <2>2. /\ a \o u \in Seq(Timer)
        /\ Len(a \o u) = Len(a) + Len(u)
        /\ \A k \in 1 .. Len(a) : (a \o u)[k] = a[k]
        /\ \A k \in 1 .. Len(u) : (a \o u)[Len(a) + k] = u[k]
    BY <1>1, <2>1, ConcatAt
  <2>3. (a \o u)[Len(a) + 1] = u[1]
    BY <2>1, <2>2
  <2> QED BY <1>1, <1>2, <2>1, <2>2, <2>3 DEF u
<1> HIDE DEF c
<1> DEFINE r == c \o b
<1>4. /\ r \in Seq(Timer)
      /\ Len(r) = Len(c) + Len(b)
      /\ \A k \in 1 .. Len(c) : r[k] = c[k]
      /\ \A k \in 1 .. Len(b) : r[Len(c) + k] = b[k]
  BY <1>1, <1>3, ConcatAt
<1> HIDE DEF r
<1>5. Len(r) = Len(q) + 1
  BY <1>1, <1>2, <1>3, <1>4
<1>6. ASSUME NEW k \in 1 .. i PROVE r[k] = q[k]
  <2>1. k \in 1 .. Len(c)
    BY <1>2, <1>3
  <2> QED BY <2>1, <1>1, <1>3, <1>4
<1>7. r[i + 1] = t
  <2>1. i + 1 \in 1 .. Len(c)
    BY <1>2, <1>3
  <2> QED BY <2>1, <1>3, <1>4
<1>8. ASSUME NEW k \in i + 1 .. Len(q) PROVE r[k + 1] = q[k]
  <2>1. k - i \in 1 .. Len(b) /\ Len(c) + (k - i) = k + 1 /\ i + (k - i) = k
    BY <1>1, <1>2, <1>3
  <2>2. r[Len(c) + (k - i)] = b[k - i]
    BY <2>1, <1>4
  <2>3. b[k - i] = q[i + (k - i)]
    BY <2>1, <1>1
  <2> QED BY <2>1, <2>2, <2>3
<1> QED BY <1>4, <1>5, <1>6, <1>7, <1>8 DEF r, c, a, b

(* What stands where when the timer at place i is unlinked.                 *)
LEMMA Unlinked ==
  ASSUME NEW q \in Seq(Timer), NEW i \in 1 .. Len(q)
  PROVE  LET r == SubSeq(q, 1, i - 1) \o SubSeq(q, i + 1, Len(q)) IN
         /\ r \in Seq(Timer) /\ Len(r) = Len(q) - 1
         /\ \A k \in 1 .. i - 1 : r[k] = q[k]
         /\ \A k \in i .. Len(q) - 1 : r[k] = q[k + 1]
<1> DEFINE a == SubSeq(q, 1, i - 1)
           b == SubSeq(q, i + 1, Len(q))
           r == a \o b
<1>1. /\ a \in Seq(Timer) /\ Len(a) = i - 1 /\ \A k \in 1 .. i - 1 : a[k] = q[k]
      /\ b \in Seq(Timer) /\ Len(b) = Len(q) - i /\ \A k \in 1 .. Len(q) - i : b[k] = q[i + k]
  OBVIOUS
<1> HIDE DEF a, b
<1>2. /\ Len(q) \in Nat /\ i \in Nat /\ i <= Len(q) /\ i >= 1
  OBVIOUS
<1>3. /\ r \in Seq(Timer)
      /\ Len(r) = Len(a) + Len(b)
      /\ \A k \in 1 .. Len(a) : r[k] = a[k]
      /\ \A k \in 1 .. Len(b) : r[Len(a) + k] = b[k]
  BY <1>1, ConcatAt
<1> HIDE DEF r
<1>4. ASSUME NEW k \in 1 .. i - 1 PROVE r[k] = q[k]
  BY <1>1, <1>3
<1>5. ASSUME NEW k \in i .. Len(q) - 1 PROVE r[k] = q[k + 1]
  <2>1. k - i + 1 \in 1 .. Len(b) /\ Len(a) + (k - i + 1) = k /\ i + (k - i + 1) = k + 1
    BY <1>1, <1>2
  <2>2. r[Len(a) + (k - i + 1)] = b[k - i + 1]
    BY <2>1, <1>3
  <2>3. b[k - i + 1] = q[i + (k - i + 1)]
    BY <2>1, <1>1
  <2> QED BY <2>1, <2>2, <2>3
<1>6. Len(r) = Len(q) - 1
  BY <1>1, <1>2, <1>3
<1> QED BY <1>3, <1>4, <1>5, <1>6 DEF r, a, b

-----------------------------------------------------------------------------
(* TimerSetTimeout arms a list that is in order.                            *)

(* A list that is not empty has a head, a timer.                            *)
LEMMA FirstPlace ==
  ASSUME NEW s, WellFormed(s), s.list # <<>>
  PROVE  1 \in Place(s) /\ s.list[1] \in Timer /\ Len(s.list) \in Nat /\ Len(s.list) >= 1
BY DEF WellFormed, ServerState, Place

(* At each place is a timer with a time stamp, and as many places as        *)
(* timers.                                                                  *)
LEMMA StampIsTicks ==
  ASSUME NEW s, WellFormed(s), NEW k \in Place(s)
  PROVE  /\ s.list[k] \in Timer /\ Stamp(s, k) \in Nat
         /\ k \in Nat /\ k >= 1 /\ k <= Cardinality(Timer)
         /\ s.elapsed \in Nat /\ s.alarm \in Nat /\ Soonest(s) \in Nat
         /\ Soonest(s) = s.elapsed + MinTimeout
         /\ Slack(k) \in Int /\ Slack(k) >= 0
<1>1. /\ s.list[k] \in Timer /\ Stamp(s, k) \in Nat /\ k \in Nat /\ k >= 1 /\ k <= Len(s.list)
      /\ s.elapsed \in Nat /\ s.alarm \in Nat /\ s.list \in Seq(Timer) /\ Len(s.list) \in Nat
  BY DEF WellFormed, ServerState, Place, Stamp
<1>2. Len(s.list) <= Cardinality(Timer)
  BY <1>1, ListIsShort DEF WellFormed
<1>3. k <= Cardinality(Timer)
  BY <1>1, <1>2, Constants
<1>4. Slack(k) \in Int /\ Slack(k) >= 0
  BY <1>1, <1>3, SlackSteps
<1> QED BY <1>1, <1>3, <1>4, Constants DEF Soonest

(* TimerSetTimeout arms the alarm for the head of a list in order.          *)
LEMMA ArmsHead ==
  ASSUME NEW s, NEW d \in Due, Taken(s, d), s.list # <<>>
  PROVE  /\ Good(TimerSetTimeout(s), d)
         /\ TimerSetTimeout(s).list = s.list
<1> DEFINE r == TimerSetTimeout(s)
           h == s.list[1]
           x == Larger(s.Timestamp[h], s.elapsed + MinTimeout)
<1>0. WellFormed(s) /\ Unarmed(s) /\ DueUnarmed(s, d)
  BY DEF Taken
<1>1. /\ 1 \in Place(s) /\ h \in Timer /\ s.Timestamp[h] \in Nat /\ s.elapsed \in Nat
      /\ s.Timestamp[h] = Stamp(s, 1)
  BY <1>0, FirstPlace DEF WellFormed, ServerState, Stamp
<1>2. x \in Nat /\ x >= Soonest(s) /\ x >= Stamp(s, 1) /\ (x = Stamp(s, 1) \/ x = Soonest(s))
  BY <1>1, Constants DEF Larger, Soonest
<1> HIDE DEF x
<1>3. /\ r \in ServerState
      /\ r.list = s.list /\ r.elapsed = s.elapsed /\ r.alarm = x /\ r.irq = FALSE
      /\ r.Timestamp = [s.Timestamp EXCEPT ![h] = x]
      /\ r.IsPending = [s.IsPending EXCEPT ![h] = TRUE]
  BY <1>0, <1>1, <1>2 DEF TimerSetTimeout, x, WellFormed, ServerState
<1> HIDE DEF r
<1>4. Place(r) = Place(s) /\ Soonest(r) = Soonest(s) /\ Injective(r.list)
  BY <1>0, <1>3 DEF Place, Soonest, WellFormed
<1>5. Stamp(r, 1) = x
  BY <1>0, <1>1, <1>3 DEF Stamp, WellFormed, ServerState
<1>6. \A k \in Place(s) : k # 1 => Stamp(r, k) = Stamp(s, k)
  BY <1>0, <1>1, <1>3 DEF Stamp, Place, WellFormed, ServerState, Injective
<1>7. SortedFrom(r, 2)
  <2> SUFFICES ASSUME NEW i \in Place(r), NEW j \in Place(r), 2 <= i /\ i < j
               PROVE  Stamp(r, i) <= Stamp(r, j)
    BY DEF SortedFrom
  <2>1. i \in Nat /\ j \in Nat
    BY DEF Place
  <2>2. i # 1 /\ j # 1 /\ 1 <= i
    BY <2>1
  <2>3. Stamp(s, i) <= Stamp(s, j)
    BY <1>0, <1>4, <2>2 DEF Unarmed, SortedFrom
  <2> QED BY <2>2, <2>3, <1>4, <1>6
<1>8. r.IsPending = [u \in Timer |-> r.list # <<>> /\ u = r.list[1]]
  BY <1>0, <1>1, <1>3 DEF Unarmed
<1>9. HeadServed(r)
  <2>1. \A k \in Place(s) : k # 1 => Stamp(s, 1) <= Stamp(s, k)
    BY <1>0, <1>1 DEF Unarmed, SortedFrom, Place
  <2>2. \A k \in Place(r) : r.alarm <= Stamp(r, k) \/ r.alarm <= Soonest(r)
    <3> TAKE k \in Place(r)
    <3>1. k = 1 => r.alarm <= Stamp(r, k)
      BY <1>2, <1>3, <1>5
    <3>2. k # 1 => Stamp(r, k) = Stamp(s, k) /\ Stamp(s, 1) <= Stamp(s, k)
      BY <1>4, <1>6, <2>1
    <3>3. Stamp(s, 1) \in Nat /\ Stamp(s, k) \in Nat /\ Soonest(s) \in Nat
      BY <1>0, <1>1, <1>4, StampIsTicks
    <3> QED BY <3>1, <3>2, <3>3, <1>2, <1>3, <1>4
  <2>3. r.elapsed < r.alarm
    BY <1>1, <1>2, <1>3, Constants DEF Soonest
  <2>4. r.elapsed \in Nat /\ r.alarm \in Nat
    BY <1>1, <1>2, <1>3
  <2> QED BY <2>2, <2>3, <2>4, <1>3, <1>5, Constants DEF HeadServed
<1>10. DueArmed(r, d)
  <2> SUFFICES ASSUME NEW k \in Place(s)
               PROVE  /\ NotEarly(r, d, k)
                      /\ d[r.list[k]] >= r.alarm - Soonest(r) - Slack(k)
                      /\ \/ OnTime(r, d, k)
                         \/ Stamp(r, k) < Soonest(r)
                         \/ k = 1 /\ Stamp(r, k) = Soonest(r)
    BY <1>4 DEF DueArmed
  <2>1. /\ s.list[k] \in Timer /\ Stamp(s, k) \in Nat /\ k \in Nat /\ k >= 1
        /\ s.elapsed \in Nat /\ Soonest(s) \in Nat /\ Soonest(s) = s.elapsed + MinTimeout
        /\ Slack(k) \in Int /\ Slack(k) >= 0 /\ MinTimeout \in Nat
    BY <1>0, StampIsTicks, Constants
  <2>2. d[s.list[k]] \in Int
    BY <2>1 DEF Due
  <2>3. /\ d[s.list[k]] <= Stamp(s, k) - s.elapsed
        /\ d[s.list[k]] >= -Slack(k)
        /\ \/ d[s.list[k]] >= Stamp(s, k) - s.elapsed - MinTimeout
           \/ Stamp(s, k) < Soonest(s)
    BY <1>0 DEF DueUnarmed, NotEarly, OnTime
  <2>4. Stamp(s, 1) <= Stamp(s, k) /\ Stamp(s, 1) \in Nat
    <3>1. k = 1 \/ 1 < k
      BY <2>1
    <3>2. Stamp(s, 1) \in Nat
      BY <1>0, <1>1, StampIsTicks
    <3> QED BY <3>1, <3>2, <2>1, <1>0, <1>1 DEF Unarmed, SortedFrom
  <2>5. Stamp(r, k) >= Stamp(s, k) /\ Stamp(r, k) \in Nat /\ (k # 1 => Stamp(r, k) = Stamp(s, k))
        /\ (k = 1 => Stamp(r, k) = x)
    BY <2>1, <1>2, <1>5, <1>6
  <2>6. d[s.list[k]] >= x - Soonest(s) - Slack(k)
    <3>1. CASE x = Soonest(s)
      BY <3>1, <2>1, <2>2, <2>3
    <3>2. CASE x # Soonest(s)
      <4>1. Stamp(s, k) >= x /\ x > Soonest(s)
        BY <3>2, <1>2, <2>1, <2>4
      <4>2. d[s.list[k]] >= Stamp(s, k) - s.elapsed - MinTimeout
        BY <4>1, <1>2, <2>1, <2>3
      <4>3. x \in Nat
        BY <1>2
      <4> DEFINE e == d[s.list[k]]
                 q == Stamp(s, k)
                 from == s.elapsed
                 soonest == Soonest(s)
                 slack == Slack(k)
      <4>4. /\ e \in Int /\ q \in Nat /\ from \in Nat /\ soonest \in Nat /\ slack \in Int
            /\ MinTimeout \in Nat /\ slack >= 0 /\ soonest = from + MinTimeout
            /\ q >= x /\ e >= q - from - MinTimeout
        BY <4>1, <4>2, <2>1, <2>2
      <4> HIDE DEF e, q, from, soonest, slack, x
      <4>5. e >= x - soonest - slack
        BY <4>3, <4>4
      <4> QED BY <4>5 DEF e, soonest, slack
    <3> QED BY <3>1, <3>2
  <2>7. \/ d[s.list[k]] >= Stamp(r, k) - s.elapsed - MinTimeout
        \/ Stamp(r, k) < Soonest(s)
        \/ k = 1 /\ Stamp(r, k) = Soonest(s)
    BY <1>2, <2>1, <2>2, <2>3, <2>4, <2>5
  <2>8. d[s.list[k]] <= Stamp(r, k) - s.elapsed
    BY <2>1, <2>2, <2>3, <2>5
  <2> QED BY <2>6, <2>7, <2>8, <1>3, <1>4 DEF NotEarly, OnTime
<1>11. r.list # <<>> /\ WellFormed(r)
  BY <1>3, <1>4 DEF WellFormed
<1>12. Good(r, d)
  BY <1>7, <1>8, <1>9, <1>10, <1>11 DEF Good, Armed
<1> QED BY <1>3, <1>12 DEF r

-----------------------------------------------------------------------------
(***************************************************************************)
(* Linking a timer.  Its time stamp is the minimum timeout from now or     *)
(* later; d counts what its period asks for, and is that of the others in  *)
(* the list.                                                               *)
(***************************************************************************)

NewTimer(s, t, d) ==
  /\ t \in Timer /\ \A k \in Place(s) : s.list[k] # t
  /\ s.Timestamp[t] >= Soonest(s)
  /\ d[t] <= s.Timestamp[t] - s.elapsed
  /\ d[t] >= s.Timestamp[t] - s.elapsed - MinTimeout

(* At the front of a list in order, all of which is due later.              *)
LEMMA LinksHead ==
  ASSUME NEW s, WellFormed(s), NEW d \in Due, NEW t, NewTimer(s, t, d),
         SortedFrom(s, 1), ~s.irq,
         \A u \in Timer : s.IsPending[u] => s.list # <<>> /\ u = s.list[1],
         \A k \in Place(s) : /\ Stamp(s, k) >= s.Timestamp[t]
                             /\ NotEarly(s, d, k) /\ OnTime(s, d, k)
  PROVE  /\ Good(TimerInsertNewHeadTimer(s, t), d)
         /\ TimerInsertNewHeadTimer(s, t).list = <<t>> \o s.list
<1> DEFINE v == [s EXCEPT !.list = <<t>> \o s.list,
                  !.IsPending = [u \in Timer |-> @[u] /\ ~(s.list # <<>> /\ u = s.list[1])]]
           x == s.Timestamp[t]
<1>1. /\ s.list \in Seq(Timer) /\ Len(s.list) \in Nat /\ t \in Timer /\ s.elapsed \in Nat
      /\ x \in Nat /\ x >= Soonest(s) /\ Soonest(s) = s.elapsed + MinTimeout /\ MinTimeout \in Nat
  BY Constants DEF WellFormed, ServerState, NewTimer, Soonest
<1>2. /\ Len(<<t>> \o s.list) = Len(s.list) + 1 /\ <<t>> \o s.list \in Seq(Timer)
      /\ (<<t>> \o s.list)[1] = t
      /\ \A k \in Place(s) : (<<t>> \o s.list)[k + 1] = s.list[k]
  <2> DEFINE a == <<t>>
  <2>1. a \in Seq(Timer) /\ Len(a) = 1 /\ a[1] = t
    BY <1>1
  <2> HIDE DEF a
  <2>2. /\ a \o s.list \in Seq(Timer)
        /\ Len(a \o s.list) = Len(a) + Len(s.list)
        /\ \A k \in 1 .. Len(a) : (a \o s.list)[k] = a[k]
        /\ \A k \in 1 .. Len(s.list) : (a \o s.list)[Len(a) + k] = s.list[k]
    BY <1>1, <2>1, ConcatAt
  <2>3. 1 \in 1 .. Len(a) /\ \A k \in 1 .. Len(s.list) : Len(a) + k = k + 1
    BY <1>1, <2>1
  <2> QED BY <1>1, <2>1, <2>2, <2>3 DEF a, Place
<1>3. v.IsPending = [u \in Timer |-> FALSE]
  BY DEF WellFormed, ServerState
<1>4. /\ v \in ServerState /\ v.list = <<t>> \o s.list /\ v.elapsed = s.elapsed
      /\ v.irq = FALSE /\ v.Timestamp = s.Timestamp
  BY <1>1, <1>2 DEF WellFormed, ServerState
<1>5. TimerInsertNewHeadTimer(s, t) = TimerSetTimeout(v)
  BY DEF TimerInsertNewHeadTimer
<1> HIDE DEF v
<1>6. /\ Place(v) = 1 .. Len(s.list) + 1 /\ Soonest(v) = Soonest(s)
      /\ v.list[1] = t /\ Stamp(v, 1) = x
      /\ \A k \in Place(s) : v.list[k + 1] = s.list[k] /\ Stamp(v, k + 1) = Stamp(s, k)
  BY <1>2, <1>4 DEF Place, Soonest, Stamp
<1>7. ASSUME NEW k \in Place(v), k # 1 PROVE k - 1 \in Place(s) /\ (k - 1) + 1 = k
  BY <1>1, <1>6, <1>7 DEF Place
<1>8. ASSUME NEW k \in Place(v), k # 1
      PROVE  v.list[k] = s.list[k - 1] /\ Stamp(v, k) = Stamp(s, k - 1)
  BY <1>6, <1>7, <1>8
<1>9. Injective(v.list)
  <2> SUFFICES ASSUME NEW i \in Place(v), NEW j \in Place(v), v.list[i] = v.list[j]
               PROVE  i = j
    BY DEF Injective, Place
  <2>1. CASE i = 1 /\ j = 1
    BY <2>1
  <2>2. CASE i = 1 /\ j # 1
    BY <2>2, <1>6, <1>7, <1>8 DEF NewTimer
  <2>3. CASE i # 1 /\ j = 1
    BY <2>3, <1>6, <1>7, <1>8 DEF NewTimer
  <2>4. CASE i # 1 /\ j # 1
    <3>1. s.list[i - 1] = s.list[j - 1] /\ i - 1 \in 1 .. Len(s.list) /\ j - 1 \in 1 .. Len(s.list)
      BY <2>4, <1>7, <1>8 DEF Place
    <3>2. i - 1 = j - 1 /\ i \in Nat /\ j \in Nat
      BY <3>1, <1>6, <1>1 DEF WellFormed, Injective
    <3> QED BY <3>2
  <2> QED BY <2>1, <2>2, <2>3, <2>4
<1>10. WellFormed(v)
  BY <1>4, <1>9 DEF WellFormed
<1>11. SortedFrom(v, 1)
  <2> SUFFICES ASSUME NEW i \in Place(v), NEW j \in Place(v), 1 <= i, i < j
               PROVE  Stamp(v, i) <= Stamp(v, j)
    BY DEF SortedFrom
  <2>1. i \in Nat /\ j \in Nat /\ j # 1
    BY <1>1, <1>6
  <2>2. j - 1 \in Place(s) /\ Stamp(v, j) = Stamp(s, j - 1)
    BY <2>1, <1>7, <1>8
  <2>3. CASE i = 1
    BY <2>2, <2>3, <1>6, <1>1, <1>10, StampIsTicks
  <2>4. CASE i # 1
    <3>1. i - 1 \in Place(s) /\ Stamp(v, i) = Stamp(s, i - 1)
      BY <2>4, <1>7, <1>8
    <3>2. 1 <= i - 1 /\ i - 1 < j - 1
      BY <2>1, <2>4, <1>1, <1>6
    <3> QED BY <2>2, <3>1, <3>2 DEF SortedFrom
  <2> QED BY <2>3, <2>4
<1>12. DueUnarmed(v, d)
  <2> SUFFICES ASSUME NEW k \in Place(v)
               PROVE  NotEarly(v, d, k) /\ d[v.list[k]] >= -Slack(k) /\ OnTime(v, d, k)
    BY DEF DueUnarmed
  <2>1. /\ Stamp(v, k) \in Nat /\ Slack(k) \in Int /\ Slack(k) >= 0 /\ v.list[k] \in Timer
    BY <1>10, StampIsTicks
  <2>2. d[v.list[k]] \in Int
    BY <2>1 DEF Due
  <2>3. Stamp(v, k) >= Soonest(s) /\ NotEarly(v, d, k) /\ OnTime(v, d, k)
    <3>1. CASE k = 1
      BY <3>1, <1>1, <1>4, <1>6 DEF NewTimer, NotEarly, OnTime
    <3>2. CASE k # 1
      <4>1. /\ k - 1 \in Place(s) /\ v.list[k] = s.list[k - 1] /\ Stamp(v, k) = Stamp(s, k - 1)
        BY <3>2, <1>7, <1>8
      <4>2. Stamp(s, k - 1) >= x /\ NotEarly(s, d, k - 1) /\ OnTime(s, d, k - 1)
        BY <4>1
      <4> QED BY <4>1, <4>2, <1>1, <1>4, <2>1 DEF NotEarly, OnTime
    <3> QED BY <3>1, <3>2
  <2>4. d[v.list[k]] >= 0
    <3>1. d[v.list[k]] >= Stamp(v, k) - s.elapsed - MinTimeout
      BY <2>3, <1>4 DEF OnTime
    <3>2. Stamp(v, k) >= s.elapsed + MinTimeout
      BY <2>3, <1>1
    <3> QED BY <3>1, <3>2, <2>1, <2>2, <1>1
  <2> QED BY <2>1, <2>2, <2>3, <2>4
<1>13. Taken(v, d)
  BY <1>3, <1>4, <1>10, <1>11, <1>12 DEF Taken, Unarmed
<1>14. v.list # <<>>
  BY <1>2, <1>4
<1> QED BY <1>4, <1>5, <1>13, <1>14, ArmsHead

(* Behind the place that TimerInsertTimer looks for: r is the list then.    *)
LinkedAt(s, t, r, i) ==
  /\ i \in Place(s)
  /\ r = [s EXCEPT !.list = r.list]
  /\ r.list \in Seq(Timer) /\ Len(r.list) = Len(s.list) + 1
  /\ \A k \in 1 .. i : r.list[k] = s.list[k]
  /\ r.list[i + 1] = t
  /\ \A k \in i + 1 .. Len(s.list) : r.list[k + 1] = s.list[k]
  /\ Behind(s, t, i) /\ \A m \in 1 .. i - 1 : ~Behind(s, t, m)

(* TimerInsertTimer links a timer behind the first place where it belongs.  *)
LEMMA FindsPlace ==
  ASSUME NEW s, WellFormed(s), s.list # <<>>, NEW t \in Timer
  PROVE  \E i : LinkedAt(s, t, TimerInsertTimer(s, t), i)
<1> DEFINE First(n) == Behind(s, t, n) /\ \A m \in 1 .. n - 1 : ~Behind(s, t, m)
           i == CHOOSE n \in 1 .. Len(s.list) : First(n)
           q == SubSeq(s.list, 1, i) \o <<t>> \o SubSeq(s.list, i + 1, Len(s.list))
           S == {n \in 1 .. Len(s.list) : Behind(s, t, n)}
<1>1. s.list \in Seq(Timer) /\ Len(s.list) \in Nat /\ Len(s.list) >= 1
  BY FirstPlace DEF WellFormed, ServerState
<1>2. \E n \in 1 .. Len(s.list) : First(n)
  <2>1. Len(s.list) \in S /\ S \subseteq Nat
    BY <1>1 DEF Behind
  <2>2. PICK n \in S : \A y \in S : n <= y
    <3> HIDE DEF S
    <3> QED BY <2>1, HasMinimum
  <2>3. n \in 1 .. Len(s.list) /\ Behind(s, t, n) /\ n \in Nat
    BY <1>1
  <2>4. ASSUME NEW m \in 1 .. n - 1, Behind(s, t, m) PROVE FALSE
    <3>1. m \in 1 .. Len(s.list) /\ m < n /\ m \in Nat
      BY <1>1, <2>3
    <3>2. m \in S
      BY <3>1, <2>4
    <3>3. n <= m
      BY <3>2, <2>2
    <3> QED BY <3>1, <3>3, <2>3
  <2> QED BY <2>3, <2>4
<1>3. i \in 1 .. Len(s.list) /\ First(i)
  BY <1>2
<1>4. TimerInsertTimer(s, t) = [s EXCEPT !.list = q]
  BY DEF TimerInsertTimer
<1> HIDE DEF i
<1>5. i \in 0 .. Len(s.list)
  BY <1>1, <1>3
<1>6. /\ q \in Seq(Timer) /\ Len(q) = Len(s.list) + 1
      /\ \A k \in 1 .. i : q[k] = s.list[k]
      /\ q[i + 1] = t
      /\ \A k \in i + 1 .. Len(s.list) : q[k + 1] = s.list[k]
  <2> HIDE DEF q
  <2> QED BY <1>1, <1>5, LinkedBehind DEF q
<1> HIDE DEF q
<1>7. s \in ServerState
  BY DEF WellFormed
<1> DEFINE r == TimerInsertTimer(s, t)
<1>8. r.list = q /\ r = [s EXCEPT !.list = r.list]
  BY <1>4, <1>7 DEF ServerState
<1> HIDE DEF r
<1>9. LinkedAt(s, t, r, i)
  BY <1>3, <1>6, <1>8 DEF LinkedAt, Place
<1> QED BY <1>9 DEF r

(* Where the timers are then: those behind the new one have their stamps    *)
(* behind its own, and it is in order.                                      *)
LEMMA PlacesThen ==
  ASSUME NEW s, WellFormed(s), NEW d, NEW t, NewTimer(s, t, d), NEW r, NEW i,
         LinkedAt(s, t, r, i), SortedFrom(s, 2), Stamp(s, 1) <= s.Timestamp[t]
  PROVE  /\ WellFormed(r)
         /\ r.Timestamp = s.Timestamp /\ r.IsPending = s.IsPending /\ r.irq = s.irq
         /\ r.elapsed = s.elapsed /\ r.alarm = s.alarm /\ Soonest(r) = Soonest(s)
         /\ r.list # <<>> /\ r.list[1] = s.list[1] /\ Stamp(r, 1) = Stamp(s, 1)
         /\ SortedFrom(r, 2) /\ (SortedFrom(s, 1) => SortedFrom(r, 1))
         /\ \A k \in Place(r) :
              \/ k \in Place(s) /\ r.list[k] = s.list[k] /\ Stamp(r, k) = Stamp(s, k)
              \/ k > 1 /\ r.list[k] = t /\ Stamp(r, k) = s.Timestamp[t]
              \/ /\ k > 2 /\ k - 1 \in Place(s) /\ r.list[k] = s.list[k - 1]
                 /\ Stamp(r, k) = Stamp(s, k - 1) /\ Stamp(r, k) >= s.Timestamp[t]
<1> DEFINE n == Len(s.list)
           x == s.Timestamp[t]
<1>1. /\ s \in ServerState /\ s.list \in Seq(Timer) /\ n \in Nat /\ Injective(s.list)
      /\ i \in Nat /\ i >= 1 /\ i <= n /\ t \in Timer /\ x \in Nat
  <2>1. i \in Place(s)
    BY DEF LinkedAt
  <2> QED BY <2>1 DEF WellFormed, ServerState, Place, NewTimer
<1>2. /\ r.Timestamp = s.Timestamp /\ r.IsPending = s.IsPending /\ r.irq = s.irq
      /\ r.elapsed = s.elapsed /\ r.alarm = s.alarm /\ Soonest(r) = Soonest(s)
      /\ r \in ServerState /\ Len(r.list) = n + 1
      /\ Place(r) = 1 .. n + 1 /\ Place(s) = 1 .. n
  BY <1>1 DEF LinkedAt, ServerState, Soonest, Place
<1> HIDE DEF n
<1>3. /\ \A k \in 1 .. i : r.list[k] = s.list[k] /\ Stamp(r, k) = Stamp(s, k)
      /\ r.list[i + 1] = t /\ Stamp(r, i + 1) = x
      /\ \A k \in i + 1 .. n : r.list[k + 1] = s.list[k] /\ Stamp(r, k + 1) = Stamp(s, k)
  <2>1. /\ \A k \in 1 .. i : r.list[k] = s.list[k]
        /\ r.list[i + 1] = t
        /\ \A k \in i + 1 .. n : r.list[k + 1] = s.list[k]
    BY DEF LinkedAt, n
  <2> QED BY <1>2, <2>1 DEF Stamp
<1> HIDE DEF x
<1>4. \A k \in Place(s) : Stamp(s, k) \in Nat
  BY <1>1, StampIsTicks
<1>5. ASSUME NEW k \in 2 .. i PROVE Stamp(s, k) <= x
  <2>1. k - 1 \in 1 .. i - 1 /\ k - 1 # n /\ (k - 1) + 1 = k /\ k \in Place(s)
    BY <1>1, <1>2
  <2>2. ~Behind(s, t, k - 1)
    BY <2>1 DEF LinkedAt
  <2>3. ~(x <= Stamp(s, k))
    BY <2>1, <2>2 DEF Behind, Stamp, x, n
  <2> QED BY <2>1, <2>3, <1>1, <1>4
<1>6. ASSUME NEW k \in i + 1 .. n PROVE Stamp(s, k) >= x
  <2>1. i # n /\ i + 1 \in Place(s) /\ k \in Place(s) /\ 2 <= i + 1 /\ k \in Nat /\ i + 1 <= k
    BY <1>1, <1>2
  <2>2. x <= Stamp(s, i + 1)
    BY <2>1 DEF LinkedAt, Behind, Stamp, x, n
  <2>3. CASE k = i + 1
    BY <2>2, <2>3, <2>1, <1>1, <1>4
  <2>4. CASE k # i + 1
    <3>1. i + 1 < k
      BY <2>1, <2>4, <1>1
    <3>2. Stamp(s, i + 1) <= Stamp(s, k)
      BY <2>1, <3>1 DEF SortedFrom
    <3> QED BY <2>1, <2>2, <3>2, <1>1, <1>4
  <2> QED BY <2>3, <2>4
<1>7. ASSUME NEW k \in Place(r)
      PROVE  \/ k \in 1 .. i /\ k \in Place(s) /\ k <= i
             \/ k = i + 1
             \/ /\ k - 1 \in i + 1 .. n /\ (k - 1) + 1 = k /\ k > i + 1 /\ k > 2
                /\ k - 1 \in Place(s)
  BY <1>1, <1>2
<1>8. ASSUME NEW k \in Place(r)
      PROVE  \/ k \in 1 .. i /\ k \in Place(s) /\ k <= i
                /\ r.list[k] = s.list[k] /\ Stamp(r, k) = Stamp(s, k)
             \/ k = i + 1 /\ k > 1 /\ r.list[k] = t /\ Stamp(r, k) = x
             \/ /\ k > 2 /\ k > i + 1 /\ k - 1 \in Place(s) /\ k - 1 \in i + 1 .. n
                /\ r.list[k] = s.list[k - 1]
                /\ Stamp(r, k) = Stamp(s, k - 1) /\ Stamp(r, k) >= x
  <2>1. CASE k \in 1 .. i
    BY <2>1, <1>7, <1>3, <1>1, <1>2
  <2>2. CASE k = i + 1
    BY <2>2, <1>3, <1>1
  <2>3. CASE /\ k - 1 \in i + 1 .. n /\ (k - 1) + 1 = k /\ k > i + 1 /\ k > 2
             /\ k - 1 \in Place(s)
    <3>1. r.list[k] = s.list[k - 1] /\ Stamp(r, k) = Stamp(s, k - 1)
      BY <2>3, <1>3
    <3> QED BY <3>1, <2>3, <1>6
  <2> QED BY <1>7, <2>1, <2>2, <2>3
<1>9. ASSUME NEW f \in {1, 2}, SortedFrom(s, f) PROVE SortedFrom(r, f)
  <2> SUFFICES ASSUME NEW a \in Place(r), NEW b \in Place(r), f <= a, a < b
               PROVE  Stamp(r, a) <= Stamp(r, b)
    BY DEF SortedFrom
  <2>1. a \in Nat /\ b \in Nat /\ a >= 1 /\ b > 1
    BY <1>1, <1>2
  <2>2. CASE a \in 1 .. i /\ b \in 1 .. i
    <3>1. a \in Place(s) /\ b \in Place(s)
      BY <2>2, <1>1, <1>2
    <3>2. Stamp(s, a) <= Stamp(s, b)
      BY <3>1, <1>9 DEF SortedFrom
    <3> QED BY <3>2, <2>2, <1>3
  <2>3. CASE a \in 1 .. i /\ b = i + 1
    <3>1. Stamp(s, a) <= x
      <4>1. CASE a = 1
        BY <4>1 DEF x
      <4>2. CASE a # 1
        <5>1. a \in 2 .. i
          BY <2>3, <4>2, <2>1
        <5> QED BY <5>1, <1>5
      <4> QED BY <4>1, <4>2
    <3> QED BY <3>1, <2>3, <1>3
  <2>4. CASE a \in 1 .. i /\ b > i + 1
    <3>1. b - 1 \in Place(s) /\ Stamp(r, b) = Stamp(s, b - 1)
      BY <2>4, <1>8, <1>1
    <3>2. a \in Place(s) /\ Stamp(r, a) = Stamp(s, a) /\ a < b - 1
      BY <2>4, <1>3, <1>1, <1>2, <2>1
    <3>3. Stamp(s, a) <= Stamp(s, b - 1)
      BY <3>1, <3>2, <1>9 DEF SortedFrom
    <3> QED BY <3>1, <3>2, <3>3
  <2>5. CASE a = i + 1
    <3>1. b > i + 1
      BY <2>5, <2>1, <1>1
    <3>2. Stamp(r, b) >= x /\ b - 1 \in Place(s) /\ Stamp(r, b) = Stamp(s, b - 1)
      BY <3>1, <1>8, <1>1
    <3> QED BY <3>2, <2>5, <1>3, <1>1, <1>4
  <2>6. CASE a > i + 1
    <3>1. b > i + 1
      BY <2>6, <2>1, <1>1
    <3>2. a - 1 \in Place(s) /\ Stamp(r, a) = Stamp(s, a - 1)
      BY <2>6, <1>8, <1>1
    <3>3. b - 1 \in Place(s) /\ Stamp(r, b) = Stamp(s, b - 1)
      BY <3>1, <1>8, <1>1
    <3>4. f <= a - 1 /\ a - 1 < b - 1
      BY <2>6, <2>1, <1>1
    <3>5. Stamp(s, a - 1) <= Stamp(s, b - 1)
      BY <3>2, <3>3, <3>4, <1>9 DEF SortedFrom
    <3> QED BY <3>2, <3>3, <3>5
  <2>7. /\ a \in 1 .. i \/ a = i + 1 \/ a > i + 1
        /\ b \in 1 .. i \/ b = i + 1 \/ b > i + 1
    BY <1>7
  <2>8. ~(a \in 1 .. i /\ ~(b \in 1 .. i) /\ ~(b = i + 1) /\ ~(b > i + 1))
    BY <2>7
  <2> QED BY <2>2, <2>3, <2>4, <2>5, <2>6, <2>7
<1>10. Injective(r.list)
  <2> SUFFICES ASSUME NEW a \in Place(r), NEW b \in Place(r), r.list[a] = r.list[b]
               PROVE  a = b
    BY DEF Injective, Place
  <2>1. a \in Nat /\ b \in Nat
    BY <1>1, <1>2
  <2> DEFINE From(k, j) == \/ k <= i /\ j = k
                           \/ k > i + 1 /\ j = k - 1
  <2>2. \A j \in 1 .. n : s.list[j] # t
    BY <1>2 DEF NewTimer
  <2>3. ASSUME NEW k \in Place(r), k # i + 1
        PROVE  \E j \in 1 .. n : r.list[k] = s.list[j] /\ From(k, j)
    <3>1. CASE k \in Place(s) /\ k <= i /\ r.list[k] = s.list[k]
      BY <3>1, <1>2
    <3>2. CASE k > i + 1 /\ k - 1 \in Place(s) /\ r.list[k] = s.list[k - 1]
      BY <3>2, <1>2
    <3> QED BY <2>3, <3>1, <3>2, <1>8
  <2>4. r.list[i + 1] = t
    BY <1>3
  <2>5. CASE a = i + 1 \/ b = i + 1
    BY <2>5, <2>2, <2>3, <2>4
  <2>6. CASE a # i + 1 /\ b # i + 1
    <3>1. PICK j \in 1 .. n : r.list[a] = s.list[j] /\ From(a, j)
      BY <2>6, <2>3
    <3>2. PICK k \in 1 .. n : r.list[b] = s.list[k] /\ From(b, k)
      BY <2>6, <2>3
    <3>3. j = k
      <4>1. s.list[j] = s.list[k]
        BY <3>1, <3>2
      <4>2. \A u, v \in 1 .. n : s.list[u] = s.list[v] => u = v
        BY <1>1 DEF Injective, n
      <4> QED BY <4>1, <4>2
    <3> QED BY <3>1, <3>2, <3>3, <2>1, <1>1
  <2> QED BY <2>5, <2>6
<1>11. r.list # <<>> /\ r.list[1] = s.list[1] /\ Stamp(r, 1) = Stamp(s, 1)
  BY <1>1, <1>2, <1>3
<1>12. SortedFrom(r, 2) /\ (SortedFrom(s, 1) => SortedFrom(r, 1))
  BY <1>9
<1>13. \A k \in Place(r) :
         \/ k \in Place(s) /\ r.list[k] = s.list[k] /\ Stamp(r, k) = Stamp(s, k)
         \/ k > 1 /\ r.list[k] = t /\ Stamp(r, k) = x
         \/ /\ k > 2 /\ k - 1 \in Place(s) /\ r.list[k] = s.list[k - 1]
            /\ Stamp(r, k) = Stamp(s, k - 1) /\ Stamp(r, k) >= x
  BY <1>8
<1> QED BY <1>2, <1>10, <1>11, <1>12, <1>13 DEF WellFormed, x

(* A list that serves its timers, or has just lost its head, serves one     *)
(* more when it is linked at that place.                                    *)
LEMMA LinksArmed ==
  ASSUME NEW s, NEW d \in Due, Good(s, d), s.list # <<>>, NEW t, NewTimer(s, t, d),
         NEW r, NEW i, LinkedAt(s, t, r, i), Stamp(s, 1) <= s.Timestamp[t]
  PROVE  Good(r, d)
<1> DEFINE x == s.Timestamp[t]
<1>0. WellFormed(s) /\ Armed(s) /\ DueArmed(s, d) /\ HeadServed(s) /\ SortedFrom(s, 2)
  BY DEF Good, Armed
<1>1. /\ WellFormed(r)
      /\ r.Timestamp = s.Timestamp /\ r.IsPending = s.IsPending /\ r.irq = s.irq
      /\ r.elapsed = s.elapsed /\ r.alarm = s.alarm /\ Soonest(r) = Soonest(s)
      /\ r.list # <<>> /\ r.list[1] = s.list[1] /\ Stamp(r, 1) = Stamp(s, 1)
      /\ SortedFrom(r, 2)
      /\ \A k \in Place(r) :
           \/ k \in Place(s) /\ r.list[k] = s.list[k] /\ Stamp(r, k) = Stamp(s, k)
           \/ k > 1 /\ r.list[k] = t /\ Stamp(r, k) = x
           \/ /\ k > 2 /\ k - 1 \in Place(s) /\ r.list[k] = s.list[k - 1]
              /\ Stamp(r, k) = Stamp(s, k - 1) /\ Stamp(r, k) >= x
  BY <1>0, PlacesThen
<1>2. /\ s.alarm = Stamp(s, 1) /\ 1 \in Place(s) /\ x >= Soonest(s) /\ x >= s.alarm
      /\ x \in Nat /\ t \in Timer /\ d[t] \in Int
      /\ d[t] <= x - s.elapsed /\ d[t] >= x - s.elapsed - MinTimeout
  BY <1>0, FirstPlace DEF HeadServed, NewTimer, WellFormed, ServerState, Due
<1>3. s.alarm \in Nat /\ s.elapsed \in Nat /\ Soonest(s) = s.elapsed + MinTimeout /\ MinTimeout \in Nat
  BY <1>0, <1>2, StampIsTicks, Constants
<1> HIDE DEF x
<1>4. ASSUME NEW k \in Place(r)
      PROVE  /\ r.alarm <= Stamp(r, k) \/ r.alarm <= Soonest(r)
             /\ NotEarly(r, d, k)
             /\ d[r.list[k]] >= r.alarm - Soonest(r) - Slack(k)
             /\ \/ OnTime(r, d, k)
                \/ Stamp(r, k) < Soonest(r)
                \/ k = 1 /\ Stamp(r, k) = Soonest(r)
  <2>1. Slack(k) \in Int /\ Slack(k) >= 0 /\ Stamp(r, k) \in Nat /\ k \in Nat
    BY <1>1, StampIsTicks
  <2>2. CASE k \in Place(s) /\ r.list[k] = s.list[k] /\ Stamp(r, k) = Stamp(s, k)
    <3>1. s.alarm <= Stamp(s, k) \/ s.alarm <= Soonest(s)
      BY <2>2, <1>0 DEF HeadServed
    <3>2. /\ NotEarly(s, d, k)
          /\ d[s.list[k]] >= s.alarm - Soonest(s) - Slack(k)
          /\ OnTime(s, d, k) \/ Stamp(s, k) < Soonest(s) \/ (k = 1 /\ Stamp(s, k) = Soonest(s))
      BY <2>2, <1>0 DEF DueArmed
    <3>3. r.alarm <= Stamp(r, k) \/ r.alarm <= Soonest(r)
      BY <3>1, <2>2, <1>1
    <3>4. NotEarly(r, d, k) /\ (OnTime(s, d, k) => OnTime(r, d, k))
      BY <3>2, <2>2, <1>1 DEF NotEarly, OnTime
    <3>5. d[r.list[k]] >= r.alarm - Soonest(r) - Slack(k)
      BY <3>2, <2>2, <1>1
    <3>6. \/ OnTime(r, d, k)
          \/ Stamp(r, k) < Soonest(r)
          \/ k = 1 /\ Stamp(r, k) = Soonest(r)
      BY <3>2, <3>4, <2>2, <1>1
    <3> QED BY <3>3, <3>4, <3>5, <3>6
  <2>3. CASE k > 1 /\ r.list[k] = t /\ Stamp(r, k) = x
    <3>1. d[t] >= s.alarm - Soonest(s) - Slack(k)
      BY <1>2, <1>3, <2>1
    <3>2. NotEarly(r, d, k) /\ OnTime(r, d, k)
      <4>1. Stamp(r, k) = x /\ r.list[k] = t /\ r.elapsed = s.elapsed
        BY <2>3, <1>1
      <4> QED BY <4>1, <1>2 DEF NotEarly, OnTime
    <3>3. d[r.list[k]] >= r.alarm - Soonest(r) - Slack(k)
      BY <3>1, <2>3, <1>1
    <3>4. r.alarm <= Stamp(r, k)
      BY <2>3, <1>1, <1>2
    <3> QED BY <3>2, <3>3, <3>4
  <2>4. CASE /\ k > 2 /\ k - 1 \in Place(s) /\ r.list[k] = s.list[k - 1]
             /\ Stamp(r, k) = Stamp(s, k - 1) /\ Stamp(r, k) >= x
    <3> DEFINE j == k - 1
               e == d[s.list[j]]
    <3>0. j \in Place(s) /\ j # 1
      BY <2>1, <2>4
    <3>1. /\ NotEarly(s, d, j)
          /\ OnTime(s, d, j) \/ Stamp(s, j) < Soonest(s) \/ (j = 1 /\ Stamp(s, j) = Soonest(s))
      BY <3>0, <1>0 DEF DueArmed
    <3>2. Stamp(s, j) >= Soonest(s) /\ Stamp(s, j) >= s.alarm /\ Stamp(s, j) \in Nat /\ Soonest(s) \in Nat
      BY <2>4, <2>1, <1>2, <1>3
    <3>3. OnTime(s, d, j)
      BY <3>0, <3>1, <3>2
    <3>4. s.list[j] \in Timer
      BY <1>0, <3>0, StampIsTicks
    <3>5. e \in Int /\ e >= Stamp(s, j) - s.elapsed - MinTimeout
      BY <3>3, <3>4 DEF OnTime, Due
    <3>6. r.list[k] = s.list[j] /\ Stamp(r, k) = Stamp(s, j)
      BY <2>4
    <3> HIDE DEF j, e
    <3>7. e >= s.alarm - Soonest(s) - Slack(k)
      <4> DEFINE q == Stamp(s, j)
                 from == s.elapsed
                 armed == s.alarm
                 soonest == Soonest(s)
                 slack == Slack(k)
      <4>1. /\ e \in Int /\ q \in Nat /\ from \in Nat /\ armed \in Nat
            /\ soonest = from + MinTimeout /\ MinTimeout \in Nat
            /\ slack \in Int /\ slack >= 0 /\ q >= armed /\ e >= q - from - MinTimeout
        BY <3>5, <3>2, <2>1, <1>3
      <4> HIDE DEF q, from, armed, soonest, slack
      <4>2. e >= armed - soonest - slack
        BY <4>1
      <4> QED BY <4>2 DEF armed, soonest, slack
    <3>8. d[r.list[k]] >= r.alarm - Soonest(r) - Slack(k)
      <4>1. r.alarm = s.alarm /\ Soonest(r) = Soonest(s)
        BY <1>1
      <4>2. d[r.list[k]] = e
        BY <3>6 DEF e
      <4> QED BY <4>1, <4>2, <3>7
    <3>9. NotEarly(r, d, k) /\ OnTime(r, d, k)
      BY <3>1, <3>3, <3>6, <1>1 DEF NotEarly, OnTime
    <3>10. r.alarm <= Stamp(r, k)
      BY <3>2, <3>6, <1>1, <1>3
    <3> QED BY <3>8, <3>9, <3>10
  <2> QED BY <2>2, <2>3, <2>4, <1>1
<1>5. HeadServed(r)
  <2>1. \A k \in Place(r) : r.alarm <= Stamp(r, k) \/ r.alarm <= Soonest(r)
    BY <1>4
  <2> QED BY <2>1, <1>0, <1>1 DEF HeadServed
<1>6. DueArmed(r, d)
  BY <1>4 DEF DueArmed
<1>7. r.IsPending = [u \in Timer |-> r.list # <<>> /\ u = r.list[1]]
  <2>1. s.IsPending = [u \in Timer |-> s.list # <<>> /\ u = s.list[1]]
    BY <1>0 DEF Armed
  <2> QED BY <2>1, <1>1
<1> QED BY <1>1, <1>5, <1>6, <1>7 DEF Good, Armed

(* A timer that is due no sooner than the head joins an unarmed list.       *)
LEMMA LinksUnarmed ==
  ASSUME NEW s, NEW d \in Due, Taken(s, d), s.list # <<>>, NEW t, NewTimer(s, t, d),
         NEW r, NEW i, LinkedAt(s, t, r, i), Stamp(s, 1) <= s.Timestamp[t]
  PROVE  Taken(r, d) /\ r.list # <<>>
<1> DEFINE x == s.Timestamp[t]
<1>0. WellFormed(s) /\ Unarmed(s) /\ DueUnarmed(s, d) /\ SortedFrom(s, 1) /\ 1 \in Place(s)
  BY FirstPlace DEF Taken, Unarmed
<1>a. SortedFrom(s, 2)
  <2> SUFFICES ASSUME NEW a \in Place(s), NEW b \in Place(s), 2 <= a, a < b
               PROVE  Stamp(s, a) <= Stamp(s, b)
    BY DEF SortedFrom
  <2>1. 1 <= a
    BY DEF Place
  <2> QED BY <2>1, <1>0 DEF SortedFrom
<1>1. /\ WellFormed(r)
      /\ r.Timestamp = s.Timestamp /\ r.IsPending = s.IsPending /\ r.irq = s.irq
      /\ r.elapsed = s.elapsed /\ r.alarm = s.alarm /\ Soonest(r) = Soonest(s)
      /\ r.list # <<>> /\ SortedFrom(r, 1)
      /\ \A k \in Place(r) :
           \/ k \in Place(s) /\ r.list[k] = s.list[k] /\ Stamp(r, k) = Stamp(s, k)
           \/ k > 1 /\ r.list[k] = t /\ Stamp(r, k) = x
           \/ /\ k > 2 /\ k - 1 \in Place(s) /\ r.list[k] = s.list[k - 1]
              /\ Stamp(r, k) = Stamp(s, k - 1) /\ Stamp(r, k) >= x
  BY <1>0, <1>a, PlacesThen
<1>2. /\ x >= Soonest(s) /\ x \in Nat /\ t \in Timer /\ d[t] \in Int
      /\ d[t] <= x - s.elapsed /\ d[t] >= x - s.elapsed - MinTimeout
  BY <1>0 DEF NewTimer, WellFormed, ServerState, Due
<1>3. s.elapsed \in Nat /\ Soonest(s) = s.elapsed + MinTimeout /\ MinTimeout \in Nat
  BY <1>0, StampIsTicks, Constants
<1> HIDE DEF x
<1>4. ASSUME NEW k \in Place(r)
      PROVE  /\ NotEarly(r, d, k)
             /\ d[r.list[k]] >= -Slack(k)
             /\ OnTime(r, d, k) \/ Stamp(r, k) < Soonest(r)
  <2>1. Slack(k) \in Int /\ Slack(k) >= 0 /\ Stamp(r, k) \in Nat /\ k \in Nat
    BY <1>1, StampIsTicks
  <2>2. CASE k \in Place(s) /\ r.list[k] = s.list[k] /\ Stamp(r, k) = Stamp(s, k)
    <3>2. /\ NotEarly(s, d, k)
          /\ d[s.list[k]] >= -Slack(k)
          /\ OnTime(s, d, k) \/ Stamp(s, k) < Soonest(s)
      BY <2>2, <1>0 DEF DueUnarmed
    <3> QED BY <3>2, <2>2, <1>1 DEF NotEarly, OnTime
  <2>3. CASE k > 1 /\ r.list[k] = t /\ Stamp(r, k) = x
    <3>1. d[t] >= -Slack(k)
      BY <1>2, <1>3, <2>1
    <3> QED BY <3>1, <2>3, <1>1, <1>2, <1>3 DEF NotEarly, OnTime
  <2>4. CASE /\ k > 2 /\ k - 1 \in Place(s) /\ r.list[k] = s.list[k - 1]
             /\ Stamp(r, k) = Stamp(s, k - 1) /\ Stamp(r, k) >= x
    <3> DEFINE j == k - 1
               e == d[s.list[j]]
    <3>0. j \in Place(s)
      BY <2>4
    <3>1. NotEarly(s, d, j) /\ (OnTime(s, d, j) \/ Stamp(s, j) < Soonest(s))
      BY <3>0, <1>0 DEF DueUnarmed
    <3>2. Stamp(s, j) >= Soonest(s) /\ Stamp(s, j) \in Nat /\ Soonest(s) \in Nat
      BY <2>4, <2>1, <1>2, <1>3
    <3>3. OnTime(s, d, j)
      BY <3>1, <3>2
    <3>4. s.list[j] \in Timer
      BY <1>0, <3>0, StampIsTicks
    <3>5. e \in Int /\ e >= Stamp(s, j) - s.elapsed - MinTimeout
      BY <3>3, <3>4 DEF OnTime, Due
    <3>6. r.list[k] = s.list[j] /\ Stamp(r, k) = Stamp(s, j)
      BY <2>4
    <3> HIDE DEF j, e
    <3>7. e >= -Slack(k)
      BY <3>5, <3>2, <2>1, <1>3
    <3>8. d[r.list[k]] >= -Slack(k)
      BY <3>6, <3>7 DEF e
    <3>9. NotEarly(r, d, k) /\ OnTime(r, d, k)
      BY <3>1, <3>3, <3>6, <1>1 DEF NotEarly, OnTime
    <3> QED BY <3>8, <3>9
  <2> QED BY <2>2, <2>3, <2>4, <1>1
<1>5. DueUnarmed(r, d)
  BY <1>4 DEF DueUnarmed
<1>6. Unarmed(r)
  BY <1>0, <1>1 DEF Unarmed
<1> QED BY <1>1, <1>5, <1>6 DEF Taken

(* The state of a timer that is not in the list tells the server nothing.   *)
LEMMA SameList ==
  ASSUME NEW s, NEW v \in ServerState, NEW d, NEW e, WellFormed(s),
         v.list = s.list, v.elapsed = s.elapsed, v.alarm = s.alarm, v.irq = s.irq,
         v.IsPending = s.IsPending,
         \A k \in Place(s) : /\ v.Timestamp[s.list[k]] = s.Timestamp[s.list[k]]
                             /\ e[s.list[k]] = d[s.list[k]]
  PROVE  /\ Good(s, d) => Good(v, e)
         /\ Taken(s, d) => Taken(v, e)
<1>1. /\ WellFormed(v) /\ Place(v) = Place(s) /\ Soonest(v) = Soonest(s)
      /\ \A k \in Place(s) : Stamp(v, k) = Stamp(s, k)
  BY DEF WellFormed, Place, Soonest, Stamp
<1>2. \A f : SortedFrom(s, f) => SortedFrom(v, f)
  BY <1>1 DEF SortedFrom
<1>3. \A k \in Place(s) : (NotEarly(v, e, k) <=> NotEarly(s, d, k)) /\ (OnTime(v, e, k) <=> OnTime(s, d, k))
  BY <1>1 DEF NotEarly, OnTime
<1>4. ASSUME Good(s, d) PROVE Good(v, e)
  <2>0. Armed(s) /\ DueArmed(s, d)
    BY <1>4 DEF Good
  <2>1. ASSUME s.list # <<>> PROVE HeadServed(v)
    <3>1. HeadServed(s) /\ 1 \in Place(s)
      BY <2>0, <2>1, FirstPlace DEF Armed
    <3> QED BY <3>1, <1>1 DEF HeadServed
  <2>2. DueArmed(v, e)
    BY <2>0, <1>1, <1>3 DEF DueArmed
  <2>3. Armed(v)
    BY <2>0, <2>1, <1>2 DEF Armed
  <2> QED BY <1>1, <2>2, <2>3 DEF Good
<1>5. ASSUME Taken(s, d) PROVE Taken(v, e)
  <2>0. Unarmed(s) /\ DueUnarmed(s, d)
    BY <1>5 DEF Taken
  <2>1. DueUnarmed(v, e)
    BY <2>0, <1>1, <1>3 DEF DueUnarmed
  <2>2. Unarmed(v)
    BY <2>0, <1>2 DEF Unarmed
  <2> QED BY <1>1, <2>1, <2>2 DEF Taken
<1> QED BY <1>4, <1>5

-----------------------------------------------------------------------------
(* The critical section of UTIL_TIMER_Start, on a list that is served and   *)
(* on one that has just lost its head.                                      *)

Started(d, t) == [d EXCEPT ![t] = ReloadValue[t]]

(* A timer is linked if it stands at some place.                            *)
LEMMA MemberAt ==
  ASSUME NEW q, NEW t
  PROVE  t \in Member(q) <=> \E k \in 1 .. Len(q) : q[k] = t
BY DEF Member

(* Linking a timer adds it to those that are linked.                        *)
LEMMA MembersLinked ==
  ASSUME NEW s, NEW r, NEW t, NEW i, WellFormed(s), t \in Timer, LinkedAt(s, t, r, i)
  PROVE  Member(r.list) = Member(s.list) \cup {t}
<1>1. /\ Len(s.list) \in Nat /\ i \in 1 .. Len(s.list) /\ Len(r.list) = Len(s.list) + 1
      /\ \A k \in 1 .. i : r.list[k] = s.list[k]
      /\ r.list[i + 1] = t
      /\ \A k \in i + 1 .. Len(s.list) : r.list[k + 1] = s.list[k]
  <2>1. s.list \in Seq(Timer)
    BY DEF WellFormed, ServerState
  <2> QED BY <2>1 DEF LinkedAt, Place
<1>2. ASSUME NEW u \in Member(s.list) PROVE u \in Member(r.list)
  <2>1. PICK k \in 1 .. Len(s.list) : s.list[k] = u
    BY MemberAt
  <2>2. CASE k <= i
    <3>1. k \in 1 .. i /\ k \in 1 .. Len(r.list)
      BY <2>2, <1>1
    <3> QED BY <3>1, <2>1, <1>1 DEF Member
  <2>3. CASE k > i
    <3>1. k \in i + 1 .. Len(s.list) /\ k + 1 \in 1 .. Len(r.list)
      BY <2>3, <1>1
    <3> QED BY <3>1, <2>1, <1>1 DEF Member
  <2> QED BY <2>2, <2>3, <1>1
<1>3. t \in Member(r.list)
  <2>1. i + 1 \in 1 .. Len(r.list)
    BY <1>1
  <2> QED BY <2>1, <1>1 DEF Member
<1>4. ASSUME NEW u \in Member(r.list) PROVE u \in Member(s.list) \cup {t}
  <2>1. PICK k \in 1 .. Len(r.list) : r.list[k] = u
    BY MemberAt
  <2>2. CASE k <= i
    <3>1. k \in 1 .. i /\ k \in 1 .. Len(s.list)
      BY <2>2, <1>1
    <3> QED BY <3>1, <2>1, <1>1 DEF Member
  <2>3. CASE k = i + 1
    BY <2>1, <2>3, <1>1
  <2>4. CASE k > i + 1
    <3>1. k - 1 \in i + 1 .. Len(s.list) /\ (k - 1) + 1 = k /\ k - 1 \in 1 .. Len(s.list)
      BY <2>4, <1>1
    <3>2. r.list[k] = s.list[k - 1]
      BY <3>1, <1>1
    <3> QED BY <3>1, <3>2, <2>1 DEF Member
  <2> QED BY <2>2, <2>3, <2>4, <1>1
<1> QED BY <1>2, <1>3, <1>4

(* So does linking it in front.                                             *)
LEMMA MembersInFront ==
  ASSUME NEW q \in Seq(Timer), NEW t \in Timer
  PROVE  Member(<<t>> \o q) = Member(q) \cup {t}
<1> DEFINE a == <<t>>
           r == a \o q
<1>1. a \in Seq(Timer) /\ Len(a) = 1 /\ a[1] = t /\ Len(q) \in Nat
  OBVIOUS
<1> HIDE DEF a
<1>a. /\ Len(r) = Len(a) + Len(q)
      /\ \A k \in 1 .. Len(a) : r[k] = a[k]
      /\ \A k \in 1 .. Len(q) : r[Len(a) + k] = q[k]
  BY <1>1, ConcatAt
<1> HIDE DEF r
<1>2. /\ Len(r) = Len(q) + 1
      /\ \A k \in 1 .. Len(a) : r[k] = a[k]
      /\ \A k \in 1 .. Len(q) : r[Len(a) + k] = q[k]
  BY <1>a, <1>1
<1>3. r[1] = t /\ \A k \in 1 .. Len(q) : r[k + 1] = q[k]
  <2>1. 1 \in 1 .. Len(a) /\ \A k \in 1 .. Len(q) : Len(a) + k = k + 1
    BY <1>1
  <2> QED BY <2>1, <1>1, <1>2
<1>4. ASSUME NEW u \in Member(q) PROVE u \in Member(r)
  <2>1. PICK k \in 1 .. Len(q) : q[k] = u
    BY MemberAt
  <2>2. k + 1 \in 1 .. Len(r) /\ r[k + 1] = u
    BY <2>1, <1>1, <1>2, <1>3
  <2> QED BY <2>2 DEF Member
<1>5. t \in Member(r)
  <2>1. 1 \in 1 .. Len(r)
    BY <1>1, <1>2
  <2> QED BY <2>1, <1>3 DEF Member
<1>6. ASSUME NEW u \in Member(r) PROVE u \in Member(q) \cup {t}
  <2>1. PICK k \in 1 .. Len(r) : r[k] = u
    BY MemberAt
  <2>2. CASE k = 1
    BY <2>1, <2>2, <1>3
  <2>3. CASE k # 1
    <3>1. k - 1 \in 1 .. Len(q) /\ (k - 1) + 1 = k
      BY <2>3, <1>1, <1>2
    <3>2. q[k - 1] = u
      BY <3>1, <2>1, <1>3
    <3> QED BY <3>1, <3>2 DEF Member
  <2> QED BY <2>2, <2>3
<1> QED BY <1>4, <1>5, <1>6 DEF r, a

(* What Insert makes of the timer's own state, and of the time context.     *)
Prepared(s, t) ==
  LET ticks == Larger(ReloadValue[t], MinTimeout)
      now == IF s.list = <<>> THEN 0 ELSE s.elapsed
  IN  [s EXCEPT !.elapsed = now, !.Timestamp[t] = ticks + now, !.IsPending[t] = FALSE]

(* UTIL_TIMER_Start prepares a timer: its time stamp is its due time, from  *)
(* now, and no other timer is affected.                                     *)
LEMMA Prepares ==
  ASSUME NEW s, NEW d \in Due, NEW t \in Timer, t \notin Member(s.list), WellFormed(s),
         ReloadValue[t] \in Nat,
         \A u \in Timer : s.IsPending[u] => s.list # <<>> /\ u = s.list[1]
  PROVE  LET v == Prepared(s, t) IN
         /\ WellFormed(v) /\ NewTimer(v, t, Started(d, t)) /\ Started(d, t) \in Due
         /\ v.list = s.list /\ v.irq = s.irq /\ v.alarm = s.alarm
         /\ s.list # <<>> => v.elapsed = s.elapsed
         /\ v.IsPending = s.IsPending
         /\ \A k \in Place(s) : /\ v.Timestamp[s.list[k]] = s.Timestamp[s.list[k]]
                                /\ Started(d, t)[s.list[k]] = d[s.list[k]]
<1> DEFINE R == ReloadValue[t]
           ticks == Larger(R, MinTimeout)
           now == IF s.list = <<>> THEN 0 ELSE s.elapsed
           v == Prepared(s, t)
           e == Started(d, t)
<1>1. /\ s \in ServerState /\ Injective(s.list) /\ s.elapsed \in Nat /\ s.list \in Seq(Timer)
      /\ s.Timestamp \in [Timer -> Nat] /\ s.IsPending \in [Timer -> BOOLEAN]
  BY DEF WellFormed, ServerState
<1>2. MinTimeout \in Nat /\ R \in Nat
  BY Constants
<1>3. ticks \in Nat /\ ticks >= MinTimeout /\ R <= ticks /\ R >= ticks - MinTimeout
  BY <1>2 DEF Larger
<1>4. now \in Nat
  BY <1>1
<1>5. v = [s EXCEPT !.elapsed = now, !.Timestamp[t] = ticks + now, !.IsPending[t] = FALSE]
  BY DEF Prepared
<1>6. e \in Due /\ e[t] = R /\ \A u \in Timer : u # t => e[u] = d[u]
  BY <1>2 DEF Due, Started
<1>7. \A k \in Place(s) : s.list[k] # t /\ s.list[k] \in Timer
  BY <1>1 DEF Member, Place
<1>8. ~s.IsPending[t]
  <2> SUFFICES ASSUME s.IsPending[t] PROVE FALSE
    OBVIOUS
  <2>1. s.list # <<>> /\ t = s.list[1]
    OBVIOUS
  <2>2. 1 \in Place(s)
    BY <2>1, FirstPlace
  <2> QED BY <2>1, <2>2, <1>7
<1> HIDE DEF ticks, now, R
<1>9. /\ v \in ServerState /\ v.list = s.list /\ v.irq = s.irq /\ v.alarm = s.alarm
      /\ v.elapsed = now /\ v.Timestamp = [s.Timestamp EXCEPT ![t] = ticks + now]
      /\ v.IsPending = [s.IsPending EXCEPT ![t] = FALSE]
  <2> HIDE DEF v
  <2>1. /\ v.list = s.list /\ v.irq = s.irq /\ v.alarm = s.alarm
        /\ v.elapsed = now
    BY <1>1, <1>5 DEF ServerState
  <2>2. v.Timestamp = [s.Timestamp EXCEPT ![t] = ticks + now]
    BY <1>1, <1>5 DEF ServerState
  <2>3. v.IsPending = [s.IsPending EXCEPT ![t] = FALSE]
    BY <1>1, <1>5 DEF ServerState
  <2>4. v \in ServerState
    <3> DEFINE ts == [s.Timestamp EXCEPT ![t] = ticks + now]
               pend == [s.IsPending EXCEPT ![t] = FALSE]
    <3>1. ts \in [Timer -> Nat] /\ pend \in [Timer -> BOOLEAN]
      BY <1>1, <1>3, <1>4
    <3>2. v = [s EXCEPT !.elapsed = now, !.Timestamp = ts, !.IsPending = pend]
      BY <1>1, <1>5 DEF ServerState
    <3> HIDE DEF ts, pend
    <3> QED BY <3>1, <3>2, <1>1, <1>4 DEF ServerState
  <2> QED BY <2>1, <2>2, <2>3, <2>4
<1>10. v.IsPending = s.IsPending
  <2> HIDE DEF v
  <2>1. s.IsPending[t] = FALSE
    BY <1>8, <1>1
  <2>2. [s.IsPending EXCEPT ![t] = FALSE] = s.IsPending
    BY <2>1, <1>1
  <2> QED BY <2>2, <1>9
<1> HIDE DEF v, e
<1>11. WellFormed(v)
  BY <1>1, <1>9 DEF WellFormed
<1>12. s.list # <<>> => v.elapsed = s.elapsed
  BY <1>9 DEF now
<1>13. v.Timestamp[t] = ticks + now /\ \A u \in Timer : u # t => v.Timestamp[u] = s.Timestamp[u]
  BY <1>9, <1>1
<1>14. NewTimer(v, t, e)
  <2>1. \A k \in Place(v) : v.list[k] # t
    BY <1>7, <1>9 DEF Place
  <2>2. v.Timestamp[t] >= v.elapsed + MinTimeout
    BY <1>2, <1>3, <1>4, <1>9, <1>13
  <2>3. e[t] <= v.Timestamp[t] - v.elapsed /\ e[t] >= v.Timestamp[t] - v.elapsed - MinTimeout
    BY <1>2, <1>3, <1>4, <1>6, <1>9, <1>13
  <2> QED BY <2>1, <2>2, <2>3 DEF NewTimer, Soonest
<1>15. \A k \in Place(s) : /\ v.Timestamp[s.list[k]] = s.Timestamp[s.list[k]]
                           /\ e[s.list[k]] = d[s.list[k]]
  BY <1>6, <1>7, <1>13
<1> QED BY <1>6, <1>9, <1>10, <1>11, <1>12, <1>14, <1>15 DEF v, e

(* The timer becomes the head if it is due before the head, or alone.       *)
LEMMA InsertIs ==
  ASSUME NEW s, NEW t
  PROVE  LET v == Prepared(s, t) IN
         Insert(s, t) = IF v.list = <<>> \/ v.Timestamp[t] < Stamp(v, 1)
                        THEN TimerInsertNewHeadTimer(v, t) ELSE TimerInsertTimer(v, t)
BY DEF Insert, Prepared, Stamp

(* A list that is served still is, with one timer more.                     *)
LEMMA Inserts ==
  ASSUME NEW s, NEW d \in Due, NEW t \in Timer, t \notin Member(s.list), Good(s, d),
         ReloadValue[t] \in Nat
  PROVE  /\ Good(Insert(s, t), Started(d, t))
         /\ Member(Insert(s, t).list) = Member(s.list) \cup {t}
<1> DEFINE v == Prepared(s, t)
           e == Started(d, t)
           x == v.Timestamp[t]
<1>0. /\ WellFormed(s) /\ Armed(s)
      /\ s.IsPending = [u \in Timer |-> s.list # <<>> /\ u = s.list[1]]
  BY DEF Good, Armed
<1>1. \A u \in Timer : s.IsPending[u] => s.list # <<>> /\ u = s.list[1]
  BY <1>0
<1>2. /\ WellFormed(v) /\ NewTimer(v, t, e) /\ e \in Due
      /\ v.list = s.list /\ v.irq = s.irq /\ v.alarm = s.alarm
      /\ s.list # <<>> => v.elapsed = s.elapsed
      /\ v.IsPending = s.IsPending
      /\ \A k \in Place(s) : /\ v.Timestamp[s.list[k]] = s.Timestamp[s.list[k]]
                             /\ e[s.list[k]] = d[s.list[k]]
  BY <1>0, <1>1, Prepares
<1>3. Insert(s, t) = IF v.list = <<>> \/ x < Stamp(v, 1)
                     THEN TimerInsertNewHeadTimer(v, t) ELSE TimerInsertTimer(v, t)
  BY InsertIs
<1> HIDE DEF v, e
<1>4. s.list # <<>> => Good(v, e)
  BY <1>0, <1>2, SameList DEF WellFormed
<1>5. \A u \in Timer : v.IsPending[u] => v.list # <<>> /\ u = v.list[1]
  BY <1>1, <1>2
<1>6. /\ v.list \in Seq(Timer) /\ x \in Nat /\ x >= Soonest(v) /\ Soonest(v) \in Nat
      /\ v.elapsed \in Nat /\ v.alarm \in Nat /\ MinTimeout \in Nat
      /\ Soonest(v) = v.elapsed + MinTimeout /\ MinTimeout >= 1
  BY <1>2, Constants DEF WellFormed, ServerState, NewTimer, Soonest
<1>b. ASSUME NEW r, r.list = <<t>> \o v.list
      PROVE  Member(r.list) = Member(s.list) \cup {t}
  <2> DEFINE q == r.list
  <2>1. Member(q) = Member(v.list) \cup {t}
    BY <1>b, <1>6, MembersInFront
  <2> QED BY <2>1, <1>2
<1> HIDE DEF x
<1>7. CASE v.list = <<>>
  <2>1. Len(v.list) = 0 /\ Place(v) = {} /\ ~v.irq
    BY <1>7, <1>0, <1>2 DEF Place, Armed
  <2>2. SortedFrom(v, 1)
    BY <2>1 DEF SortedFrom
  <2>3. /\ Good(TimerInsertNewHeadTimer(v, t), e)
        /\ TimerInsertNewHeadTimer(v, t).list = <<t>> \o v.list
    BY <1>2, <1>5, <2>1, <2>2, LinksHead
  <2> DEFINE r == TimerInsertNewHeadTimer(v, t)
  <2>4. Insert(s, t) = r
    BY <1>3, <1>7
  <2> HIDE DEF r
  <2>5. Good(r, e) /\ Member(r.list) = Member(s.list) \cup {t}
    BY <2>3, <1>b DEF r
  <2> QED BY <2>4, <2>5 DEF e
<1>8. CASE v.list # <<>> /\ x < Stamp(v, 1)
  <2>1. WellFormed(v) /\ Armed(v) /\ DueArmed(v, e) /\ HeadServed(v) /\ 1 \in Place(v)
    BY <1>2, <1>4, <1>8, FirstPlace DEF Good, Armed
  <2>2. v.alarm = Stamp(v, 1) /\ v.alarm > Soonest(v) /\ v.alarm > x
    BY <2>1, <1>6, <1>8 DEF HeadServed
  <2>3. ~v.irq
    BY <2>1, <2>2, <1>6 DEF HeadServed
  <2>4. ASSUME NEW k \in Place(v)
        PROVE  /\ Stamp(v, k) >= Stamp(v, 1) /\ Stamp(v, k) >= x /\ Stamp(v, k) \in Nat
               /\ NotEarly(v, e, k) /\ OnTime(v, e, k)
    <3>1. v.alarm <= Stamp(v, k) \/ v.alarm <= Soonest(v)
      BY <2>1 DEF HeadServed
    <3>2. Stamp(v, k) \in Nat
      BY <2>1, StampIsTicks
    <3>3. v.alarm <= Stamp(v, k)
      BY <3>1, <2>2, <1>6
    <3>4. /\ NotEarly(v, e, k)
          /\ OnTime(v, e, k) \/ Stamp(v, k) < Soonest(v) \/ (k = 1 /\ Stamp(v, k) = Soonest(v))
      BY <2>1 DEF DueArmed
    <3> QED BY <3>2, <3>3, <3>4, <2>2, <1>6
  <2>5. SortedFrom(v, 1)
    <3> SUFFICES ASSUME NEW i \in Place(v), NEW j \in Place(v), 1 <= i, i < j
                 PROVE  Stamp(v, i) <= Stamp(v, j)
      BY DEF SortedFrom
    <3>1. CASE i = 1
      BY <3>1, <2>4
    <3>2. CASE i # 1
      <4>1. 2 <= i
        BY <3>2 DEF Place
      <4> QED BY <4>1, <2>1 DEF Armed, SortedFrom
    <3> QED BY <3>1, <3>2
  <2>6. /\ Good(TimerInsertNewHeadTimer(v, t), e)
        /\ TimerInsertNewHeadTimer(v, t).list = <<t>> \o v.list
    BY <1>2, <1>5, <2>3, <2>4, <2>5, LinksHead DEF x
  <2> DEFINE r == TimerInsertNewHeadTimer(v, t)
  <2>7. Insert(s, t) = r
    BY <1>3, <1>8
  <2> HIDE DEF r
  <2>8. Good(r, e) /\ Member(r.list) = Member(s.list) \cup {t}
    BY <2>6, <1>b DEF r
  <2> QED BY <2>7, <2>8 DEF e
<1>9. CASE v.list # <<>> /\ ~(x < Stamp(v, 1))
  <2>0. 1 \in Place(v) /\ Stamp(v, 1) \in Nat
    BY <1>2, <1>9, FirstPlace, StampIsTicks
  <2>1. Stamp(v, 1) <= x
    BY <1>6, <1>9, <2>0
  <2> DEFINE r == TimerInsertTimer(v, t)
  <2>2. PICK i : LinkedAt(v, t, r, i)
    BY <1>2, <1>9, FindsPlace
  <2>3. Insert(s, t) = r
    BY <1>3, <1>9
  <2> HIDE DEF r
  <2>4. Good(r, e)
    BY <1>2, <1>4, <1>9, <2>1, <2>2, LinksArmed DEF x
  <2>5. Member(r.list) = Member(v.list) \cup {t}
    BY <1>2, <2>2, MembersLinked
  <2> QED BY <2>3, <2>4, <2>5, <1>2 DEF e
<1> QED BY <1>7, <1>8, <1>9

(* One that has lost its head is served again, with one timer more and its  *)
(* head armed.                                                              *)
LEMMA InsertsTaken ==
  ASSUME NEW s, NEW d \in Due, NEW t \in Timer, t \notin Member(s.list), Taken(s, d),
         ReloadValue[t] \in Nat
  PROVE  /\ Good(RearmHead(Insert(s, t)), Started(d, t))
         /\ Member(RearmHead(Insert(s, t)).list) = Member(s.list) \cup {t}
<1> DEFINE v == Prepared(s, t)
           e == Started(d, t)
           x == v.Timestamp[t]
<1>0. /\ WellFormed(s) /\ Unarmed(s) /\ s.IsPending = [u \in Timer |-> FALSE] /\ ~s.irq
      /\ DueUnarmed(s, d)
  BY DEF Taken, Unarmed
<1>1. \A u \in Timer : s.IsPending[u] => s.list # <<>> /\ u = s.list[1]
  BY <1>0
<1>2. /\ WellFormed(v) /\ NewTimer(v, t, e) /\ e \in Due
      /\ v.list = s.list /\ v.irq = s.irq /\ v.alarm = s.alarm
      /\ s.list # <<>> => v.elapsed = s.elapsed
      /\ v.IsPending = s.IsPending
      /\ \A k \in Place(s) : /\ v.Timestamp[s.list[k]] = s.Timestamp[s.list[k]]
                             /\ e[s.list[k]] = d[s.list[k]]
  BY <1>0, <1>1, Prepares
<1>3. Insert(s, t) = IF v.list = <<>> \/ x < Stamp(v, 1)
                     THEN TimerInsertNewHeadTimer(v, t) ELSE TimerInsertTimer(v, t)
  BY InsertIs
<1> HIDE DEF v, e
<1>4. s.list # <<>> => Taken(v, e)
  BY <1>0, <1>2, SameList DEF WellFormed
<1>5. (\A u \in Timer : v.IsPending[u] => v.list # <<>> /\ u = v.list[1]) /\ ~v.irq
  BY <1>0, <1>1, <1>2
<1>6. /\ v.list \in Seq(Timer) /\ x \in Nat /\ x >= Soonest(v) /\ Soonest(v) \in Nat
  BY <1>2, Constants DEF WellFormed, ServerState, NewTimer, Soonest
<1>a. ASSUME NEW r, Good(r, e), r.list # <<>> PROVE RearmHead(r) = r
  <2>1. WellFormed(r) /\ r.IsPending = [u \in Timer |-> r.list # <<>> /\ u = r.list[1]]
    BY <1>a DEF Good, Armed
  <2>2. r.list[1] \in Timer
    BY <1>a, <2>1, FirstPlace
  <2>3. r.IsPending[r.list[1]]
    BY <1>a, <2>1, <2>2
  <2> QED BY <2>3 DEF RearmHead
<1>b. ASSUME NEW r, Good(r, e), r.list = <<t>> \o v.list
      PROVE  RearmHead(r) = r /\ Member(r.list) = Member(s.list) \cup {t}
  <2> DEFINE q == r.list
  <2>1. Member(q) = Member(v.list) \cup {t}
    BY <1>b, <1>6, MembersInFront
  <2>2. q # <<>>
    BY <2>1 DEF Member
  <2> QED BY <2>1, <2>2, <1>a, <1>b, <1>2
<1> HIDE DEF x
<1>7. CASE v.list = <<>> \/ x < Stamp(v, 1)
  <2> DEFINE r == TimerInsertNewHeadTimer(v, t)
  <2>1. ASSUME NEW k \in Place(v)
        PROVE  /\ Stamp(v, k) >= x /\ NotEarly(v, e, k) /\ OnTime(v, e, k)
    <3>0. Len(v.list) \in Nat /\ v.list # <<>> /\ Taken(v, e)
      <4>1. v.list # <<>>
        BY <1>6 DEF Place
      <4> QED BY <4>1, <1>2, <1>4, <1>6
    <3>1. 1 \in Place(v) /\ Stamp(v, 1) \in Nat /\ Stamp(v, k) \in Nat /\ x < Stamp(v, 1)
      BY <3>0, <1>2, <1>7, FirstPlace, StampIsTicks
    <3>2. k = 1 \/ 1 < k
      BY DEF Place
    <3>3. Stamp(v, 1) <= Stamp(v, k)
      BY <3>0, <3>1, <3>2 DEF Taken, Unarmed, SortedFrom
    <3>4. NotEarly(v, e, k) /\ (OnTime(v, e, k) \/ Stamp(v, k) < Soonest(v))
      BY <3>0 DEF Taken, DueUnarmed
    <3> QED BY <3>1, <3>3, <3>4, <1>6
  <2>2. SortedFrom(v, 1)
    <3>1. CASE v.list = <<>>
      BY <3>1 DEF SortedFrom, Place
    <3>2. CASE v.list # <<>>
      BY <3>2, <1>2, <1>4 DEF Taken, Unarmed
    <3> QED BY <3>1, <3>2
  <2>3. Good(r, e) /\ r.list = <<t>> \o v.list
    BY <1>2, <1>5, <2>1, <2>2, LinksHead DEF x
  <2>4. Insert(s, t) = r
    BY <1>3, <1>7
  <2> HIDE DEF r
  <2> QED BY <2>3, <2>4, <1>b DEF e
<1>8. CASE v.list # <<>> /\ ~(x < Stamp(v, 1))
  <2>0. 1 \in Place(v) /\ Stamp(v, 1) \in Nat
    BY <1>2, <1>8, FirstPlace, StampIsTicks
  <2>1. Stamp(v, 1) <= x
    BY <1>6, <1>8, <2>0
  <2> DEFINE r == TimerInsertTimer(v, t)
  <2>2. PICK i : LinkedAt(v, t, r, i)
    BY <1>2, <1>8, FindsPlace
  <2>3. Insert(s, t) = r
    BY <1>3, <1>8
  <2> HIDE DEF r
  <2>4. Taken(r, e) /\ r.list # <<>>
    BY <1>2, <1>4, <1>8, <2>1, <2>2, LinksUnarmed DEF x
  <2>5. Member(r.list) = Member(v.list) \cup {t}
    BY <1>2, <2>2, MembersLinked
  <2>6. RearmHead(r) = TimerSetTimeout(r)
    <3>1. WellFormed(r) /\ r.IsPending = [u \in Timer |-> FALSE]
      BY <2>4 DEF Taken, Unarmed
    <3>2. ~r.IsPending[r.list[1]]
      BY <2>4, <3>1, FirstPlace
    <3> QED BY <3>2, <2>4 DEF RearmHead
  <2>7. Good(RearmHead(r), e) /\ RearmHead(r).list = r.list
    BY <1>2, <2>4, <2>6, ArmsHead
  <2> QED BY <2>3, <2>5, <2>7, <1>2 DEF e
<1> QED BY <1>7, <1>8

-----------------------------------------------------------------------------
(* The head leaves the list.                                                *)

(* An unarmed list is armed for its head, if it has one.                    *)
LEMMA Rearms ==
  ASSUME NEW s, NEW d \in Due, Taken(s, d)
  PROVE  Good(RearmHead(s), d) /\ RearmHead(s).list = s.list
<1>0. WellFormed(s) /\ Unarmed(s) /\ s.IsPending = [u \in Timer |-> FALSE] /\ ~s.irq
  BY DEF Taken, Unarmed
<1>1. CASE s.list = <<>>
  <2>1. RearmHead(s) = s /\ Place(s) = {}
    BY <1>0, <1>1 DEF RearmHead, Place
  <2>2. DueArmed(s, d) /\ SortedFrom(s, 2)
    BY <2>1 DEF DueArmed, SortedFrom
  <2>3. s.IsPending = [u \in Timer |-> s.list # <<>> /\ u = s.list[1]]
    BY <1>0, <1>1
  <2> QED BY <1>0, <1>1, <2>1, <2>2, <2>3 DEF Good, Armed
<1>2. CASE s.list # <<>>
  <2>1. ~s.IsPending[s.list[1]]
    BY <1>0, <1>2, FirstPlace
  <2>2. RearmHead(s) = TimerSetTimeout(s)
    BY <1>2, <2>1 DEF RearmHead
  <2> QED BY <1>2, <2>2, ArmsHead
<1> QED BY <1>1, <1>2

(* w is the rest of s, its time stamps re-based or not.                     *)
Follows(s, w, j) ==
  \/ w.Timestamp[s.list[j]] - w.elapsed = Stamp(s, j) - s.elapsed
  \/ w.Timestamp[s.list[j]] = 0 /\ w.elapsed = 0 /\ Stamp(s, j) <= s.elapsed

RestOf(s, w) ==
  /\ w \in ServerState /\ w.list = Tail(s.list)
  /\ w.IsPending = [u \in Timer |-> FALSE] /\ ~w.irq
  /\ \A j \in Place(s) : j # 1 => Follows(s, w, j)

(* What stands where in a list without its head.                            *)
LEMMA TailAt ==
  ASSUME NEW q \in Seq(Timer), q # <<>>
  PROVE  /\ Tail(q) \in Seq(Timer) /\ Len(Tail(q)) = Len(q) - 1 /\ Len(q) \in Nat \ {0}
         /\ \A k \in 1 .. Len(q) - 1 : Tail(q)[k] = q[k + 1]
         /\ Member(q) = Member(Tail(q)) \cup {q[1]}
         /\ Injective(q) => Injective(Tail(q)) /\ q[1] \notin Member(Tail(q))
<1>1. /\ Tail(q) \in Seq(Timer) /\ Len(Tail(q)) = Len(q) - 1 /\ Len(q) \in Nat \ {0}
      /\ \A k \in 1 .. Len(q) - 1 : Tail(q)[k] = q[k + 1]
  OBVIOUS
<1> DEFINE r == Tail(q)
<1> HIDE DEF r
<1>2. ASSUME NEW u \in Member(q) PROVE u \in Member(r) \cup {q[1]}
  <2>1. PICK k \in 1 .. Len(q) : q[k] = u
    BY MemberAt
  <2>2. CASE k # 1
    <3>1. k - 1 \in 1 .. Len(q) - 1 /\ (k - 1) + 1 = k
      BY <2>2, <1>1
    <3>2. r[k - 1] = u /\ k - 1 \in 1 .. Len(r)
      BY <3>1, <2>1, <1>1 DEF r
    <3> QED BY <3>2 DEF Member
  <2> QED BY <2>1, <2>2
<1>3. ASSUME NEW u \in Member(r) PROVE \E k \in 1 .. Len(q) : k # 1 /\ q[k] = u
  <2>1. PICK k \in 1 .. Len(r) : r[k] = u
    BY MemberAt
  <2>2. k \in 1 .. Len(q) - 1 /\ k + 1 \in 1 .. Len(q) /\ k + 1 # 1
    BY <1>1 DEF r
  <2> QED BY <2>1, <2>2, <1>1 DEF r
<1>4. q[1] \in Member(q)
  BY <1>1 DEF Member
<1>5. Member(q) = Member(r) \cup {q[1]}
  <2>1. Member(r) \subseteq Member(q)
    BY <1>3 DEF Member
  <2> QED BY <2>1, <1>2, <1>4
<1>6. ASSUME Injective(q) PROVE Injective(r) /\ q[1] \notin Member(r)
  <2>1. q[1] \notin Member(r)
    BY <1>1, <1>3, <1>6 DEF Injective
  <2>2. ASSUME NEW i \in 1 .. Len(r), NEW j \in 1 .. Len(r), r[i] = r[j] PROVE i = j
    <3>1. /\ i \in 1 .. Len(q) - 1 /\ j \in 1 .. Len(q) - 1
          /\ i + 1 \in 1 .. Len(q) /\ j + 1 \in 1 .. Len(q)
      BY <1>1 DEF r
    <3>2. q[i + 1] = q[j + 1]
      BY <2>2, <3>1, <1>1 DEF r
    <3>3. i + 1 = j + 1
      BY <3>1, <3>2, <1>6 DEF Injective
    <3> QED BY <3>1, <3>3
  <2> QED BY <2>1, <2>2 DEF Injective
<1> QED BY <1>1, <1>5, <1>6 DEF r

(* A list that loses its head, after a re-base or not, is in order: every   *)
(* timer behind it gains a place and can lose a turn.                       *)
LEMMA LosesHead ==
  ASSUME NEW s, NEW d \in Due, Good(s, d), s.list # <<>>, NEW w, RestOf(s, w)
  PROVE  Taken(w, d) /\ Member(w.list) = Member(s.list) \ {s.list[1]}
<1>0. /\ WellFormed(s) /\ SortedFrom(s, 2) /\ HeadServed(s) /\ DueArmed(s, d)
      /\ s.list \in Seq(Timer) /\ Injective(s.list)
  BY DEF Good, Armed, WellFormed, ServerState
<1>1. /\ Len(w.list) = Len(s.list) - 1 /\ Len(s.list) \in Nat \ {0}
      /\ \A k \in 1 .. Len(s.list) - 1 : w.list[k] = s.list[k + 1]
      /\ Member(s.list) = Member(w.list) \cup {s.list[1]}
      /\ Injective(w.list) /\ s.list[1] \notin Member(w.list)
  BY <1>0, TailAt DEF RestOf
<1>2. WellFormed(w) /\ w.IsPending = [u \in Timer |-> FALSE] /\ ~w.irq
  BY <1>1 DEF RestOf, WellFormed
<1>3. /\ s.alarm \in Nat /\ s.elapsed \in Nat /\ MinTimeout \in Nat /\ MaxLatency \in Nat
      /\ w.elapsed \in Nat /\ Soonest(s) = s.elapsed + MinTimeout
      /\ Soonest(w) = w.elapsed + MinTimeout /\ MinTimeout >= 1 /\ Turn = MinTimeout + MaxLatency
      /\ s.elapsed <= s.alarm + MaxLatency
  BY <1>0, <1>2, Constants DEF WellFormed, ServerState, HeadServed, Soonest
<1>4. ASSUME NEW k \in Place(w)
      PROVE  /\ k + 1 \in Place(s) /\ k + 1 # 1 /\ 2 <= k + 1 /\ k \in Nat /\ k >= 1
             /\ w.list[k] = s.list[k + 1] /\ w.list[k] \in Timer
             /\ Stamp(w, k) \in Nat /\ Stamp(s, k + 1) \in Nat
             /\ \/ Stamp(w, k) - w.elapsed = Stamp(s, k + 1) - s.elapsed
                \/ Stamp(w, k) = 0 /\ w.elapsed = 0 /\ Stamp(s, k + 1) <= s.elapsed
  <2>1. /\ k + 1 \in Place(s) /\ k + 1 # 1 /\ 2 <= k + 1 /\ k \in Nat /\ k >= 1
        /\ k \in 1 .. Len(s.list) - 1
    BY <1>1 DEF Place
  <2>2. w.list[k] = s.list[k + 1]
    BY <2>1, <1>1
  <2>3. Follows(s, w, k + 1)
    BY <2>1 DEF RestOf
  <2>4. w.list[k] \in Timer /\ Stamp(w, k) \in Nat /\ Stamp(s, k + 1) \in Nat
    BY <2>1, <1>0, <1>2, StampIsTicks
  <2>5. w.Timestamp[s.list[k + 1]] = Stamp(w, k)
    BY <2>2 DEF Stamp
  <2> QED BY <2>1, <2>2, <2>3, <2>4, <2>5 DEF Follows
<1>5. SortedFrom(w, 1)
  <2> SUFFICES ASSUME NEW i \in Place(w), NEW j \in Place(w), i < j
               PROVE  Stamp(w, i) <= Stamp(w, j)
    BY DEF SortedFrom
  <2>1. i + 1 < j + 1
    BY <1>4
  <2>2. Stamp(s, i + 1) <= Stamp(s, j + 1)
    BY <2>1, <1>0, <1>4 DEF SortedFrom
  <2> DEFINE a == Stamp(w, i)
             b == Stamp(w, j)
             a1 == Stamp(s, i + 1)
             b1 == Stamp(s, j + 1)
             e == w.elapsed
             e1 == s.elapsed
  <2>3. /\ a \in Nat /\ b \in Nat /\ a1 \in Nat /\ b1 \in Nat /\ a1 <= b1
        /\ e \in Nat /\ e1 \in Nat
    BY <2>2, <1>3, <1>4
  <2>5. a - e = a1 - e1 \/ (a = 0 /\ e = 0 /\ a1 <= e1)
    BY <1>4
  <2>6. b - e = b1 - e1 \/ (b = 0 /\ e = 0 /\ b1 <= e1)
    BY <1>4
  <2> HIDE DEF a, b, a1, b1, e, e1
  <2>4. a <= b
    <3>1. CASE a = 0 /\ e = 0 /\ a1 <= e1
      BY <2>3, <3>1
    <3>2. CASE a - e = a1 - e1 /\ b - e = b1 - e1
      BY <2>3, <3>2
    <3>3. CASE a - e = a1 - e1 /\ b = 0 /\ e = 0 /\ b1 <= e1
      BY <2>3, <3>3
    <3> QED BY <2>5, <2>6, <3>1, <3>2, <3>3
  <2> QED BY <2>4 DEF a, b
<1>6. ASSUME NEW k \in Place(w)
      PROVE  /\ NotEarly(w, d, k)
             /\ d[w.list[k]] >= -Slack(k)
             /\ OnTime(w, d, k) \/ Stamp(w, k) < Soonest(w)
  <2> DEFINE e == d[w.list[k]]
  <2>1. e \in Int
    BY <1>4 DEF Due
  <2>2. /\ e <= Stamp(s, k + 1) - s.elapsed
        /\ e >= s.alarm - Soonest(s) - Slack(k + 1)
        /\ \/ e >= Stamp(s, k + 1) - s.elapsed - MinTimeout
           \/ Stamp(s, k + 1) < Soonest(s)
    BY <1>0, <1>4 DEF DueArmed, NotEarly, OnTime
  <2>3. Slack(k) \in Int /\ Slack(k + 1) \in Int /\ Slack(k) = Slack(k + 1) + Turn
    BY <1>4, SlackSteps
  <2> DEFINE a == Stamp(w, k)
             b == Stamp(s, k + 1)
  <2>4. /\ a \in Nat /\ b \in Nat
        /\ a - w.elapsed = b - s.elapsed \/ (a = 0 /\ w.elapsed = 0 /\ b <= s.elapsed)
    BY <1>4
  <2>5. /\ e <= b - s.elapsed
        /\ e >= b - s.elapsed - MinTimeout \/ b < Soonest(s)
    BY <2>2
  <2> HIDE DEF e, a, b
  <2>6. e >= -Slack(k)
    <3> DEFINE armed == s.alarm
               from == s.elapsed
               soonest == Soonest(s)
               slack == Slack(k)
               less == Slack(k + 1)
    <3>1. /\ e \in Int /\ armed \in Nat /\ from \in Nat /\ soonest = from + MinTimeout
          /\ MinTimeout \in Nat /\ MaxLatency \in Nat /\ Turn = MinTimeout + MaxLatency
          /\ slack \in Int /\ less \in Int /\ slack = less + Turn
          /\ from <= armed + MaxLatency /\ e >= armed - soonest - less
      BY <2>1, <2>2, <2>3, <1>3
    <3> HIDE DEF armed, from, soonest, slack, less
    <3>2. e >= -slack
      BY <3>1
    <3> QED BY <3>2 DEF slack
  <2>7. e <= a - w.elapsed
    BY <2>1, <2>4, <2>5, <1>3
  <2>8. e >= a - w.elapsed - MinTimeout \/ a < Soonest(w)
    <3>1. CASE a = 0 /\ w.elapsed = 0
      BY <3>1, <1>3
    <3>2. CASE a - w.elapsed = b - s.elapsed
      BY <3>2, <2>1, <2>4, <2>5, <1>3
    <3> QED BY <3>1, <3>2, <2>4
  <2> QED BY <2>6, <2>7, <2>8 DEF e, a, NotEarly, OnTime
<1>7. Taken(w, d)
  BY <1>2, <1>5, <1>6 DEF Taken, Unarmed, DueUnarmed
<1> QED BY <1>1, <1>7

(* A timer behind the head leaves the list.                                 *)
WithoutPlace(q, r, i) ==
  /\ r \in Seq(Timer) /\ Len(r) = Len(q) - 1
  /\ \A k \in 1 .. i - 1 : r[k] = q[k]
  /\ \A k \in i .. Len(q) - 1 : r[k] = q[k + 1]

(* What stands where in a list without the timer at place i.                *)
LEMMA WithoutAt ==
  ASSUME NEW q \in Seq(Timer), Injective(q), NEW i \in 1 .. Len(q)
  PROVE  WithoutPlace(q, Without(q, q[i]), i)
<1> DEFINE t == q[i]
           j == CHOOSE n \in 1 .. Len(q) : q[n] = t
<1>1. j \in 1 .. Len(q) /\ q[j] = t
  OBVIOUS
<1>2. j = i
  BY <1>1 DEF Injective
<1>3. t \in Member(q)
  BY DEF Member
<1> HIDE DEF j
<1>4. Without(q, t) = SubSeq(q, 1, j - 1) \o SubSeq(q, j + 1, Len(q))
  BY <1>3 DEF Without, j
<1> DEFINE r == SubSeq(q, 1, i - 1) \o SubSeq(q, i + 1, Len(q))
<1>5. Without(q, t) = r
  BY <1>2, <1>4
<1>6. /\ r \in Seq(Timer) /\ Len(r) = Len(q) - 1
      /\ \A k \in 1 .. i - 1 : r[k] = q[k]
      /\ \A k \in i .. Len(q) - 1 : r[k] = q[k + 1]
  <2> HIDE DEF r
  <2> QED BY Unlinked DEF r
<1> HIDE DEF r, t
<1>7. WithoutPlace(q, r, i)
  BY <1>6 DEF WithoutPlace
<1> QED BY <1>5, <1>7 DEF t

(* Unlinking a timer takes it from those that are linked, and it alone.     *)
LEMMA MembersUnlinked ==
  ASSUME NEW q \in Seq(Timer), Injective(q), NEW i \in 1 .. Len(q), NEW r, WithoutPlace(q, r, i)
  PROVE  /\ Member(r) = Member(q) \ {q[i]} /\ Injective(r)
         /\ \A k \in 1 .. Len(r) : \E j \in 1 .. Len(q) :
              r[k] = q[j] /\ j # i /\ ((k < i /\ j = k) \/ (k >= i /\ j = k + 1))
<1>1. Len(q) \in Nat /\ i \in Nat /\ i >= 1 /\ i <= Len(q) /\ Len(r) = Len(q) - 1
  BY DEF WithoutPlace
<1> DEFINE From(k, j) == r[k] = q[j] /\ j # i /\ ((k < i /\ j = k) \/ (k >= i /\ j = k + 1))
<1>2. ASSUME NEW k \in 1 .. Len(r) PROVE \E j \in 1 .. Len(q) : From(k, j)
  <2>1. CASE k < i
    <3>1. k \in 1 .. i - 1 /\ k \in 1 .. Len(q)
      BY <2>1, <1>1
    <3>2. r[k] = q[k] /\ k # i
      BY <3>1, <1>1 DEF WithoutPlace
    <3> QED BY <2>1, <3>1, <3>2
  <2>2. CASE k >= i
    <3>1. k \in i .. Len(q) - 1 /\ k + 1 \in 1 .. Len(q) /\ k + 1 # i
      BY <2>2, <1>1
    <3>2. r[k] = q[k + 1]
      BY <3>1 DEF WithoutPlace
    <3> QED BY <2>2, <3>1, <3>2
  <2> QED BY <2>1, <2>2, <1>1
<1>3. ASSUME NEW u \in Member(q), u # q[i] PROVE u \in Member(r)
  <2>1. PICK j \in 1 .. Len(q) : q[j] = u
    BY MemberAt
  <2>2. CASE j < i
    <3>1. j \in 1 .. i - 1 /\ j \in 1 .. Len(r)
      BY <2>2, <1>1
    <3>2. r[j] = q[j]
      BY <3>1 DEF WithoutPlace
    <3> QED BY <2>1, <3>1, <3>2 DEF Member
  <2>3. CASE j > i
    <3>1. j - 1 \in i .. Len(q) - 1 /\ j - 1 \in 1 .. Len(r) /\ (j - 1) + 1 = j
      BY <2>3, <1>1
    <3>2. r[j - 1] = q[j]
      BY <3>1 DEF WithoutPlace
    <3> QED BY <2>1, <3>1, <3>2 DEF Member
  <2>4. j < i \/ j > i
    BY <2>1, <1>3, <1>1
  <2> QED BY <2>2, <2>3, <2>4
<1>4. ASSUME NEW u \in Member(r) PROVE u \in Member(q) /\ u # q[i]
  <2>1. PICK k \in 1 .. Len(r) : r[k] = u
    BY MemberAt
  <2>2. PICK j \in 1 .. Len(q) : From(k, j)
    BY <1>2
  <2>3. q[j] = u /\ j # i
    BY <2>1, <2>2
  <2> QED BY <2>3 DEF Member, Injective
<1>5. ASSUME NEW k \in 1 .. Len(r), NEW m \in 1 .. Len(r), r[k] = r[m] PROVE k = m
  <2>1. PICK j \in 1 .. Len(q) : From(k, j)
    BY <1>2
  <2>2. PICK n \in 1 .. Len(q) : From(m, n)
    BY <1>2
  <2>3. j = n
    BY <2>1, <2>2, <1>5 DEF Injective
  <2> QED BY <2>1, <2>2, <2>3, <1>1
<1> QED BY <1>2, <1>3, <1>4, <1>5 DEF Injective

(* A timer behind the head leaves, and the rest is served as before.        *)
LEMMA LosesOther ==
  ASSUME NEW s, NEW d \in Due, Good(s, d), NEW i \in Place(s), i # 1,
         NEW w \in ServerState, WithoutPlace(s.list, w.list, i),
         w.elapsed = s.elapsed, w.alarm = s.alarm, w.irq = s.irq, w.IsPending = s.IsPending,
         \A u \in Timer : u # s.list[i] => w.Timestamp[u] = s.Timestamp[u]
  PROVE  Good(w, d) /\ Member(w.list) = Member(s.list) \ {s.list[i]}
<1>0. /\ s.list \in Seq(Timer) /\ Injective(s.list) /\ i \in 1 .. Len(s.list)
      /\ Len(s.list) \in Nat /\ s.list # <<>> /\ i >= 2
      /\ WellFormed(s) /\ Armed(s) /\ HeadServed(s) /\ SortedFrom(s, 2) /\ DueArmed(s, d)
  <2>1. s.list \in Seq(Timer) /\ Len(s.list) \in Nat /\ i \in 1 .. Len(s.list)
    BY DEF Good, WellFormed, ServerState, Place
  <2>2. s.list # <<>> /\ i >= 2
    BY <2>1
  <2> QED BY <2>1, <2>2 DEF Good, WellFormed, Armed
<1>1. /\ Member(w.list) = Member(s.list) \ {s.list[i]} /\ Injective(w.list)
      /\ \A k \in 1 .. Len(w.list) : \E j \in 1 .. Len(s.list) :
           w.list[k] = s.list[j] /\ j # i /\ ((k < i /\ j = k) \/ (k >= i /\ j = k + 1))
  <2> DEFINE q == w.list
  <2> HIDE DEF q
  <2>1. WithoutPlace(s.list, q, i)
    BY DEF q
  <2> QED BY <2>1, <1>0, MembersUnlinked DEF q
<1>2. WellFormed(w) /\ Soonest(w) = Soonest(s)
  BY <1>1 DEF WellFormed, Soonest
<1> DEFINE From(k, j) == /\ j \in Place(s) /\ w.list[k] = s.list[j] /\ Stamp(w, k) = Stamp(s, j)
                         /\ k <= j /\ j <= k + 1 /\ (k = 1 => j = 1)
                         /\ ((j = k /\ k < i) \/ (j = k + 1 /\ k >= i))
<1>3. ASSUME NEW k \in Place(w) PROVE \E j : From(k, j)
  <2>1. PICK j \in 1 .. Len(s.list) :
          w.list[k] = s.list[j] /\ j # i /\ ((k < i /\ j = k) \/ (k >= i /\ j = k + 1))
    BY <1>1 DEF Place
  <2>2. s.list[j] # s.list[i] /\ s.list[j] \in Timer
    BY <2>1, <1>0 DEF Injective
  <2>3. Stamp(w, k) = Stamp(s, j)
    BY <2>1, <2>2 DEF Stamp
  <2>4. k <= j /\ j <= k + 1 /\ (k = 1 => j = 1)
    BY <2>1, <1>0 DEF Place
  <2> QED BY <2>1, <2>3, <2>4 DEF Place
<1>4. SortedFrom(w, 2)
  <2> SUFFICES ASSUME NEW a \in Place(w), NEW b \in Place(w), 2 <= a, a < b
               PROVE  Stamp(w, a) <= Stamp(w, b)
    BY DEF SortedFrom
  <2>1. PICK j : From(a, j)
    BY <1>3
  <2>2. PICK k : From(b, k)
    BY <1>3
  <2>3. j < k /\ 2 <= j
    BY <2>1, <2>2, <1>0 DEF Place
  <2> QED BY <2>1, <2>2, <2>3, <1>0 DEF SortedFrom
<1>5. s.alarm \in Nat /\ s.elapsed \in Nat /\ Soonest(s) \in Nat /\ MinTimeout \in Nat
  BY <1>0, StampIsTicks, Constants
<1>6. ASSUME NEW k \in Place(w)
      PROVE  /\ w.alarm <= Stamp(w, k) \/ w.alarm <= Soonest(w)
             /\ NotEarly(w, d, k)
             /\ d[w.list[k]] >= w.alarm - Soonest(w) - Slack(k)
             /\ \/ OnTime(w, d, k)
                \/ Stamp(w, k) < Soonest(w)
                \/ k = 1 /\ Stamp(w, k) = Soonest(w)
  <2>1. PICK j : From(k, j)
    BY <1>3
  <2>2. s.alarm <= Stamp(s, j) \/ s.alarm <= Soonest(s)
    BY <2>1, <1>0 DEF HeadServed
  <2>3. /\ NotEarly(s, d, j)
        /\ d[s.list[j]] >= s.alarm - Soonest(s) - Slack(j)
        /\ OnTime(s, d, j) \/ Stamp(s, j) < Soonest(s) \/ (j = 1 /\ Stamp(s, j) = Soonest(s))
    BY <2>1, <1>0 DEF DueArmed
  <2>4. j \in Nat /\ j >= 1 /\ s.list[j] \in Timer /\ k \in Nat /\ k >= 1
    BY <2>1, <1>0, StampIsTicks DEF Place
  <2>5. Slack(j) <= Slack(k) /\ Slack(j) \in Int /\ Slack(k) \in Int
    <3>1. k = j \/ j = k + 1
      BY <2>1, <2>4
    <3>2. Slack(k) \in Int /\ Slack(k + 1) \in Int /\ Slack(k) = Slack(k + 1) + Turn /\ Turn \in Nat
      BY <2>4, SlackSteps, Constants
    <3>3. CASE k = j
      BY <3>2, <3>3
    <3>4. CASE j = k + 1
      BY <3>2, <3>4
    <3> QED BY <3>1, <3>3, <3>4
  <2> DEFINE e == d[s.list[j]]
  <2>6. e \in Int /\ e >= s.alarm - Soonest(s) - Slack(j)
    BY <2>3, <2>4 DEF Due
  <2> HIDE DEF e
  <2>7. e >= s.alarm - Soonest(s) - Slack(k)
    BY <2>5, <2>6, <1>5
  <2>8. d[w.list[k]] >= w.alarm - Soonest(w) - Slack(k)
    BY <2>1, <2>7, <1>2 DEF e
  <2>9. NotEarly(w, d, k) /\ (OnTime(s, d, j) => OnTime(w, d, k))
    BY <2>1, <2>3 DEF NotEarly, OnTime
  <2>10. w.alarm <= Stamp(w, k) \/ w.alarm <= Soonest(w)
    BY <2>1, <2>2, <1>2
  <2>11. \/ OnTime(w, d, k)
         \/ Stamp(w, k) < Soonest(w)
         \/ k = 1 /\ Stamp(w, k) = Soonest(w)
    <3>1. j = 1 => k = 1
      BY <2>1, <2>4
    <3> QED BY <3>1, <2>1, <2>3, <2>9, <1>2
  <2> QED BY <2>8, <2>9, <2>10, <2>11
<1>7. w.list # <<>> /\ w.list[1] = s.list[1] /\ Stamp(w, 1) = Stamp(s, 1)
  <2>1. Len(w.list) = Len(s.list) - 1 /\ 1 \in 1 .. i - 1
    BY <1>0 DEF WithoutPlace
  <2>2. w.list[1] = s.list[1]
    BY <2>1 DEF WithoutPlace
  <2>3. s.list[1] # s.list[i] /\ s.list[1] \in Timer
    BY <1>0 DEF Injective
  <2>4. w.list # <<>>
    BY <2>1, <1>0
  <2> QED BY <2>2, <2>3, <2>4 DEF Stamp
<1>8. HeadServed(w)
  <2>1. \A k \in Place(w) : w.alarm <= Stamp(w, k) \/ w.alarm <= Soonest(w)
    BY <1>6
  <2> QED BY <2>1, <1>0, <1>7 DEF HeadServed
<1>9. DueArmed(w, d)
  BY <1>6 DEF DueArmed
<1>10. w.IsPending = [u \in Timer |-> w.list # <<>> /\ u = w.list[1]]
  <2>1. s.IsPending = [u \in Timer |-> s.list # <<>> /\ u = s.list[1]]
    BY <1>0 DEF Armed
  <2> QED BY <2>1, <1>0, <1>7
<1>11. Armed(w)
  BY <1>4, <1>7, <1>8, <1>10 DEF Armed
<1> QED BY <1>1, <1>2, <1>9, <1>11 DEF Good

(* Clearing the alarm's flag first changes nothing of what is armed.        *)
LEMMA ArmsAnyway ==
  ASSUME NEW s \in ServerState
  PROVE  TimerSetTimeout([s EXCEPT !.irq = FALSE]) = TimerSetTimeout(s)
<1> DEFINE w == [s EXCEPT !.irq = FALSE]
           h == s.list[1]
           x == Larger(s.Timestamp[h], s.elapsed + MinTimeout)
<1>1. w.list = s.list /\ w.Timestamp = s.Timestamp /\ w.elapsed = s.elapsed /\ w.IsPending = s.IsPending
  BY DEF ServerState
<1> DEFINE pend == [s.IsPending EXCEPT ![h] = TRUE]
           ts == [s.Timestamp EXCEPT ![h] = x]
<1>2. TimerSetTimeout(s) = [s EXCEPT !.IsPending = pend, !.Timestamp = ts, !.alarm = x, !.irq = FALSE]
  BY DEF TimerSetTimeout, ServerState
<1>3. TimerSetTimeout(w) = [w EXCEPT !.IsPending = pend, !.Timestamp = ts, !.alarm = x, !.irq = FALSE]
  BY <1>1 DEF TimerSetTimeout, ServerState
<1> HIDE DEF pend, ts, x
<1> QED BY <1>2, <1>3 DEF ServerState

(* The critical section of UTIL_TIMER_Stop.                                 *)
LEMMA Removes ==
  ASSUME NEW s, NEW d \in Due, NEW e \in Due, NEW t \in Timer, Good(s, d),
         \A u \in Timer : u # t => e[u] = d[u]
  PROVE  /\ Good(RemoveTimer(s, t), e)
         /\ Member(RemoveTimer(s, t).list) = Member(s.list) \ {t}
<1>0. /\ s \in ServerState /\ s.list \in Seq(Timer) /\ Injective(s.list) /\ WellFormed(s)
      /\ s.Timestamp \in [Timer -> Nat] /\ s.IsPending \in [Timer -> BOOLEAN]
      /\ s.IsPending = [u \in Timer |-> s.list # <<>> /\ u = s.list[1]]
  BY DEF Good, Armed, WellFormed, ServerState
<1>a. \A k \in Place(s) : s.list[k] \in Timer
  BY <1>0 DEF Place
<1>b. \A w : WellFormed(w) /\ t \notin Member(w.list) /\ Good(w, d) => Good(w, e)
  <2> SUFFICES ASSUME NEW w, WellFormed(w), t \notin Member(w.list), Good(w, d)
               PROVE  Good(w, e)
    OBVIOUS
  <2>1. \A k \in Place(w) : e[w.list[k]] = d[w.list[k]]
    <3> TAKE k \in Place(w)
    <3>1. w.list[k] # t /\ w.list[k] \in Timer
      BY StampIsTicks DEF Member, Place
    <3> QED BY <3>1
  <2> QED BY <2>1, SameList DEF WellFormed
<1>c. \A w : Taken(w, d) /\ t \notin Member(w.list) => Taken(w, e)
  <2> SUFFICES ASSUME NEW w, t \notin Member(w.list), Taken(w, d)
               PROVE  Taken(w, e)
    OBVIOUS
  <2>0. WellFormed(w) /\ w \in ServerState
    BY DEF Taken, WellFormed
  <2>1. \A k \in Place(w) : e[w.list[k]] = d[w.list[k]]
    <3> TAKE k \in Place(w)
    <3>1. w.list[k] # t /\ w.list[k] \in Timer
      BY <2>0, StampIsTicks DEF Member, Place
    <3> QED BY <3>1
  <2> QED BY <2>0, <2>1, SameList
<1>1. CASE s.list = <<>>
  <2>1. RemoveTimer(s, t) = s /\ t \notin Member(s.list) /\ Member(s.list) = {}
    BY <1>1 DEF RemoveTimer, Member
  <2> QED BY <2>1, <1>0, <1>b
<1>2. CASE s.list # <<>> /\ s.list[1] = t
  <2> DEFINE w == [s EXCEPT !.list = Tail(@), !.IsPending[t] = FALSE, !.Timestamp[t] = 0,
                            !.irq = FALSE]
             v == [s EXCEPT !.list = Tail(@), !.IsPending[t] = FALSE, !.Timestamp[t] = 0]
  <2>1. Tail(s.list) \in Seq(Timer)
    BY <1>0, <1>2, TailAt
  <2>2. /\ w \in ServerState /\ w.list = Tail(s.list) /\ w.elapsed = s.elapsed /\ ~w.irq
        /\ w.Timestamp = [s.Timestamp EXCEPT ![t] = 0]
        /\ w.IsPending = [s.IsPending EXCEPT ![t] = FALSE]
    BY <1>0, <2>1 DEF ServerState
  <2>3. w = [v EXCEPT !.irq = FALSE] /\ w.list = v.list
    BY <1>0, <2>1 DEF ServerState
  <2>4. RemoveTimer(s, t) = IF v.list = <<>> THEN [v EXCEPT !.irq = FALSE] ELSE TimerSetTimeout(v)
    BY <1>2 DEF RemoveTimer
  <2>a. v \in ServerState
    <3> DEFINE pend == [s.IsPending EXCEPT ![t] = FALSE]
               ts == [s.Timestamp EXCEPT ![t] = 0]
               rest == Tail(s.list)
    <3>1. pend \in [Timer -> BOOLEAN] /\ ts \in [Timer -> Nat] /\ rest \in Seq(Timer)
      BY <1>0, <2>1
    <3>2. v = [s EXCEPT !.list = rest, !.IsPending = pend, !.Timestamp = ts]
      BY <1>0 DEF ServerState
    <3> HIDE DEF pend, ts, rest
    <3> QED BY <1>0, <3>1, <3>2 DEF ServerState
  <2> HIDE DEF v, w
  <2>5. TimerSetTimeout(v) = TimerSetTimeout(w)
    BY <2>a, <2>3, ArmsAnyway
  <2>6. w.IsPending = [u \in Timer |-> FALSE]
    <3>1. [[u \in Timer |-> s.list # <<>> /\ u = s.list[1]] EXCEPT ![t] = FALSE] = [u \in Timer |-> FALSE]
      BY <1>2
    <3> QED BY <3>1, <2>2, <1>0
  <2>7. \A j \in Place(s) : j # 1 => Follows(s, w, j)
    <3> SUFFICES ASSUME NEW j \in Place(s), j # 1 PROVE Follows(s, w, j)
      OBVIOUS
    <3>1. s.list[j] # t /\ s.list[j] \in Timer
      <4>1. 1 \in Place(s)
        BY <1>0, <1>2, FirstPlace
      <4> QED BY <4>1, <1>0, <1>2 DEF Injective, Place
    <3>2. w.Timestamp[s.list[j]] = Stamp(s, j)
      BY <3>1, <2>2, <1>0 DEF Stamp
    <3> QED BY <3>2, <2>2 DEF Follows
  <2>8. Taken(w, d) /\ Member(w.list) = Member(s.list) \ {t}
    BY <2>2, <2>6, <2>7, <1>2, LosesHead DEF RestOf
  <2>9. Taken(w, e)
    BY <2>8, <1>c
  <2>10. RemoveTimer(s, t) = RearmHead(w)
    <3>1. w.list # <<>> => ~w.IsPending[w.list[1]]
      BY <2>6, <2>9, FirstPlace DEF Taken
    <3> QED BY <3>1, <2>3, <2>4, <2>5 DEF RearmHead
  <2>11. Good(RearmHead(w), e) /\ RearmHead(w).list = w.list
    BY <2>9, Rearms
  <2> QED BY <2>8, <2>10, <2>11
<1>3. CASE s.list # <<>> /\ s.list[1] # t
  <2> DEFINE q == Without(s.list, t)
             w == [s EXCEPT !.list = q, !.Timestamp[t] = 0]
  <2>1. RemoveTimer(s, t) = w
    BY <1>3 DEF RemoveTimer
  <2>2. CASE t \notin Member(s.list)
    <3>1. q = s.list
      BY <2>2 DEF Without
    <3> HIDE DEF q
    <3>2. /\ w \in ServerState /\ w.list = s.list /\ w.elapsed = s.elapsed /\ w.irq = s.irq
          /\ w.alarm = s.alarm /\ w.IsPending = s.IsPending
          /\ \A u \in Timer : u # t => w.Timestamp[u] = s.Timestamp[u]
      BY <1>0, <3>1 DEF ServerState
    <3> HIDE DEF w
    <3>3. \A k \in Place(s) : /\ w.Timestamp[s.list[k]] = s.Timestamp[s.list[k]]
                              /\ e[s.list[k]] = d[s.list[k]]
      <4> TAKE k \in Place(s)
      <4>1. s.list[k] # t /\ s.list[k] \in Timer
        BY <2>2, <1>a DEF Member, Place
      <4> QED BY <4>1, <3>2
    <3>4. Good(w, e)
      BY <1>0, <3>2, <3>3, SameList
    <3>5. Member(w.list) = Member(s.list) \ {t}
      BY <2>2, <3>2
    <3> QED BY <2>1, <3>4, <3>5
  <2>3. CASE t \in Member(s.list)
    <3>1. PICK i \in 1 .. Len(s.list) : s.list[i] = t
      BY <2>3, MemberAt
    <3>2. WithoutPlace(s.list, q, i)
      BY <3>1, <1>0, WithoutAt
    <3>3. q \in Seq(Timer)
      BY <3>2 DEF WithoutPlace
    <3> HIDE DEF q
    <3>4. /\ w \in ServerState /\ w.list = q /\ w.elapsed = s.elapsed /\ w.irq = s.irq
          /\ w.alarm = s.alarm /\ w.IsPending = s.IsPending
          /\ \A u \in Timer : u # t => w.Timestamp[u] = s.Timestamp[u]
      BY <1>0, <3>3 DEF ServerState
    <3> HIDE DEF w
    <3>5. i \in Place(s) /\ i # 1 /\ WithoutPlace(s.list, w.list, i)
      BY <3>1, <3>2, <3>4, <1>3 DEF Place
    <3>6. Good(w, d) /\ Member(w.list) = Member(s.list) \ {t}
      BY <3>1, <3>4, <3>5, LosesOther
    <3>7. Good(w, e)
      BY <3>6, <1>b DEF Good
    <3> QED BY <2>1, <3>6, <3>7
  <2> QED BY <2>2, <2>3
<1> QED BY <1>1, <1>2, <1>3

-----------------------------------------------------------------------------
(* The interrupt, and the ticks before it.                                  *)

(* When the alarm interrupts, the first expired timer is the head.          *)
LEMMA HeadExpires ==
  ASSUME NEW s, WellFormed(s), Armed(s), s.irq
  PROVE  /\ s.list # <<>> /\ s.list[1] \in Timer /\ FirstExpired(s) = s.list[1]
         /\ Stamp(s, 1) <= s.elapsed
<1>1. s.list # <<>> /\ HeadServed(s)
  BY DEF Armed
<1>2. 1 \in Place(s) /\ s.list[1] \in Timer /\ Stamp(s, 1) <= s.elapsed
      /\ Stamp(s, 1) \in Nat /\ s.elapsed \in Nat
  BY <1>1, FirstPlace, StampIsTicks DEF HeadServed
<1>3. Expired(s, s.list[1])
  BY <1>2 DEF Expired, Stamp
<1> DEFINE Is(i) == Expired(s, s.list[i]) /\ \A j \in 1 .. i - 1 : ~Expired(s, s.list[j])
           c == CHOOSE i \in 1 .. Len(s.list) : Is(i)
<1>4. 1 \in 1 .. Len(s.list) /\ Is(1)
  BY <1>2, <1>3 DEF Place
<1>5. c \in 1 .. Len(s.list) /\ Is(c)
  BY <1>4
<1>6. c = 1
  <2>1. c # 1 => 1 \in 1 .. c - 1
    BY <1>5
  <2> HIDE DEF c
  <2> QED BY <2>1, <1>3, <1>5
<1>7. FirstExpired(s) = s.list[c]
  BY <1>3, <1>4 DEF FirstExpired
<1> HIDE DEF c
<1> QED BY <1>1, <1>2, <1>6, <1>7

(* And the head is due then.                                                *)
LEMMA FirstIsHead ==
  ASSUME NEW s, NEW d \in Due, Good(s, d), s.irq
  PROVE  /\ s.list # <<>> /\ s.list[1] \in Timer /\ FirstExpired(s) = s.list[1]
         /\ d[s.list[1]] <= 0
<1>1. WellFormed(s) /\ Armed(s) /\ DueArmed(s, d)
  BY DEF Good
<1>2. /\ s.list # <<>> /\ s.list[1] \in Timer /\ FirstExpired(s) = s.list[1]
      /\ Stamp(s, 1) <= s.elapsed
  BY <1>1, HeadExpires
<1>3. 1 \in Place(s) /\ Stamp(s, 1) \in Nat /\ s.elapsed \in Nat
  BY <1>1, <1>2, FirstPlace, StampIsTicks
<1>4. d[s.list[1]] <= Stamp(s, 1) - s.elapsed /\ d[s.list[1]] \in Int
  BY <1>1, <1>2, <1>3 DEF DueArmed, NotEarly, Due
<1> QED BY <1>2, <1>3, <1>4

(* The handler takes the head off after a re-base.                          *)
LEMMA Handles ==
  ASSUME NEW s, NEW d \in Due, Good(s, d), s.irq
  PROVE  LET w == TakeHead(Rebase(s), s.list[1]) IN
         Taken(w, d) /\ Member(w.list) = Member(s.list) \ {s.list[1]}
<1> DEFINE h == s.list[1]
           ts == [t \in Timer |-> IF t \notin Member(s.list) THEN s.Timestamp[t]
                                  ELSE IF Expired(s, t) THEN 0 ELSE s.Timestamp[t] - s.elapsed]
           w == TakeHead(Rebase(s), h)
<1>1. /\ s.list # <<>> /\ h \in Timer /\ h # NoTimer /\ WellFormed(s) /\ s \in ServerState
      /\ s.list \in Seq(Timer) /\ s.elapsed \in Nat /\ s.Timestamp \in [Timer -> Nat]
      /\ s.IsPending = [u \in Timer |-> s.list # <<>> /\ u = s.list[1]]
  BY FirstIsHead, Constants DEF Good, Armed, WellFormed, ServerState
<1>2. ts \in [Timer -> Nat]
  BY <1>1 DEF Expired
<1>3. Tail(s.list) \in Seq(Timer)
  BY <1>1, TailAt
<1> DEFINE pend == [s.IsPending EXCEPT ![h] = FALSE]
<1>4. pend = [u \in Timer |-> FALSE]
  BY <1>1
<1>5. w = [s EXCEPT !.elapsed = 0, !.irq = FALSE, !.Timestamp = ts, !.list = Tail(s.list), !.IsPending = pend]
  BY <1>1 DEF TakeHead, Rebase, ServerState
<1> HIDE DEF pend, w
<1>6. /\ w \in ServerState /\ w.list = Tail(s.list) /\ w.elapsed = 0 /\ w.irq = FALSE
      /\ w.Timestamp = ts /\ w.IsPending = pend
  <2> HIDE DEF ts
  <2>1. pend \in [Timer -> BOOLEAN]
    BY <1>4
  <2> QED BY <2>1, <1>1, <1>2, <1>3, <1>5 DEF ServerState
<1>7. ASSUME NEW j \in Place(s) PROVE Follows(s, w, j)
  <2>1. s.list[j] \in Timer /\ s.list[j] \in Member(s.list) /\ Stamp(s, j) \in Nat
    BY <1>1, StampIsTicks DEF Member, Place
  <2>2. w.Timestamp[s.list[j]] = IF Stamp(s, j) <= s.elapsed THEN 0 ELSE Stamp(s, j) - s.elapsed
    BY <2>1, <1>6 DEF Expired, Stamp
  <2>3. CASE Stamp(s, j) <= s.elapsed
    BY <2>2, <2>3, <1>6 DEF Follows
  <2>4. CASE ~(Stamp(s, j) <= s.elapsed)
    BY <2>1, <2>2, <2>4, <1>1, <1>6 DEF Follows
  <2> QED BY <2>3, <2>4
<1>8. RestOf(s, w)
  BY <1>4, <1>6, <1>7 DEF RestOf
<1> QED BY <1>1, <1>8, LosesHead DEF w

(* A timer that is served is never as late as the bound.                    *)
LEMMA Bounded ==
  ASSUME NEW s, NEW d \in Due, Good(s, d), NEW k \in Place(s)
  PROVE  d[s.list[k]] > TooLate /\ d[s.list[k]] \in Int /\ TooLate \in Int
<1>1. /\ s.list # <<>> /\ WellFormed(s) /\ DueArmed(s, d)
  <2>1. WellFormed(s) /\ DueArmed(s, d) /\ s.list \in Seq(Timer)
    BY DEF Good, WellFormed, ServerState
  <2> QED BY <2>1 DEF Place
<1>2. HeadServed(s)
  BY <1>1 DEF Good, Armed
<1> DEFINE e == d[s.list[k]]
           N == Cardinality(Timer)
<1>3. /\ s.elapsed \in Nat /\ s.alarm \in Nat /\ Soonest(s) = s.elapsed + MinTimeout
      /\ s.elapsed <= s.alarm + MaxLatency /\ s.list[k] \in Timer
      /\ k \in Nat /\ k >= 1 /\ Slack(k) \in Int
  BY <1>1, <1>2, StampIsTicks DEF HeadServed
<1>4. e \in Int /\ e >= s.alarm - Soonest(s) - Slack(k)
  BY <1>1, <1>3 DEF DueArmed, Due
<1>5. Slack(k) + Turn <= N * Turn /\ Turn = MinTimeout + MaxLatency
      /\ MinTimeout \in Nat /\ MaxLatency \in Nat /\ N * Turn \in Int /\ TooLate = -(N * Turn) - 1
  <2>1. N \in Nat /\ Turn \in Nat
    BY Constants
  <2>2. N * Turn \in Int
    BY <2>1
  <2> QED BY <2>2, <1>3, SlackSteps, Constants DEF TooLate, Turn
<1> DEFINE M == N * Turn
<1> HIDE DEF e, M
<1>6. /\ Slack(k) + Turn <= M /\ M \in Int /\ TooLate = -M - 1
  BY <1>5 DEF M
<1>7. e > TooLate /\ TooLate \in Int
  BY <1>3, <1>4, <1>5, <1>6
<1> QED BY <1>4, <1>7 DEF e

(* A tick of the counter leaves every timer one tick closer to its due      *)
(* time.                                                                    *)
LEMMA Ticks ==
  ASSUME NEW s, NEW d \in Due, NEW v \in ServerState, NEW e, Good(s, d), s.list # <<>>,
         s.irq => s.elapsed < s.alarm + MaxLatency,
         v.list = s.list, v.Timestamp = s.Timestamp, v.IsPending = s.IsPending,
         v.elapsed = s.elapsed + 1, v.alarm = s.alarm,
         v.irq <=> s.irq \/ s.alarm = s.elapsed + 1,
         \A k \in Place(s) : e[s.list[k]] = Larger(d[s.list[k]] - 1, TooLate)
  PROVE  Good(v, e)
<1>0. /\ WellFormed(s) /\ Armed(s) /\ HeadServed(s) /\ DueArmed(s, d) /\ 1 \in Place(s)
      /\ SortedFrom(s, 2)
  BY FirstPlace DEF Good, Armed
<1>1. /\ WellFormed(v) /\ Place(v) = Place(s)
      /\ \A k \in Place(s) : Stamp(v, k) = Stamp(s, k)
  BY <1>0 DEF WellFormed, Place, Stamp
<1>2. /\ s.elapsed \in Nat /\ s.alarm \in Nat /\ Soonest(s) = s.elapsed + MinTimeout
      /\ Soonest(s) \in Nat /\ MinTimeout \in Nat /\ MaxLatency \in Nat
      /\ Soonest(v) = Soonest(s) + 1
  BY <1>0, StampIsTicks, Constants DEF Soonest
<1>3. ASSUME NEW k \in Place(s) PROVE e[s.list[k]] = d[s.list[k]] - 1 /\ d[s.list[k]] \in Int
  <2>1. d[s.list[k]] > TooLate /\ d[s.list[k]] \in Int /\ TooLate \in Int
    BY Bounded
  <2> HIDE DEF TooLate
  <2>2. Larger(d[s.list[k]] - 1, TooLate) = d[s.list[k]] - 1
    BY <2>1 DEF Larger
  <2> QED BY <2>1, <2>2
<1>4. ASSUME NEW k \in Place(s)
      PROVE  /\ v.alarm <= Stamp(v, k) \/ v.alarm <= Soonest(v)
             /\ NotEarly(v, e, k)
             /\ e[v.list[k]] >= v.alarm - Soonest(v) - Slack(k)
             /\ \/ OnTime(v, e, k)
                \/ Stamp(v, k) < Soonest(v)
                \/ k = 1 /\ Stamp(v, k) = Soonest(v)
  <2> DEFINE a == Stamp(s, k)
             x == d[s.list[k]]
  <2>1. a \in Nat /\ Slack(k) \in Int /\ x \in Int /\ e[v.list[k]] = x - 1 /\ Stamp(v, k) = a
    BY <1>0, <1>1, <1>3, StampIsTicks
  <2>2. /\ x <= a - s.elapsed
        /\ x >= s.alarm - Soonest(s) - Slack(k)
        /\ \/ x >= a - s.elapsed - MinTimeout
           \/ a < Soonest(s)
           \/ k = 1 /\ a = Soonest(s)
    BY <1>0 DEF DueArmed, NotEarly, OnTime
  <2>3. s.alarm <= a \/ s.alarm <= Soonest(s)
    BY <1>0 DEF HeadServed
  <2> DEFINE al == s.alarm
             el == s.elapsed
             so == Soonest(s)
             sl == Slack(k)
  <2>4. /\ al \in Nat /\ el \in Nat /\ so \in Nat /\ sl \in Int /\ a \in Nat /\ x \in Int
        /\ so = el + MinTimeout /\ MinTimeout \in Nat
        /\ x <= a - el /\ x >= al - so - sl
        /\ x >= a - el - MinTimeout \/ a < so \/ (k = 1 /\ a = so)
        /\ al <= a \/ al <= so
    BY <2>1, <2>2, <2>3, <1>2
  <2> HIDE DEF a, x, al, el, so, sl
  <2>5. al <= a \/ al <= so + 1
    BY <2>4
  <2>6. x - 1 <= a - (el + 1) /\ x - 1 >= al - (so + 1) - sl
    BY <2>4
  <2>7. x - 1 >= a - (el + 1) - MinTimeout \/ a < so + 1
    BY <2>4
  <2>8. /\ e[v.list[k]] = x - 1 /\ Stamp(v, k) = a /\ v.elapsed = el + 1
        /\ Soonest(v) = so + 1 /\ v.alarm = al /\ Slack(k) = sl
    BY <2>1, <1>2 DEF el, so, al, sl
  <2> QED BY <2>5, <2>6, <2>7, <2>8 DEF NotEarly, OnTime
<1>5. HeadServed(v)
  <2>1. v.alarm = Stamp(v, 1)
    BY <1>0, <1>1 DEF HeadServed
  <2>2. v.irq <=> v.elapsed >= v.alarm
    BY <1>0, <1>2 DEF HeadServed
  <2>3. v.elapsed <= v.alarm + MaxLatency
    BY <1>0, <1>2 DEF HeadServed
  <2> QED BY <2>1, <2>2, <2>3, <1>1, <1>4 DEF HeadServed
<1>6. DueArmed(v, e)
  BY <1>1, <1>4 DEF DueArmed
<1>7. SortedFrom(v, 2)
  BY <1>0, <1>1 DEF SortedFrom
<1>8. Armed(v)
  BY <1>0, <1>5, <1>7 DEF Armed
<1> QED BY <1>1, <1>6, <1>8 DEF Good

-----------------------------------------------------------------------------
(***************************************************************************)
(* The invariant of the specification.  When a timer was linked again, the *)
(* model stops, in the state of that moment.                               *)
(***************************************************************************)

Served ==
  /\ WellFormed(Server) /\ Armed(Server)
  /\ LatenessBounded
  /\ ~relinked => /\ DueArmed(Server, due)
                  /\ \A t \in Timer : IsRunning[t] <=> TimerExists(t)

RestOK ==
  /\ ReloadValue \in [Timer -> Nat]
  /\ IsRunning \in [Timer -> BOOLEAN]
  /\ IsReloadStopped \in [Timer -> BOOLEAN]
  /\ pc \in [Context -> {"out", "run", "insert", "stop", "check"}]
  /\ object \in [Context -> Timer \cup {NoTimer}]
  /\ due \in Due
  /\ relinked \in BOOLEAN

(* The type invariant, of the server's record and of the rest.              *)
LEMMA Types == TimersTypeOK <=> Server \in ServerState /\ RestOK
BY DEF TimersTypeOK, Server, ServerState, RestOK, Due

(* A step that makes the server's variables those of a record.              *)
LEMMA Becomes ==
  ASSUME NEW s \in ServerState, Become(s)
  PROVE  Server' = s
<1>1. s = [list |-> s.list, Timestamp |-> s.Timestamp, IsPending |-> s.IsPending,
           elapsed |-> s.elapsed, alarm |-> s.alarm, irq |-> s.irq]
  BY DEF ServerState
<1> QED BY <1>1 DEF Become, Server

(* A context goes to a label.                                               *)
LEMMA GotoTypes ==
  ASSUME RestOK, NEW c \in Context, NEW l \in {"out", "run", "insert", "stop", "check"},
         NEW t \in Timer \cup {NoTimer}, TimerGoto(c, l, t)
  PROVE  /\ pc' \in [Context -> {"out", "run", "insert", "stop", "check"}]
         /\ object' \in [Context -> Timer \cup {NoTimer}]
BY DEF RestOK, TimerGoto

(* The same of a timer that is linked.                                      *)
LEMMA NotLate ==
  ASSUME NEW s, NEW d \in Due, Good(s, d), NEW t \in Member(s.list)
  PROVE  d[t] > TooLate
<1>1. PICK k \in 1 .. Len(s.list) : s.list[k] = t
  BY MemberAt
<1>2. k \in Place(s)
  BY DEF Place
<1> QED BY <1>1, <1>2, Bounded

(* While no timer is linked again, the list is what counts.                 *)
LEMMA GoodIsServed ==
  ASSUME due' \in Due, Good(Server', due'), \A t \in Timer : IsRunning'[t] <=> TimerExists(t)'
  PROVE  Served'
<1>1. Server'.list = list'
  BY DEF Server
<1>2. ASSUME NEW t \in Timer, t \in Member(list') PROVE due'[t] > TooLate
  <2>1. t \in Member(Server'.list)
    BY <1>1, <1>2
  <2> QED BY <2>1, NotLate
<1>3. LatenessBounded'
  BY <1>2 DEF LatenessBounded, TimerExists
<1> QED BY <1>3 DEF Served, Good

(* A step that leaves the server, what runs and what is due alone.          *)
LEMMA ServerAlone ==
  ASSUME Served, UNCHANGED <<server, IsRunning, due, relinked>>
  PROVE  Served'
<1>1. Server' = Server /\ list' = list
  BY DEF Server, server
<1> QED BY <1>1 DEF Served, LatenessBounded, TimerExists

(* UTIL_TIMER_Stop and the stop within UTIL_TIMER_Start keep the invariant. *)
LEMMA StoppedServes ==
  ASSUME RestOK, Served, ~relinked, NEW t \in Timer, Stopped(t), UNCHANGED relinked
  PROVE  /\ Server' \in ServerState /\ Served'
         /\ IsRunning' \in [Timer -> BOOLEAN] /\ IsReloadStopped' \in [Timer -> BOOLEAN]
         /\ due' \in Due
<1> DEFINE r == RemoveTimer(Server, t)
<1>0. due \in Due /\ Good(Server, due) /\ \A u \in Timer : IsRunning[u] <=> TimerExists(u)
  BY DEF RestOK, Served, Good
<1>1. due' \in Due /\ \A u \in Timer : u # t => due'[u] = due[u]
  BY <1>0 DEF Stopped, Due
<1>2. /\ IsRunning' \in [Timer -> BOOLEAN] /\ IsReloadStopped' \in [Timer -> BOOLEAN]
      /\ list # <<>> => \A u \in Timer : IsRunning'[u] <=> (u # t /\ IsRunning[u])
      /\ list = <<>> => IsRunning' = IsRunning
  BY DEF Stopped, RestOK
<1>3. Good(r, due') /\ Member(r.list) = Member(list) \ {t}
  <2>1. Server.list = list
    BY DEF Server
  <2> QED BY <1>0, <1>1, <2>1, Removes
<1> HIDE DEF r
<1>4. r \in ServerState /\ Server' = r /\ list' = r.list
  <2>1. r \in ServerState /\ Become(r)
    BY <1>3 DEF Good, WellFormed, Stopped, r
  <2>2. list' = r.list
    BY <2>1 DEF Become
  <2> QED BY <2>1, <2>2, Becomes
<1>5. \A u \in Timer : TimerExists(u)' <=> (u # t /\ TimerExists(u))
  BY <1>3, <1>4 DEF TimerExists
<1>6. \A u \in Timer : IsRunning'[u] <=> TimerExists(u)'
  <2>1. CASE list = <<>>
    <3>1. \A u \in Timer : ~TimerExists(u)
      BY <2>1 DEF TimerExists, Member
    <3> QED BY <3>1, <2>1, <1>0, <1>2, <1>5
  <2>2. CASE list # <<>>
    BY <2>2, <1>0, <1>2, <1>5
  <2> QED BY <2>1, <2>2
<1>7. Served'
  <2>1. due' \in Due /\ Good(Server', due') /\ \A u \in Timer : IsRunning'[u] <=> TimerExists(u)'
    BY <1>1, <1>3, <1>4, <1>6
  <2> QED BY <2>1, GoodIsServed
<1> QED BY <1>1, <1>2, <1>4, <1>7

(* So does the critical section of UTIL_TIMER_Start.                        *)
LEMMA InsertServes ==
  ASSUME RestOK, Served, ~relinked, NEW t \in Timer,
         relinked' = TimerExists(t),
         Become(IF relinked' THEN Server ELSE Insert(Server, t)),
         IsRunning' = [IsRunning EXCEPT ![t] = TRUE],
         due' = [due EXCEPT ![t] = ReloadValue[t]]
  PROVE  Server' \in ServerState /\ Served' /\ due' \in Due
<1>0. /\ due \in Due /\ Good(Server, due) /\ \A u \in Timer : IsRunning[u] <=> TimerExists(u)
      /\ Server \in ServerState /\ Server.list = list
  BY DEF RestOK, Served, Good, WellFormed, Server
<1>1. ReloadValue[t] \in Nat /\ due' = Started(due, t)
  BY DEF RestOK, Started
<1>2. due' \in Due /\ due'[t] = ReloadValue[t] /\ \A u \in Timer : u # t => due'[u] = due[u]
  BY <1>0, <1>1 DEF Due
<1>3. CASE TimerExists(t)
  <2>1. relinked' /\ Become(Server)
    BY <1>3
  <2>2. Server' = Server /\ list' = list
    BY <2>1, <1>0, Becomes DEF Become
  <2>3. TooLate < 0 /\ TooLate \in Int
    <3>1. Cardinality(Timer) \in Nat /\ MinTimeout + MaxLatency \in Nat
      BY Constants
    <3>2. Cardinality(Timer) * (MinTimeout + MaxLatency) \in Nat
      BY <3>1
    <3> QED BY <3>2 DEF TooLate
  <2>4. ASSUME NEW u \in Timer, u \in Member(list') PROVE due'[u] > TooLate
    <3>1. CASE u = t
      <4> HIDE DEF TooLate
      <4> QED BY <3>1, <2>3, <1>1, <1>2
    <3>2. CASE u # t
      <4>1. due[u] > TooLate
        BY <2>2, <2>4 DEF Served, LatenessBounded, TimerExists
      <4> QED BY <3>2, <4>1, <1>2
    <3> QED BY <3>1, <3>2
  <2>5. LatenessBounded'
    BY <2>4 DEF LatenessBounded, TimerExists
  <2> QED BY <2>1, <2>2, <2>5, <1>0, <1>2 DEF Served
<1>4. CASE ~TimerExists(t)
  <2> DEFINE r == Insert(Server, t)
  <2>1. Good(r, due') /\ Member(r.list) = Member(list) \cup {t}
    <3>1. t \notin Member(Server.list)
      BY <1>0, <1>4 DEF TimerExists
    <3>2. /\ Good(r, Started(due, t))
          /\ Member(r.list) = Member(Server.list) \cup {t}
      BY <1>0, <1>1, <3>1, Inserts
    <3> HIDE DEF r
    <3> QED BY <3>2, <1>0, <1>1
  <2>2. Become(r)
    BY <1>4
  <2> HIDE DEF r
  <2>3. r \in ServerState /\ Server' = r /\ list' = r.list
    <3>1. r \in ServerState
      BY <2>1 DEF Good, WellFormed
    <3> QED BY <3>1, <2>2, Becomes DEF Become
  <2>4. \A u \in Timer : TimerExists(u)' <=> (u = t \/ TimerExists(u))
    BY <2>1, <2>3 DEF TimerExists
  <2>5. IsRunning'[t] /\ \A u \in Timer : u # t => IsRunning'[u] = IsRunning[u]
    BY DEF RestOK
  <2>6. \A u \in Timer : IsRunning'[u] <=> TimerExists(u)'
    BY <2>4, <2>5, <1>0
  <2> QED BY <2>1, <2>3, <2>6, <1>2, GoodIsServed
<1> QED BY <1>3, <1>4

(* So does UTIL_TIMER_IRQ_Handler up to the callback.                       *)
LEMMA HandlerServes ==
  ASSUME RestOK, Served, IRQ_Handler
  PROVE  Server' \in ServerState /\ Served' /\ RestOK'
<1> DEFINE h == FirstExpired(Server)
           w == TakeHead(Rebase(Server), h)
           restart == (h \in Periodic /\ ~IsReloadStopped[h]) /\ h \notin Member(w.list)
           r == RearmHead(IF restart THEN Insert(w, h) ELSE w)
<1>0. /\ due \in Due /\ Good(Server, due) /\ \A u \in Timer : IsRunning[u] <=> TimerExists(u)
      /\ Server.irq /\ Server.list = list
  BY DEF RestOK, Served, Good, Server, IRQ_Handler, Executes
<1>1. h = list[1] /\ h \in Timer /\ h # NoTimer
  BY <1>0, FirstIsHead, Constants
<1>2. /\ Become(r)
      /\ IsRunning' = [t \in Timer |-> IF t = h THEN restart ELSE IsRunning[t]]
      /\ due' = [t \in Timer |-> IF t # h THEN due[t] ELSE IF restart THEN ReloadValue[t] ELSE 0]
      /\ TimerGoto("callback", IF h = NoTimer THEN "out" ELSE "run", NoTimer)
      /\ UNCHANGED <<ReloadValue, IsReloadStopped, relinked>>
  BY DEF IRQ_Handler
<1> HIDE DEF h
<1>3. Taken(w, due) /\ Member(w.list) = Member(list) \ {h}
  BY <1>0, <1>1, Handles
<1> HIDE DEF w
<1>4. restart \in BOOLEAN
  OBVIOUS
<1>5. h \notin Member(w.list) /\ ReloadValue[h] \in Nat
  BY <1>1, <1>3 DEF RestOK
<1>6. due' \in Due
  BY <1>0, <1>2 DEF Due, RestOK
<1>7. /\ Good(r, due')
      /\ Member(r.list) = IF restart THEN Member(list) \cup {h} ELSE Member(list) \ {h}
  <2>1. CASE restart
    <3>1. due' = Started(due, h)
      BY <1>0, <1>1, <1>2, <2>1 DEF Started, Due
    <3>2. r = RearmHead(Insert(w, h))
      BY <2>1
    <3> HIDE DEF r, restart
    <3>3. /\ Good(r, Started(due, h)) /\ Member(r.list) = Member(w.list) \cup {h}
      BY <1>0, <1>1, <1>3, <1>5, <3>2, InsertsTaken
    <3>4. Member(r.list) = Member(list) \cup {h}
      BY <3>3, <1>3
    <3> QED BY <2>1, <3>1, <3>3, <3>4
  <2>2. CASE ~restart
    <3>1. \A u \in Timer : u # h => due'[u] = due[u]
      BY <1>2
    <3>2. r = RearmHead(w)
      BY <2>2
    <3> HIDE DEF r, restart
    <3>3. WellFormed(w) /\ w \in ServerState
      BY <1>3 DEF Taken, WellFormed
    <3>4. \A k \in Place(w) : due'[w.list[k]] = due[w.list[k]]
      <4> TAKE k \in Place(w)
      <4>1. w.list[k] # h /\ w.list[k] \in Timer
        BY <3>3, <1>5, StampIsTicks DEF Member, Place
      <4> QED BY <3>1, <4>1
    <3>5. Taken(w, due')
      BY <1>3, <3>3, <3>4, SameList
    <3>6. Good(r, due') /\ r.list = w.list
      BY <3>2, <3>5, <1>6, Rearms
    <3> QED BY <2>2, <3>6, <1>3
  <2> QED BY <2>1, <2>2
<1>8. Server.list = list /\ h \in Member(list)
  <2>1. list # <<>> /\ list \in Seq(Timer)
    BY <1>0, FirstIsHead DEF Good, WellFormed, ServerState
  <2> QED BY <2>1, <1>0, <1>1 DEF Member
<1>9. /\ IsRunning' \in [Timer -> BOOLEAN]
      /\ \A u \in Timer : u # h => (IsRunning'[u] <=> IsRunning[u])
      /\ IsRunning'[h] <=> restart
  BY <1>1, <1>2, <1>4 DEF RestOK
<1> HIDE DEF r, restart
<1>10. r \in ServerState /\ Server' = r /\ list' = r.list
  <2>1. r \in ServerState
    BY <1>7 DEF Good, WellFormed
  <2> QED BY <2>1, <1>2, Becomes DEF Become
<1>11. \A u \in Timer : IsRunning'[u] <=> TimerExists(u)'
  <2>1. CASE restart
    <3>1. \A u \in Timer : TimerExists(u)' <=> TimerExists(u)
      BY <2>1, <1>7, <1>8, <1>10 DEF TimerExists
    <3> QED BY <3>1, <2>1, <1>0, <1>8, <1>9 DEF TimerExists
  <2>2. CASE ~restart
    <3>1. \A u \in Timer : TimerExists(u)' <=> (u # h /\ TimerExists(u))
      BY <2>2, <1>7, <1>10 DEF TimerExists
    <3> QED BY <3>1, <2>2, <1>0, <1>9
  <2> QED BY <2>1, <2>2
<1>12. Served'
  BY <1>6, <1>7, <1>10, <1>11, GoodIsServed
<1>13. RestOK'
  <2>1. /\ pc' \in [Context -> {"out", "run", "insert", "stop", "check"}]
        /\ object' \in [Context -> Timer \cup {NoTimer}]
    <3>1. "callback" \in Context
      BY DEF Context
    <3> QED BY <3>1, <1>1, <1>2, GotoTypes
  <2> QED BY <2>1, <1>2, <1>6, <1>9 DEF RestOK
<1> QED BY <1>10, <1>12, <1>13

(* So does a tick of the counter.                                           *)
LEMMA TickServes ==
  ASSUME RestOK, Served, Tick
  PROVE  Server' \in ServerState /\ Served' /\ RestOK'
<1>0. /\ due \in Due /\ Good(Server, due) /\ \A u \in Timer : IsRunning[u] <=> TimerExists(u)
      /\ Server \in ServerState
  BY DEF RestOK, Served, Good, WellFormed, Tick
<1>1. /\ Server.list = list /\ Server.Timestamp = Timestamp /\ Server.IsPending = IsPending
      /\ Server.elapsed = elapsed /\ Server.alarm = alarm /\ Server.irq = irq
      /\ Server'.list = list' /\ Server'.Timestamp = Timestamp' /\ Server'.IsPending = IsPending'
      /\ Server'.elapsed = elapsed' /\ Server'.alarm = alarm' /\ Server'.irq = irq'
  BY DEF Server
<1>2. /\ list' = list /\ Timestamp' = Timestamp /\ IsPending' = IsPending /\ alarm' = alarm
      /\ elapsed' = elapsed + 1 /\ irq' = (irq \/ alarm = elapsed + 1)
      /\ list # <<>> /\ (irq => elapsed < alarm + MaxLatency)
      /\ due' = [t \in Timer |-> IF TimerExists(t) THEN Larger(due[t] - 1, TooLate) ELSE due[t]]
      /\ UNCHANGED <<ReloadValue, IsRunning, IsReloadStopped, pc, object, relinked>>
  BY DEF Tick
<1>3. list \in Seq(Timer) /\ elapsed \in Nat /\ irq \in BOOLEAN
  BY <1>0, <1>1 DEF ServerState
<1>4. Server' \in ServerState
  <2>1. elapsed' \in Nat
    BY <1>2, <1>3
  <2>2. irq' \in BOOLEAN
    BY <1>2, <1>3
  <2> QED BY <2>1, <2>2, <1>0, <1>1, <1>2 DEF ServerState, Server
<1>5. TooLate \in Int
  <2>1. Cardinality(Timer) \in Nat /\ MinTimeout + MaxLatency \in Nat
    BY Constants
  <2>2. Cardinality(Timer) * (MinTimeout + MaxLatency) \in Nat
    BY <2>1
  <2> QED BY <2>2 DEF TooLate
<1>6. due' \in Due
  <2> HIDE DEF TooLate
  <2>1. \A t \in Timer : due[t] \in Int /\ due[t] - 1 \in Int
    BY <1>0 DEF Due
  <2>2. \A t \in Timer : Larger(due[t] - 1, TooLate) \in Int
    BY <2>1, <1>5 DEF Larger
  <2> QED BY <2>1, <2>2, <1>2 DEF Due
<1>7. \A k \in Place(Server) : due'[list[k]] = Larger(due[list[k]] - 1, TooLate)
  <2> TAKE k \in Place(Server)
  <2>1. list[k] \in Timer /\ TimerExists(list[k])
    BY <1>1, <1>3 DEF Place, TimerExists, Member
  <2> QED BY <2>1, <1>2
<1>8. Good(Server', due')
  <2>1. Server'.irq <=> Server.irq \/ Server.alarm = Server.elapsed + 1
    BY <1>1, <1>2
  <2>2. /\ Server'.list = Server.list /\ Server'.Timestamp = Server.Timestamp
        /\ Server'.IsPending = Server.IsPending /\ Server'.elapsed = Server.elapsed + 1
        /\ Server'.alarm = Server.alarm /\ Server.list # <<>>
        /\ Server.irq => Server.elapsed < Server.alarm + MaxLatency
    BY <1>1, <1>2
  <2>3. \A k \in Place(Server) : due'[Server.list[k]] = Larger(due[Server.list[k]] - 1, TooLate)
    BY <1>1, <1>7
  <2>4. Good(Server, due) /\ due \in Due
    BY <1>0
  <2> QED BY <2>1, <2>2, <2>3, <2>4, <1>4, Ticks
<1>9. \A u \in Timer : IsRunning'[u] <=> TimerExists(u)'
  BY <1>0, <1>2 DEF TimerExists
<1>10. RestOK'
  BY <1>2, <1>6 DEF RestOK
<1> QED BY <1>4, <1>6, <1>8, <1>9, <1>10, GoodIsServed

(* A step of a context that reaches no critical section of the server.      *)
LEMMA RestSteps ==
  ASSUME RestOK, Served, NEW c \in Context,
         UNCHANGED <<server, IsRunning, IsReloadStopped, due, relinked>>,
         ReloadValue' \in [Timer -> Nat],
         pc' \in [Context -> {"out", "run", "insert", "stop", "check"}],
         object' \in [Context -> Timer \cup {NoTimer}]
  PROVE  Server' = Server /\ Served' /\ RestOK'
<1>1. Server' = Server
  BY DEF Server, server
<1>2. Served'
  BY ServerAlone
<1>3. RestOK'
  BY DEF RestOK
<1> QED BY <1>1, <1>2, <1>3

-----------------------------------------------------------------------------
(* The server at rest satisfies the invariant.                              *)
LEMMA ServedInit == TimersInit => TimersTypeOK /\ Served
<1> SUFFICES ASSUME TimersInit PROVE TimersTypeOK /\ Served
  OBVIOUS
<1>1. TimersTypeOK
  <2>1. /\ list \in Seq(Timer) /\ Timestamp \in [Timer -> Nat] /\ ReloadValue \in [Timer -> Nat]
        /\ elapsed \in Nat /\ alarm \in Nat /\ due \in [Timer -> Int]
    BY TimerServerAssumption DEF TimersInit
  <2>2. /\ IsPending \in [Timer -> BOOLEAN] /\ IsRunning \in [Timer -> BOOLEAN]
        /\ IsReloadStopped \in [Timer -> BOOLEAN] /\ irq \in BOOLEAN /\ relinked \in BOOLEAN
    BY DEF TimersInit
  <2>3. /\ pc \in [Context -> {"out", "run", "insert", "stop", "check"}]
        /\ object \in [Context -> Timer \cup {NoTimer}]
    BY DEF TimersInit
  <2> QED BY <2>1, <2>2, <2>3 DEF TimersTypeOK
<1>2. /\ Server \in ServerState /\ Server.list = <<>> /\ ~Server.irq
      /\ Server.IsPending = [t \in Timer |-> FALSE] /\ list = <<>>
  <2>1. Server \in ServerState
    BY <1>1, Types
  <2> QED BY <2>1 DEF TimersInit, Server
<1>3. Place(Server) = {} /\ Member(list) = {}
  BY <1>2 DEF Place, Member
<1>4. WellFormed(Server)
  BY <1>2 DEF WellFormed, Injective
<1>5. Armed(Server)
  <2>1. SortedFrom(Server, 2)
    BY <1>3 DEF SortedFrom
  <2> QED BY <1>2, <2>1 DEF Armed
<1>6. LatenessBounded /\ DueArmed(Server, due)
  BY <1>3 DEF LatenessBounded, DueArmed, TimerExists
<1>7. \A t \in Timer : IsRunning[t] <=> TimerExists(t)
  BY <1>3 DEF TimersInit, TimerExists
<1> QED BY <1>1, <1>4, <1>5, <1>6, <1>7 DEF Served

(* Every step keeps the invariant, one case for each action.                *)
LEMMA ServedStep == TimersTypeOK /\ Served /\ [TimersNext]_timerVars => TimersTypeOK' /\ Served'
<1> SUFFICES ASSUME Server \in ServerState, RestOK, Served, [TimersNext]_timerVars
             PROVE  Server' \in ServerState /\ RestOK' /\ Served'
  <2>1. TimersTypeOK' <=> Server' \in ServerState /\ RestOK'
    BY DEF TimersTypeOK, Server, ServerState, RestOK, Due
  <2> QED BY <2>1, Types
<1> DEFINE Label == {"out", "run", "insert", "stop", "check"}
<1>0. /\ ReloadValue \in [Timer -> Nat] /\ Period \subseteq Nat
      /\ pc \in [Context -> Label] /\ object \in [Context -> Timer \cup {NoTimer}]
  BY TimerServerAssumption DEF RestOK
<1>1. ASSUME NEW c \in Context, NEW t \in Timer, Checked(c, t)
      PROVE  /\ pc' \in [Context -> Label]
             /\ object' \in [Context -> Timer \cup {NoTimer}]
  <2>1. CASE Idle(t)
    BY <1>1, <2>1, GotoTypes DEF Checked
  <2>2. CASE ~Idle(t)
    BY <1>1, <2>2, GotoTypes DEF Checked
  <2> QED BY <2>1, <2>2
<1>2. ASSUME NEW c \in Context, NEW t \in Timer, Start(c, t)
      PROVE  Server' \in ServerState /\ RestOK' /\ Served'
  <2>1. Checked(c, t) /\ UNCHANGED <<server, ReloadValue, IsRunning, IsReloadStopped, due, relinked>>
    BY <1>2 DEF Start
  <2> QED BY <2>1, <1>0, <1>1, RestSteps
<1>3. ASSUME NEW c \in Context, NEW t \in Timer, RestartCheck(c, t)
      PROVE  Server' \in ServerState /\ RestOK' /\ Served'
  <2>1. Checked(c, t) /\ UNCHANGED <<server, ReloadValue, IsRunning, IsReloadStopped, due, relinked>>
    BY <1>3 DEF RestartCheck
  <2> QED BY <2>1, <1>0, <1>1, RestSteps
<1>4. ASSUME NEW c \in Context, NEW t \in Timer, NEW p \in Period,
             SetPeriod(c, t, p) \/ StartWithPeriod(c, t, p)
      PROVE  Server' \in ServerState /\ RestOK' /\ Served'
  <2>1. /\ UNCHANGED <<server, IsRunning, IsReloadStopped, due, relinked>>
        /\ ReloadValue' = [ReloadValue EXCEPT ![t] = p]
    BY <1>4 DEF SetPeriod, StartWithPeriod
  <2>2. ReloadValue' \in [Timer -> Nat]
    BY <2>1, <1>0
  <2>3. /\ pc' \in [Context -> Label]
        /\ object' \in [Context -> Timer \cup {NoTimer}]
    <3>1. CASE UNCHANGED <<pc, object>>
      BY <3>1, <1>0
    <3>2. CASE \E l \in {"stop", "check"} : TimerGoto(c, l, t)
      BY <3>2, GotoTypes
    <3>3. UNCHANGED <<pc, object>> \/ \E l \in {"stop", "check"} : TimerGoto(c, l, t)
      BY <1>4 DEF SetPeriod, StartWithPeriod
    <3> QED BY <3>1, <3>2, <3>3
  <2> QED BY <2>1, <2>2, <2>3, RestSteps
<1>5. ASSUME NEW c \in Context, NEW t \in Timer, Stop(c, t)
      PROVE  Server' \in ServerState /\ RestOK' /\ Served'
  <2>1. ~relinked /\ Stopped(t) /\ UNCHANGED <<ReloadValue, pc, object, relinked>>
    BY <1>5 DEF Stop, Executes
  <2>2. /\ Server' \in ServerState /\ Served'
        /\ IsRunning' \in [Timer -> BOOLEAN] /\ IsReloadStopped' \in [Timer -> BOOLEAN]
        /\ due' \in Due
    BY <2>1, StoppedServes
  <2> QED BY <2>1, <2>2 DEF RestOK
<1>6. ASSUME NEW c \in Context, NEW t \in Timer, RestartStop(c, t)
      PROVE  Server' \in ServerState /\ RestOK' /\ Served'
  <2>1. ~relinked /\ Stopped(t) /\ TimerGoto(c, "check", t) /\ UNCHANGED <<ReloadValue, relinked>>
    BY <1>6 DEF RestartStop, Executes
  <2>2. /\ Server' \in ServerState /\ Served'
        /\ IsRunning' \in [Timer -> BOOLEAN] /\ IsReloadStopped' \in [Timer -> BOOLEAN]
        /\ due' \in Due
    BY <2>1, StoppedServes
  <2>3. /\ pc' \in [Context -> Label]
        /\ object' \in [Context -> Timer \cup {NoTimer}]
    BY <2>1, GotoTypes
  <2> QED BY <2>1, <2>2, <2>3 DEF RestOK
<1>7. ASSUME NEW c \in Context, NEW t \in Timer, StartInsert(c, t)
      PROVE  Server' \in ServerState /\ RestOK' /\ Served'
  <2>1. /\ ~relinked /\ relinked' = TimerExists(t)
        /\ Become(IF relinked' THEN Server ELSE Insert(Server, t))
        /\ IsRunning' = [IsRunning EXCEPT ![t] = TRUE]
        /\ IsReloadStopped' = [IsReloadStopped EXCEPT ![t] = FALSE]
        /\ due' = [due EXCEPT ![t] = ReloadValue[t]]
        /\ TimerGoto(c, "run", NoTimer)
        /\ UNCHANGED ReloadValue
    BY <1>7 DEF StartInsert, Executes
  <2>2. Server' \in ServerState /\ Served' /\ due' \in Due
    BY <2>1, InsertServes
  <2>3. /\ pc' \in [Context -> Label]
        /\ object' \in [Context -> Timer \cup {NoTimer}]
    BY <2>1, GotoTypes
  <2>4. IsRunning' \in [Timer -> BOOLEAN] /\ IsReloadStopped' \in [Timer -> BOOLEAN]
    BY <2>1 DEF RestOK
  <2>5. relinked' \in BOOLEAN
    BY <2>1 DEF TimerExists
  <2> QED BY <2>1, <2>2, <2>3, <2>4, <2>5 DEF RestOK
<1>8. ASSUME NEW c \in Context, Return(c)
      PROVE  Server' \in ServerState /\ RestOK' /\ Served'
  <2>1. TimerGoto(c, "out", NoTimer)
        /\ UNCHANGED <<server, ReloadValue, IsRunning, IsReloadStopped, due, relinked>>
    BY <1>8 DEF Return
  <2>2. /\ pc' \in [Context -> Label]
        /\ object' \in [Context -> Timer \cup {NoTimer}]
    BY <2>1, GotoTypes
  <2> QED BY <2>1, <2>2, <1>0, RestSteps
<1>9. ASSUME ButtonEnter
      PROVE  Server' \in ServerState /\ RestOK' /\ Served'
  <2>1. TimerGoto("button", "run", NoTimer)
        /\ UNCHANGED <<server, ReloadValue, IsRunning, IsReloadStopped, due, relinked>>
    BY <1>9 DEF ButtonEnter
  <2>2. "button" \in Context
    BY DEF Context
  <2>3. /\ pc' \in [Context -> Label]
        /\ object' \in [Context -> Timer \cup {NoTimer}]
    BY <2>1, <2>2, GotoTypes
  <2> QED BY <2>1, <2>2, <2>3, <1>0, RestSteps
<1>10. CASE IRQ_Handler
  BY <1>10, HandlerServes
<1>11. CASE Tick
  BY <1>11, TickServes
<1>12. CASE UNCHANGED timerVars
  <2>1. UNCHANGED <<server, IsRunning, IsReloadStopped, due, relinked>> /\ UNCHANGED <<ReloadValue, pc, object>>
    BY <1>12 DEF timerVars, server
  <2>2. "main" \in Context
    BY DEF Context
  <2> QED BY <2>1, <2>2, <1>0, RestSteps
<1> QED BY <1>2, <1>3, <1>4, <1>5, <1>6, <1>7, <1>8, <1>9, <1>10, <1>11, <1>12
        DEF TimersNext, TimerCall, Continue

(* Every variable keeps its type, whatever contexts call, in whatever order.*)
THEOREM TimerServerTypes == TimersSpec => []TimersTypeOK
<1>1. TimersInit => TimersTypeOK /\ Served
  BY ServedInit
<1>2. TimersTypeOK /\ Served /\ [TimersNext]_timerVars => (TimersTypeOK /\ Served)'
  BY ServedStep
<1> QED BY <1>1, <1>2, PTL DEF TimersSpec

(* TimersAreServed: every timer that runs is linked, once, has the alarm on *)
(* its way to it, is the one its interrupt calls, and is never later than a *)
(* minimum timeout and a latency for each timer there is.                   *)
THEOREM TimerServerServes == TimersSpec => []TimersAreServed
<1>1. TimersInit => TimersTypeOK /\ Served
  BY ServedInit
<1>2. TimersTypeOK /\ Served /\ [TimersNext]_timerVars => (TimersTypeOK /\ Served)'
  BY ServedStep
<1>3. TimersTypeOK /\ Served => TimersAreServed
  <2> SUFFICES ASSUME TimersTypeOK, Served PROVE TimersAreServed
    OBVIOUS
  <2>1. /\ WellFormed(Server) /\ Armed(Server)
        /\ Server.list = list /\ Server.Timestamp = Timestamp /\ Server.IsPending = IsPending
        /\ Server.elapsed = elapsed /\ Server.alarm = alarm /\ Server.irq = irq
    BY DEF Served, Server
  <2>2. ListHoldsRunningTimers
    BY <2>1 DEF ListHoldsRunningTimers, Served, WellFormed, Injective
  <2>3. AlarmServesHead
    <3> SUFFICES ASSUME list # <<>>
                 PROVE  /\ IsPending[list[1]] /\ alarm = Timestamp[list[1]]
                        /\ irq <=> elapsed >= alarm
      BY DEF AlarmServesHead
    <3>1. list[1] \in Timer
      BY <2>1, FirstPlace
    <3>2. HeadServed(Server) /\ IsPending = [u \in Timer |-> list # <<>> /\ u = list[1]]
      BY <2>1 DEF Armed
    <3> QED BY <2>1, <3>1, <3>2 DEF HeadServed, Stamp
  <2>4. FirstExpiredIsHead
    BY <2>1, HeadExpires DEF FirstExpiredIsHead
  <2> QED BY <2>2, <2>3, <2>4 DEF TimersAreServed, Served
<1> QED BY <1>1, <1>2, <1>3, PTL DEF TimersSpec

(* NeverEarly: the callback of a timer is called when its period is over,   *)
(* not before, whatever was re-based, stopped or re-armed meanwhile.        *)
THEOREM TimerServerNeverEarly == TimersSpec => NeverEarly
<1>1. TimersInit => TimersTypeOK /\ Served
  BY ServedInit
<1>2. TimersTypeOK /\ Served /\ [TimersNext]_timerVars => (TimersTypeOK /\ Served)'
  BY ServedStep
<1>3. TimersTypeOK /\ Served /\ [TimersNext]_timerVars
      => [IRQ_Handler => \/ FirstExpired(Server) = NoTimer
                         \/ due[FirstExpired(Server)] <= 0]_timerVars
  <2> SUFFICES ASSUME TimersTypeOK, Served, IRQ_Handler
               PROVE  due[FirstExpired(Server)] <= 0
    OBVIOUS
  <2>1. due \in Due /\ Good(Server, due) /\ Server.irq
    BY Types DEF RestOK, Served, Good, IRQ_Handler, Executes, Server
  <2> QED BY <2>1, FirstIsHead
<1> QED BY <1>1, <1>2, <1>3, PTL DEF TimersSpec, NeverEarly

=============================================================================
