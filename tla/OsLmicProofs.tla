---------------------------- MODULE OsLmicProofs ----------------------------
(* Proofs about OsLmic.                                                    *)
EXTENDS OsLmic, TLAPS, SequenceTheorems, WellFoundedInduction

(* A set of positive integers with a member up to n has a least member.    *)
LEMMA LeastNat ==
  ASSUME NEW S, S \subseteq Nat, S # {}
  PROVE  \E n \in S : \A m \in S : n <= m
<1> DEFINE R == {ss \in Nat \X Nat : ss[1] < ss[2]}
<1>0. IsWellFoundedOn(R, Nat)
  <2>1. R = OpToRel(<, Nat)
    BY DEF OpToRel
  <2>2. QED BY <2>1, NatLessThanWellFounded
<1>1. \A m, n \in Nat : <<m, n>> \in R <=> m < n
  OBVIOUS
<1> HIDE DEF R
<1>2. \E n \in S : \A m \in S : ~ (<<m, n>> \in R)
  BY <1>0, WFMin
<1>3. PICK n \in S : \A m \in S : ~ (<<m, n>> \in R)
  BY <1>2
<1>4. ASSUME NEW m \in S
      PROVE  n <= m
  <2>1. m \in Nat /\ n \in Nat
    OBVIOUS
  <2>2. ~ (m < n)
    BY <2>1, <1>3, <1>1
  <2>3. QED BY <2>1, <2>2
<1>5. QED BY <1>4

(* IndexOf finds a job of the list.                                        *)
LEMMA IndexOfProps ==
  ASSUME NEW q \in Seq(Jobs), NEW j \in ToSet(q)
  PROVE  IndexOf(q, j) \in 1..Len(q) /\ q[IndexOf(q, j)] = j
BY DEF IndexOf, ToSet

(* What RemoveAt of the community modules returns: one element is missing, *)
(* those behind it move up by one.                                         *)
LEMMA RemoveAtProps ==
  ASSUME NEW q \in Seq(Jobs), NEW i \in 1..Len(q)
  PROVE  /\ RemoveAt(q, i) \in Seq(Jobs)
         /\ Len(RemoveAt(q, i)) = Len(q) - 1
         /\ \A k \in 1..(Len(q) - 1) :
              RemoveAt(q, i)[k] = IF k < i THEN q[k] ELSE q[k + 1]
<1> DEFINE a == SubSeq(q, 1, i - 1)
           b == SubSeq(q, i + 1, Len(q))
<1>1. /\ a \in Seq(Jobs) /\ Len(a) = i - 1
      /\ \A k \in 1..(i - 1) : a[k] = q[k]
  BY SubSeqProperties, ElementOfSeq, LenProperties
<1>2. /\ b \in Seq(Jobs) /\ Len(b) = Len(q) - i
      /\ \A k \in 1..(Len(q) - i) : b[k] = q[k + i]
  BY SubSeqProperties, ElementOfSeq, LenProperties
<1>3. RemoveAt(q, i) = a \o b
  BY DEF RemoveAt
<1> HIDE DEF a, b
<1>4. Len(q) \in Nat
  BY LenProperties
<1>5. /\ a \o b \in Seq(Jobs)
      /\ Len(a \o b) = Len(a) + Len(b)
      /\ \A k \in 1..(Len(a) + Len(b)) :
           (a \o b)[k] = IF k <= Len(a) THEN a[k] ELSE b[k - Len(a)]
  BY <1>1, <1>2, ConcatProperties
<1>6. ASSUME NEW k \in 1..(Len(q) - 1)
      PROVE  RemoveAt(q, i)[k] = IF k < i THEN q[k] ELSE q[k + 1]
  <2>1. CASE k < i
    BY <2>1, <1>1, <1>2, <1>3, <1>4, <1>5
  <2>2. CASE ~(k < i)
    <3>1. k - (i - 1) \in 1..(Len(q) - i)
      BY <2>2, <1>4
    <3>2. b[k - (i - 1)] = q[(k - (i - 1)) + i]
      BY <3>1, <1>2
    <3>3. QED BY <2>2, <3>1, <3>2, <1>1, <1>2, <1>3, <1>4, <1>5
  <2>3. QED BY <2>1, <2>2
<1>7. QED BY <1>1, <1>2, <1>3, <1>4, <1>5, <1>6

(* The queue without a job: its elements, its order.                       *)
Subsequence(u, q) ==
  \A i, k \in DOMAIN u : i < k =>
    \E a, b \in DOMAIN q : a < b /\ u[i] = q[a] /\ u[k] = q[b]

(* unlinkjob takes the job out of the list, once and for all, and keeps    *)
(* the order of the others.                                                *)
LEMMA UnlinkProps ==
  ASSUME NEW q \in Seq(Jobs), Distinct(q), NEW j \in Jobs
  PROVE  /\ Unlink(q, j) \in Seq(Jobs)
         /\ Distinct(Unlink(q, j))
         /\ ToSet(Unlink(q, j)) = ToSet(q) \ {j}
         /\ Subsequence(Unlink(q, j), q)
<1>1. CASE j \notin ToSet(q)
  BY <1>1 DEF Unlink, Subsequence
<1>2. CASE j \in ToSet(q)
  <2> DEFINE n == IndexOf(q, j)
             u == RemoveAt(q, n)
  <2>1. n \in 1..Len(q) /\ q[n] = j
    BY <1>2, IndexOfProps
  <2>2. Unlink(q, j) = u
    BY <1>2 DEF Unlink
  <2>3. /\ Len(q) \in Nat /\ DOMAIN q = 1..Len(q)
        /\ \A i \in 1..Len(q) : q[i] \in Jobs
    BY LenProperties, ElementOfSeq
  <2> HIDE DEF n
  <2>4. /\ u \in Seq(Jobs)
        /\ Len(u) = Len(q) - 1
        /\ \A k \in 1..(Len(q) - 1) : u[k] = IF k < n THEN q[k] ELSE q[k + 1]
    BY <2>1, RemoveAtProps
  <2> HIDE DEF u
  <2>5. DOMAIN u = 1..(Len(q) - 1)
    BY <2>4, LenProperties
  <2>6. Distinct(u)
    <3> SUFFICES ASSUME NEW i \in DOMAIN u, NEW k \in DOMAIN u, u[i] = u[k]
                 PROVE  i = k
      BY DEF Distinct
    <3> DEFINE a == IF i < n THEN i ELSE i + 1
               b == IF k < n THEN k ELSE k + 1
    <3>1. a \in DOMAIN q /\ b \in DOMAIN q
      BY <2>1, <2>3, <2>5
    <3>2. q[a] = q[b]
      BY <2>4, <2>5
    <3>3. a = b
      BY <3>1, <3>2 DEF Distinct
    <3>4. QED BY <3>3, <2>1, <2>3, <2>5
  <2>7. ToSet(u) \subseteq ToSet(q) \ {j}
    BY <2>1, <2>3, <2>4, <2>5 DEF ToSet, Distinct
  <2>8. ASSUME NEW i \in 1..Len(q), q[i] # j
        PROVE  q[i] \in ToSet(u)
    <3>1. CASE i < n
      BY <3>1, <2>1, <2>3, <2>4, <2>5 DEF ToSet
    <3>2. CASE i > n
      <4>1. i - 1 \in DOMAIN u /\ u[i - 1] = q[i]
        BY <3>2, <2>1, <2>3, <2>4, <2>5
      <4>2. QED BY <4>1 DEF ToSet
    <3>3. QED BY <3>1, <3>2, <2>1, <2>3, <2>8
  <2>9. Subsequence(u, q)
    <3> SUFFICES ASSUME NEW i \in DOMAIN u, NEW k \in DOMAIN u, i < k
                 PROVE  \E a, b \in DOMAIN q :
                          a < b /\ u[i] = q[a] /\ u[k] = q[b]
      BY DEF Subsequence
    <3> DEFINE a == IF i < n THEN i ELSE i + 1
               b == IF k < n THEN k ELSE k + 1
    <3>1. a \in DOMAIN q /\ b \in DOMAIN q /\ a < b
      BY <2>1, <2>3, <2>5
    <3>2. u[i] = q[a] /\ u[k] = q[b]
      BY <2>4, <2>5
    <3>3. QED BY <3>1, <3>2
  <2>10. ToSet(q) \ {j} \subseteq ToSet(u)
    BY <2>3, <2>8 DEF ToSet
  <2>11. QED BY <2>2, <2>4, <2>6, <2>7, <2>9, <2>10
<1>3. QED BY <1>1, <1>2

(* Taking the head of a list, as os_runloop_once does, removes that job.   *)
LEMMA TailProps ==
  ASSUME NEW q \in Seq(Jobs), Distinct(q), q # <<>>
  PROVE  /\ Head(q) \in ToSet(q)
         /\ Head(q) \in Jobs
         /\ Tail(q) \in Seq(Jobs)
         /\ Distinct(Tail(q))
         /\ ToSet(Tail(q)) = ToSet(q) \ {Head(q)}
         /\ Subsequence(Tail(q), q)
<1> DEFINE u == Tail(q)
<1>1. /\ Len(q) \in Nat \ {0} /\ DOMAIN q = 1..Len(q)
      /\ Head(q) = q[1]
      /\ \A i \in 1..Len(q) : q[i] \in Jobs
  BY LenProperties, EmptySeq, ElementOfSeq
<1>2. /\ u \in Seq(Jobs) /\ Len(u) = Len(q) - 1
      /\ \A i \in 1..(Len(q) - 1) : u[i] = q[i + 1]
      /\ DOMAIN u = 1..(Len(q) - 1)
  BY <1>1, HeadTailProperties, LenProperties
<1> HIDE DEF u
<1>3. Distinct(u)
  <2> SUFFICES ASSUME NEW i \in DOMAIN u, NEW k \in DOMAIN u, u[i] = u[k]
               PROVE  i = k
    BY DEF Distinct
  <2>1. i + 1 \in DOMAIN q /\ k + 1 \in DOMAIN q /\ q[i + 1] = q[k + 1]
    BY <1>1, <1>2
  <2>2. i + 1 = k + 1
    BY <2>1 DEF Distinct
  <2>3. QED BY <2>2, <1>2
<1>4. ToSet(u) \subseteq ToSet(q) \ {Head(q)}
  BY <1>1, <1>2 DEF ToSet, Distinct
<1>5. ASSUME NEW i \in 1..Len(q), q[i] # Head(q)
      PROVE  q[i] \in ToSet(u)
  <2>1. i - 1 \in DOMAIN u /\ u[i - 1] = q[i]
    BY <1>1, <1>2, <1>5
  <2>2. QED BY <2>1 DEF ToSet
<1>6. Subsequence(u, q)
  <2> SUFFICES ASSUME NEW i \in DOMAIN u, NEW k \in DOMAIN u, i < k
               PROVE  \E a, b \in DOMAIN q :
                        a < b /\ u[i] = q[a] /\ u[k] = q[b]
    BY DEF Subsequence
  <2>1. i + 1 \in DOMAIN q /\ k + 1 \in DOMAIN q /\ i + 1 < k + 1
    BY <1>1, <1>2
  <2>2. u[i] = q[i + 1] /\ u[k] = q[k + 1]
    BY <1>2
  <2>3. QED BY <2>1, <2>2
<1>7. ToSet(q) \ {Head(q)} \subseteq ToSet(u)
  BY <1>1, <1>5 DEF ToSet
<1>8. Head(q) \in ToSet(q) /\ Head(q) \in Jobs
  BY <1>1 DEF ToSet
<1>9. ToSet(u) = ToSet(q) \ {Head(q)}
  BY <1>4, <1>7
<1>10. QED BY <1>2, <1>3, <1>6, <1>8, <1>9 DEF u

(* Appending a job that is not in the list keeps every job once.           *)
LEMMA AppendProps ==
  ASSUME NEW q \in Seq(Jobs), Distinct(q), NEW j \in Jobs, j \notin ToSet(q)
  PROVE  /\ Append(q, j) \in Seq(Jobs)
         /\ Distinct(Append(q, j))
         /\ ToSet(Append(q, j)) = ToSet(q) \union {j}
<1> DEFINE r == Append(q, j)
<1>1. Len(q) \in Nat /\ DOMAIN q = 1..Len(q)
  BY LenProperties
<1>2. /\ r \in Seq(Jobs) /\ Len(r) = Len(q) + 1
      /\ \A i \in 1..Len(q) : r[i] = q[i]
      /\ r[Len(q) + 1] = j
      /\ DOMAIN r = 1..(Len(q) + 1)
  BY AppendProperties, LenProperties
<1> HIDE DEF r
<1>3. Distinct(r)
  BY <1>1, <1>2 DEF Distinct, ToSet
<1>4. ToSet(r) = ToSet(q) \union {j}
  BY <1>1, <1>2 DEF ToSet
<1>5. QED BY <1>2, <1>3, <1>4 DEF r

(* What InsertAt of the community modules returns: the elements from the   *)
(* position on move down by one.                                           *)
LEMMA InsertAtProps ==
  ASSUME NEW q \in Seq(Jobs), NEW n \in 1..(Len(q) + 1), NEW j \in Jobs
  PROVE  /\ InsertAt(q, n, j) \in Seq(Jobs)
         /\ DOMAIN InsertAt(q, n, j) = 1..(Len(q) + 1)
         /\ \A k \in 1..(Len(q) + 1) :
              InsertAt(q, n, j)[k] = IF k < n THEN q[k]
                                     ELSE IF k = n THEN j ELSE q[k - 1]
<1> DEFINE a == SubSeq(q, 1, n - 1)
           b == SubSeq(q, n, Len(q))
           aj == a \o <<j>>
           r == aj \o b
<1>1. Len(q) \in Nat
  BY LenProperties
<1>2. /\ a \in Seq(Jobs) /\ Len(a) = n - 1
      /\ \A k \in 1..(n - 1) : a[k] = q[k]
  BY <1>1, SubSeqProperties, ElementOfSeq
<1>3. /\ b \in Seq(Jobs) /\ Len(b) = Len(q) - n + 1
      /\ \A k \in 1..(Len(q) - n + 1) : b[k] = q[k + n - 1]
  BY <1>1, SubSeqProperties, ElementOfSeq
<1>4. <<j>> \in Seq(Jobs) /\ Len(<<j>>) = 1 /\ <<j>>[1] = j
  OBVIOUS
<1>5. InsertAt(q, n, j) = r
  BY DEF InsertAt
<1> HIDE DEF a, b
<1>6. /\ aj \in Seq(Jobs) /\ Len(aj) = n
      /\ \A k \in 1..n : aj[k] = IF k < n THEN q[k] ELSE j
  <2>1. /\ aj \in Seq(Jobs) /\ Len(aj) = Len(a) + 1
        /\ \A k \in 1..(Len(a) + 1) :
             aj[k] = IF k <= Len(a) THEN a[k] ELSE <<j>>[k - Len(a)]
    BY <1>2, <1>4, ConcatProperties
  <2>2. QED BY <2>1, <1>2, <1>4
<1> HIDE DEF aj
<1>7. /\ r \in Seq(Jobs) /\ Len(r) = Len(q) + 1
      /\ \A k \in 1..(Len(q) + 1) : r[k] = IF k <= n THEN aj[k] ELSE b[k - n]
  <2>1. /\ r \in Seq(Jobs) /\ Len(r) = Len(aj) + Len(b)
        /\ \A k \in 1..(Len(aj) + Len(b)) :
             r[k] = IF k <= Len(aj) THEN aj[k] ELSE b[k - Len(aj)]
    BY <1>3, <1>6, ConcatProperties
  <2>2. QED BY <2>1, <1>1, <1>3, <1>6
<1> HIDE DEF r
<1>8. ASSUME NEW k \in 1..(Len(q) + 1)
      PROVE  r[k] = IF k < n THEN q[k] ELSE IF k = n THEN j ELSE q[k - 1]
  <2>1. CASE k <= n
    BY <2>1, <1>1, <1>6, <1>7
  <2>2. CASE k > n
    <3>1. k - n \in 1..(Len(q) - n + 1)
      BY <2>2, <1>1
    <3>2. b[k - n] = q[(k - n) + n - 1]
      BY <3>1, <1>3
    <3>3. QED BY <3>2, <2>2, <1>1, <1>7
  <2>3. QED BY <2>1, <2>2, <1>1
<1>9. QED BY <1>1, <1>5, <1>7, <1>8, LenProperties

(* Inserting a job that is not in the list keeps every job once.           *)
LEMMA InsertDistinct ==
  ASSUME NEW q \in Seq(Jobs), Distinct(q), NEW n \in 1..(Len(q) + 1),
         NEW j \in Jobs, j \notin ToSet(q)
  PROVE  /\ Distinct(InsertAt(q, n, j))
         /\ ToSet(InsertAt(q, n, j)) = ToSet(q) \union {j}
<1> DEFINE r == InsertAt(q, n, j)
<1>1. /\ Len(q) \in Nat /\ DOMAIN q = 1..Len(q)
      /\ \A k \in 1..Len(q) : q[k] # j
  BY LenProperties DEF ToSet
<1>2. /\ DOMAIN r = 1..(Len(q) + 1)
      /\ \A k \in 1..(Len(q) + 1) :
           r[k] = IF k < n THEN q[k] ELSE IF k = n THEN j ELSE q[k - 1]
  BY InsertAtProps
<1> HIDE DEF r
<1>3. Distinct(r)
  <2> SUFFICES ASSUME NEW i \in DOMAIN r, NEW k \in DOMAIN r, r[i] = r[k]
               PROVE  i = k
    BY DEF Distinct
  <2> DEFINE at(x) == IF x < n THEN x ELSE x - 1
  <2>1. \A x \in DOMAIN r : x # n => at(x) \in DOMAIN q /\ r[x] = q[at(x)]
    BY <1>1, <1>2
  <2>2. r[n] = j
    BY <1>1, <1>2
  <2>3. CASE i = n \/ k = n
    BY <2>1, <2>2, <2>3, <1>1
  <2>4. CASE i # n /\ k # n
    <3>1. at(i) = at(k)
      BY <2>1, <2>4 DEF Distinct
    <3>2. QED BY <3>1, <2>4, <1>1, <1>2
  <2>5. QED BY <2>3, <2>4
<1>4. ASSUME NEW i \in DOMAIN r
      PROVE  r[i] \in ToSet(q) \union {j}
  <2>1. CASE i < n
    BY <2>1, <1>1, <1>2 DEF ToSet
  <2>2. CASE i = n
    BY <2>2, <1>1, <1>2
  <2>3. CASE i > n
    <3>1. i - 1 \in DOMAIN q /\ r[i] = q[i - 1]
      BY <2>3, <1>1, <1>2
    <3>2. QED BY <3>1 DEF ToSet
  <2>4. QED BY <2>1, <2>2, <2>3, <1>2
<1>5. ASSUME NEW i \in DOMAIN q
      PROVE  q[i] \in ToSet(r)
  <2>1. CASE i < n
    BY <2>1, <1>1, <1>2 DEF ToSet
  <2>2. CASE ~(i < n)
    <3>1. i + 1 \in DOMAIN r /\ r[i + 1] = q[i]
      BY <2>2, <1>1, <1>2
    <3>2. QED BY <3>1 DEF ToSet
  <2>3. QED BY <2>1, <2>2
<1>6. j \in ToSet(r)
  <2>1. n \in DOMAIN r /\ r[n] = j
    BY <1>1, <1>2
  <2>2. QED BY <2>1 DEF ToSet
<1>7. ToSet(q) \subseteq ToSet(r)
  BY <1>5 DEF ToSet
<1>8. ToSet(r) \subseteq ToSet(q) \union {j}
  BY <1>4 DEF ToSet
<1>9. QED BY <1>3, <1>6, <1>7, <1>8 DEF r

(* The loop of os_setTimedCallback ends, before the first later job or at  *)
(* the end of the list.                                                    *)
LEMMA InsertIndexProps ==
  ASSUME NEW q \in Seq(Jobs), NEW time
  PROVE  /\ InsertIndex(q, time) \in 1..(Len(q) + 1)
         /\ \A i \in 1..(InsertIndex(q, time) - 1) :
              ~Later(deadline[q[i]], time)
         /\ InsertIndex(q, time) <= Len(q) =>
              Later(deadline[q[InsertIndex(q, time)]], time)
<1> DEFINE S == {n \in 1..(Len(q) + 1) :
                   n <= Len(q) => Later(deadline[q[n]], time)}
<1>1. Len(q) \in Nat
  BY LenProperties
<1>2. S \subseteq Nat /\ Len(q) + 1 \in S
  BY <1>1
<1>3. PICK n \in S : \A m \in S : n <= m
  BY <1>2, LeastNat
<1>4. n \in 1..(Len(q) + 1) /\ (n <= Len(q) => Later(deadline[q[n]], time))
  OBVIOUS
<1>5. ASSUME NEW i \in 1..(n - 1)
      PROVE  ~Later(deadline[q[i]], time)
  <2>1. i \in 1..(Len(q) + 1) /\ i <= Len(q) /\ ~(n <= i)
    BY <1>1, <1>4
  <2>2. i \notin S
    BY <1>3, <2>1
  <2>3. QED BY <2>1, <2>2
<1>6. \E m \in 1..(Len(q) + 1) :
        /\ \A i \in 1..(m - 1) : ~Later(deadline[q[i]], time)
        /\ m <= Len(q) => Later(deadline[q[m]], time)
  BY <1>4, <1>5
<1>7. QED BY <1>6 DEF InsertIndex
-----------------------------------------------------------------------------
(* The inductive invariants.                                               *)

(* What the run loop knows of the job it has taken.                        *)
LoopState ==
  /\ pc = "loop" => job = NoJob /\ running = NoCallback
  /\ pc = "picked" => running = NoCallback
  /\ pc = "called" => (job = NoJob <=> running = NoCallback)

QueueInv == TypeOK /\ QueuedOnce /\ LoopState

(* Every timed job is within the window, so that differences of deadlines  *)
(* do not overflow.                                                        *)
Relative(time) == Wrap(time - now)
DeadlinesInWindow ==
  \A j \in ToSet(scheduledjobs) :
    Relative(deadline[j]) \in (-MaxLate)..MaxAhead

ScheduleInv == QueueInv /\ DeadlinesInWindow /\ SortedSchedule

(* The part of Next that calls an os_ function.                            *)
LEMMA ClearedQueues ==
  ASSUME TypeOK, QueuedOnce, NEW j \in Jobs
  PROVE  /\ ScheduledWithout(j) \in Seq(Jobs)
         /\ Distinct(ScheduledWithout(j))
         /\ ToSet(ScheduledWithout(j)) = ToSet(scheduledjobs) \ {j}
         /\ Subsequence(ScheduledWithout(j), scheduledjobs)
         /\ RunnableWithout(j) \in Seq(Jobs)
         /\ Distinct(RunnableWithout(j))
         /\ ToSet(RunnableWithout(j)) = ToSet(runnablejobs) \ {j}
<1>1. /\ scheduledjobs \in Seq(Jobs) /\ runnablejobs \in Seq(Jobs)
      /\ Distinct(scheduledjobs) /\ Distinct(runnablejobs)
      /\ ToSet(scheduledjobs) \cap ToSet(runnablejobs) = {}
  BY DEF TypeOK, QueuedOnce, ToSet
<1>2. /\ ScheduledWithout(j) \in Seq(Jobs)
      /\ Distinct(ScheduledWithout(j))
      /\ ToSet(ScheduledWithout(j)) = ToSet(scheduledjobs) \ {j}
      /\ Subsequence(ScheduledWithout(j), scheduledjobs)
  BY <1>1, UnlinkProps DEF ScheduledWithout
<1>3. CASE j \in ToSet(scheduledjobs)
  BY <1>1, <1>2, <1>3 DEF RunnableWithout
<1>4. CASE j \notin ToSet(scheduledjobs)
  BY <1>1, <1>2, <1>4, UnlinkProps DEF RunnableWithout
<1>5. QED BY <1>2, <1>3, <1>4

(* That no job is in both lists, as a statement about sets.                *)
LEMMA OnceBySets ==
  ASSUME NEW s, NEW r
  PROVE  (\A i \in DOMAIN s, k \in DOMAIN r : s[i] # r[k])
           <=> ToSet(s) \cap ToSet(r) = {}
BY DEF ToSet

(* The clock and the deadlines stay 32 bit values.                         *)
LEMMA WrapType ==
  ASSUME NEW a \in Ticks, NEW d \in (-HalfRange)..HalfRange
  PROVE  Wrap(a + d) \in Ticks
BY HalfRangeAssumption DEF Wrap, Ticks

(* os_init establishes the invariant of the lists.                         *)
LEMMA QueueInit == Init => QueueInv
<1>1. <<>> \in Seq(Jobs) /\ DOMAIN <<>> = {}
  OBVIOUS
<1>2. QED
  BY <1>1, HalfRangeAssumption
  DEF Init, QueueInv, TypeOK, QueuedOnce, Distinct, LoopState, Ticks

(* Each os_ function keeps the lists well typed and disjoint.              *)
LEMMA ClearKeepsQueues ==
  ASSUME QueueInv, NEW j \in Jobs, os_clearCallback(j),
         UNCHANGED <<now, pc, job, running>>
  PROVE  /\ QueueInv'
         /\ ToSet(scheduledjobs') = ToSet(scheduledjobs) \ {j}
         /\ ToSet(runnablejobs') = ToSet(runnablejobs) \ {j}
         /\ Subsequence(scheduledjobs', scheduledjobs)
<1>1. TypeOK /\ QueuedOnce /\ LoopState
  BY DEF QueueInv
<1>2. /\ scheduledjobs' = ScheduledWithout(j)
      /\ runnablejobs' = RunnableWithout(j)
      /\ UNCHANGED <<deadline, func, now, pc, job, running>>
  BY DEF os_clearCallback
<1>3. /\ ToSet(scheduledjobs') = ToSet(scheduledjobs) \ {j}
      /\ ToSet(runnablejobs') = ToSet(runnablejobs) \ {j}
      /\ scheduledjobs' \in Seq(Jobs) /\ Distinct(scheduledjobs')
      /\ runnablejobs' \in Seq(Jobs) /\ Distinct(runnablejobs')
      /\ Subsequence(scheduledjobs', scheduledjobs)
  BY <1>1, <1>2, ClearedQueues
<1>4. TypeOK'
  BY <1>1, <1>2, <1>3 DEF TypeOK
<1>5. QueuedOnce'
  BY <1>1, <1>3, OnceBySets DEF QueuedOnce
<1>6. LoopState'
  BY <1>1, <1>2 DEF LoopState
<1>7. QED BY <1>3, <1>4, <1>5, <1>6 DEF QueueInv

(* os_setCallback: the job is unlinked before it is appended.              *)
LEMMA SetKeepsQueues ==
  ASSUME QueueInv, NEW j \in Jobs, NEW cb \in Callbacks, os_setCallback(j, cb),
         UNCHANGED <<now, pc, job, running>>
  PROVE  /\ QueueInv'
         /\ ToSet(scheduledjobs') = ToSet(scheduledjobs) \ {j}
         /\ ToSet(runnablejobs') = ToSet(runnablejobs) \union {j}
         /\ Subsequence(scheduledjobs', scheduledjobs)
<1>1. TypeOK /\ QueuedOnce /\ LoopState
  BY DEF QueueInv
<1>2. /\ scheduledjobs' = ScheduledWithout(j)
      /\ runnablejobs' = Append(RunnableWithout(j), j)
      /\ func' = [func EXCEPT ![j] = cb]
      /\ UNCHANGED <<deadline, now, pc, job, running>>
  BY DEF os_setCallback
<1>3. /\ ToSet(scheduledjobs') = ToSet(scheduledjobs) \ {j}
      /\ scheduledjobs' \in Seq(Jobs) /\ Distinct(scheduledjobs')
      /\ Subsequence(scheduledjobs', scheduledjobs)
  BY <1>1, <1>2, ClearedQueues
<1>4. /\ ToSet(runnablejobs') = ToSet(runnablejobs) \union {j}
      /\ runnablejobs' \in Seq(Jobs) /\ Distinct(runnablejobs')
  <2>1. /\ RunnableWithout(j) \in Seq(Jobs) /\ Distinct(RunnableWithout(j))
        /\ ToSet(RunnableWithout(j)) = ToSet(runnablejobs) \ {j}
    BY <1>1, ClearedQueues
  <2>2. QED BY <2>1, <1>2, AppendProps
<1>5. TypeOK'
  BY <1>1, <1>2, <1>3, <1>4 DEF TypeOK
<1>6. QueuedOnce'
  BY <1>1, <1>3, <1>4, OnceBySets DEF QueuedOnce
<1>7. LoopState'
  BY <1>1, <1>2 DEF LoopState
<1>8. QED BY <1>3, <1>4, <1>5, <1>6, <1>7 DEF QueueInv

(* os_setTimedCallback: the job is unlinked before it is inserted.         *)
LEMMA TimedKeepsQueues ==
  ASSUME QueueInv, NEW j \in Jobs, NEW cb \in Callbacks, NEW time \in Ticks,
         os_setTimedCallback(j, time, cb), UNCHANGED <<now, pc, job, running>>
  PROVE  /\ QueueInv'
         /\ ToSet(scheduledjobs') = ToSet(scheduledjobs) \union {j}
         /\ ToSet(runnablejobs') = ToSet(runnablejobs) \ {j}
<1> DEFINE rest == ScheduledWithout(j)
           n == InsertIndex(rest, time)
<1>1. TypeOK /\ QueuedOnce /\ LoopState
  BY DEF QueueInv
<1>2. /\ scheduledjobs' = InsertAt(rest, n, j)
      /\ runnablejobs' = RunnableWithout(j)
      /\ deadline' = [deadline EXCEPT ![j] = time]
      /\ func' = [func EXCEPT ![j] = cb]
      /\ UNCHANGED <<now, pc, job, running>>
  BY DEF os_setTimedCallback
<1>3. /\ rest \in Seq(Jobs) /\ Distinct(rest)
      /\ ToSet(rest) = ToSet(scheduledjobs) \ {j}
      /\ runnablejobs' \in Seq(Jobs) /\ Distinct(runnablejobs')
      /\ ToSet(runnablejobs') = ToSet(runnablejobs) \ {j}
  BY <1>1, <1>2, ClearedQueues
<1> HIDE DEF rest
<1>4. n \in 1..(Len(rest) + 1)
  BY <1>3, InsertIndexProps
<1> HIDE DEF n
<1>5. /\ scheduledjobs' \in Seq(Jobs) /\ Distinct(scheduledjobs')
      /\ ToSet(scheduledjobs') = ToSet(scheduledjobs) \union {j}
  BY <1>2, <1>3, <1>4, InsertAtProps, InsertDistinct
<1>6. TypeOK'
  BY <1>1, <1>2, <1>3, <1>5 DEF TypeOK
<1>7. QueuedOnce'
  <2>1. ToSet(runnablejobs') \cap ToSet(scheduledjobs') = {}
    <3>1. ToSet(runnablejobs) \cap ToSet(scheduledjobs) = {}
      BY <1>1, OnceBySets DEF QueuedOnce
    <3>2. QED BY <1>3, <1>5, <3>1
  <2>2. QED BY <1>3, <1>5, <2>1, OnceBySets DEF QueuedOnce
<1>8. LoopState'
  BY <1>1, <1>2 DEF LoopState
<1>9. QED BY <1>3, <1>5, <1>6, <1>7, <1>8 DEF QueueInv

(* The run loop takes the head of one list or nothing.                     *)
LEMMA PickKeepsQueues ==
  ASSUME QueueInv, Pick
  PROVE  /\ QueueInv'
         /\ Subsequence(scheduledjobs', scheduledjobs)
         /\ ToSet(scheduledjobs') \subseteq ToSet(scheduledjobs)
<1>1. TypeOK /\ QueuedOnce /\ LoopState
  BY DEF QueueInv
<1>2. /\ pc = "loop" /\ pc' = "picked"
      /\ UNCHANGED <<deadline, func, now, running>>
  BY DEF Pick
<1>3. /\ scheduledjobs \in Seq(Jobs) /\ Distinct(scheduledjobs)
      /\ runnablejobs \in Seq(Jobs) /\ Distinct(runnablejobs)
      /\ ToSet(scheduledjobs) \cap ToSet(runnablejobs) = {}
  BY <1>1, OnceBySets DEF TypeOK, QueuedOnce
<1>4. Subsequence(scheduledjobs, scheduledjobs)
  BY DEF Subsequence
<1>5. CASE PickRunnable
  <2>1. /\ job' \in Jobs /\ scheduledjobs' = scheduledjobs
        /\ runnablejobs' \in Seq(Jobs) /\ Distinct(runnablejobs')
        /\ ToSet(runnablejobs') \subseteq ToSet(runnablejobs)
    BY <1>3, <1>5, TailProps DEF PickRunnable
  <2>2. TypeOK'
    BY <1>1, <1>2, <2>1 DEF TypeOK
  <2>3. QueuedOnce'
    BY <1>3, <2>1, OnceBySets DEF QueuedOnce
  <2>4. LoopState'
    BY <1>1, <1>2 DEF LoopState
  <2>5. QED BY <1>4, <2>1, <2>2, <2>3, <2>4 DEF QueueInv
<1>6. CASE PickTimed
  <2>1. /\ job' \in Jobs /\ runnablejobs' = runnablejobs
        /\ scheduledjobs' \in Seq(Jobs) /\ Distinct(scheduledjobs')
        /\ ToSet(scheduledjobs') \subseteq ToSet(scheduledjobs)
        /\ Subsequence(scheduledjobs', scheduledjobs)
    BY <1>3, <1>6, TailProps DEF PickTimed
  <2>2. TypeOK'
    BY <1>1, <1>2, <2>1 DEF TypeOK
  <2>3. QueuedOnce'
    BY <1>3, <2>1, OnceBySets DEF QueuedOnce
  <2>4. LoopState'
    BY <1>1, <1>2 DEF LoopState
  <2>5. QED BY <2>1, <2>2, <2>3, <2>4 DEF QueueInv
<1>7. CASE PickNothing
  <2>1. job' = NoJob /\ UNCHANGED <<scheduledjobs, runnablejobs>>
    BY <1>7 DEF PickNothing
  <2>2. TypeOK' /\ QueuedOnce' /\ LoopState'
    BY <1>1, <1>2, <2>1 DEF TypeOK, QueuedOnce, Distinct, LoopState
  <2>3. QED BY <1>4, <2>1, <2>2 DEF QueueInv
<1>8. QED BY <1>5, <1>6, <1>7 DEF Pick

(* Calling a job and returning from it touch no list.                      *)
LEMMA CallReturnKeepQueues ==
  ASSUME QueueInv, Call \/ Return
  PROVE  QueueInv' /\ UNCHANGED <<scheduledjobs, deadline, now>>
<1>1. TypeOK /\ QueuedOnce /\ LoopState
  BY DEF QueueInv
<1>2. CASE Call
  <2>1. TypeOK' /\ QueuedOnce'
    BY <1>1, <1>2 DEF Call, TypeOK, QueuedOnce, Distinct
  <2>2. LoopState'
    <3>1. CASE job = NoJob
      BY <3>1, <1>1, <1>2 DEF Call, LoopState
    <3>2. CASE job # NoJob
      <4>1. running' \in Callbacks
        BY <3>2, <1>1, <1>2 DEF Call, TypeOK
      <4>2. QED BY <4>1, <3>2, <1>2, CallbacksAssumption DEF Call, LoopState
    <3>3. QED BY <3>1, <3>2
  <2>3. QED BY <2>1, <2>2, <1>2 DEF Call, QueueInv
<1>3. CASE Return
  <2>1. TypeOK' /\ QueuedOnce' /\ LoopState'
    BY <1>1, <1>3 DEF Return, TypeOK, QueuedOnce, Distinct, LoopState
  <2>2. QED BY <2>1, <1>3 DEF Return, QueueInv
<1>4. QED BY <1>2, <1>3

(* The clock touches no list and stays within ostime_t.                    *)
LEMMA TickKeepsQueues ==
  ASSUME QueueInv, Tick
  PROVE  QueueInv'
<1>1. TypeOK /\ QueuedOnce /\ LoopState
  BY DEF QueueInv
<1>2. /\ now' = Wrap(now + 1)
      /\ UNCHANGED <<scheduledjobs, runnablejobs, deadline, func, pc, job, running>>
  BY DEF Tick
<1>3. now' \in Ticks
  BY <1>1, <1>2, WrapType, HalfRangeAssumption DEF TypeOK
<1>4. QED
  BY <1>1, <1>2, <1>3 DEF QueueInv, TypeOK, QueuedOnce, Distinct, LoopState

(* Every step keeps the invariant of the lists.                            *)
LEMMA QueueStep == QueueInv /\ [Next]_vars => QueueInv'
<1> SUFFICES ASSUME QueueInv, [Next]_vars
             PROVE  QueueInv'
  OBVIOUS
<1>1. CASE Pick
  BY <1>1, PickKeepsQueues
<1>2. CASE Call \/ Return
  BY <1>2, CallReturnKeepQueues
<1>3. CASE Tick
  BY <1>3, TickKeepsQueues
<1>4. ASSUME NEW j \in Jobs, ClearCallback(j)
      PROVE  QueueInv'
  BY <1>4, ClearKeepsQueues DEF ClearCallback
<1>5. ASSUME NEW j \in Jobs, NEW cb \in Callbacks, SetCallback(j, cb)
      PROVE  QueueInv'
  BY <1>5, SetKeepsQueues DEF SetCallback
<1>6. ASSUME NEW j \in Jobs, NEW cb \in Callbacks,
             NEW delay \in (-MaxLate)..MaxAhead,
             SetTimedCallback(j, Wrap(now + delay), cb)
      PROVE  QueueInv'
  <2>1. now \in Ticks /\ delay \in (-HalfRange)..HalfRange
    BY WindowAssumption, HalfRangeAssumption DEF QueueInv, TypeOK
  <2>2. Wrap(now + delay) \in Ticks
    BY <2>1, WrapType
  <2>3. QED BY <1>6, <2>2, TimedKeepsQueues DEF SetTimedCallback
<1>7. CASE UNCHANGED vars
  BY <1>7 DEF vars, QueueInv, TypeOK, QueuedOnce, Distinct, LoopState
<1>8. QED BY <1>1, <1>2, <1>3, <1>4, <1>5, <1>6, <1>7 DEF Next

(* Whatever is armed, cleared and run, in any order, the lists stay well   *)
(* formed and the run loop remembers which job it has taken.               *)
THEOREM QueueInvariant == Spec => []QueueInv
BY QueueInit, QueueStep, PTL DEF Spec

(* The state of the scheduler is well typed: the lists hold jobs only, the *)
(* clock and the deadlines stay within ostime_t, whatever its width.       *)
THEOREM TypeCorrect == Spec => []TypeOK
<1>1. QueueInv => TypeOK
  BY DEF QueueInv
<1>2. QED BY <1>1, QueueInvariant, PTL

(* Whatever the callbacks and the interrupt handler arm and clear, no job  *)
(* is linked twice, so both lists stay finite and apart.                   *)
THEOREM EachJobQueuedOnce == Spec => []QueuedOnce
<1>1. QueueInv => QueuedOnce
  BY DEF QueueInv
<1>2. QED BY <1>1, QueueInvariant, PTL
-----------------------------------------------------------------------------
(* The order of the timed jobs.                                            *)
LEMMA WrapDifference ==
  ASSUME NEW a \in Ticks, NEW b \in Ticks, now \in Ticks,
         Relative(a) \in (-MaxLate)..MaxAhead,
         Relative(b) \in (-MaxLate)..MaxAhead
  PROVE  Wrap(a - b) = Relative(a) - Relative(b)
BY WindowAssumption, HalfRangeAssumption DEF Relative, Wrap, Ticks

(* Removing jobs keeps the order and the window.                           *)
LEMMA SubsequenceKeepsSchedule ==
  ASSUME ScheduleInv, Subsequence(scheduledjobs', scheduledjobs),
         ToSet(scheduledjobs') \subseteq ToSet(scheduledjobs),
         UNCHANGED <<deadline, now>>
  PROVE  DeadlinesInWindow' /\ SortedSchedule'
<1>1. DeadlinesInWindow'
  BY DEF ScheduleInv, DeadlinesInWindow, Relative, Wrap
<1>2. SortedSchedule'
  <2> SUFFICES ASSUME NEW i \in DOMAIN scheduledjobs', NEW k \in DOMAIN scheduledjobs',
                      i < k
               PROVE  Wrap(deadline[scheduledjobs'[i]] - deadline[scheduledjobs'[k]]) <= 0
    BY DEF SortedSchedule, Wrap
  <2>1. PICK a, b \in DOMAIN scheduledjobs :
          a < b /\ scheduledjobs'[i] = scheduledjobs[a]
                /\ scheduledjobs'[k] = scheduledjobs[b]
    BY DEF Subsequence
  <2>2. QED BY <2>1 DEF ScheduleInv, SortedSchedule
<1>3. QED BY <1>1, <1>2

(* Inserting before the first later deadline keeps them.                   *)
LEMMA InsertKeepsSchedule ==
  ASSUME CmpWraps, ScheduleInv, NEW j \in Jobs, NEW cb \in Callbacks,
         NEW time \in Ticks, Relative(time) \in (-MaxLate)..MaxAhead,
         os_setTimedCallback(j, time, cb), UNCHANGED now
  PROVE  DeadlinesInWindow' /\ SortedSchedule'
<1> DEFINE rest == ScheduledWithout(j)
           n == InsertIndex(rest, time)
           d(i) == Relative(deadline[rest[i]])
<1>1. TypeOK /\ QueuedOnce /\ DeadlinesInWindow /\ SortedSchedule
  BY DEF ScheduleInv, QueueInv
<1>2. /\ scheduledjobs' = InsertAt(rest, n, j)
      /\ deadline' = [deadline EXCEPT ![j] = time]
      /\ now' = now
  BY DEF os_setTimedCallback
<1>3. /\ rest \in Seq(Jobs) /\ Distinct(rest)
      /\ ToSet(rest) = ToSet(scheduledjobs) \ {j}
      /\ Subsequence(rest, scheduledjobs)
  BY <1>1, ClearedQueues
<1> HIDE DEF rest
<1>4. /\ n \in 1..(Len(rest) + 1)
      /\ \A i \in 1..(n - 1) : ~Later(deadline[rest[i]], time)
      /\ n <= Len(rest) => Later(deadline[rest[n]], time)
  BY <1>3, InsertIndexProps
<1> HIDE DEF n
<1>5. /\ Len(rest) \in Nat /\ DOMAIN rest = 1..Len(rest)
      /\ now \in Ticks /\ deadline \in [Jobs -> Ticks]
  BY <1>1, <1>3, LenProperties DEF TypeOK
<1>6. /\ DOMAIN scheduledjobs' = 1..(Len(rest) + 1)
      /\ \A k \in 1..(Len(rest) + 1) :
           scheduledjobs'[k] = IF k < n THEN rest[k]
                               ELSE IF k = n THEN j ELSE rest[k - 1]
  <2> HIDE DEF d
  <2>1. /\ DOMAIN InsertAt(rest, n, j) = 1..(Len(rest) + 1)
        /\ \A k \in 1..(Len(rest) + 1) :
             InsertAt(rest, n, j)[k] = IF k < n THEN rest[k]
                                       ELSE IF k = n THEN j ELSE rest[k - 1]
    BY <1>3, <1>4, InsertAtProps
  <2>2. QED BY <1>2, <2>1
<1>7. ToSet(scheduledjobs') = ToSet(rest) \union {j}
  BY <1>2, <1>3, <1>4, InsertDistinct
<1>8. ASSUME NEW i \in 1..Len(rest)
      PROVE  /\ rest[i] \in Jobs /\ rest[i] # j
             /\ deadline[rest[i]] \in Ticks
             /\ deadline'[rest[i]] = deadline[rest[i]]
             /\ d(i) \in (-MaxLate)..MaxAhead
  <2>1. rest[i] \in Jobs
    BY <1>3, ElementOfSeq
  <2>2. rest[i] \in ToSet(rest)
    BY <1>5 DEF ToSet
  <2>3. QED BY <2>1, <2>2, <1>1, <1>2, <1>3, <1>5 DEF DeadlinesInWindow
<1>9. DeadlinesInWindow'
  <2> SUFFICES ASSUME NEW x \in ToSet(scheduledjobs')
               PROVE  Wrap(deadline'[x] - now) \in (-MaxLate)..MaxAhead
    BY <1>2 DEF DeadlinesInWindow, Relative, Wrap
  <2>1. CASE x = j
    BY <2>1, <1>2, <1>5 DEF Relative
  <2>2. CASE x # j
    <3>1. x \in ToSet(scheduledjobs)
      BY <2>2, <1>3, <1>7
    <3>2. deadline'[x] = deadline[x]
      BY <2>2, <1>2, <1>5
    <3>3. QED BY <3>1, <3>2, <1>1 DEF DeadlinesInWindow, Relative
  <2>3. QED BY <2>1, <2>2
<1>10. \A i, k \in 1..Len(rest) : i < k => d(i) <= d(k)
  <2> SUFFICES ASSUME NEW i \in 1..Len(rest), NEW k \in 1..Len(rest), i < k
               PROVE  d(i) <= d(k)
    OBVIOUS
  <2>1. PICK a, b \in DOMAIN scheduledjobs :
          a < b /\ rest[i] = scheduledjobs[a] /\ rest[k] = scheduledjobs[b]
    BY <1>3, <1>5 DEF Subsequence
  <2>2. Wrap(deadline[rest[i]] - deadline[rest[k]]) <= 0
    BY <2>1, <1>1 DEF SortedSchedule
  <2>3. Wrap(deadline[rest[i]] - deadline[rest[k]]) = d(i) - d(k)
    BY <1>5, <1>8, WrapDifference
  <2>4. d(i) \in Int /\ d(k) \in Int
    BY <1>8, WindowAssumption
  <2>5. QED BY <2>2, <2>3, <2>4
<1>11. /\ \A i \in 1..(n - 1) : d(i) <= Relative(time)
       /\ \A i \in n..Len(rest) : Relative(time) < d(i)
  <2>1. ASSUME NEW i \in 1..Len(rest)
        PROVE  /\ Later(deadline[rest[i]], time) <=> Relative(time) < d(i)
               /\ d(i) \in Int /\ Relative(time) \in Int
    <3>1. Wrap(deadline[rest[i]] - time) = d(i) - Relative(time)
      BY <1>5, <1>8, WrapDifference
    <3>2. d(i) \in Int /\ Relative(time) \in Int
      BY <1>8, WindowAssumption
    <3>3. QED BY <3>1, <3>2 DEF Later
  <2> HIDE DEF d
  <2>2. ASSUME NEW i \in 1..(n - 1)
        PROVE  d(i) <= Relative(time)
    BY <2>1, <1>4, <1>5
  <2>3. ASSUME NEW i \in n..Len(rest)
        PROVE  Relative(time) < d(i)
    <3>1. n \in 1..Len(rest) /\ Relative(time) < d(n)
      BY <2>1, <1>4, <1>5
    <3>2. d(n) <= d(i) /\ d(i) \in Int /\ d(n) \in Int
      BY <3>1, <2>1, <1>4, <1>5, <1>10
    <3>3. QED BY <3>1, <3>2, <2>1
  <2>4. QED BY <2>2, <2>3
<1>12. SortedSchedule'
  <2> DEFINE e(k) == Relative(deadline'[scheduledjobs'[k]])
             at(k) == IF k < n THEN k ELSE k - 1
  <2> SUFFICES ASSUME NEW i \in DOMAIN scheduledjobs', NEW k \in DOMAIN scheduledjobs',
                      i < k
               PROVE  Wrap(deadline'[scheduledjobs'[i]]
                             - deadline'[scheduledjobs'[k]]) <= 0
    BY DEF SortedSchedule, Wrap
  <2>1. ASSUME NEW x \in DOMAIN scheduledjobs'
        PROVE  /\ e(x) = IF x = n THEN Relative(time) ELSE d(at(x))
               /\ x # n => at(x) \in 1..Len(rest)
               /\ e(x) \in (-MaxLate)..MaxAhead
               /\ deadline'[scheduledjobs'[x]] \in Ticks
    <3>1. CASE x = n
      BY <3>1, <1>2, <1>4, <1>5, <1>6
    <3>2. CASE x # n
      <4>1. at(x) \in 1..Len(rest) /\ scheduledjobs'[x] = rest[at(x)]
        BY <3>2, <1>4, <1>5, <1>6
      <4>2. QED BY <4>1, <3>2, <1>8
    <3>3. QED BY <3>1, <3>2
  <2>2. Wrap(deadline'[scheduledjobs'[i]] - deadline'[scheduledjobs'[k]])
          = e(i) - e(k)
    BY <2>1, <1>5, WrapDifference
  <2>3. e(i) \in Int /\ e(k) \in Int
    BY <2>1, WindowAssumption
  <2> HIDE DEF d, e
  <2>4. e(i) <= e(k)
    <3>1. CASE i = n
      <4>1. at(k) \in n..Len(rest) /\ e(k) = d(at(k)) /\ e(i) = Relative(time)
        BY <3>1, <2>1, <1>4, <1>5, <1>6
      <4>2. QED BY <4>1, <2>3, <1>11
    <3>2. CASE k = n
      <4>1. at(i) \in 1..(n - 1) /\ e(i) = d(at(i)) /\ e(k) = Relative(time)
        BY <3>2, <2>1, <1>4, <1>5, <1>6
      <4>2. QED BY <4>1, <1>11
    <3>3. CASE i # n /\ k # n
      <4>1. /\ at(i) \in 1..Len(rest) /\ at(k) \in 1..Len(rest)
            /\ e(i) = d(at(i)) /\ e(k) = d(at(k))
        BY <3>3, <2>1
      <4>2. at(i) < at(k)
        BY <3>3, <1>4, <1>5, <1>6
      <4>3. QED BY <4>1, <4>2, <1>10
    <3>4. QED BY <3>1, <3>2, <3>3
  <2>5. QED BY <2>2, <2>3, <2>4
<1>13. QED BY <1>9, <1>12

(* The clock keeps every timed job in the window, up to the bound MaxLate, *)
(* and the order with it.                                                  *)
LEMMA TickKeepsSchedule ==
  ASSUME ScheduleInv, Tick
  PROVE  DeadlinesInWindow' /\ SortedSchedule'
<1>1. TypeOK /\ DeadlinesInWindow /\ SortedSchedule
  BY DEF ScheduleInv, QueueInv
<1>2. /\ \A i \in DOMAIN scheduledjobs :
           Wrap(deadline[scheduledjobs[i]] - now) > -MaxLate
      /\ now' = Wrap(now + 1)
      /\ UNCHANGED <<scheduledjobs, deadline>>
  BY DEF Tick
<1>3. ASSUME NEW j \in ToSet(scheduledjobs)
      PROVE  Wrap(deadline[j] - now') \in (-MaxLate)..MaxAhead
  <2>1. j \in Jobs /\ deadline[j] \in Ticks /\ now \in Ticks
    <3>1. PICK i \in DOMAIN scheduledjobs : j = scheduledjobs[i]
      BY DEF ToSet
    <3>2. j \in Jobs
      BY <3>1, <1>1, LenProperties, ElementOfSeq DEF TypeOK
    <3>3. QED BY <3>2, <1>1 DEF TypeOK
  <2>2. Wrap(deadline[j] - now) > -MaxLate
    BY <1>2 DEF ToSet
  <2>3. Wrap(deadline[j] - now) \in (-MaxLate)..MaxAhead
    BY <1>1 DEF DeadlinesInWindow, Relative
  <2>4. QED
    BY <2>1, <2>2, <2>3, <1>2, WindowAssumption, HalfRangeAssumption
    DEF Wrap, Ticks
<1>4. QED
  BY <1>1, <1>2, <1>3 DEF DeadlinesInWindow, Relative, SortedSchedule, Wrap

(* os_init establishes the order: the list is empty.                       *)
LEMMA ScheduleInit == Init => ScheduleInv
<1>1. DOMAIN <<>> = {}
  OBVIOUS
<1>2. QED
  BY <1>1, QueueInit DEF Init, ScheduleInv, DeadlinesInWindow, SortedSchedule, ToSet

(* A job that is armed is armed within the window.                         *)
LEMMA DelayInWindow ==
  ASSUME now \in Ticks, NEW delay \in (-MaxLate)..MaxAhead
  PROVE  /\ Wrap(now + delay) \in Ticks
         /\ Relative(Wrap(now + delay)) \in (-MaxLate)..MaxAhead
BY WindowAssumption, HalfRangeAssumption DEF Wrap, Relative, Ticks

(* Every step keeps the order of the timed jobs, if differences of times   *)
(* wrap.                                                                   *)
LEMMA ScheduleStep ==
  ASSUME CmpWraps, ScheduleInv, [Next]_vars
  PROVE  ScheduleInv'
<1>1. QueueInv /\ QueueInv'
  BY QueueStep DEF ScheduleInv
<1>2. CASE Pick
  BY <1>1, <1>2, PickKeepsQueues, SubsequenceKeepsSchedule DEF Pick, ScheduleInv
<1>3. CASE Call \/ Return
  <2>1. UNCHANGED <<scheduledjobs, deadline, now>>
    BY <1>1, <1>3, CallReturnKeepQueues
  <2>2. QED
    BY <1>1, <2>1 DEF ScheduleInv, DeadlinesInWindow, SortedSchedule, Relative, Wrap
<1>4. CASE Tick
  BY <1>1, <1>4, TickKeepsSchedule DEF ScheduleInv
<1>5. ASSUME NEW j \in Jobs, ClearCallback(j)
      PROVE  ScheduleInv'
  <2>1. /\ Subsequence(scheduledjobs', scheduledjobs)
        /\ ToSet(scheduledjobs') \subseteq ToSet(scheduledjobs)
        /\ UNCHANGED <<deadline, now>>
    BY <1>1, <1>5, ClearKeepsQueues DEF ClearCallback, os_clearCallback
  <2>2. QED BY <1>1, <2>1, SubsequenceKeepsSchedule DEF ScheduleInv
<1>6. ASSUME NEW j \in Jobs, NEW cb \in Callbacks, SetCallback(j, cb)
      PROVE  ScheduleInv'
  <2>1. /\ Subsequence(scheduledjobs', scheduledjobs)
        /\ ToSet(scheduledjobs') \subseteq ToSet(scheduledjobs)
        /\ UNCHANGED <<deadline, now>>
    BY <1>1, <1>6, SetKeepsQueues DEF SetCallback, os_setCallback
  <2>2. QED BY <1>1, <2>1, SubsequenceKeepsSchedule DEF ScheduleInv
<1>7. ASSUME NEW j \in Jobs, NEW cb \in Callbacks,
             NEW delay \in (-MaxLate)..MaxAhead,
             SetTimedCallback(j, Wrap(now + delay), cb)
      PROVE  ScheduleInv'
  <2>1. /\ Wrap(now + delay) \in Ticks
        /\ Relative(Wrap(now + delay)) \in (-MaxLate)..MaxAhead
    BY <1>1, DelayInWindow DEF QueueInv, TypeOK
  <2>2. QED
    BY <1>1, <1>7, <2>1, InsertKeepsSchedule DEF SetTimedCallback, ScheduleInv
<1>8. CASE UNCHANGED vars
  BY <1>1, <1>8
  DEF vars, ScheduleInv, DeadlinesInWindow, SortedSchedule, Relative, Wrap
<1>9. QED BY <1>2, <1>3, <1>4, <1>5, <1>6, <1>7, <1>8 DEF Next

(* Where the build evaluates the difference of two deadlines modulo 2^32,  *)
(* the timed jobs stay ordered by deadline for ever, across every wrap of  *)
(* the clock.                                                              *)
THEOREM ScheduleStaysSorted == ASSUME CmpWraps PROVE Spec => []SortedSchedule
<1>1. Init => ScheduleInv
  BY ScheduleInit
<1>2. ScheduleInv /\ [Next]_vars => ScheduleInv'
  BY ScheduleStep
<1>3. ScheduleInv => SortedSchedule
  BY DEF ScheduleInv
<1>4. QED BY <1>1, <1>2, <1>3, PTL DEF Spec
-----------------------------------------------------------------------------
(* The run loop implements the job service.                                *)
LEMMA ArmedSets ==
  /\ \A j \in Jobs :
       /\ armed[j] = "ready" <=> j \in ToSet(runnablejobs)
       /\ armed[j] = "timed" <=> /\ j \in ToSet(scheduledjobs)
                                 /\ j \notin ToSet(runnablejobs)
       /\ armed[j] = "idle" <=> /\ j \notin ToSet(scheduledjobs)
                                /\ j \notin ToSet(runnablejobs)
  /\ armed = [j \in Jobs |-> armed[j]]
BY DEF armed

(* A step that moves one job only, seen from the service.                  *)
LEMMA ArmedOne ==
  ASSUME NEW j \in Jobs, NEW s \in {"idle", "ready", "timed"},
         ToSet(scheduledjobs') \ {j} = ToSet(scheduledjobs) \ {j},
         ToSet(runnablejobs') \ {j} = ToSet(runnablejobs) \ {j},
         s = "ready" <=> j \in ToSet(runnablejobs'),
         s = "timed" <=> j \in ToSet(scheduledjobs') /\ j \notin ToSet(runnablejobs')
  PROVE  armed' = [armed EXCEPT ![j] = s]
BY DEF armed

(* The two modules mean the same by the difference of two times.           *)
LEMMA DifferenceIsWrap ==
  ASSUME NEW a, NEW b
  PROVE  Service!Difference(a, b) = Wrap(a - b)
BY DEF Service!Difference, Wrap

(* Initially every job is idle.                                            *)
LEMMA ServiceInit == Init => Service!Init
BY HalfRangeAssumption
DEF Init, Service!Init, armed, ToSet, Ticks, Service!Ticks

(* What os_runloop_once takes is a job that is due: a runnable one, or the *)
(* timed one with the earliest deadline when none is runnable; or it takes *)
(* nothing.                                                                *)
LEMMA PickIsTake ==
  ASSUME ScheduleInv, Pick
  PROVE  [Service!Next]_(Service!vars)
<1>1. /\ TypeOK /\ QueuedOnce /\ LoopState /\ SortedSchedule
      /\ pc = "loop" /\ job = NoJob
      /\ UNCHANGED <<deadline, func, now, running>>
  BY DEF ScheduleInv, QueueInv, LoopState, Pick
<1>2. /\ scheduledjobs \in Seq(Jobs) /\ Distinct(scheduledjobs)
      /\ runnablejobs \in Seq(Jobs) /\ Distinct(runnablejobs)
      /\ ToSet(scheduledjobs) \cap ToSet(runnablejobs) = {}
  BY <1>1, OnceBySets DEF TypeOK, QueuedOnce
<1>3. CASE PickRunnable
  <2> DEFINE h == Head(runnablejobs)
  <2>1. /\ h \in Jobs /\ h \in ToSet(runnablejobs) /\ job' = h
        /\ ToSet(runnablejobs') = ToSet(runnablejobs) \ {h}
        /\ scheduledjobs' = scheduledjobs
    BY <1>2, <1>3, TailProps DEF PickRunnable
  <2> HIDE DEF h
  <2>2. armed' = [armed EXCEPT ![h] = "idle"]
    BY <1>2, <2>1, ArmedOne
  <2>3. armed[h] = "ready"
    BY <2>1, ArmedSets
  <2>4. Service!Take(h)
    BY <1>1, <2>1, <2>2, <2>3 DEF Service!Take, Service!Due
  <2>5. QED BY <2>1, <2>4 DEF Service!Next
<1>4. CASE PickTimed
  <2> DEFINE h == Head(scheduledjobs)
  <2>1. /\ h \in Jobs /\ h \in ToSet(scheduledjobs) /\ job' = h
        /\ ToSet(scheduledjobs') = ToSet(scheduledjobs) \ {h}
        /\ runnablejobs' = runnablejobs /\ runnablejobs = <<>>
        /\ Wrap(deadline[h] - now) <= 0
    BY <1>2, <1>4, TailProps DEF PickTimed, Expired
  <2>2. ToSet(runnablejobs) = {}
    BY <2>1 DEF ToSet
  <2>3. h = scheduledjobs[1] /\ 1 \in DOMAIN scheduledjobs
        /\ DOMAIN scheduledjobs = 1..Len(scheduledjobs)
        /\ Len(scheduledjobs) \in Nat
    BY <1>2, <1>4, LenProperties, EmptySeq DEF PickTimed
  <2> HIDE DEF h
  <2>4. armed' = [armed EXCEPT ![h] = "idle"]
    BY <1>2, <2>1, <2>2, ArmedOne
  <2>5. armed[h] = "timed"
    BY <2>1, <2>2, ArmedSets
  <2>6. ASSUME NEW k \in Jobs
        PROVE  /\ armed[k] # "ready"
               /\ armed[k] = "timed" => Wrap(deadline[h] - deadline[k]) <= 0
    <3>1. armed[k] # "ready"
      BY <2>2, ArmedSets
    <3>2. ASSUME armed[k] = "timed"
          PROVE  Wrap(deadline[h] - deadline[k]) <= 0
      <4>1. k \in ToSet(scheduledjobs)
        BY <3>2, ArmedSets
      <4>2. PICK i \in DOMAIN scheduledjobs : k = scheduledjobs[i]
        BY <4>1 DEF ToSet
      <4>3. CASE i = 1
        <5>1. k = h /\ deadline[h] \in Ticks
          BY <4>2, <4>3, <2>1, <2>3, <1>1 DEF TypeOK
        <5>2. QED BY <5>1, HalfRangeAssumption DEF Wrap, Ticks
      <4>4. CASE i # 1
        BY <4>2, <4>4, <2>3, <1>1 DEF SortedSchedule
      <4>5. QED BY <4>3, <4>4
    <3>3. QED BY <3>1, <3>2
  <2>7. Service!Due(h)
    BY <2>1, <2>5, <2>6, DifferenceIsWrap DEF Service!Due
  <2>8. Service!Take(h)
    BY <1>1, <2>1, <2>4, <2>7 DEF Service!Take
  <2>9. QED BY <2>1, <2>8 DEF Service!Next
<1>5. CASE PickNothing
  BY <1>1, <1>5 DEF PickNothing, armed, Service!vars
<1>6. QED BY <1>3, <1>4, <1>5 DEF Pick

(* Calling the job and returning from it are the steps of the service, or  *)
(* stutter when no job was taken.                                          *)
LEMMA CallReturnAreRunFinish ==
  ASSUME ScheduleInv, Call \/ Return
  PROVE  [Service!Next]_(Service!vars)
<1>1. TypeOK /\ LoopState /\ UNCHANGED <<scheduledjobs, runnablejobs, deadline, func, now>>
  BY DEF ScheduleInv, QueueInv, Call, Return
<1>2. armed' = armed
  BY <1>1 DEF armed
<1>3. CASE Call
  <2>1. CASE job = NoJob
    BY <1>1, <1>2, <1>3, <2>1 DEF Call, Service!vars
  <2>2. CASE job # NoJob
    <3>1. Service!Run
      BY <1>1, <1>2, <1>3, <2>2 DEF Call, LoopState, Service!Run
    <3>2. QED BY <3>1 DEF Service!Next
  <2>3. QED BY <2>1, <2>2
<1>4. CASE Return
  <2>1. CASE running = NoCallback
    BY <1>1, <1>2, <1>4, <2>1 DEF Return, LoopState, Service!vars
  <2>2. CASE running # NoCallback
    <3>1. Service!Finish
      BY <1>1, <1>2, <1>4, <2>2 DEF Return, Service!Finish
    <3>2. QED BY <3>1 DEF Service!Next
  <2>3. QED BY <2>1, <2>2
<1>5. QED BY <1>3, <1>4

(* The clock of the run loop is the clock of the service.                  *)
LEMMA TickIsTick ==
  ASSUME ScheduleInv, Tick
  PROVE  Service!Tick
<1>1. now \in Ticks /\ now' = Wrap(now + 1)
  BY DEF ScheduleInv, QueueInv, TypeOK, Tick
<1>2. now' \in Ticks /\ Wrap(now' - now) = 1
  BY <1>1, HalfRangeAssumption DEF Wrap, Ticks
<1>3. armed' = armed
  BY DEF Tick, armed
<1>4. QED
  BY <1>2, <1>3, DifferenceIsWrap DEF Tick, Service!Tick, Ticks, Service!Ticks

(* The os_ functions arm and disarm jobs as the service does.              *)
LEMMA CallersArm ==
  ASSUME ScheduleInv, NEW j \in Jobs
  PROVE  /\ ClearCallback(j) => Service!Disarm(j)
         /\ \A cb \in Callbacks :
              /\ SetCallback(j, cb) => Service!Arm(j, cb)
              /\ \A time \in Ticks :
                   SetTimedCallback(j, time, cb) => Service!ArmAt(j, time, cb)
<1>1. QueueInv
  BY DEF ScheduleInv
<1>2. ASSUME ClearCallback(j)
      PROVE  Service!Disarm(j)
  <2>1. /\ ToSet(scheduledjobs') = ToSet(scheduledjobs) \ {j}
        /\ ToSet(runnablejobs') = ToSet(runnablejobs) \ {j}
    BY <1>1, <1>2, ClearKeepsQueues DEF ClearCallback
  <2>2. armed' = [armed EXCEPT ![j] = "idle"]
    BY <2>1, ArmedOne
  <2>3. QED BY <1>2, <2>2 DEF ClearCallback, os_clearCallback, Service!Disarm
<1>3. ASSUME NEW cb \in Callbacks, SetCallback(j, cb)
      PROVE  Service!Arm(j, cb)
  <2>1. /\ ToSet(scheduledjobs') = ToSet(scheduledjobs) \ {j}
        /\ ToSet(runnablejobs') = ToSet(runnablejobs) \union {j}
    BY <1>1, <1>3, SetKeepsQueues DEF SetCallback
  <2>2. armed' = [armed EXCEPT ![j] = "ready"]
    BY <2>1, ArmedOne
  <2>3. QED BY <1>3, <2>2 DEF SetCallback, os_setCallback, Service!Arm
<1>4. ASSUME NEW cb \in Callbacks, NEW time \in Ticks, SetTimedCallback(j, time, cb)
      PROVE  Service!ArmAt(j, time, cb)
  <2>1. /\ ToSet(scheduledjobs') = ToSet(scheduledjobs) \union {j}
        /\ ToSet(runnablejobs') = ToSet(runnablejobs) \ {j}
    BY <1>1, <1>4, TimedKeepsQueues DEF SetTimedCallback
  <2>2. armed' = [armed EXCEPT ![j] = "timed"]
    BY <2>1, ArmedOne
  <2>3. QED BY <1>4, <2>2 DEF SetTimedCallback, os_setTimedCallback, Service!ArmAt
<1>5. QED BY <1>2, <1>3, <1>4

(* Every step of the run loop is a step of the service or a stutter.       *)
LEMMA ServiceStep ==
  ASSUME ScheduleInv, [Next]_vars
  PROVE  [Service!Next]_(Service!vars)
<1>1. CASE Pick
  BY <1>1, PickIsTake
<1>2. CASE Call \/ Return
  BY <1>2, CallReturnAreRunFinish
<1>3. CASE Tick
  BY <1>3, TickIsTick DEF Service!Next
<1>4. ASSUME NEW j \in Jobs, ClearCallback(j)
      PROVE  Service!Next
  BY <1>4, CallersArm DEF Service!Next
<1>5. ASSUME NEW j \in Jobs, NEW cb \in Callbacks, SetCallback(j, cb)
      PROVE  Service!Next
  BY <1>5, CallersArm DEF Service!Next
<1>6. ASSUME NEW j \in Jobs, NEW cb \in Callbacks,
             NEW delay \in (-MaxLate)..MaxAhead,
             SetTimedCallback(j, Wrap(now + delay), cb)
      PROVE  Service!Next
  <2>1. Wrap(now + delay) \in Ticks
    BY DelayInWindow DEF ScheduleInv, QueueInv, TypeOK
  <2>2. Service!ArmAt(j, Wrap(now + delay), cb)
    BY <1>6, <2>1, CallersArm
  <2>3. QED BY <2>1, <2>2 DEF Service!Next, Ticks, Service!Ticks
<1>7. CASE UNCHANGED vars
  BY <1>7 DEF vars, armed, Service!vars
<1>8. QED BY <1>1, <1>2, <1>3, <1>4, <1>5, <1>6, <1>7 DEF Next

(* For any number of jobs and any width of the clock, the two linked lists *)
(* implement the job service: one execution for each arming, ready jobs    *)
(* before timed ones, no timed job early, the earliest deadline first.     *)
THEOREM ImplementsJobService == ASSUME CmpWraps PROVE Spec => ServiceSpec
<1>1. Init => ScheduleInv
  BY ScheduleInit
<1>2. ScheduleInv /\ [Next]_vars => ScheduleInv'
  BY ScheduleStep
<1>3. ScheduleInv /\ [Next]_vars => [Service!Next]_(Service!vars)
  BY ServiceStep
<1>4. Init => Service!Init
  BY ServiceInit
<1>5. QED BY <1>1, <1>2, <1>3, <1>4, PTL DEF Spec, ServiceSpec, Service!Spec
=============================================================================
