----------------------- MODULE PriorityReplacesFifo -----------------------
(* Capability::PriorityQueueing is documented as a strict superset of
   FifoQueueing: "any use of FifoQueueing can safely replaced with
   PriorityQueueing, just being slower due to use of more expensive
   collections" (unified-scheduler-logic/src/lib.rs).  Used as block verification
   uses the machine, the fifo queues do nothing that the priority queues would
   not do, so what is proved of SchedulingStateMachine holds for them too.

   First, for a block of any length over any number of addresses, the fifo
   queues keep the block's order; the invariant relates what a fifo queue
   keeps, a count and a queue, to the tasks that hold the address and to those
   that wait for it.  Then the mapping, and each step of the fifo queues is the
   priority queues' step of the same name. *)
EXTENDS FifoScheduling, FiniteSetTheorems, TLAPS

---------------------------------------------------------------------------
(* What a queue of tasks holds after an element is added or taken, and how an
   increasing queue is cut *)

\* A function on 1..n is a sequence.
LEMMA FunctionIsSequence ==
  ASSUME NEW T, NEW n \in Nat, NEW f \in [1..n -> T]
  PROVE  f \in Seq(T) /\ Len(f) = n
OBVIOUS

\* The elements of a sequence.
LEMMA SequenceElements ==
  ASSUME NEW T, NEW s \in Seq(T)
  PROVE  \A i \in 1..Len(s) : s[i] \in T
OBVIOUS

\* A sequence that is not empty has a first element.
LEMMA EmptyElements ==
  ASSUME NEW T, NEW s \in Seq(T)
  PROVE  /\ Elements(s) = {} <=> s = <<>>
         /\ s # <<>> => s[1] \in Elements(s)
<1>1. s # <<>> => Len(s) \in Nat \ {0}
  OBVIOUS
<1>2. s # <<>> => 1 \in 1..Len(s)
  BY <1>1
<1>3. s # <<>> => s[1] \in Elements(s)
  BY <1>2 DEF Elements
<1>4. s = <<>> => Elements(s) = {}
  BY DEF Elements
<1> QED
  BY <1>3, <1>4

\* The head taken off the queue is the element it loses.
LEMMA HeadTailElements ==
  ASSUME NEW T, NEW s \in Seq(T), s # <<>>
  PROVE  /\ Tail(s) \in Seq(T) /\ Head(s) \in T
         /\ Elements(s) = Elements(Tail(s)) \union {Head(s)}
         /\ Distinct(s) => Head(s) \notin Elements(Tail(s)) /\ Distinct(Tail(s))
<1>1. /\ Tail(s) \in Seq(T) /\ Head(s) \in T
      /\ Len(Tail(s)) = Len(s) - 1
      /\ \A i \in 1..Len(Tail(s)) : Tail(s)[i] = s[i + 1]
      /\ Head(s) = s[1]
  OBVIOUS
<1>2. Len(s) \in Nat /\ Len(s) >= 1
  OBVIOUS
<1>3. \A i \in 1..Len(s) : i = 1 \/ (i - 1 \in 1..Len(Tail(s)) /\ (i - 1) + 1 = i)
  BY <1>1, <1>2
<1>4. \A i \in 1..Len(Tail(s)) : i + 1 \in 1..Len(s) /\ i + 1 # 1
  BY <1>1, <1>2
<1>5. 1 \in 1..Len(s)
  BY <1>2
<1>6. Elements(s) = Elements(Tail(s)) \union {Head(s)}
  <2>1. \A i \in 1..Len(s) : s[i] \in Elements(Tail(s)) \union {Head(s)}
    <3> SUFFICES ASSUME NEW i \in 1..Len(s), i # 1
                 PROVE  s[i] \in Elements(Tail(s))
      BY <1>1
    <3>1. i - 1 \in 1..Len(Tail(s)) /\ Tail(s)[i - 1] = s[(i - 1) + 1] /\ (i - 1) + 1 = i
      BY <1>1, <1>3
    <3> QED
      BY SMTT(30), <3>1 DEF Elements
  <2>2. \A i \in 1..Len(Tail(s)) : Tail(s)[i] \in Elements(s)
    BY <1>1, <1>4 DEF Elements
  <2>3. Head(s) \in Elements(s)
    BY <1>1, <1>5 DEF Elements
  <2> QED
    BY <2>1, <2>2, <2>3 DEF Elements
<1>7. ASSUME Distinct(s)
      PROVE  Head(s) \notin Elements(Tail(s)) /\ Distinct(Tail(s))
  <2>1. \A i \in 1..Len(Tail(s)) : Tail(s)[i] # Head(s)
    BY <1>1, <1>4, <1>5, <1>7 DEF Distinct
  <2>2. ASSUME NEW i \in 1..Len(Tail(s)), NEW j \in 1..Len(Tail(s)),
               Tail(s)[i] = Tail(s)[j]
        PROVE  i = j
    <3>1. i + 1 = j + 1
      BY <1>1, <1>4, <1>7, <2>2 DEF Distinct
    <3> QED
      BY <1>1, <1>2, <3>1
  <2> QED
    BY <2>1, <2>2 DEF Distinct, Elements
<1> QED
  BY <1>1, <1>6, <1>7

\* Appending a listing of a set adds the elements of the set.
LEMMA ConcatElements ==
  ASSUME NEW T, NEW s \in Seq(T), IsFiniteSet(T),
         NEW S \in SUBSET T, NEW l \in Listings(S)
  PROVE  /\ s \o l \in Seq(T)
         /\ Elements(s \o l) = Elements(s) \union S
         /\ Distinct(s) /\ Elements(s) \intersect S = {} => Distinct(s \o l)
<1> DEFINE n == Len(s)
           k == Cardinality(S)
<1>1. IsFiniteSet(S) /\ k \in Nat
  BY Zenon, FS_Subset, FS_CardinalityType
<1>2. /\ l \in [1..k -> S]
      /\ \A i, j \in 1..k : l[i] = l[j] => i = j
      /\ \A x \in S : \E i \in 1..k : l[i] = x
  BY DEF Listings
<1>3. l \in Seq(T) /\ Len(l) = k
  <2>1. l \in [1..k -> T]
    BY <1>2
  <2>2. l \in Seq(T)
    BY <1>1, <2>1, FunctionIsSequence
  <2>3. DOMAIN l = 1..k /\ DOMAIN l = 1..Len(l) /\ Len(l) \in Nat
    BY <1>2, <2>2
  <2>4. Len(l) = k
    BY <1>1, <2>3
  <2> QED
    BY <2>2, <2>4
<1>4. n \in Nat
  OBVIOUS
<1> HIDE DEF n, k
<1>5. /\ s \o l \in Seq(T)
      /\ Len(s \o l) = n + k
      /\ \A i \in 1..(n + k) : (s \o l)[i] = IF i <= n THEN s[i] ELSE l[i - n]
  BY <1>3 DEF n
<1>6. /\ \A i \in 1..n : i \in 1..(n + k) /\ (s \o l)[i] = s[i]
      /\ \A i \in 1..k : i + n \in 1..(n + k) /\ (s \o l)[i + n] = l[i]
      /\ \A i \in 1..(n + k) : i \in 1..n \/ (i - n \in 1..k /\ (s \o l)[i] = l[i - n])
  BY <1>1, <1>4, <1>5
<1>7. Elements(s \o l) = Elements(s) \union S
  <2>1. \A i \in 1..(n + k) : (s \o l)[i] \in Elements(s) \union S
    BY Zenon, <1>2, <1>6 DEF Elements, n
  <2>2. \A x \in Elements(s) : \E i \in 1..(n + k) : (s \o l)[i] = x
    BY <1>6 DEF Elements, n
  <2>3. ASSUME NEW x \in S
        PROVE  \E i \in 1..(n + k) : (s \o l)[i] = x
    <3>1. PICK i \in 1..k : l[i] = x
      BY <1>2
    <3>2. i + n \in 1..(n + k) /\ (s \o l)[i + n] = x
      BY Zenon, <1>6, <3>1
    <3> QED
      BY Zenon, <3>2
  <2> QED
    BY Zenon, <1>5, <2>1, <2>2, <2>3 DEF Elements
<1>8. ASSUME Distinct(s), Elements(s) \intersect S = {}
      PROVE  Distinct(s \o l)
  <2> SUFFICES ASSUME NEW i \in 1..(n + k), NEW j \in 1..(n + k),
                      (s \o l)[i] = (s \o l)[j]
               PROVE  i = j
    BY <1>5 DEF Distinct
  <2>1. \A m \in 1..n : s[m] \in Elements(s)
    BY DEF Elements, n
  <2>2. \A m \in 1..k : l[m] \in S
    BY <1>2
  <2>3. CASE i \in 1..n /\ j \in 1..n
    BY <1>6, <1>8, <2>3 DEF Distinct, n
  <2>4. CASE i \notin 1..n /\ j \notin 1..n
    <3>1. /\ i - n \in 1..k /\ (s \o l)[i] = l[i - n]
          /\ j - n \in 1..k /\ (s \o l)[j] = l[j - n]
      BY Zenon, <1>6, <2>4
    <3>2. l[i - n] = l[j - n]
      BY Zenon, <3>1
    <3>3. i - n = j - n
      BY <1>2, <3>1, <3>2
    <3> QED
      BY <1>1, <1>4, <3>3
  <2>5. CASE i \in 1..n /\ j \notin 1..n
    <3>1. (s \o l)[i] \in Elements(s) /\ j - n \in 1..k /\ (s \o l)[j] = l[j - n]
      BY Zenon, <1>6, <2>1, <2>5
    <3> QED
      BY <1>8, <2>2, <3>1
  <2>6. CASE i \notin 1..n /\ j \in 1..n
    <3>1. (s \o l)[j] \in Elements(s) /\ i - n \in 1..k /\ (s \o l)[i] = l[i - n]
      BY Zenon, <1>6, <2>1, <2>6
    <3> QED
      BY <1>8, <2>2, <3>1
  <2> QED
    BY <2>3, <2>4, <2>5, <2>6
<1> QED
  BY <1>5, <1>7, <1>8

---------------------------------------------------------------------------
(* Increasing sequences *)

\* A set of numbers that is not empty has a least element.
LEMMA LeastNumber ==
  ASSUME NEW S \in SUBSET Nat, S # {}
  PROVE  \E m \in S : \A n \in S : m <= n
<1>1. PICK m \in S : \A n \in S : ~(<<n, m>> \in OpToRel(<, Nat))
  BY Zenon, NatLessThanWellFounded, WFMin
<1>2. \A n \in S : n \in Nat /\ m \in Nat
  OBVIOUS
<1>3. \A n \in S : ~(n < m)
  BY Zenon, <1>1, <1>2 DEF OpToRel
<1> QED
  BY <1>2, <1>3

\* A set of positions that holds every position before one of its own is the
\* interval its size names.
LEMMA PrefixIsInterval ==
  ASSUME NEW n \in Nat, NEW R \in SUBSET (1..n), \A i \in R : \A j \in 1..i : j \in R
  PROVE  Cardinality(R) \in 0..n /\ R = 1..Cardinality(R)
<1>1. CASE R = 1..n
  <2>1. Cardinality(1..n) = n
    BY FS_Interval
  <2> QED
    BY <1>1, <2>1
<1>2. CASE R # 1..n
  <2>0. PICK x \in 1..n : x \notin R
    BY Zenon, <1>2
  <2>1. (1..n) \ R \in SUBSET Nat /\ (1..n) \ R # {}
    BY <2>0
  <2>2. PICK m \in (1..n) \ R : \A i \in (1..n) \ R : m <= i
    BY Zenon, <2>1, LeastNumber
  <2>3. R = 1..(m - 1)
    <3>1. ASSUME NEW i \in R PROVE i \in 1..(m - 1)
      BY <2>2, <3>1
    <3>2. ASSUME NEW i \in 1..(m - 1) PROVE i \in R
      BY <2>2, <3>2
    <3> QED
      BY Zenon, <3>1, <3>2
  <2>4. Cardinality(1..(m - 1)) = m - 1
    BY <2>2, FS_Interval
  <2> QED
    BY <2>2, <2>3, <2>4
<1> QED
  BY <1>1, <1>2

\* Cutting an increasing sequence after its k-th element.
LEMMA CutSequence ==
  ASSUME NEW T \in SUBSET Nat, NEW s \in Seq(T), Increasing(s), NEW k \in 0..Len(s)
  PROVE  /\ Elements(SubSeq(s, 1, k)) = {s[i] : i \in 1..k}
         /\ Cardinality(Elements(SubSeq(s, 1, k))) = k
         /\ SubSeq(s, k + 1, Len(s)) \in Seq(T)
         /\ Increasing(SubSeq(s, k + 1, Len(s)))
         /\ Elements(SubSeq(s, k + 1, Len(s))) = Elements(s) \ {s[i] : i \in 1..k}
         /\ k < Len(s) => SubSeq(s, k + 1, Len(s))[1] = s[k + 1]
         /\ k = Len(s) => SubSeq(s, k + 1, Len(s)) = <<>>
<1> DEFINE first == SubSeq(s, 1, k)
           rest == SubSeq(s, k + 1, Len(s))
           n == Len(s)
<1>0. n \in Nat /\ k \in Nat /\ k <= n /\ \A i \in 1..n : s[i] \in T
  OBVIOUS
<1>1. /\ Len(first) = k
      /\ \A i \in 1..k : first[i] = s[i]
  <2>1. \A i \in 1..k : s[i] \in T
    BY <1>0
  <2>2. /\ Len(first) = IF 1 <= k THEN k - 1 + 1 ELSE 0
        /\ \A i \in 1..(k - 1 + 1) : first[i] = s[1 + i - 1]
    BY <1>0, <2>1
  <2> QED
    BY <1>0, <2>2
<1>2. /\ rest \in Seq(T)
      /\ Len(rest) = n - k
      /\ \A i \in 1..(n - k) : rest[i] = s[k + i]
  <2>1. \A i \in (k + 1)..n : s[i] \in T
    BY <1>0
  <2>2. /\ rest \in Seq(T)
        /\ Len(rest) = IF k + 1 <= n THEN n - (k + 1) + 1 ELSE 0
        /\ \A i \in 1..(n - (k + 1) + 1) : rest[i] = s[(k + 1) + i - 1]
    BY <1>0, <2>1
  <2> QED
    BY <1>0, <2>2
<1>3. \A i, j \in 1..n : s[i] = s[j] => i = j
  <2> SUFFICES ASSUME NEW i \in 1..n, NEW j \in 1..n, s[i] = s[j], i # j
               PROVE  FALSE
    OBVIOUS
  <2>1. s[i] \in Nat /\ s[j] \in Nat
    BY Zenon, <1>0
  <2>2. i < j \/ j < i
    BY <1>0
  <2> QED
    BY <2>1, <2>2 DEF Increasing
<1> HIDE DEF first, rest
<1>4. Elements(first) = {s[i] : i \in 1..k}
  BY <1>1 DEF Elements
<1>5. Cardinality({s[i] : i \in 1..k}) = k
  <2> DEFINE f == [i \in 1..k |-> s[i]]
             E == {s[i] : i \in 1..k}
  <2>1. f \in [1..k -> E]
    OBVIOUS
  <2>2. \A i, j \in 1..k : f[i] = f[j] => i = j
    BY <1>0, <1>3
  <2>3. \A x \in E : \E i \in 1..k : f[i] = x
    OBVIOUS
  <2>4. f \in Bijection(1..k, E)
    BY <2>1, <2>2, <2>3 DEF Bijection, Injection, Surjection, IsInjective
  <2> HIDE DEF f, E
  <2>5. ExistsBijection(1..k, E)
    BY <2>4 DEF ExistsBijection
  <2>6. Cardinality(E) = k
    BY <1>0, <2>5, FS_CountingElements
  <2> QED
    BY <2>6 DEF E
<1>6. Increasing(rest)
  <2> SUFFICES ASSUME NEW i \in 1..(n - k), NEW j \in 1..(n - k), i < j
               PROVE  rest[i] < rest[j]
    BY <1>2 DEF Increasing
  <2>1. k + i \in 1..n /\ k + j \in 1..n /\ k + i < k + j
    BY <1>0
  <2> QED
    BY <1>2, <2>1 DEF Increasing
<1>7. Elements(rest) = Elements(s) \ {s[i] : i \in 1..k}
  <2>1. ASSUME NEW x \in Elements(rest)
        PROVE  x \in Elements(s) /\ x \notin {s[i] : i \in 1..k}
    <3>1. PICK i \in 1..(n - k) : x = s[k + i]
      BY <1>2, <2>1 DEF Elements
    <3>2. k + i \in 1..n /\ \A j \in 1..k : j # k + i /\ j \in 1..n
      BY <1>0
    <3> QED
      BY <1>3, <3>1, <3>2 DEF Elements
  <2>2. ASSUME NEW x \in Elements(s), x \notin {s[i] : i \in 1..k}
        PROVE  x \in Elements(rest)
    <3>1. PICK i \in 1..n : x = s[i]
      BY <2>2 DEF Elements
    <3>2. i \notin 1..k
      BY <2>2, <3>1
    <3>3. i - k \in 1..(n - k) /\ k + (i - k) = i
      BY <1>0, <3>2
    <3>4. rest[i - k] = x
      BY <1>2, <3>1, <3>3
    <3> QED
      BY <1>2, <3>3, <3>4 DEF Elements
  <2> QED
    BY <2>1, <2>2
<1>8. k < n => rest[1] = s[k + 1]
  BY <1>0, <1>2
<1>9. k = n => rest = <<>>
  BY <1>0, <1>2
<1> QED
  BY Zenon, <1>2, <1>4, <1>5, <1>6, <1>7, <1>8, <1>9 DEF first, rest

\* Appending a later task to an increasing sequence.
LEMMA AppendLater ==
  ASSUME NEW T \in SUBSET Nat, NEW s \in Seq(T), Increasing(s), NEW t \in T,
         \A b \in Elements(s) : b < t
  PROVE  /\ Append(s, t) \in Seq(T)
         /\ Append(s, t) # <<>>
         /\ Increasing(Append(s, t))
         /\ Elements(Append(s, t)) = Elements(s) \union {t}
         /\ Append(s, t)[1] = IF s = <<>> THEN t ELSE s[1]
<1> DEFINE n == Len(s)
           q == Append(s, t)
<1>0. n \in Nat /\ (s = <<>> <=> n = 0)
  OBVIOUS
<1>1. /\ q \in Seq(T) /\ q # <<>>
      /\ Len(q) = n + 1
      /\ \A i \in 1..n : q[i] = s[i]
      /\ q[n + 1] = t
  OBVIOUS
<1> HIDE DEF q
<1>2. Increasing(q)
  <2> SUFFICES ASSUME NEW i \in 1..(n + 1), NEW j \in 1..(n + 1), i < j
               PROVE  q[i] < q[j]
    BY <1>1 DEF Increasing
  <2>1. i \in 1..n
    BY <1>0
  <2>2. CASE j = n + 1
    BY <1>1, <2>1, <2>2 DEF Elements
  <2>3. CASE j # n + 1
    <3>1. j \in 1..n
      BY <1>0, <2>3
    <3> QED
      BY <1>1, <2>1, <3>1 DEF Increasing
  <2> QED
    BY <2>2, <2>3
<1>3. Elements(q) = Elements(s) \union {t}
  <2>1. 1..(n + 1) = (1..n) \union {n + 1}
    BY <1>0
  <2> QED
    BY <1>1, <2>1 DEF Elements
<1>4. q[1] = IF s = <<>> THEN t ELSE s[1]
  <2>1. n = 0 \/ 1 \in 1..n
    BY <1>0
  <2> QED
    BY <1>0, <1>1, <2>1
<1> QED
  BY <1>1, <1>2, <1>3, <1>4 DEF q

\* In an increasing sequence the order of ids is that of positions.
LEMMA IncreasingOrder ==
  ASSUME NEW T \in SUBSET Nat, NEW s \in Seq(T), Increasing(s),
         NEW i \in 1..Len(s), NEW j \in 1..Len(s)
  PROVE  /\ s[i] < s[j] <=> i < j
         /\ s[i] <= s[j] <=> i <= j
         /\ s[i] = s[j] => i = j
<1>1. s[i] \in Nat /\ s[j] \in Nat /\ Len(s) \in Nat
  <2>1. s[i] \in T /\ s[j] \in T
    OBVIOUS
  <2>2. Len(s) \in Nat
    OBVIOUS
  <2> QED
    BY Zenon, <2>1, <2>2
<1>2. (i < j => s[i] < s[j]) /\ (j < i => s[j] < s[i])
  BY DEF Increasing
<1> QED
  BY <1>1, <1>2

\* A set of positions that is not empty has a greatest element.
LEMMA GreatestNumber ==
  ASSUME NEW n \in Nat, NEW S \in SUBSET (1..n), S # {}
  PROVE  \E m \in S : \A i \in S : i <= m
<1> DEFINE C == {n - i : i \in S}
<1>1. C \in SUBSET Nat /\ C # {}
  <2>1. \A i \in S : n - i \in Nat
    OBVIOUS
  <2>2. PICK i \in S : TRUE
    BY Zenon
  <2>3. n - i \in C
    BY <2>2
  <2> QED
    BY <2>1, <2>3
<1>2. PICK c \in C : \A d \in C : c <= d
  BY Zenon, <1>1, LeastNumber
<1>3. PICK m \in S : c = n - m
  BY <1>2
<1>4. \A i \in S : n - m <= n - i
  BY Zenon, <1>2, <1>3
<1> QED
  BY <1>3, <1>4

---------------------------------------------------------------------------
TypeOK ==
  /\ current \in [Accounts -> [usage : Usages \union {"none"}, count : Nat]]
  /\ blocked \in [Accounts -> Seq(Tasks)]
  /\ blocked_usage_count \in [Tasks -> Nat]
  /\ unblocked_task_queue \in Seq(Tasks)
  /\ running \in SUBSET Tasks
  /\ active \in SUBSET Tasks
  /\ requested \in [Tasks -> [Accounts -> Usages \union {"none"}]]
  /\ fresh \in SUBSET Tasks

\* The queue of an address is in block order, behind the holders.
OrderInv(a) ==
  /\ Increasing(blocked[a])
  /\ \A b \in Elements(blocked[a]) : b \in active /\ requested[b][a] # "none"
  /\ \A h \in Holders(a), b \in Elements(blocked[a]) : h < b

\* The holders are counted, and are readers or one writer; nobody waits for a
\* free address, and behind readers a writer waits first.
HolderInv(a) ==
  /\ current[a].count = Cardinality(Holders(a))
  /\ current[a].usage = "none" <=> Holders(a) = {}
  /\ \A h \in Holders(a) : requested[h][a] = current[a].usage
  /\ current[a].usage = "Writable" => \A h, k \in Holders(a) : h = k
  /\ current[a].usage = "none" => blocked[a] = <<>>
  /\ current[a].usage = "Readonly" /\ blocked[a] # <<>> =>
       requested[blocked[a][1]][a] = "Writable"

BlockedOn(t) == {a \in Accounts : t \in Elements(blocked[a])}
CountInv ==
  \A t \in Tasks : blocked_usage_count[t] = Cardinality(BlockedOn(t))

\* The active tasks that wait for nothing run or are queued, each once.
UnblockedInv ==
  /\ Unblocked = {t \in active : blocked_usage_count[t] = 0}
  /\ running \intersect Elements(unblocked_task_queue) = {}
  /\ Distinct(unblocked_task_queue)

TaskInv ==
  /\ \A t \in active, f \in fresh : t < f
  /\ \A t \in Tasks : t \notin active => requested[t] = Unused

FifoInv ==
  /\ TypeOK
  /\ \A a \in Accounts : OrderInv(a) /\ HolderInv(a)
  /\ CountInv
  /\ UnblockedInv
  /\ TaskInv

---------------------------------------------------------------------------
(* What the invariant says of one address *)

\* The holders of an address are finitely many.
LEMMA HoldersFinite ==
  ASSUME TypeOK, NEW a \in Accounts
  PROVE  /\ Holders(a) \in SUBSET Tasks /\ Holders(a) \in SUBSET active
         /\ IsFiniteSet(Holders(a)) /\ Cardinality(Holders(a)) \in Nat
<1>1. Holders(a) \in SUBSET Tasks /\ Holders(a) \in SUBSET active
  BY DEF TypeOK, Holders
<1> QED
  BY <1>1, BlockIsOrdered, FS_Subset, FS_CardinalityType

\* So are the addresses a task is blocked on.
LEMMA BlockedOnFinite ==
  ASSUME NEW t
  PROVE  IsFiniteSet(BlockedOn(t)) /\ Cardinality(BlockedOn(t)) \in Nat
BY AddressesAreFinite, FS_Subset, FS_CardinalityType DEF BlockedOn

\* A counter is zero exactly when its task is blocked nowhere.
LEMMA CountIsZero ==
  ASSUME CountInv, NEW t \in Tasks
  PROVE  blocked_usage_count[t] = 0 <=>
           \A a \in Accounts : t \notin Elements(blocked[a])
<1>1. BlockedOn(t) = {} <=> \A a \in Accounts : t \notin Elements(blocked[a])
  BY DEF BlockedOn
<1>2. Cardinality(BlockedOn(t)) = 0 <=> BlockedOn(t) = {}
  BY BlockedOnFinite, FS_EmptySet
<1> QED
  BY <1>1, <1>2 DEF CountInv

\* A task that runs or may run holds every address it asked for.
LEMMA UnblockedHolds ==
  ASSUME FifoInv, NEW t \in Unblocked
  PROVE  /\ t \in active /\ t \in Tasks
         /\ \A a \in Accounts : t \notin Elements(blocked[a])
         /\ \A a \in Addresses(t) : t \in Holders(a)
<1>1. t \in active /\ t \in Tasks /\ blocked_usage_count[t] = 0
  BY DEF FifoInv, UnblockedInv, TypeOK
<1>2. \A a \in Accounts : t \notin Elements(blocked[a])
  BY <1>1, CountIsZero DEF FifoInv
<1> QED
  BY <1>1, <1>2 DEF Addresses, Holders

\* An address is freed by the last task that holds it.
LEMMA FreesIs ==
  ASSUME FifoInv, NEW a \in Accounts, NEW t \in Holders(a)
  PROVE  Frees(a) <=> Holders(a) \subseteq {t}
<1>0. /\ HolderInv(a) /\ IsFiniteSet(Holders(a))
  BY HoldersFinite DEF FifoInv
<1>1. ASSUME Frees(a) PROVE Holders(a) \subseteq {t}
  <2>1. CASE current[a].usage = "Writable"
    BY <1>0, <2>1 DEF HolderInv
  <2>2. CASE current[a].count = 1
    <3>1. PICK x : Holders(a) = {x}
      BY Zenon, <1>0, <2>2, FS_Singleton DEF HolderInv
    <3> QED
      BY <3>1
  <2> QED
    BY <1>1, <2>1, <2>2 DEF Frees
<1>2. ASSUME Holders(a) \subseteq {t} PROVE Frees(a)
  <2>1. Holders(a) = {t}
    BY <1>2
  <2>2. Cardinality(Holders(a)) = 1
    BY Zenon, <2>1, FS_Singleton
  <2> QED
    BY <1>0, <2>2 DEF HolderInv, Frees
<1> QED
  BY <1>1, <1>2

\* The loop of unlock_usage_queues pops the first blocked task, and the readers
\* with no writer before them.
LEMMA PoppedIs ==
  ASSUME TypeOK, NEW a \in Accounts
  PROVE  /\ Popped(a) \in 0..Len(blocked[a])
         /\ Popped(a) = 0 <=> ~Frees(a) \/ blocked[a] = <<>>
         /\ Frees(a) => \A i \in 1..Len(blocked[a]) :
              i <= Popped(a) <=>
                \/ i = 1
                \/ \A j \in 1..i : requested[blocked[a][j]][a] = "Readonly"
<1> DEFINE s == blocked[a]
           n == Len(s)
           R == {i \in 1..n : \A j \in 1..i : requested[s[j]][a] = "Readonly"}
<1>0. n \in Nat /\ (s = <<>> <=> n = 0)
  <2>1. s \in Seq(Tasks)
    BY DEF TypeOK
  <2> QED
    BY <2>1
<1>1. Popped(a) = IF ~Frees(a) \/ s = <<>> THEN 0
                  ELSE IF R = {} THEN 1 ELSE Cardinality(R)
  BY DEF Popped
<1>2. R \in SUBSET (1..n) /\ \A i \in R : \A j \in 1..i : j \in R
  <2>1. ASSUME NEW i \in R, NEW j \in 1..i PROVE j \in R
    <3>1. i \in 1..n /\ \A k \in 1..i : requested[s[k]][a] = "Readonly"
      BY <2>1
    <3>2. j \in 1..n /\ \A k \in 1..j : k \in 1..i
      BY <1>0, <2>1, <3>1
    <3> QED
      BY <3>1, <3>2
  <2> QED
    BY <2>1
<1>4. \A i \in 1..n : i \in R <=> \A j \in 1..i : requested[s[j]][a] = "Readonly"
  OBVIOUS
<1> HIDE DEF R, n, s
<1>3. Cardinality(R) \in 0..n /\ R = 1..Cardinality(R)
  BY <1>0, <1>2, PrefixIsInterval
<1>5. CASE ~Frees(a) \/ s = <<>>
  BY <1>0, <1>1, <1>5 DEF s, n
<1>6. CASE Frees(a) /\ s # <<>> /\ R = {}
  <2>1. Popped(a) = 1
    BY <1>1, <1>6
  <2>2. n >= 1
    BY <1>0, <1>6
  <2>3. \A i \in 1..n : i <= 1 <=> i = 1 \/ i \in R
    BY <1>0, <1>6
  <2>4. \A i \in 1..n : i <= 1 <=> i = 1 \/ \A j \in 1..i : requested[s[j]][a] = "Readonly"
    BY <1>4, <2>3
  <2> QED
    BY <1>0, <1>6, <2>1, <2>2, <2>4 DEF s, n
<1>7. CASE Frees(a) /\ s # <<>> /\ R # {}
  <2>1. Popped(a) = Cardinality(R)
    BY <1>1, <1>7
  <2>2. Cardinality(R) >= 1
    BY <1>0, <1>3, <1>7
  <2>3. \A i \in 1..n : i <= Cardinality(R) <=> i \in R
    BY <1>0, <1>3
  <2>4. 1 \in R
    BY <1>0, <1>3, <2>2
  <2>5. \A i \in 1..n : i <= Cardinality(R) <=> i = 1 \/ \A j \in 1..i : requested[s[j]][a] = "Readonly"
    BY <1>4, <2>3, <2>4
  <2> QED
    BY <1>0, <1>3, <1>7, <2>1, <2>2, <2>5 DEF s, n
<1> QED
  BY <1>5, <1>6, <1>7

---------------------------------------------------------------------------
(* Descheduling a task *)

\* The tasks let in come before those left behind and use the address as the
\* first of them does; a writer comes alone, and behind readers a writer is left.
LEMMA GrantedIs ==
  ASSUME FifoInv, NEW a \in Accounts
  PROVE  LET s == blocked[a]
             B == Elements(s)
             G == Elements(Granted(a))
             rest == SubSeq(s, Popped(a) + 1, Len(s))
         IN /\ G = IF Frees(a)
                   THEN {b \in B : \/ \A o \in B : b <= o
                                   \/ \A o \in B : o <= b => requested[o][a] = "Readonly"}
                   ELSE {}
            /\ G \subseteq B
            /\ Cardinality(G) = Popped(a)
            /\ rest \in Seq(Tasks) /\ Increasing(rest) /\ Elements(rest) = B \ G
            /\ \A g \in G, b \in B \ G : g < b
            /\ \A g \in G : requested[g][a] = requested[s[1]][a]
            /\ Popped(a) # 0 => s[1] \in G
            /\ requested[s[1]][a] = "Writable" => \A g, h \in G : g = h
            /\ /\ Popped(a) # 0
               /\ requested[s[1]][a] = "Readonly"
               /\ rest # <<>>
               => requested[rest[1]][a] = "Writable"
<1> DEFINE s == blocked[a]
           n == Len(s)
           k == Popped(a)
           B == Elements(s)
           G == Elements(Granted(a))
           rest == SubSeq(s, k + 1, n)
<1>0. /\ s \in Seq(Tasks) /\ Increasing(s) /\ TypeOK
      /\ \A b \in B : requested[b][a] \in Usages
  BY DEF FifoInv, TypeOK, OrderInv, Usages
<1>1. n \in Nat /\ (s = <<>> <=> n = 0)
  BY <1>0
<1>2. /\ k \in 0..n
      /\ k = 0 <=> ~Frees(a) \/ s = <<>>
      /\ Frees(a) => \A i \in 1..n :
           i <= k <=> i = 1 \/ \A j \in 1..i : requested[s[j]][a] = "Readonly"
  BY <1>0, PoppedIs
<1>3. /\ G = {s[i] : i \in 1..k}
      /\ Cardinality(G) = k
      /\ rest \in Seq(Tasks)
      /\ Increasing(rest)
      /\ Elements(rest) = B \ G
      /\ k < n => rest[1] = s[k + 1]
      /\ k = n => rest = <<>>
  <2>1. Tasks \in SUBSET Nat
    BY BlockIsOrdered
  <2>2. /\ Elements(SubSeq(s, 1, k)) = {s[i] : i \in 1..k}
        /\ Cardinality(Elements(SubSeq(s, 1, k))) = k
        /\ rest \in Seq(Tasks)
        /\ Increasing(rest)
        /\ Elements(rest) = B \ {s[i] : i \in 1..k}
        /\ k < n => rest[1] = s[k + 1]
        /\ k = n => rest = <<>>
    BY Zenon, <1>0, <1>2, <2>1, CutSequence
  <2> QED
    BY Zenon, <2>2 DEF Granted
<1>4. \A i, j \in 1..n : /\ s[i] < s[j] <=> i < j
                         /\ s[i] <= s[j] <=> i <= j
                         /\ s[i] = s[j] => i = j
  BY <1>0, BlockIsOrdered, IncreasingOrder
<1>5. B = {s[i] : i \in 1..n}
  BY DEF Elements
<1> HIDE DEF s, n, k, B, G, rest
<1>6. G \subseteq B
  BY <1>1, <1>2, <1>3, <1>5
<1>7. \A i \in 1..n : s[i] \in G <=> i <= k
  BY <1>1, <1>2, <1>3, <1>4
<1>8. Frees(a) => G = {b \in B : \/ \A o \in B : b <= o
                                 \/ \A o \in B : o <= b => requested[o][a] = "Readonly"}
  <2> SUFFICES ASSUME Frees(a), NEW i \in 1..n
               PROVE  s[i] \in G <=>
                        \/ \A o \in B : s[i] <= o
                        \/ \A o \in B : o <= s[i] => requested[o][a] = "Readonly"
    BY <1>5, <1>6
  <2>1. (\A o \in B : s[i] <= o) <=> i = 1
    <3>1. (\A o \in B : s[i] <= o) <=> \A j \in 1..n : i <= j
      BY <1>4, <1>5
    <3>2. (\A j \in 1..n : i <= j) <=> i = 1
      BY <1>1
    <3> QED
      BY <3>1, <3>2
  <2>2. (\A o \in B : o <= s[i] => requested[o][a] = "Readonly")
          <=> \A j \in 1..i : requested[s[j]][a] = "Readonly"
    <3>1. \A j \in 1..n : s[j] <= s[i] <=> j \in 1..i
      BY <1>1, <1>4
    <3>2. \A j \in 1..i : j \in 1..n
      BY <1>1
    <3> QED
      BY <1>5, <3>1, <3>2
  <2> QED
    BY <1>2, <1>7, <2>1, <2>2
<1>9. ~Frees(a) => G = {}
  BY <1>2, <1>3
<1>10. \A g \in G, b \in B \ G : g < b
  <2> SUFFICES ASSUME NEW i \in 1..n, NEW j \in 1..n, s[i] \in G, s[j] \notin G
               PROVE  s[i] < s[j]
    BY <1>5, <1>6
  <2>1. i < j
    BY <1>1, <1>2, <1>7
  <2> QED
    BY <1>4, <2>1
<1>11. \A g \in G : requested[g][a] = requested[s[1]][a]
  <2> SUFFICES ASSUME NEW i \in 1..n, s[i] \in G
               PROVE  requested[s[i]][a] = requested[s[1]][a]
    BY <1>5, <1>6
  <2>1. i <= k /\ k # 0 /\ 1 \in 1..i /\ i \in 1..i
    BY <1>1, <1>2, <1>7
  <2> QED
    BY <1>2, <2>1
<1>12. k # 0 => s[1] \in G
  <2> SUFFICES ASSUME k # 0 PROVE 1 \in 1..n /\ 1 <= k
    BY <1>7
  <2> QED
    BY <1>1, <1>2
<1>13. requested[s[1]][a] = "Writable" => \A g, h \in G : g = h
  <2> SUFFICES ASSUME requested[s[1]][a] = "Writable", NEW i \in 1..n, s[i] \in G
               PROVE  i = 1
    BY <1>5, <1>6
  <2>1. i <= k /\ k # 0 /\ 1 \in 1..i
    BY <1>1, <1>2, <1>7
  <2> QED
    BY <1>2, <2>1
<1>14. ASSUME k # 0, requested[s[1]][a] = "Readonly", rest # <<>>
       PROVE  requested[rest[1]][a] = "Writable"
  <2>1. k < n /\ k + 1 \in 1..n /\ k \in 1..n /\ ~(k + 1 <= k)
    BY <1>1, <1>2, <1>3, <1>14
  <2>2. PICK j \in 1..(k + 1) : requested[s[j]][a] # "Readonly"
    BY <1>2, <1>14, <2>1
  <2>3. j = k + 1
    <3> SUFFICES ASSUME j # k + 1 PROVE FALSE
      OBVIOUS
    <3>1. j \in 1..n /\ j <= k /\ j \in 1..j
      BY <1>1, <2>1
    <3> QED
      BY <1>2, <1>14, <2>2, <3>1
  <2>4. s[k + 1] \in B
    BY <1>5, <2>1
  <2> QED
    BY <1>0, <1>3, <2>1, <2>2, <2>3, <2>4 DEF Usages, B
<1> QED
  BY Zenon, <1>3, <1>6, <1>8, <1>9, <1>10, <1>11, <1>12, <1>13, <1>14 DEF s, n, k, B, G, rest

\* What a descheduled task does to the other tasks of one of its addresses.
LEMMA HoldersAfterUnlock ==
  ASSUME FifoInv, NEW t \in running, deschedule_task(t), NEW a \in Accounts
  PROVE  /\ \A h \in active' : requested'[h] = requested[h] /\ h \in active /\ h # t
         /\ a \notin Addresses(t) =>
              /\ current'[a] = current[a] /\ blocked'[a] = blocked[a]
              /\ Holders(a)' = Holders(a)
         /\ a \in Addresses(t) =>
              /\ t \in Holders(a)
              /\ current'[a] = CurrentAfterUnlock(a)
              /\ blocked'[a] = SubSeq(blocked[a], Popped(a) + 1, Len(blocked[a]))
              /\ Elements(blocked'[a]) = Elements(blocked[a]) \ Elements(Granted(a))
              /\ Holders(a)' = (Holders(a) \ {t}) \union Elements(Granted(a))
<1> DEFINE B == Elements(blocked[a])
           G == Elements(Granted(a))
<1>0. /\ t \in active /\ t \in Tasks /\ t \notin B
      /\ a \in Addresses(t) => t \in Holders(a)
      /\ active \in SUBSET Tasks
  <2>1. t \in Unblocked
    BY DEF Unblocked
  <2> QED
    BY <2>1, UnblockedHolds DEF FifoInv, TypeOK
<1>1. /\ active' = active \ {t}
      /\ requested' = [requested EXCEPT ![t] = Unused]
      /\ current' = [x \in Accounts |->
            IF x \in Addresses(t) THEN CurrentAfterUnlock(x) ELSE current[x]]
      /\ blocked' = [x \in Accounts |->
            IF x \in Addresses(t)
            THEN SubSeq(blocked[x], Popped(x) + 1, Len(blocked[x])) ELSE blocked[x]]
  BY Zenon DEF deschedule_task, unlock_usage_queues
<1>2. \A h \in active' : requested'[h] = requested[h] /\ h \in active /\ h # t
  BY <1>0, <1>1 DEF FifoInv, TypeOK
<1>3. Holders(a)' = {h \in active' : requested'[h][a] # "none" /\ h \notin Elements(blocked'[a])}
  BY DEF Holders, Elements
<1>4. Holders(a) = {h \in active : requested[h][a] # "none" /\ h \notin B}
  BY DEF Holders
<1>5. ASSUME a \notin Addresses(t)
      PROVE  /\ current'[a] = current[a] /\ blocked'[a] = blocked[a]
             /\ Holders(a)' = Holders(a)
  <2>1. current'[a] = current[a] /\ blocked'[a] = blocked[a]
    BY <1>1, <1>5
  <2>2. requested[t][a] = "none"
    BY <1>5 DEF Addresses
  <2> HIDE DEF B
  <2>3. Elements(blocked'[a]) = B
    BY Zenon, <2>1 DEF B
  <2>4. Holders(a)' = Holders(a)
    BY <1>1, <1>2, <1>3, <1>4, <2>2, <2>3
  <2> QED
    BY <2>1, <2>4
<1>6. ASSUME a \in Addresses(t)
      PROVE  /\ current'[a] = CurrentAfterUnlock(a)
             /\ blocked'[a] = SubSeq(blocked[a], Popped(a) + 1, Len(blocked[a]))
             /\ Elements(blocked'[a]) = B \ G
             /\ Holders(a)' = (Holders(a) \ {t}) \union G
  <2>1. /\ current'[a] = CurrentAfterUnlock(a)
        /\ blocked'[a] = SubSeq(blocked[a], Popped(a) + 1, Len(blocked[a]))
    BY Zenon, <1>1, <1>6
  <2>2. G \subseteq B /\ Elements(SubSeq(blocked[a], Popped(a) + 1, Len(blocked[a]))) = B \ G
    BY GrantedIs
  <2>3. \A b \in B : b \in active /\ requested[b][a] # "none"
    BY DEF FifoInv, OrderInv
  <2> HIDE DEF B, G
  <2>4. Elements(blocked'[a]) = B \ G
    BY <2>1, <2>2
  <2>5. Holders(a)' = (Holders(a) \ {t}) \union G
    BY <1>0, <1>1, <1>2, <1>3, <1>4, <2>2, <2>3, <2>4
  <2> QED
    BY <2>1, <2>4, <2>5
<1> QED
  BY <1>0, <1>2, <1>5, <1>6

\* Descheduling keeps the usage queue of every address in order.
LEMMA UnlockedQueue ==
  ASSUME FifoInv, NEW t \in running, deschedule_task(t), NEW a \in Accounts
  PROVE  /\ current'[a] \in [usage : Usages \union {"none"}, count : Nat]
         /\ blocked'[a] \in Seq(Tasks)
         /\ OrderInv(a)' /\ HolderInv(a)'
<1> DEFINE s == blocked[a]
           B == Elements(s)
           G == Elements(Granted(a))
           H == Holders(a)
           ty == [usage : Usages \union {"none"}, count : Nat]
<1>0. /\ TypeOK /\ OrderInv(a) /\ HolderInv(a)
      /\ current[a] \in ty /\ s \in Seq(Tasks)
      /\ H \in SUBSET Tasks /\ H \in SUBSET active
      /\ IsFiniteSet(H) /\ Cardinality(H) \in Nat
  BY HoldersFinite DEF FifoInv, TypeOK
<1>1. \A h \in active' : requested'[h] = requested[h] /\ h \in active /\ h # t
  BY HoldersAfterUnlock
<1>2. \A b \in B : b \in active' /\ requested'[b] = requested[b] /\ requested[b][a] \in Usages
  <2>1. t \notin B
    BY UnblockedHolds DEF Unblocked
  <2>2. \A b \in B : b \in active' /\ b \in Tasks /\ requested[b][a] # "none"
    BY <1>0, <2>1 DEF OrderInv, deschedule_task, TypeOK
  <2> QED
    BY <1>0, <1>1, <2>2 DEF TypeOK, Usages
<1>3. (Elements(blocked[a]))' = Elements(blocked'[a])
  BY DEF Elements
<1>4. s # <<>> => s[1] \in B
  <2>1. s # <<>> => Len(s) \in Nat \ {0}
    BY <1>0
  <2> QED
    BY <2>1 DEF Elements
<1>5. CASE a \notin Addresses(t)
  <2>1. current'[a] = current[a] /\ blocked'[a] = s /\ Holders(a)' = H
    BY <1>5, HoldersAfterUnlock
  <2>2. H \subseteq active'
    BY <2>1 DEF Holders
  <2> HIDE DEF H
  <2>3. \A h \in H : requested'[h] = requested[h]
    BY Zenon, <1>1, <2>2
  <2>4. OrderInv(a)'
    BY <1>0, <1>2, <1>3, <2>1 DEF OrderInv, Increasing, H
  <2>5. HolderInv(a)'
    BY <1>0, <1>2, <1>4, <2>1, <2>3 DEF HolderInv, H
  <2> QED
    BY <1>0, <2>1, <2>4, <2>5
<1>6. CASE a \in Addresses(t)
  <2> DEFINE k == Popped(a)
             rest == SubSeq(s, k + 1, Len(s))
  <2>1. /\ t \in H
        /\ current'[a] = CurrentAfterUnlock(a)
        /\ blocked'[a] = rest
        /\ Elements(blocked'[a]) = B \ G
        /\ Holders(a)' = (H \ {t}) \union G
    BY Zenon, <1>6, HoldersAfterUnlock
  <2>2. /\ G \subseteq B
        /\ Cardinality(G) = k
        /\ rest \in Seq(Tasks) /\ Increasing(rest) /\ Elements(rest) = B \ G
        /\ \A g \in G, b \in B \ G : g < b
        /\ \A g \in G : requested[g][a] = requested[s[1]][a]
        /\ k # 0 => s[1] \in G
        /\ requested[s[1]][a] = "Writable" => \A g, h \in G : g = h
        /\ k # 0 /\ requested[s[1]][a] = "Readonly" /\ rest # <<>>
             => requested[rest[1]][a] = "Writable"
    BY Zenon, GrantedIs
  <2>3. /\ k \in 0..Len(s)
        /\ k = 0 <=> ~Frees(a) \/ s = <<>>
    BY <1>0, PoppedIs
  <2>4. Frees(a) <=> H \subseteq {t}
    BY <2>1, FreesIs
  <2>5. OrderInv(a)'
    <3>1. \A h \in H, b \in B : h < b
      BY <1>0 DEF OrderInv
    <3>2. \A b \in B \ G : b \in active' /\ requested'[b][a] # "none"
      BY Zenon, <1>2 DEF Usages
    <3>3. \A h \in (H \ {t}) \union G, b \in B \ G : h < b
      BY Zenon, <2>2, <3>1
    <3>4. Increasing(blocked'[a])
      BY <2>1, <2>2
    <3> HIDE DEF B, G, H
    <3>5. \A h \in Holders(a)', b \in Elements(blocked'[a]) : h < b
      BY <2>1, <3>3
    <3>6. \A b \in Elements(blocked'[a]) : b \in active' /\ requested'[b][a] # "none"
      BY <2>1, <3>2
    <3> QED
      BY Zenon, <1>3, <3>4, <3>5, <3>6 DEF OrderInv, Increasing, Elements
  <2>6. ASSUME rest # <<>>
        PROVE  rest[1] \in B /\ requested'[rest[1]] = requested[rest[1]]
    <3>1. Len(rest) \in Nat \ {0}
      BY <2>2, <2>6
    <3> HIDE DEF rest
    <3>2. rest[1] \in Elements(rest)
      BY <3>1 DEF Elements
    <3> QED
      BY <1>2, <2>2, <3>2
  <2>7. CASE ~Frees(a)
    <3>1. k = 0 /\ rest = s
      BY <1>0, <2>3, <2>7
    <3>2. G = {}
      BY <2>7, GrantedIs
    <3>3. Cardinality(H \ {t}) = Cardinality(H) - 1 /\ H \ {t} # {}
      BY Zenon, <1>0, <2>1, <2>4, <2>7, FS_RemoveElement
    <3>4. current'[a] = [current[a] EXCEPT !.count = @ - 1]
      BY <2>1, <2>7 DEF CurrentAfterUnlock
    <3>5. /\ current'[a].usage = current[a].usage
          /\ current'[a].count = Cardinality(H) - 1
      BY <1>0, <3>4 DEF HolderInv
    <3>6. Cardinality(H) - 1 \in Nat
      <4>1. IsFiniteSet(H \ {t})
        BY Zenon, <1>0, FS_RemoveElement
      <4> QED
        BY <3>3, <4>1, FS_CardinalityType
    <3>7. current'[a] \in ty
      <4>1. current[a].count = Cardinality(H)
        BY <1>0 DEF HolderInv
      <4> QED
        BY <1>0, <3>4, <3>6, <4>1
    <3> HIDE DEF H, G, B, s, rest, k
    <3>8. Holders(a)' = H \ {t} /\ blocked'[a] = s
      BY <2>1, <3>1, <3>2
    <3>9. \A h \in H \ {t} : requested'[h] = requested[h]
      BY Zenon, <1>1, <3>8 DEF Holders
    <3>10. HolderInv(a)'
      BY Zenon, <1>0, <1>2, <1>4, <3>3, <3>5, <3>8, <3>9 DEF HolderInv, H, s
    <3> QED
      BY <2>1, <2>2, <2>5, <3>7, <3>10
  <2>8. CASE Frees(a) /\ s = <<>>
    <3>1. k = 0 /\ B = {}
      BY <2>3, <2>8 DEF Elements
    <3>2. current'[a] = Idle
      BY <2>1, <2>8, <3>1 DEF CurrentAfterUnlock
    <3>3. rest = <<>>
      BY <1>0, <2>8, <3>1
    <3> HIDE DEF H, G, B, s, rest, k
    <3>4. Holders(a)' = {} /\ blocked'[a] = <<>>
      BY <2>1, <2>2, <2>4, <2>8, <3>1, <3>3
    <3>5. HolderInv(a)'
      BY <3>2, <3>4, FS_EmptySet DEF HolderInv, Idle
    <3> QED
      BY <2>1, <2>2, <2>5, <3>2, <3>5 DEF Idle
  <2>9. CASE Frees(a) /\ s # <<>>
    <3>1. k # 0
      BY <2>3, <2>9
    <3>2. current'[a] = [usage |-> requested[s[1]][a], count |-> k]
      BY <1>0, <2>1, <2>9, <3>1 DEF CurrentAfterUnlock
    <3>3. requested[s[1]][a] \in Usages
      BY <1>2, <1>4, <2>9
    <3>0. k \in Nat
      BY <1>0, <2>3
    <3> HIDE DEF H, G, B, s, rest, k
    <3>4. Holders(a)' = G /\ blocked'[a] = rest
      BY <2>1, <2>4, <2>9
    <3>5. \A g \in G : requested'[g][a] = requested[s[1]][a]
      BY Zenon, <1>2, <2>2
    <3>6. HolderInv(a)'
      BY <2>2, <2>6, <3>1, <3>2, <3>3, <3>4, <3>5 DEF HolderInv, Usages
    <3> QED
      BY <2>1, <2>2, <2>5, <3>0, <3>2, <3>3, <3>6
  <2> QED
    BY <2>7, <2>8, <2>9
<1> QED
  BY <1>5, <1>6

\* A task is handed finitely many addresses.
LEMMA GrantsFinite ==
  ASSUME NEW u, NEW t
  PROVE  IsFiniteSet(GrantsOf(u, t)) /\ Cardinality(GrantsOf(u, t)) \in Nat
<1>1. GrantsOf(u, t) \in SUBSET Accounts
  BY DEF GrantsOf, Addresses
<1> QED
  BY <1>1, AddressesAreFinite, FS_Subset, FS_CardinalityType

\* Its counter drops by as many, and reaches zero when nothing else blocks it.
LEMMA UnlockingCounts ==
  ASSUME FifoInv, NEW t \in running, deschedule_task(t), NEW u \in Tasks
  PROVE  /\ blocked_usage_count'[u] \in Nat
         /\ blocked_usage_count'[u] = Cardinality(BlockedOn(u)')
         /\ blocked_usage_count'[u] = 0 <=>
              blocked_usage_count[u] = 0 \/ u \in NewlyUnblocked(t)
<1>1. blocked_usage_count'[u] = blocked_usage_count[u] - Cardinality(GrantsOf(u, t))
  BY DEF deschedule_task, unlock_usage_queues
<1>2. GrantsOf(u, t) \subseteq BlockedOn(u)
  <2>1. \A a \in Accounts : Elements(Granted(a)) \subseteq Elements(blocked[a])
    BY GrantedIs
  <2> QED
    BY Zenon, <2>1 DEF GrantsOf, BlockedOn, Addresses
<1>3. BlockedOn(u)' = BlockedOn(u) \ GrantsOf(u, t)
  <2>1. BlockedOn(u)' = {a \in Accounts : u \in Elements(blocked'[a])}
    BY DEF BlockedOn, Elements
  <2>2. ASSUME NEW a \in Accounts
        PROVE  u \in Elements(blocked'[a]) <=>
                 u \in Elements(blocked[a]) /\ a \notin GrantsOf(u, t)
    <3>1. CASE a \in Addresses(t)
      BY <3>1, HoldersAfterUnlock DEF GrantsOf
    <3>2. CASE a \notin Addresses(t)
      BY <3>2, HoldersAfterUnlock DEF GrantsOf
    <3> QED
      BY Zenon, <3>1, <3>2
  <2> QED
    BY <2>1, <2>2 DEF BlockedOn
<1>4. BlockedOn(u) \intersect GrantsOf(u, t) = GrantsOf(u, t)
  BY <1>2
<1>5. /\ Cardinality(BlockedOn(u) \ GrantsOf(u, t))
         = Cardinality(BlockedOn(u)) - Cardinality(BlockedOn(u) \intersect GrantsOf(u, t))
      /\ IsFiniteSet(BlockedOn(u) \ GrantsOf(u, t))
  BY Zenon, BlockedOnFinite, FS_Difference
<1>6. Cardinality(BlockedOn(u)') = blocked_usage_count'[u]
  BY <1>1, <1>3, <1>4, <1>5 DEF FifoInv, CountInv
<1>7. Cardinality(BlockedOn(u)') \in Nat
  BY <1>3, <1>5, FS_CardinalityType
<1>8. ASSUME blocked_usage_count[u] = 0
      PROVE  blocked_usage_count'[u] = 0
  <2>1. GrantsOf(u, t) = {}
    BY <1>2, <1>8, CountIsZero DEF FifoInv, BlockedOn
  <2> QED
    BY <1>1, <1>8, <2>1, FS_EmptySet
<1>9. blocked_usage_count[u] \in Nat /\ Cardinality(GrantsOf(u, t)) \in Nat
  BY GrantsFinite DEF FifoInv, TypeOK
<1>10. blocked_usage_count'[u] = 0 <=>
         blocked_usage_count[u] = 0 \/ u \in NewlyUnblocked(t)
  BY <1>1, <1>8, <1>9 DEF NewlyUnblocked
<1> QED
  BY Zenon, <1>6, <1>7, <1>10

\* Descheduling a task preserves the invariant.
LEMMA DescheduleInv ==
  ASSUME FifoInv, NEW t \in running, deschedule_task(t)
  PROVE  FifoInv'
<1> DEFINE q == unblocked_task_queue
           N == NewlyUnblocked(t)
<1>s. /\ running' = running \ {t}
      /\ active' = active \ {t}
      /\ requested' = [requested EXCEPT ![t] = Unused]
      /\ fresh' = fresh
      /\ current' = [a \in Accounts |->
            IF a \in Addresses(t) THEN CurrentAfterUnlock(a) ELSE current[a]]
      /\ blocked' = [a \in Accounts |->
            IF a \in Addresses(t)
            THEN SubSeq(blocked[a], Popped(a) + 1, Len(blocked[a])) ELSE blocked[a]]
      /\ blocked_usage_count' = [u \in Tasks |->
            blocked_usage_count[u] - Cardinality(GrantsOf(u, t))]
      /\ \E seq \in Listings(N) : q' = q \o seq
  BY Zenon DEF deschedule_task, unlock_usage_queues
<1>0. /\ t \in Tasks /\ t \in active /\ active \in SUBSET Tasks /\ t \in Unblocked
      /\ q \in Seq(Tasks) /\ Distinct(q) /\ running \in SUBSET Tasks
      /\ running \intersect Elements(q) = {}
      /\ Unblocked = {h \in active : blocked_usage_count[h] = 0}
  BY DEF FifoInv, UnblockedInv, TypeOK, Unblocked
<1>1. \A a \in Accounts : OrderInv(a)' /\ HolderInv(a)'
  BY UnlockedQueue
<1>2. CountInv'
  BY Zenon, UnlockingCounts DEF CountInv
<1>3. UnblockedInv' /\ q' \in Seq(Tasks)
  <2>1. PICK seq \in Listings(N) : q' = q \o seq
    BY Zenon, <1>s
  <2>2. N \in SUBSET Tasks /\ \A h \in N : blocked_usage_count[h] # 0 /\ h \in active
    <3> SUFFICES ASSUME NEW h \in N
                 PROVE  h \in Tasks /\ blocked_usage_count[h] # 0 /\ h \in active
      OBVIOUS
    <3>1. blocked_usage_count[h] # 0 /\ h \in Tasks
      BY DEF NewlyUnblocked
    <3>2. PICK a \in Accounts : h \in Elements(blocked[a])
      BY <3>1, CountIsZero DEF FifoInv
    <3> QED
      BY <3>1, <3>2 DEF FifoInv, OrderInv
  <2> HIDE DEF N
  <2>3. Elements(q) \intersect N = {} /\ t \notin N /\ Unblocked = running \union Elements(q)
    BY <1>0, <2>2 DEF Unblocked
  <2>4. /\ q' \in Seq(Tasks)
        /\ Elements(q') = Elements(q) \union N
        /\ Distinct(q')
    <3>1. IsFiniteSet(Tasks)
      BY BlockIsOrdered
    <3>2. q \in Seq(Tasks) /\ N \in SUBSET Tasks
      BY <1>0, <2>2
    <3> HIDE DEF q
    <3>3. /\ q \o seq \in Seq(Tasks)
          /\ Elements(q \o seq) = Elements(q) \union N
          /\ Distinct(q) /\ Elements(q) \intersect N = {} => Distinct(q \o seq)
      BY <3>1, <3>2, ConcatElements
    <3> QED
      BY Zenon, <1>0, <2>1, <2>3, <3>3
  <2>5. running' \intersect Elements(q') = {}
    BY Zenon, <1>0, <1>s, <2>2, <2>3, <2>4
  <2>6. Unblocked' = (Unblocked \ {t}) \union N
    <3>1. Unblocked' = running' \union Elements(q')
      BY DEF Unblocked, Elements
    <3> QED
      BY <1>0, <1>s, <2>3, <2>4, <3>1
  <2>7. {h \in active' : blocked_usage_count'[h] = 0} = (Unblocked \ {t}) \union N
    <3>1. \A h \in active :
            blocked_usage_count'[h] = 0 <=> blocked_usage_count[h] = 0 \/ h \in N
      BY <1>0, UnlockingCounts DEF N
    <3> QED
      BY Zenon, <1>0, <1>s, <2>2, <2>3, <3>1
  <2> QED
    BY Zenon, <2>4, <2>5, <2>6, <2>7 DEF UnblockedInv, Distinct, Elements
<1>4. TaskInv'
  BY Zenon, <1>0, <1>s DEF FifoInv, TypeOK, TaskInv, Unused
<1>5. TypeOK'
  <2>1. current' \in [Accounts -> [usage : Usages \union {"none"}, count : Nat]]
    BY Zenon, <1>s, UnlockedQueue
  <2>2. blocked' \in [Accounts -> Seq(Tasks)]
    BY Zenon, <1>s, UnlockedQueue
  <2>3. blocked_usage_count' \in [Tasks -> Nat]
    <3>1. \A u \in Tasks : blocked_usage_count'[u] \in Nat
      BY UnlockingCounts
    <3> QED
      BY <1>s, <3>1
  <2>4. requested' \in [Tasks -> [Accounts -> Usages \union {"none"}]]
    BY Zenon, <1>s DEF FifoInv, TypeOK, Unused
  <2> QED
    BY Zenon, <1>0, <1>3, <1>s, <2>1, <2>2, <2>3, <2>4 DEF FifoInv, TypeOK
<1> QED
  BY <1>1, <1>2, <1>3, <1>4, <1>5 DEF FifoInv

---------------------------------------------------------------------------
(* Taking a task *)

\* The addresses a new task has to wait for.
Missed(ctx) == {a \in Accounts : ctx[a] # "none" /\ ~Lockable(a, ctx[a])}

\* A new task comes after every active one, joins the holders of an address or
\* the tail of its queue, and changes nothing where it asks for nothing.
LEMMA LockStep ==
  ASSUME FifoInv, NEW t, NEW ctx \in [Accounts -> Usages \union {"none"}],
         schedule_or_buffer_task(t, ctx)
  PROVE  /\ t \in Tasks /\ t \notin active /\ \A h \in active : h < t
         /\ requested'[t] = ctx /\ \A h \in active : requested'[h] = requested[h]
         /\ active' = active \union {t}
         /\ blocked_usage_count' = [blocked_usage_count EXCEPT ![t] = Cardinality(Missed(ctx))]
         /\ current' = [a \in Accounts |->
              IF ctx[a] # "none" /\ a \notin Missed(ctx)
              THEN [usage |-> ctx[a], count |-> current[a].count + 1] ELSE current[a]]
         /\ blocked' = [a \in Accounts |->
              IF a \in Missed(ctx) THEN Append(blocked[a], t) ELSE blocked[a]]
<1>0. t \in fresh /\ t \in Tasks /\ active \in SUBSET Tasks
  BY DEF schedule_or_buffer_task, FifoInv, TypeOK
<1>1. \A h \in active : h < t
  BY <1>0 DEF FifoInv, TaskInv
<1>2. t \notin active
  <2>1. t \in Nat
    BY <1>0, BlockIsOrdered
  <2> QED
    BY <1>1, <2>1
<1>3. requested' = [requested EXCEPT ![t] = ctx] /\ active' = active \union {t}
  BY DEF schedule_or_buffer_task
<1>4. requested'[t] = ctx /\ \A h \in active : requested'[h] = requested[h]
  BY <1>0, <1>2, <1>3 DEF FifoInv, TypeOK
<1> DEFINE touched == {a \in Accounts : ctx[a] # "none"}
           locked == {a \in touched : Lockable(a, ctx[a])}
<1>5. /\ current' = [a \in Accounts |->
           IF a \in locked THEN [usage |-> ctx[a], count |-> current[a].count + 1]
                           ELSE current[a]]
      /\ blocked' = [a \in Accounts |->
           IF a \in touched \ locked THEN Append(blocked[a], t) ELSE blocked[a]]
      /\ blocked_usage_count' = [blocked_usage_count EXCEPT
           ![t] = Cardinality(touched \ locked)]
  BY Zenon DEF schedule_or_buffer_task, try_lock_usage_queues
<1>6. touched \ locked = Missed(ctx)
  BY DEF Missed
<1>7. \A a \in Accounts : a \in locked <=> ctx[a] # "none" /\ a \notin Missed(ctx)
  BY Zenon DEF Missed
<1> HIDE DEF touched, locked
<1> QED
  BY Zenon, <1>0, <1>1, <1>2, <1>3, <1>4, <1>5, <1>6, <1>7

\* Taking a task keeps the usage queue of every address in order.
LEMMA LockedQueue ==
  ASSUME FifoInv, NEW t, NEW ctx \in [Accounts -> Usages \union {"none"}],
         schedule_or_buffer_task(t, ctx), NEW a \in Accounts
  PROVE  /\ current'[a] \in [usage : Usages \union {"none"}, count : Nat]
         /\ blocked'[a] \in Seq(Tasks)
         /\ Elements(blocked'[a]) =
              Elements(blocked[a]) \union (IF a \in Missed(ctx) THEN {t} ELSE {})
         /\ Holders(a)' = Holders(a) \union
              (IF ctx[a] # "none" /\ a \notin Missed(ctx) THEN {t} ELSE {})
         /\ OrderInv(a)' /\ HolderInv(a)'
<1> DEFINE s == blocked[a]
           B == Elements(s)
           H == Holders(a)
           ty == [usage : Usages \union {"none"}, count : Nat]
<1>0. /\ TypeOK /\ OrderInv(a) /\ HolderInv(a)
      /\ current[a] \in ty /\ s \in Seq(Tasks)
      /\ H \in SUBSET Tasks /\ H \in SUBSET active
      /\ IsFiniteSet(H) /\ Cardinality(H) \in Nat
      /\ ctx[a] \in Usages \union {"none"}
  BY Zenon, HoldersFinite DEF FifoInv, TypeOK
<1>1. /\ t \in Tasks /\ t \notin active /\ \A h \in active : h < t
      /\ requested'[t] = ctx /\ \A h \in active : requested'[h] = requested[h]
      /\ active' = active \union {t}
      /\ current'[a] = IF ctx[a] # "none" /\ a \notin Missed(ctx)
                       THEN [usage |-> ctx[a], count |-> current[a].count + 1]
                       ELSE current[a]
      /\ blocked'[a] = IF a \in Missed(ctx) THEN Append(s, t) ELSE s
  <2>1. /\ t \in Tasks /\ t \notin active /\ \A h \in active : h < t
        /\ requested'[t] = ctx /\ \A h \in active : requested'[h] = requested[h]
        /\ active' = active \union {t}
    BY Zenon, LockStep
  <2>2. /\ current' = [x \in Accounts |->
             IF ctx[x] # "none" /\ x \notin Missed(ctx)
             THEN [usage |-> ctx[x], count |-> current[x].count + 1] ELSE current[x]]
        /\ blocked' = [x \in Accounts |->
             IF x \in Missed(ctx) THEN Append(blocked[x], t) ELSE blocked[x]]
    BY ZenonT(40), LockStep
  <2> QED
    BY <2>1, <2>2
<1>2. \A b \in B : b \in active /\ b < t /\ requested[b][a] # "none"
  BY Zenon, <1>0, <1>1 DEF OrderInv
<1>3. Elements(s)' = Elements(blocked'[a])
  BY DEF Elements
<1>4. Holders(a)' = {h \in active' : requested'[h][a] # "none" /\ h \notin Elements(blocked'[a])}
  BY DEF Holders, Elements
<1>5. H = {h \in active : requested[h][a] # "none" /\ h \notin B}
  BY DEF Holders
<1>6. s # <<>> => s[1] \in B
  <2>1. s # <<>> => Len(s) \in Nat \ {0}
    BY <1>0
  <2> QED
    BY <2>1 DEF Elements
<1>7. \A h \in H, b \in B : h < b
  BY <1>0 DEF OrderInv
<1>8. Increasing(s)
  BY Zenon, <1>0 DEF OrderInv
<1>h. /\ current[a].count = Cardinality(H)
      /\ current[a].usage = "none" <=> H = {}
      /\ \A h \in H : requested[h][a] = current[a].usage
      /\ current[a].usage = "Writable" => \A h, k \in H : h = k
      /\ current[a].usage = "none" => s = <<>>
      /\ current[a].usage = "Readonly" /\ s # <<>> => requested[s[1]][a] = "Writable"
  BY <1>0 DEF HolderInv
<1> HIDE DEF s, B, H
<1>9. ASSUME NEW K, Holders(a)' = K, NEW v \in Seq(Tasks), blocked'[a] = v,
             Increasing(v),
             \A b \in Elements(v) : b \in active' /\ requested'[b][a] # "none",
             \A h \in K, b \in Elements(v) : h < b
      PROVE  OrderInv(a)'
  BY Zenon, <1>9 DEF OrderInv, Increasing, Elements
<1>10. CASE a \in Missed(ctx)
  <2>1. ctx[a] # "none" /\ ~Lockable(a, ctx[a])
    BY SMTT(20), <1>10 DEF Missed
  <2>2. /\ Append(s, t) \in Seq(Tasks)
        /\ Append(s, t) # <<>>
        /\ Increasing(Append(s, t))
        /\ Elements(Append(s, t)) = B \union {t}
        /\ Append(s, t)[1] = IF s = <<>> THEN t ELSE s[1]
    <3>1. Tasks \in SUBSET Nat
      BY BlockIsOrdered
    <3>2. s \in Seq(Tasks) /\ t \in Tasks
      BY Zenon, <1>0, <1>1
    <3>3. \A b \in Elements(s) : b < t
      BY Zenon, <1>2 DEF B
    <3> QED
      BY Zenon, <1>8, <3>1, <3>2, <3>3, AppendLater DEF B
  <2>3. current'[a] = current[a] /\ blocked'[a] = Append(s, t)
    BY <1>1, <1>10
  <2>4. Elements(blocked'[a]) = B \union {t}
    BY <2>2, <2>3
  <2>5. Holders(a)' = H
    BY Zenon, <1>1, <1>2, <1>4, <1>5, <2>4
  <2>6. \A b \in B \union {t} : b \in active' /\ requested'[b][a] # "none"
    BY Zenon, <1>1, <1>2, <2>1
  <2>7. \A h \in H, b \in B \union {t} : h < b
    BY SMTT(20), <1>0, <1>1, <1>7 DEF H
  <2>8. OrderInv(a)'
    BY Zenon, <1>9, <2>2, <2>3, <2>5, <2>6, <2>7
  <2>9. /\ current[a].usage # "none"
        /\ current[a].usage = "Readonly" /\ s = <<>> => ctx[a] = "Writable"
    BY <1>0, <1>h, <2>1 DEF Lockable, Usages, s
  <2>10. requested'[Append(s, t)[1]][a] = IF s = <<>> THEN ctx[a] ELSE requested[s[1]][a]
    BY Zenon, <1>1, <1>2, <1>6, <2>2
  <2>11. \A h \in H : requested'[h] = requested[h]
    BY Zenon, <1>1, <1>5
  <2>12. HolderInv(a)'
    BY SMTT(20), <1>h, <2>3, <2>5, <2>9, <2>10, <2>11 DEF HolderInv
  <2> QED
    BY <1>0, <1>10, <2>2, <2>3, <2>4, <2>5, <2>8, <2>12 DEF B, s, H
<1>11. CASE a \notin Missed(ctx) /\ ctx[a] # "none"
  <2>1. /\ s = <<>>
        /\ current[a].usage = "none" \/ (current[a].usage = "Readonly" /\ ctx[a] = "Readonly")
    BY Zenon, <1>11 DEF Missed, Lockable, s
  <2>2. /\ current'[a] = [usage |-> ctx[a], count |-> current[a].count + 1]
        /\ blocked'[a] = s /\ B = {}
    BY <1>1, <1>11, <2>1 DEF B, Elements
  <2>3. Elements(blocked'[a]) = {}
    BY Zenon, <2>2 DEF B
  <2>4. Holders(a)' = H \union {t} /\ t \notin H
    BY <1>1, <1>4, <1>5, <1>11, <2>2, <2>3
  <2>5. OrderInv(a)'
    BY Zenon, <1>0, <1>8, <1>9, <2>2, <2>3, <2>4 DEF s
  <2>6. Cardinality(H \union {t}) = Cardinality(H) + 1
    BY Zenon, <1>0, <2>4, FS_AddElement DEF H
  <2>7. \A h \in H \union {t} : requested'[h][a] = ctx[a]
    BY Zenon, <1>1, <1>5, <1>h, <2>1
  <2>8. HolderInv(a)'
    BY SMTT(20), <1>11, <1>h, <2>1, <2>2, <2>4, <2>6, <2>7 DEF HolderInv
  <2>9. current'[a] \in ty
    <3>1. current[a].count + 1 \in Nat
      BY <1>0
    <3>2. current'[a] = [usage |-> ctx[a], count |-> current[a].count + 1]
      BY Zenon, <2>2
    <3>3. ctx[a] \in Usages \union {"none"}
      BY Zenon, <1>0
    <3> QED
      BY <3>1, <3>2, <3>3
  <2> QED
    BY Zenon, <1>0, <1>11, <2>2, <2>3, <2>4, <2>5, <2>8, <2>9 DEF B, s, H
<1>12. CASE a \notin Missed(ctx) /\ ctx[a] = "none"
  <2>1. current'[a] = current[a] /\ blocked'[a] = s
    BY Zenon, <1>1, <1>12
  <2>2. Elements(blocked'[a]) = B
    BY SMTT(20), <2>1 DEF B
  <2>3. Holders(a)' = H
    BY Zenon, <1>1, <1>4, <1>5, <1>12, <2>2
  <2>4. \A b \in B : b \in active' /\ requested'[b][a] # "none"
    BY <1>1, <1>2
  <2>5. OrderInv(a)'
    BY <1>0, <1>7, <1>8, <1>9, <2>1, <2>2, <2>3, <2>4 DEF s
  <2>6. \A h \in H : requested'[h] = requested[h]
    BY <1>1, <1>5
  <2>7. s # <<>> => requested'[s[1]] = requested[s[1]]
    BY Zenon, <1>1, <1>2, <1>6
  <2>8. HolderInv(a)'
    BY <1>h, <2>1, <2>3, <2>6, <2>7 DEF HolderInv
  <2> QED
    BY Zenon, <1>0, <1>12, <2>1, <2>2, <2>3, <2>5, <2>8 DEF B, s, H
<1> QED
  BY <1>10, <1>11, <1>12 DEF Missed

\* Taking a task preserves the invariant.
LEMMA ScheduleInv ==
  ASSUME FifoInv, NEW t, NEW ctx \in [Accounts -> Usages \union {"none"}],
         schedule_or_buffer_task(t, ctx)
  PROVE  FifoInv'
<1> DEFINE q == unblocked_task_queue
<1>0. /\ active \in SUBSET Tasks /\ fresh \in SUBSET Tasks /\ running \in SUBSET Tasks
      /\ q \in Seq(Tasks) /\ Distinct(q) /\ running \intersect Elements(q) = {}
      /\ running \union Elements(q) = {h \in active : blocked_usage_count[h] = 0}
      /\ blocked_usage_count \in [Tasks -> Nat]
  BY DEF FifoInv, UnblockedInv, TypeOK, Unblocked
<1>1. /\ t \in Tasks /\ t \notin active /\ \A h \in active : h < t
      /\ active' = active \union {t}
      /\ blocked_usage_count' = [blocked_usage_count EXCEPT ![t] = Cardinality(Missed(ctx))]
  BY Zenon, LockStep
<1>2. /\ t \in fresh /\ \A o \in fresh : t <= o
      /\ fresh' = fresh \ {t}
      /\ requested' = [requested EXCEPT ![t] = ctx]
      /\ running' = IF blocked_usage_count'[t] = 0 THEN running \union {t} ELSE running
      /\ q' = q
  BY Zenon DEF schedule_or_buffer_task
<1>3. \A a \in Accounts : OrderInv(a)' /\ HolderInv(a)'
  BY LockedQueue
<1>4. IsFiniteSet(Missed(ctx)) /\ Cardinality(Missed(ctx)) \in Nat
  <2>1. Missed(ctx) \in SUBSET Accounts
    BY DEF Missed
  <2> QED
    BY <2>1, AddressesAreFinite, FS_Subset, FS_CardinalityType
<1>5. blocked_usage_count' \in [Tasks -> Nat]
  BY <1>0, <1>1, <1>4
<1>6. CountInv'
  <2> SUFFICES ASSUME NEW u \in Tasks
               PROVE  blocked_usage_count'[u] = Cardinality(BlockedOn(u)')
    BY DEF CountInv
  <2>1. BlockedOn(u)' = {a \in Accounts : u \in Elements(blocked'[a])}
    BY DEF BlockedOn, Elements
  <2>2. \A a \in Accounts :
          Elements(blocked'[a]) =
            Elements(blocked[a]) \union (IF a \in Missed(ctx) THEN {t} ELSE {})
    BY Zenon, LockedQueue
  <2>3. CASE u = t
    <3>1. \A a \in Accounts : t \notin Elements(blocked[a])
      BY <1>1 DEF FifoInv, OrderInv
    <3>2. BlockedOn(u)' = Missed(ctx)
      BY <2>1, <2>2, <2>3, <3>1 DEF Missed
    <3>3. blocked_usage_count'[u] = Cardinality(Missed(ctx))
      BY <1>0, <1>1, <2>3
    <3> QED
      BY Zenon, <3>2, <3>3
  <2>4. CASE u # t
    <3>1. BlockedOn(u)' = BlockedOn(u)
      BY <2>1, <2>2, <2>4 DEF BlockedOn
    <3>2. blocked_usage_count'[u] = blocked_usage_count[u]
      BY <1>0, <1>1, <2>4
    <3> QED
      BY <3>1, <3>2 DEF FifoInv, CountInv
  <2> QED
    BY <2>3, <2>4
<1>7. UnblockedInv'
  <2>1. \A h \in active : blocked_usage_count'[h] = blocked_usage_count[h]
    BY <1>0, <1>1
  <2>2. Elements(q)' = Elements(q)
    BY <1>2 DEF Elements
  <2>3. Unblocked' = running' \union Elements(q)
    BY <2>2 DEF Unblocked
  <2>4. Unblocked' = {h \in active' : blocked_usage_count'[h] = 0}
    BY <1>0, <1>1, <1>2, <2>1, <2>3
  <2>5. running' \intersect Elements(q)' = {}
    BY <1>0, <1>1, <1>2, <2>2
  <2>6. Distinct(q)'
    BY Zenon, <1>0, <1>2 DEF Distinct
  <2> QED
    BY <2>4, <2>5, <2>6 DEF UnblockedInv
<1>8. TaskInv'
  <2>1. \A f \in fresh' : t < f
    <3> SUFFICES ASSUME NEW f \in fresh, f # t PROVE t < f
      BY <1>2
    <3>1. t \in Nat /\ f \in Nat /\ t <= f
      BY <1>0, <1>1, <1>2, BlockIsOrdered
    <3> QED
      BY <3>1
  <2>2. \A h \in active', f \in fresh' : h < f
    BY <1>1, <1>2, <2>1 DEF FifoInv, TaskInv
  <2>3. \A h \in Tasks : h \notin active' => requested'[h] = Unused
    BY <1>1, <1>2 DEF FifoInv, TypeOK, TaskInv
  <2> QED
    BY <2>2, <2>3 DEF TaskInv, Unused
<1>9. TypeOK'
  <2>1. current' \in [Accounts -> [usage : Usages \union {"none"}, count : Nat]]
    <3>1. DOMAIN current' = Accounts /\ current' = [a \in Accounts |-> current'[a]]
      BY LockStep
    <3> QED
      BY <3>1, LockedQueue
  <2>2. blocked' \in [Accounts -> Seq(Tasks)]
    <3>1. DOMAIN blocked' = Accounts /\ blocked' = [a \in Accounts |-> blocked'[a]]
      BY LockStep
    <3> QED
      BY <3>1, LockedQueue
  <2>3. requested' \in [Tasks -> [Accounts -> Usages \union {"none"}]]
    BY <1>1, <1>2 DEF FifoInv, TypeOK
  <2> QED
    BY <1>0, <1>1, <1>2, <1>5, <2>1, <2>2, <2>3 DEF TypeOK
<1> QED
  BY <1>3, <1>6, <1>7, <1>8, <1>9 DEF FifoInv

---------------------------------------------------------------------------
(* The theorems *)

\* A machine no task was given to satisfies the invariant.
LEMMA InitInv ==
  Init => FifoInv
<1> SUFFICES ASSUME Init
             PROVE  FifoInv
  OBVIOUS
<1>1. TypeOK
  <2>1. <<>> \in Seq(Tasks)
    OBVIOUS
  <2> QED
    BY Zenon, <2>1 DEF Init, TypeOK, Idle, Unused, Usages
<1>2. ASSUME NEW a \in Accounts PROVE OrderInv(a) /\ HolderInv(a)
  <2>1. Holders(a) = {} /\ Elements(blocked[a]) = {} /\ blocked[a] = <<>>
    BY DEF Init, Holders, Elements
  <2> QED
    BY <2>1, FS_EmptySet DEF Init, OrderInv, HolderInv, Increasing, Idle
<1>3. CountInv
  <2>1. \A t : BlockedOn(t) = {}
    BY DEF Init, BlockedOn, Elements
  <2> QED
    BY Zenon, <2>1, FS_EmptySet DEF Init, CountInv
<1>4. UnblockedInv
  BY DEF Init, UnblockedInv, Unblocked, Elements, Distinct
<1>5. TaskInv
  BY DEF Init, TaskInv
<1> QED
  BY <1>1, <1>2, <1>3, <1>4, <1>5 DEF FifoInv

\* Steps that leave the usage queues and the tasks in them alone.
LEMMA QueuesUnchanged ==
  ASSUME FifoInv, UNCHANGED <<current, blocked, blocked_usage_count, active, requested>>
  PROVE  (\A a \in Accounts : OrderInv(a)' /\ HolderInv(a)') /\ CountInv'
<1>1. ASSUME NEW a \in Accounts PROVE OrderInv(a)' /\ HolderInv(a)'
  <2>1. Holders(a)' = Holders(a) /\ Elements(blocked[a])' = Elements(blocked[a])
    BY DEF Holders, Elements
  <2>2. OrderInv(a) /\ HolderInv(a)
    BY Zenon DEF FifoInv
  <2>3. OrderInv(a)'
    BY Zenon, <2>1, <2>2 DEF OrderInv, Increasing
  <2>4. HolderInv(a)'
    BY <2>1, <2>2 DEF HolderInv
  <2> QED
    BY <2>3, <2>4
<1>2. CountInv'
  <2>1. \A t \in Tasks : BlockedOn(t)' = BlockedOn(t)
    BY DEF BlockedOn, Elements
  <2> QED
    BY Zenon, <2>1 DEF FifoInv, CountInv
<1> QED
  BY <1>1, <1>2

\* Every action of the machine preserves the invariant.
LEMMA NextInv ==
  FifoInv /\ [Next]_vars => FifoInv'
<1> SUFFICES ASSUME FifoInv, [Next]_vars
             PROVE  FifoInv'
  OBVIOUS
<1>1. ASSUME NEW t \in Tasks, NEW ctx \in [Accounts -> Usages \union {"none"}],
             schedule_or_buffer_task(t, ctx)
      PROVE  FifoInv'
  BY <1>1, ScheduleInv
<1>2. ASSUME NEW t \in Tasks, deschedule_task(t)
      PROVE  FifoInv'
  <2>1. t \in running
    BY <1>2 DEF deschedule_task
  <2> QED
    BY <1>2, <2>1, DescheduleInv
<1>3. ASSUME schedule_next_unblocked_task
      PROVE  FifoInv'
  <2> DEFINE q == unblocked_task_queue
  <2>1. /\ q # <<>> /\ running' = running \union {Head(q)} /\ q' = Tail(q)
        /\ UNCHANGED <<current, blocked, blocked_usage_count, active, requested, fresh>>
    BY <1>3 DEF schedule_next_unblocked_task
  <2>0. /\ q \in Seq(Tasks) /\ Distinct(q) /\ running \intersect Elements(q) = {}
        /\ Unblocked = running \union Elements(q)
    BY DEF FifoInv, TypeOK, UnblockedInv, Unblocked
  <2>2. /\ Tail(q) \in Seq(Tasks) /\ Head(q) \in Tasks
        /\ Elements(q) = Elements(Tail(q)) \union {Head(q)}
        /\ Head(q) \notin Elements(Tail(q)) /\ Distinct(Tail(q))
    BY Zenon, <2>0, <2>1, HeadTailElements
  <2>3. Elements(q)' = Elements(Tail(q)) /\ Distinct(q)'
    BY Zenon, <2>1, <2>2 DEF Elements, Distinct
  <2>4. Unblocked' = running' \union Elements(q)'
    BY DEF Unblocked
  <2>5. Unblocked' = Unblocked /\ running' \intersect Elements(q)' = {}
    BY <2>0, <2>1, <2>2, <2>3, <2>4
  <2>6. UnblockedInv'
    BY <2>1, <2>3, <2>5 DEF FifoInv, UnblockedInv
  <2>7. TaskInv'
    BY <2>1 DEF FifoInv, TaskInv
  <2>8. TypeOK'
    BY <2>1, <2>2 DEF FifoInv, TypeOK
  <2> QED
    BY <2>1, <2>6, <2>7, <2>8, QueuesUnchanged DEF FifoInv
<1>4. ASSUME reinitialize \/ UNCHANGED vars
      PROVE  FifoInv'
  <2>1. UNCHANGED <<queues, running, active, requested>>
    BY <1>4 DEF reinitialize, vars
  <2>2. UNCHANGED <<current, blocked, blocked_usage_count, unblocked_task_queue>>
    BY <2>1 DEF queues
  <2>3. UnblockedInv'
    BY <2>1, <2>2 DEF FifoInv, UnblockedInv, Unblocked, Elements, Distinct
  <2>4. TaskInv' /\ fresh' \in SUBSET Tasks
    BY <1>4, <2>1 DEF reinitialize, vars, FifoInv, TypeOK, TaskInv
  <2>5. TypeOK'
    BY <2>1, <2>2, <2>4 DEF FifoInv, TypeOK
  <2> QED
    BY <2>1, <2>2, <2>3, <2>4, <2>5, QueuesUnchanged DEF FifoInv
<1> QED
  BY <1>1, <1>2, <1>3, <1>4 DEF Next

\* The invariant holds in every state of the machine.
THEOREM FifoInvariance == Spec => []FifoInv
<1> QED
  BY InitInv, NextInv, PTL DEF Spec

\* A task that waits for nothing shares its addresses with the holders only,
\* and of two conflicting tasks one alone can hold an address.
LEMMA BlockOrderFromInv ==
  FifoInv => BlockOrder
<1> SUFFICES ASSUME FifoInv, NEW u \in Unblocked, NEW t \in active, t < u,
                    NEW a \in Accounts,
                    requested[t][a] # "none", requested[u][a] # "none",
                    "Writable" \in {requested[t][a], requested[u][a]}
             PROVE  FALSE
  BY DEF BlockOrder, Conflict
<1>1. u \in Holders(a)
  BY UnblockedHolds DEF Addresses
<1>2. t \in Nat /\ u \in Nat
  BY Zenon, UnblockedHolds, BlockIsOrdered DEF FifoInv, TypeOK
<1>3. t \in Holders(a)
  <2> SUFFICES ASSUME t \in Elements(blocked[a]) PROVE FALSE
    BY Zenon DEF Holders
  <2>1. u < t
    BY Zenon, <1>1 DEF FifoInv, OrderInv
  <2> QED
    BY <1>2, <2>1
<1>4. t = u
  BY <1>1, <1>3 DEF FifoInv, HolderInv
<1> QED
  BY <1>2, <1>4

\* Whatever the block, no transaction of it runs, or is promised to the caller,
\* while an earlier one with which it conflicts is active.
THEOREM BlockIsReplayedInOrder == Spec => []BlockOrder
BY FifoInvariance, BlockOrderFromInv, PTL

---------------------------------------------------------------------------
(* The priority queues do what the fifo queues do *)

\* The usage queues as the priority queues would keep them.
PriorityCurrent == [a \in Accounts |-> [usage |-> current[a].usage, tasks |-> Holders(a)]]
PriorityBlocked == [a \in Accounts |-> Elements(blocked[a])]

\* No limit on running or active tasks, and no task is ever cleared.
Priority == INSTANCE SchedulingStateMachine WITH
  MaxRunning <- Cardinality(Tasks),
  MaxActive <- 0,
  NoCap <- 0,
  Hash <- [t \in Tasks |-> t],
  Sessions <- {Tasks},
  current <- PriorityCurrent,
  blocked <- PriorityBlocked,
  hashes <- {},
  clearing <- FALSE

\* Every behaviour of the fifo queues is one of the priority queues: the same
\* tasks run, in the same order, at the same moments.
ImplementsPriority == Priority!Spec

\* Both modules count with the same operator.
LEMMA SameCardinality ==
  \A S : Priority!Cardinality(S) = Cardinality(S)
BY Zenon DEF Priority!Cardinality, Cardinality

\* An address as the priority queues keep it.
LEMMA MappedQueue ==
  ASSUME NEW a \in Accounts
  PROVE  /\ PriorityCurrent[a] = [usage |-> current[a].usage, tasks |-> Holders(a)]
         /\ PriorityCurrent[a].usage = current[a].usage
         /\ PriorityCurrent[a].tasks = Holders(a)
         /\ PriorityBlocked[a] = Elements(blocked[a])
BY DEF PriorityCurrent, PriorityBlocked

\* The initial states correspond.
LEMMA InitMaps ==
  Init => Priority!Init
<1> SUFFICES ASSUME Init
             PROVE  Priority!Init
  OBVIOUS
<1>1. ASSUME NEW a \in Accounts
      PROVE  current[a].usage = "none" /\ Holders(a) = {} /\ Elements(blocked[a]) = {}
  BY DEF Init, Idle, Holders, Elements
<1>2. PriorityCurrent = [a \in Accounts |-> Priority!Idle]
  BY <1>1 DEF PriorityCurrent, Priority!Idle
<1>3. PriorityBlocked = [a \in Accounts |-> {}]
  BY <1>1 DEF PriorityBlocked
<1> QED
  BY <1>2, <1>3 DEF Init, Priority!Init, Unused, Priority!Unused

\* A new task comes last, so it takes no address from a holder, and the
\* priority queues let it in exactly where the fifo queues do.
LEMMA LockMaps ==
  ASSUME FifoInv, NEW t, NEW ctx \in [Accounts -> Usages \union {"none"}],
         schedule_or_buffer_task(t, ctx), NEW a \in Accounts, ctx[a] # "none"
  PROVE  /\ Priority!Reblocked(a, t, ctx[a]) = {}
         /\ Priority!Lockable(a, t, ctx[a]) <=> Lockable(a, ctx[a])
<1>1. t \in Tasks /\ t \notin active /\ (\A h \in active : h < t) /\ active \in SUBSET Tasks
  <2>1. t \in Tasks /\ t \notin active /\ \A h \in active : h < t
    BY Zenon, LockStep
  <2> QED
    BY <2>1 DEF FifoInv, TypeOK
<1>2. \A h \in active : ~(t < h)
  <2>1. \A h \in active : h \in Nat /\ t \in Nat
    BY Zenon, <1>1, BlockIsOrdered
  <2> QED
    BY <1>1, <2>1
<1>3. Holders(a) \subseteq active /\ Elements(blocked[a]) \subseteq active
  BY DEF FifoInv, OrderInv, Holders
<1>4. Priority!Reblocked(a, t, ctx[a]) = {}
  BY Zenon, <1>2, <1>3, MappedQueue DEF Priority!Reblocked
<1>5. Elements(blocked[a]) = {} <=> blocked[a] = <<>>
  <2>1. blocked[a] \in Seq(Tasks)
    BY DEF FifoInv, TypeOK
  <2> QED
    BY <2>1, EmptyElements
<1>6. HolderInv(a)
  BY Zenon DEF FifoInv
<1>7. CASE Priority!BothReadonly(a, ctx[a])
  <2>1. current[a].usage = "Readonly" /\ ctx[a] = "Readonly"
    BY Zenon, <1>7, MappedQueue DEF Priority!BothReadonly
  <2>2. Priority!Lockable(a, t, ctx[a]) <=> \A b \in Elements(blocked[a]) : t < b
    BY Zenon, <1>7, MappedQueue DEF Priority!Lockable
  <2> QED
    BY <1>2, <1>3, <1>4, <1>5, <2>1, <2>2 DEF Lockable
<1>8. CASE ~Priority!BothReadonly(a, ctx[a])
  <2>1. ~(current[a].usage = "Readonly" /\ ctx[a] = "Readonly")
    BY Zenon, <1>8, MappedQueue DEF Priority!BothReadonly
  <2>2. Priority!Lockable(a, t, ctx[a]) <=> Holders(a) = {}
    BY Zenon, <1>4, <1>8, MappedQueue DEF Priority!Lockable
  <2> QED
    BY <1>4, <1>6, <2>1, <2>2 DEF Lockable, HolderInv
<1> QED
  BY <1>7, <1>8

\* Taking a task is what schedule_or_buffer_task does with priority queues.
LEMMA ScheduleMaps ==
  ASSUME FifoInv, NEW t \in Tasks, NEW ctx \in [Accounts -> Usages \union {"none"}],
         schedule_or_buffer_task(t, ctx)
  PROVE  Priority!schedule_or_buffer_task(t, ctx, FALSE)
<1>1. /\ t \in fresh /\ fresh' = fresh \ {t}
      /\ requested' = [requested EXCEPT ![t] = ctx]
      /\ active' = active \union {t}
      /\ running' = IF blocked_usage_count'[t] = 0 THEN running \union {t} ELSE running
      /\ unblocked_task_queue' = unblocked_task_queue
  BY DEF schedule_or_buffer_task
<1>2. /\ t \notin active
      /\ blocked_usage_count' = [blocked_usage_count EXCEPT ![t] = Cardinality(Missed(ctx))]
      /\ current' = [a \in Accounts |->
           IF ctx[a] # "none" /\ a \notin Missed(ctx)
           THEN [usage |-> ctx[a], count |-> current[a].count + 1] ELSE current[a]]
  BY Zenon, LockStep
<1>3. Priority!Missed(t, ctx) = Missed(ctx)
  BY LockMaps DEF Priority!Missed, Missed
<1>4. \A h : Priority!Taken(h, t, ctx) = {}
  BY LockMaps DEF Priority!Taken
<1>5. blocked_usage_count' = [h \in Tasks |->
        IF h = t THEN Cardinality(Priority!Missed(t, ctx))
        ELSE blocked_usage_count[h] + Cardinality(Priority!Taken(h, t, ctx))]
  <2>1. blocked_usage_count \in [Tasks -> Nat]
    BY DEF FifoInv, TypeOK
  <2>2. \A h \in Tasks : Cardinality(Priority!Taken(h, t, ctx)) = 0
    BY Zenon, <1>4, FS_EmptySet
  <2>3. \A h \in Tasks : blocked_usage_count[h] + Cardinality(Priority!Taken(h, t, ctx))
                           = blocked_usage_count[h]
    <3>1. \A m \in Nat : \A k : k = 0 => m + k = m
      OBVIOUS
    <3>2. \A h \in Tasks : blocked_usage_count[h] \in Nat
      BY Zenon, <2>1
    <3> QED
      BY Zenon, <2>2, <3>1, <3>2
  <2> QED
    BY Zenon, <1>2, <1>3, <2>1, <2>3
<1>6. ASSUME NEW a \in Accounts
      PROVE  /\ PriorityCurrent'[a] =
                  IF ctx[a] # "none" THEN Priority!CurrentAfterLock(a, t, ctx[a])
                                     ELSE PriorityCurrent[a]
             /\ PriorityBlocked'[a] =
                  IF ctx[a] # "none" THEN Priority!BlockedAfterLock(a, t, ctx[a])
                                     ELSE PriorityBlocked[a]
  <2>1. /\ Elements(blocked'[a]) =
             Elements(blocked[a]) \union (IF a \in Missed(ctx) THEN {t} ELSE {})
        /\ Holders(a)' = Holders(a) \union
             (IF ctx[a] # "none" /\ a \notin Missed(ctx) THEN {t} ELSE {})
    BY Zenon, LockedQueue
  <2>2. PriorityCurrent'[a] = [usage |-> current'[a].usage, tasks |-> Holders(a)']
    BY Zenon DEF PriorityCurrent
  <2>3. PriorityBlocked'[a] = Elements(blocked'[a])
    BY Zenon DEF PriorityBlocked, Elements
  <2>4. current'[a].usage = IF ctx[a] # "none" /\ a \notin Missed(ctx)
                            THEN ctx[a] ELSE current[a].usage
    BY <1>2
  <2>5. CASE ctx[a] = "none"
    <3>1. a \notin Missed(ctx)
      BY <2>5 DEF Missed
    <3> QED
      BY Zenon, <2>1, <2>2, <2>3, <2>4, <2>5, <3>1, MappedQueue
  <2>6. CASE ctx[a] # "none" /\ a \in Missed(ctx)
    <3>1. Priority!Reblocked(a, t, ctx[a]) = {} /\ ~Priority!Lockable(a, t, ctx[a])
      BY <2>6, LockMaps DEF Missed
    <3>2. Priority!CurrentAfterLock(a, t, ctx[a])
            = [PriorityCurrent[a] EXCEPT !.tasks = PriorityCurrent[a].tasks \ {}]
      BY <3>1 DEF Priority!CurrentAfterLock
    <3>3. Priority!CurrentAfterLock(a, t, ctx[a])
            = [usage |-> current[a].usage, tasks |-> Holders(a)]
      BY <3>2, MappedQueue
    <3>4. Priority!BlockedAfterLock(a, t, ctx[a]) = Elements(blocked[a]) \union {t}
      BY Zenon, <3>1, MappedQueue DEF Priority!BlockedAfterLock
    <3> QED
      BY Zenon, <2>1, <2>2, <2>3, <2>4, <2>6, <3>3, <3>4
  <2>7. CASE ctx[a] # "none" /\ a \notin Missed(ctx)
    <3>1. Priority!Reblocked(a, t, ctx[a]) = {} /\ Priority!Lockable(a, t, ctx[a])
      BY <2>7, LockMaps DEF Missed
    <3>2. Priority!CurrentAfterLock(a, t, ctx[a])
            = [usage |-> ctx[a], tasks |-> Holders(a) \union {t}]
      BY Zenon, <3>1, MappedQueue DEF Priority!CurrentAfterLock
    <3>3. Priority!BlockedAfterLock(a, t, ctx[a]) = Elements(blocked[a])
      BY Zenon, <3>1, MappedQueue DEF Priority!BlockedAfterLock
    <3> QED
      BY <2>1, <2>2, <2>3, <2>4, <2>7, <3>2, <3>3
  <2> QED
    BY <2>5, <2>6, <2>7
<1>7. PriorityCurrent' = [a \in Accounts |->
        IF ctx[a] # "none" THEN Priority!CurrentAfterLock(a, t, ctx[a])
                           ELSE PriorityCurrent[a]]
  <2>1. PriorityCurrent' = [a \in Accounts |-> PriorityCurrent'[a]]
    BY DEF PriorityCurrent
  <2> QED
    BY <1>6, <2>1
<1>8. PriorityBlocked' = [a \in Accounts |->
        IF ctx[a] # "none" THEN Priority!BlockedAfterLock(a, t, ctx[a])
                           ELSE PriorityBlocked[a]]
  <2>1. PriorityBlocked' = [a \in Accounts |-> PriorityBlocked'[a]]
    BY Zenon DEF PriorityBlocked
  <2> QED
    BY <1>6, <2>1
<1>9. Priority!try_lock_usage_queues(t, ctx)
  BY <1>5, <1>7, <1>8, SameCardinality DEF Priority!try_lock_usage_queues
<1>10. Cardinality(running) < Cardinality(Tasks)
  <2>1. t \notin running /\ running \in SUBSET Tasks /\ t \in Tasks
    BY <1>2 DEF FifoInv, TypeOK, UnblockedInv, Unblocked
  <2>2. IsFiniteSet(Tasks) /\ IsFiniteSet(running)
    BY Zenon, <2>1, BlockIsOrdered, FS_Subset
  <2>3. /\ Cardinality(running) <= Cardinality(Tasks)
        /\ Cardinality(Tasks) = Cardinality(running) => Tasks = running
    BY <2>1, <2>2, FS_Subset
  <2>4. Cardinality(running) \in Nat /\ Cardinality(Tasks) \in Nat
    BY <2>2, FS_CardinalityType
  <2> QED
    BY <2>1, <2>3, <2>4
<1>11. Priority!is_task_runnable
  BY <1>10, SameCardinality DEF Priority!is_task_runnable
<1>12. Priority!AcceptTask(t, ctx, FALSE)
  BY Zenon, <1>1, <1>9, <1>11 DEF Priority!AcceptTask, Priority!IsDropped
<1> QED
  BY Zenon, <1>1, <1>12 DEF Priority!schedule_or_buffer_task

---------------------------------------------------------------------------
(* Descheduling *)

\* An address t leaves goes to the same tasks in both kinds of queue.
LEMMA GrantedMaps ==
  ASSUME FifoInv, NEW t \in running, deschedule_task(t), NEW a \in Addresses(t)
  PROVE  /\ Priority!Granted(a, t) = Elements(Granted(a))
         /\ Priority!CurrentAfterUnlock(a, t) = PriorityCurrent'[a]
         /\ PriorityBlocked'[a] = PriorityBlocked[a] \ Priority!Granted(a, t)
<1> DEFINE B == Elements(blocked[a])
           G == Elements(Granted(a))
           H == Holders(a)
           first == requested[blocked[a][1]][a]
<1>0. a \in Accounts
  BY DEF Addresses
<1>1. /\ t \in H
      /\ current'[a] = CurrentAfterUnlock(a)
      /\ Elements(blocked'[a]) = B \ G
      /\ Holders(a)' = (H \ {t}) \union G
  BY Zenon, <1>0, HoldersAfterUnlock
<1>2. /\ G = IF Frees(a)
             THEN {b \in B : \/ \A o \in B : b <= o
                             \/ \A o \in B : o <= b => requested[o][a] = "Readonly"}
             ELSE {}
      /\ Cardinality(G) = Popped(a)
      /\ \A g \in G : requested[g][a] = first
      /\ Popped(a) # 0 => blocked[a][1] \in G
  BY Zenon, <1>0, GrantedIs
<1>3. Frees(a) <=> H \subseteq {t}
  BY Zenon, <1>0, <1>1, FreesIs
<1>4. /\ PriorityCurrent[a] = [usage |-> current[a].usage, tasks |-> H]
      /\ PriorityCurrent[a].tasks = H
      /\ PriorityBlocked[a] = B
  BY Zenon, <1>0, MappedQueue
<1>5. /\ PriorityCurrent'[a] = [usage |-> current'[a].usage, tasks |-> Holders(a)']
      /\ PriorityBlocked'[a] = Elements(blocked'[a])
  BY <1>0 DEF PriorityCurrent, PriorityBlocked, Elements
<1>6. \A b \in B : requested[b][a] \in Usages
  BY <1>0 DEF FifoInv, TypeOK, OrderInv, Usages
<1>7. current[a] \in [usage : Usages \union {"none"}, count : Nat] /\ TypeOK
  <2>1. TypeOK /\ a \in Accounts
    BY Zenon, <1>0 DEF FifoInv
  <2>2. current \in [Accounts -> [usage : Usages \union {"none"}, count : Nat]]
    BY Zenon, <2>1 DEF TypeOK
  <2> QED
    BY <2>1, <2>2
<1>h. Popped(a) # 0 => Head(blocked[a]) = blocked[a][1]
  BY <1>0 DEF FifoInv, TypeOK
<1> HIDE DEF B, G, H, first
<1>8. Priority!Granted(a, t) = G
  BY <1>2, <1>3, <1>4 DEF Priority!Granted
<1>9. Priority!CurrentAfterUnlock(a, t) = PriorityCurrent'[a]
  <2>1. CASE ~Frees(a)
    <3>1. current'[a].usage = current[a].usage
      BY Zenon, <1>1, <1>7, <2>1 DEF CurrentAfterUnlock
    <3>2. G = {}
      BY <1>2, <2>1
    <3>3. Priority!CurrentAfterUnlock(a, t) = [usage |-> current[a].usage, tasks |-> H \ {t}]
      <4>1. Priority!CurrentAfterUnlock(a, t)
              = [PriorityCurrent[a] EXCEPT !.tasks = PriorityCurrent[a].tasks \ {t}]
        BY <1>3, <1>4, <2>1 DEF Priority!CurrentAfterUnlock
      <4> QED
        BY SMTT(20), <1>4, <4>1
    <3> QED
      BY <1>1, <1>5, <3>1, <3>2, <3>3
  <2>2. CASE Frees(a) /\ G = {}
    <3>1. Popped(a) = 0
      BY <1>2, <2>2
    <3>2. current'[a] = Idle
      BY Zenon, <1>1, <2>2, <3>1 DEF CurrentAfterUnlock
    <3>3. Holders(a)' = {}
      BY <1>1, <1>3, <2>2
    <3>4. Priority!CurrentAfterUnlock(a, t) = [usage |-> "none", tasks |-> {}]
      BY Zenon, <1>3, <1>4, <1>8, <2>2 DEF Priority!CurrentAfterUnlock, Priority!Idle
    <3> QED
      BY <1>5, <3>2, <3>3, <3>4 DEF Idle
  <2>3. CASE Frees(a) /\ G # {}
    <3>1. Popped(a) # 0
      <4>1. IsFiniteSet(G)
        <5>1. G \in SUBSET Tasks
          BY <1>0, <1>2 DEF FifoInv, OrderInv, TypeOK, B
        <5> QED
          BY Zenon, <5>1, BlockIsOrdered, FS_Subset
      <4> QED
        BY Zenon, <1>2, <2>3, <4>1, FS_EmptySet
    <3>2. current'[a] = [usage |-> first, count |-> Popped(a)]
      BY Zenon, <1>1, <1>h, <2>3, <3>1 DEF CurrentAfterUnlock, first
    <3>3. Holders(a)' = G
      BY Zenon, <1>1, <1>3, <2>3
    <3>4. first \in Usages
      BY Zenon, <1>2, <1>6, <3>1 DEF first
    <3>5. first = IF \E g \in G : requested[g][a] = "Writable"
                  THEN "Writable" ELSE "Readonly"
      BY <1>2, <2>3, <3>4 DEF Usages
    <3>6. Priority!CurrentAfterUnlock(a, t) = [usage |-> first, tasks |-> G]
      BY <1>3, <1>4, <1>8, <2>3, <3>5 DEF Priority!CurrentAfterUnlock
    <3> QED
      BY <1>5, <3>2, <3>3, <3>6
  <2> QED
    BY Zenon, <2>1, <2>2, <2>3
<1> QED
  BY <1>1, <1>4, <1>5, <1>8, <1>9 DEF G

\* So the same tasks become unblocked.
LEMMA NewlyUnblockedMaps ==
  ASSUME FifoInv, NEW t \in running, deschedule_task(t)
  PROVE  /\ Priority!Addresses(t) = Addresses(t)
         /\ \A u : Priority!GrantsOf(u, t) = GrantsOf(u, t)
         /\ Priority!NewlyUnblocked(t) = NewlyUnblocked(t)
<1>1. Priority!Addresses(t) = Addresses(t)
  BY Zenon DEF Priority!Addresses, Addresses
<1>2. \A u : Priority!GrantsOf(u, t) = GrantsOf(u, t)
  BY <1>1, GrantedMaps DEF Priority!GrantsOf, GrantsOf
<1> QED
  BY <1>1, <1>2, SameCardinality DEF Priority!NewlyUnblocked, NewlyUnblocked

\* The walk meets a last address that unblocks a task, where the task queued.
LEMMA LastGrant ==
  ASSUME FifoInv, NEW t \in running, deschedule_task(t),
         NEW u \in NewlyUnblocked(t), NEW order \in Listings(Addresses(t)),
         NEW a, a = CHOOSE x \in GrantsOf(u, t) :
                      \A b \in GrantsOf(u, t) :
                        [y \in Addresses(t) |-> IndexIn(order, y)][b]
                          <= [y \in Addresses(t) |-> IndexIn(order, y)][x]
  PROVE  a \in GrantsOf(u, t)
<1> DEFINE D == Addresses(t)
           n == Cardinality(D)
           pos == [y \in D |-> IndexIn(order, y)]
           S == {pos[b] : b \in GrantsOf(u, t)}
<1>1. n \in Nat
  <2>1. D \in SUBSET Accounts
    BY DEF Addresses
  <2> QED
    BY <2>1, AddressesAreFinite, FS_Subset, FS_CardinalityType
<1>2. order \in [1..n -> D] /\ \A x \in D : \E i \in 1..n : order[i] = x
  BY DEF Listings
<1>3. \A x \in D : pos[x] \in 1..n
  BY <1>2 DEF IndexIn
<1>4. GrantsOf(u, t) \subseteq D
  BY DEF GrantsOf
<1>5. GrantsOf(u, t) # {}
  <2>1. Cardinality(GrantsOf(u, t)) # 0
    BY DEF NewlyUnblocked
  <2> QED
    BY <2>1, FS_EmptySet
<1>6. S \in SUBSET (1..n) /\ S # {}
  BY Zenon, <1>3, <1>4, <1>5
<1>7. PICK m \in S : \A i \in S : i <= m
  BY Zenon, <1>1, <1>6, GreatestNumber
<1>8. PICK x \in GrantsOf(u, t) : pos[x] = m
  BY <1>7
<1>9. \A b \in GrantsOf(u, t) : pos[b] <= pos[x]
  BY Zenon, <1>7, <1>8
<1> QED
  BY Zenon, <1>9

\* Two tasks queued at one address have their ids in the order they queued.
LEMMA TurnIsOrder ==
  ASSUME FifoInv, NEW a \in Accounts,
         NEW u \in Elements(blocked[a]), NEW v \in Elements(blocked[a]),
         IndexIn(blocked[a], u) < IndexIn(blocked[a], v)
  PROVE  u < v
<1> DEFINE s == blocked[a]
<1>1. s \in Seq(Tasks) /\ Increasing(s) /\ Tasks \in SUBSET Nat
  BY BlockIsOrdered DEF FifoInv, TypeOK, OrderInv
<1>2. DOMAIN s = 1..Len(s)
  BY <1>1
<1>3. /\ \E i \in DOMAIN s : s[i] = u
      /\ \E i \in DOMAIN s : s[i] = v
  BY <1>2 DEF Elements
<1> HIDE DEF s
<1>4. /\ IndexIn(s, u) \in DOMAIN s /\ s[IndexIn(s, u)] = u
      /\ IndexIn(s, v) \in DOMAIN s /\ s[IndexIn(s, v)] = v
  BY Zenon, <1>3 DEF IndexIn
<1>5. s[IndexIn(s, u)] < s[IndexIn(s, v)] <=> IndexIn(s, u) < IndexIn(s, v)
  BY <1>1, <1>2, <1>4, IncreasingOrder
<1> QED
  BY <1>4, <1>5 DEF s

\* The newly unblocked tasks are queued in the same order.
LEMMA WalkMaps ==
  ASSUME FifoInv, NEW t \in running, deschedule_task(t),
         NEW order \in Listings(Addresses(t)), NEW seq \in Listings(NewlyUnblocked(t)),
         InWalkOrder(seq, t, [a \in Addresses(t) |-> IndexIn(order, a)])
  PROVE  Priority!InWalkOrder(seq, t, [a \in Addresses(t) |-> IndexIn(order, a)])
<1> DEFINE pos == [a \in Addresses(t) |-> IndexIn(order, a)]
           Last(u) == CHOOSE a \in GrantsOf(u, t) :
                        \A b \in GrantsOf(u, t) : pos[b] <= pos[a]
           N == NewlyUnblocked(t)
<1>1. \A i \in 1..Len(seq) : seq[i] \in N
  <2>1. seq \in [1..Cardinality(N) -> N] /\ N \in SUBSET Tasks
    BY DEF Listings, NewlyUnblocked
  <2>2. Cardinality(N) \in Nat
    BY <2>1, BlockIsOrdered, FS_Subset, FS_CardinalityType
  <2> HIDE DEF N
  <2>3. seq \in Seq(N)
    BY <2>1, <2>2, FunctionIsSequence
  <2> QED
    BY ZenonT(40), <2>3, SequenceElements
<1>2. \A i, j \in 1..Len(seq) : i < j =>
        \/ pos[Last(seq[i])] < pos[Last(seq[j])]
        \/ /\ Last(seq[i]) = Last(seq[j])
           /\ IndexIn(blocked[Last(seq[i])], seq[i]) < IndexIn(blocked[Last(seq[j])], seq[j])
  BY Zenon DEF InWalkOrder
<1>3. \A u \in N : Last(u) \in GrantsOf(u, t)
  BY LastGrant
<1>4. \A u \in N : Last(u) \in Accounts /\ u \in Elements(blocked[Last(u)])
  <2> SUFFICES ASSUME NEW u \in N
               PROVE  Last(u) \in Accounts /\ u \in Elements(blocked[Last(u)])
    OBVIOUS
  <2>1. Last(u) \in GrantsOf(u, t)
    BY Zenon, <1>3
  <2> HIDE DEF Last
  <2>2. Last(u) \in Accounts /\ u \in Elements(Granted(Last(u)))
    BY <2>1 DEF GrantsOf, Addresses
  <2>3. Elements(Granted(Last(u))) \subseteq Elements(blocked[Last(u)])
    BY Zenon, <2>2, GrantedIs
  <2> QED
    BY <2>2, <2>3
<1>5. ASSUME NEW i \in 1..Len(seq), NEW j \in 1..Len(seq), i < j
      PROVE  \/ pos[Last(seq[i])] < pos[Last(seq[j])]
             \/ Last(seq[i]) = Last(seq[j]) /\ seq[i] < seq[j]
  <2>1. \/ pos[Last(seq[i])] < pos[Last(seq[j])]
        \/ /\ Last(seq[i]) = Last(seq[j])
           /\ IndexIn(blocked[Last(seq[i])], seq[i]) < IndexIn(blocked[Last(seq[j])], seq[j])
    BY Zenon, <1>2, <1>5
  <2>2. /\ Last(seq[i]) \in Accounts /\ seq[i] \in Elements(blocked[Last(seq[i])])
        /\ Last(seq[j]) \in Accounts /\ seq[j] \in Elements(blocked[Last(seq[j])])
    BY Zenon, <1>1, <1>4, <1>5
  <2> HIDE DEF Last, pos
  <2> QED
    BY <2>1, <2>2, TurnIsOrder
<1>6. \A u : Priority!GrantsOf(u, t) = GrantsOf(u, t)
  BY NewlyUnblockedMaps
<1> DEFINE MappedLast(u) == CHOOSE a \in Priority!GrantsOf(u, t) :
                             \A b \in Priority!GrantsOf(u, t) : pos[b] <= pos[a]
<1>7. ASSUME NEW u PROVE MappedLast(u) = Last(u)
  <2> DEFINE LastOf(S) == CHOOSE a \in S : \A b \in S : pos[b] <= pos[a]
  <2> HIDE DEF LastOf
  <2>1. LastOf(Priority!GrantsOf(u, t)) = LastOf(GrantsOf(u, t))
    BY Zenon, <1>6
  <2> QED
    BY Zenon, <2>1 DEF LastOf
<1>8. \A i, j \in 1..Len(seq) : i < j =>
        \/ pos[MappedLast(seq[i])] < pos[MappedLast(seq[j])]
        \/ MappedLast(seq[i]) = MappedLast(seq[j]) /\ seq[i] < seq[j]
  <2> HIDE DEF MappedLast, Last, pos
  <2> QED
    BY <1>5, <1>7
<1> QED
  BY Zenon, <1>8 DEF Priority!InWalkOrder

\* Descheduling is what deschedule_task does with priority queues.
LEMMA DescheduleMaps ==
  ASSUME FifoInv, NEW t \in running, deschedule_task(t)
  PROVE  Priority!deschedule_task(t)
<1> DEFINE q == unblocked_task_queue
           D == Addresses(t)
           N == NewlyUnblocked(t)
<1>1. /\ running' = running \ {t}
      /\ active' = active \ {t}
      /\ requested' = [requested EXCEPT ![t] = Unused]
      /\ fresh' = fresh
      /\ blocked_usage_count' = [u \in Tasks |->
           blocked_usage_count[u] - Cardinality(GrantsOf(u, t))]
  BY DEF deschedule_task, unlock_usage_queues
<1>2. PICK order \in Listings(D), seq \in Listings(N) :
        /\ InWalkOrder(seq, t, [a \in D |-> IndexIn(order, a)])
        /\ q' = q \o seq
  BY Zenon DEF deschedule_task, unlock_usage_queues
<1>3. Priority!InWalkOrder(seq, t, [a \in D |-> IndexIn(order, a)])
  BY <1>2, WalkMaps
<1>4. /\ Priority!Addresses(t) = D
      /\ \A u : Priority!GrantsOf(u, t) = GrantsOf(u, t)
      /\ Priority!NewlyUnblocked(t) = N
  BY Zenon, NewlyUnblockedMaps
<1>5. \A S : Priority!Listings(S) = Listings(S)
  BY SameCardinality DEF Priority!Listings, Listings
<1>6. \A x : Priority!IndexIn(order, x) = IndexIn(order, x)
  BY ZenonT(40) DEF Priority!IndexIn, IndexIn
<1>7. ASSUME NEW a \in Accounts
      PROVE  /\ PriorityCurrent'[a] =
                  IF a \in D THEN Priority!CurrentAfterUnlock(a, t) ELSE PriorityCurrent[a]
             /\ PriorityBlocked'[a] =
                  IF a \in D THEN PriorityBlocked[a] \ Priority!Granted(a, t)
                             ELSE PriorityBlocked[a]
  <2>1. CASE a \in D
    BY Zenon, <2>1, GrantedMaps
  <2>2. CASE a \notin D
    <3>1. current'[a] = current[a] /\ blocked'[a] = blocked[a] /\ Holders(a)' = Holders(a)
      BY Zenon, <2>2, HoldersAfterUnlock
    <3>2. /\ PriorityCurrent'[a] = [usage |-> current'[a].usage, tasks |-> Holders(a)']
          /\ PriorityBlocked'[a] = Elements(blocked'[a])
      BY DEF PriorityCurrent, PriorityBlocked, Elements
    <3> QED
      BY Zenon, <2>2, <3>1, <3>2, MappedQueue
  <2> QED
    BY <2>1, <2>2
<1>8. PriorityCurrent' = [a \in Accounts |->
        IF a \in D THEN Priority!CurrentAfterUnlock(a, t) ELSE PriorityCurrent[a]]
  <2>1. PriorityCurrent' = [a \in Accounts |-> PriorityCurrent'[a]]
    BY DEF PriorityCurrent
  <2> QED
    BY Zenon, <1>7, <2>1
<1>9. PriorityBlocked' = [a \in Accounts |->
        IF a \in D THEN PriorityBlocked[a] \ Priority!Granted(a, t) ELSE PriorityBlocked[a]]
  <2>1. PriorityBlocked' = [a \in Accounts |-> PriorityBlocked'[a]]
    BY Zenon DEF PriorityBlocked
  <2> QED
    BY <1>7, <2>1
<1>10. blocked_usage_count' = [u \in Tasks |->
         blocked_usage_count[u] - Priority!Cardinality(Priority!GrantsOf(u, t))]
  BY <1>1, <1>4, SameCardinality
<1>11. \E ord \in Priority!Listings(Priority!Addresses(t)),
          sq \in Priority!Listings(Priority!NewlyUnblocked(t)) :
         /\ Priority!InWalkOrder(sq, t, [a \in Priority!Addresses(t) |->
                                           Priority!IndexIn(ord, a)])
         /\ q' = q \o sq
  <2> HIDE DEF D, N
  <2>1. [a \in Priority!Addresses(t) |-> Priority!IndexIn(order, a)]
          = [a \in D |-> IndexIn(order, a)]
    BY <1>4, <1>6
  <2>2. order \in Priority!Listings(Priority!Addresses(t))
    BY <1>2, <1>4, <1>5
  <2>3. seq \in Priority!Listings(Priority!NewlyUnblocked(t))
    BY <1>2, <1>4, <1>5
  <2> QED
    BY Zenon, <1>2, <1>3, <2>1, <2>2, <2>3
<1>12. Priority!unlock_usage_queues(t, q)
  BY Zenon, <1>4, <1>8, <1>9, <1>10, <1>11 DEF Priority!unlock_usage_queues
<1>13. Priority!Retire(t, q)
  BY <1>1, <1>12 DEF Priority!Retire, Unused, Priority!Unused
<1> QED
  BY ZenonT(40), <1>1, <1>13 DEF Priority!deschedule_task

---------------------------------------------------------------------------
(* The theorem *)

\* Every step of the fifo machine is one of the priority machine, or leaves it
\* as it is.
LEMMA NextMaps ==
  FifoInv /\ [Next]_vars => [Priority!Next]_Priority!vars
<1> SUFFICES ASSUME FifoInv, [Next]_vars
             PROVE  [Priority!Next]_Priority!vars
  OBVIOUS
<1>0. /\ UNCHANGED <<current, blocked, active, requested>> =>
           PriorityCurrent' = PriorityCurrent /\ PriorityBlocked' = PriorityBlocked
  BY Zenon DEF PriorityCurrent, PriorityBlocked, Holders, Elements
<1>1. ASSUME NEW t \in Tasks, NEW ctx \in [Accounts -> Usages \union {"none"}],
             schedule_or_buffer_task(t, ctx)
      PROVE  Priority!Next
  <2>1. Priority!schedule_or_buffer_task(t, ctx, FALSE)
    BY Zenon, <1>1, ScheduleMaps
  <2> QED
    BY Zenon, <2>1 DEF Priority!Next, Priority!Usages, Usages
<1>2. ASSUME NEW t \in Tasks, deschedule_task(t)
      PROVE  Priority!Next
  <2>1. t \in running
    BY <1>2 DEF deschedule_task
  <2>2. Priority!deschedule_task(t)
    BY <1>2, <2>1, DescheduleMaps
  <2> QED
    BY Zenon, <2>2 DEF Priority!Next
<1>3. ASSUME schedule_next_unblocked_task
      PROVE  Priority!Next
  <2> DEFINE q == unblocked_task_queue
  <2>1. /\ q # <<>> /\ running' = running \union {Head(q)} /\ q' = Tail(q)
        /\ UNCHANGED <<current, blocked, blocked_usage_count, active, requested, fresh>>
    BY <1>3 DEF schedule_next_unblocked_task
  <2>2. Head(q) \in Tasks /\ Head(q) \notin running /\ running \in SUBSET Tasks
    <3>1. q \in Seq(Tasks) /\ running \intersect Elements(q) = {} /\ running \in SUBSET Tasks
      BY DEF FifoInv, TypeOK, UnblockedInv
    <3>2. Head(q) \in Tasks /\ Elements(q) = Elements(Tail(q)) \union {Head(q)}
      BY Zenon, <2>1, <3>1, HeadTailElements
    <3> QED
      BY <3>1, <3>2
  <2>3. Cardinality(running) < Cardinality(Tasks)
    <3>1. IsFiniteSet(Tasks) /\ IsFiniteSet(running)
      BY Zenon, <2>2, BlockIsOrdered, FS_Subset
    <3>2. /\ Cardinality(running) <= Cardinality(Tasks)
          /\ Cardinality(Tasks) = Cardinality(running) => Tasks = running
      BY <2>2, <3>1, FS_Subset
    <3>3. Cardinality(running) \in Nat /\ Cardinality(Tasks) \in Nat
      BY <3>1, FS_CardinalityType
    <3> QED
      BY <2>2, <3>2, <3>3
  <2>4. Priority!is_task_runnable
    BY <2>3, SameCardinality DEF Priority!is_task_runnable
  <2>5. Priority!schedule_next_unblocked_task
    BY <1>0, <2>1, <2>4 DEF Priority!schedule_next_unblocked_task
  <2> QED
    BY <2>5 DEF Priority!Next
<1>4. ASSUME reinitialize
      PROVE  Priority!Next
  <2>1. /\ active = {} /\ fresh' = Tasks
        /\ UNCHANGED <<queues, running, active, requested>>
    BY <1>4 DEF reinitialize
  <2>2. running = {} /\ Elements(unblocked_task_queue) = {}
    BY <2>1 DEF FifoInv, UnblockedInv, Unblocked
  <2>3. unblocked_task_queue = <<>>
    BY <2>2, EmptyElements DEF FifoInv, TypeOK
  <2>4. UNCHANGED <<PriorityCurrent, PriorityBlocked, blocked_usage_count, unblocked_task_queue>>
    BY <1>0, <2>1 DEF queues
  <2>5. Priority!reinitialize
    BY <2>1, <2>2, <2>3, <2>4
      DEF Priority!reinitialize, Priority!ReinitializeAsserts, Priority!queues
  <2> QED
    BY <2>5 DEF Priority!Next
<1>5. ASSUME UNCHANGED vars
      PROVE  UNCHANGED Priority!vars
  BY <1>0, <1>5 DEF vars, queues, Priority!vars, Priority!queues
<1> QED
  BY <1>1, <1>2, <1>3, <1>4, <1>5 DEF Next

\* For every block, every behaviour of the fifo queues is one of the priority
\* queues: PriorityQueueing can replace FifoQueueing in block verification.
THEOREM PriorityQueueingReplacesFifo == Spec => ImplementsPriority
<1> QED
  BY FifoInvariance, InitMaps, NextMaps, PTL DEF Spec, ImplementsPriority, Priority!Spec
============================================================================
