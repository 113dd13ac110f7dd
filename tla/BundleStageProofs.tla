-------------------------- MODULE BundleStageProofs ---------------------------
(***************************************************************************)
(* For any number of bundles and slots and any sizes: bundles keep the     *)
(* order in which they arrived and are tried once a slot, and the entries  *)
(* of the container are those of the queued and the locked bundles.        *)
(***************************************************************************)
EXTENDS BundleStage, TaskSequences, FiniteSetTheorems, TLAPS

-----------------------------------------------------------------------------
(* What a queue of bundles holds after an element is added or taken. *)

\* A bundle appended to the queue is its only new element.
LEMMA AppendElements ==
  ASSUME NEW T, NEW s \in Seq(T), NEW t \in T
  PROVE  /\ Append(s, t) \in Seq(T)
         /\ Elements(Append(s, t)) = Elements(s) \union {t}
         /\ Distinct(s) /\ t \notin Elements(s) => Distinct(Append(s, t))
<1>1. /\ Append(s, t) \in Seq(T)
      /\ Len(Append(s, t)) = Len(s) + 1
      /\ \A i \in 1..Len(s) : Append(s, t)[i] = s[i]
      /\ Append(s, t)[Len(s) + 1] = t
  OBVIOUS
<1>2. Len(s) \in Nat
  OBVIOUS
<1>3. \A i \in 1..(Len(s) + 1) : i \in 1..Len(s) \/ i = Len(s) + 1
  BY <1>2
<1>4. 1..Len(s) \subseteq 1..(Len(s) + 1) /\ Len(s) + 1 \in 1..(Len(s) + 1)
  BY <1>2
<1>5. Elements(Append(s, t)) = Elements(s) \union {t}
  BY <1>1, <1>3, <1>4 DEF Elements
<1>6. ASSUME Distinct(s), t \notin Elements(s)
      PROVE  Distinct(Append(s, t))
  BY <1>1, <1>3, <1>6 DEF Distinct, Elements
<1> QED
  BY <1>1, <1>5, <1>6

\* The head taken off the queue is the element it loses.
LEMMA HeadTailElements ==
  ASSUME NEW T, NEW s \in Seq(T), s # <<>>
  PROVE  /\ Tail(s) \in Seq(T) /\ Head(s) \in T
         /\ Elements(s) = Elements(Tail(s)) \union {Head(s)}
         /\ Distinct(s) => Head(s) \notin Elements(Tail(s)) /\ Distinct(Tail(s))
<1>1. /\ Tail(s) \in Seq(T) /\ Head(s) \in T
      /\ Len(Tail(s)) = Len(s) - 1
      /\ \A i \in 1..Len(Tail(s)) : Tail(s)[i] = s[i + 1]
      /\ Head(s) = s[1]
  OBVIOUS
<1>2. Len(s) \in Nat /\ Len(s) >= 1
  OBVIOUS
<1>3. \A i \in 1..Len(s) : i = 1 \/ (i - 1 \in 1..Len(Tail(s)) /\ (i - 1) + 1 = i)
  BY <1>1, <1>2
<1>4. \A i \in 1..Len(Tail(s)) : i + 1 \in 1..Len(s) /\ i + 1 # 1
  BY <1>1, <1>2
<1>5. 1 \in 1..Len(s)
  BY <1>2
<1>6. Elements(s) = Elements(Tail(s)) \union {Head(s)}
  <2>1. \A i \in 1..Len(s) : s[i] \in Elements(Tail(s)) \union {Head(s)}
    <3> SUFFICES ASSUME NEW i \in 1..Len(s), i # 1
                 PROVE  s[i] \in Elements(Tail(s))
      BY <1>1
    <3>1. i - 1 \in 1..Len(Tail(s)) /\ Tail(s)[i - 1] = s[(i - 1) + 1] /\ (i - 1) + 1 = i
      BY <1>1, <1>3
    <3> QED
      BY SMTT(30), <3>1 DEF Elements
  <2>2. \A i \in 1..Len(Tail(s)) : Tail(s)[i] \in Elements(s)
    BY <1>1, <1>4 DEF Elements
  <2>3. Head(s) \in Elements(s)
    BY <1>1, <1>5 DEF Elements
  <2> QED
    BY <2>1, <2>2, <2>3 DEF Elements
<1>7. ASSUME Distinct(s)
      PROVE  Head(s) \notin Elements(Tail(s)) /\ Distinct(Tail(s))
  <2>1. \A i \in 1..Len(Tail(s)) : Tail(s)[i] # Head(s)
    BY <1>1, <1>4, <1>5, <1>7 DEF Distinct
  <2>2. ASSUME NEW i \in 1..Len(Tail(s)), NEW j \in 1..Len(Tail(s)),
               Tail(s)[i] = Tail(s)[j]
        PROVE  i = j
    <3>1. i + 1 = j + 1
      BY <1>1, <1>4, <1>7, <2>2 DEF Distinct
    <3> QED
      BY <1>1, <1>2, <3>1
  <2> QED
    BY <2>1, <2>2 DEF Distinct, Elements
<1> QED
  BY <1>1, <1>6, <1>7

\* Appending a later bundle to an increasing sequence.
LEMMA AppendLater ==
  ASSUME NEW T \in SUBSET Nat, NEW s \in Seq(T), Increasing(s), NEW t \in T,
         \A b \in Elements(s) : b < t
  PROVE  /\ Append(s, t) \in Seq(T)
         /\ Append(s, t) # <<>>
         /\ Increasing(Append(s, t))
         /\ Elements(Append(s, t)) = Elements(s) \union {t}
         /\ Append(s, t)[1] = IF s = <<>> THEN t ELSE s[1]
<1> DEFINE n == Len(s)
           q == Append(s, t)
<1>0. n \in Nat /\ (s = <<>> <=> n = 0)
  OBVIOUS
<1>1. /\ q \in Seq(T) /\ q # <<>>
      /\ Len(q) = n + 1
      /\ \A i \in 1..n : q[i] = s[i]
      /\ q[n + 1] = t
  OBVIOUS
<1> HIDE DEF q
<1>2. Increasing(q)
  <2> SUFFICES ASSUME NEW i \in 1..(n + 1), NEW j \in 1..(n + 1), i < j
               PROVE  q[i] < q[j]
    BY <1>1 DEF Increasing
  <2>1. i \in 1..n
    BY <1>0
  <2>2. CASE j = n + 1
    BY <1>1, <2>1, <2>2 DEF Elements
  <2>3. CASE j # n + 1
    <3>1. j \in 1..n
      BY <1>0, <2>3
    <3> QED
      BY <1>1, <2>1, <3>1 DEF Increasing
  <2> QED
    BY <2>2, <2>3
<1>3. Elements(q) = Elements(s) \union {t}
  <2>1. 1..(n + 1) = (1..n) \union {n + 1}
    BY <1>0
  <2> QED
    BY <1>1, <2>1 DEF Elements
<1>4. q[1] = IF s = <<>> THEN t ELSE s[1]
  <2>1. n = 0 \/ 1 \in 1..n
    BY <1>0
  <2> QED
    BY <1>0, <1>1, <2>1
<1> QED
  BY <1>1, <1>2, <1>3, <1>4 DEF q

-----------------------------------------------------------------------------
(* The invariant. *)


TypeOK ==
    /\ arrived \in Nat
    /\ unprocessed \in Seq(Bundles) /\ buffered \in Seq(Bundles) /\ window \in Seq(Bundles)
    /\ last_slot \in Nat /\ on \in Nat
    /\ leader.slot \in Nat \ {0}
    /\ tried \in [Bundles -> Nat]

Before(s, t) == \A b \in Elements(s), c \in Elements(t) : b < c

(***************************************************************************)
(* The three queues are in the order of arrival, each and one after the    *)
(* other.                                                                  *)
(***************************************************************************)
QueuesInOrder ==
    /\ Increasing(buffered) /\ Increasing(window) /\ Increasing(unprocessed)
    /\ Before(buffered, window) /\ Before(buffered, unprocessed) /\ Before(window, unprocessed)
    /\ \A b \in Elements(buffered) \cup Elements(window) \cup Elements(unprocessed) : b <= arrived

(***************************************************************************)
(* There is a window only in a slot in which a bundle was popped, and the  *)
(* slots in which the stage works are those of the leader.                 *)
(***************************************************************************)
SlotsInOrder ==
    /\ window # <<>> => on # 0 /\ last_slot = on
    /\ last_slot <= leader.slot /\ on <= leader.slot
    /\ on # 0 => last_slot <= on

(***************************************************************************)
(* What waits for its turn was not tried in the slot of the last pop; what *)
(* was tried in it is buffered for a later one.                            *)
(***************************************************************************)
TriedInOrder ==
    /\ \A b \in Elements(unprocessed) : tried[b] = 0 \/ tried[b] < last_slot
    /\ \A b \in Elements(buffered) : tried[b] <= last_slot
    /\ \A b \in Elements(window) : tried[b] < on
    /\ \A b \in Bundles : b > arrived => tried[b] = 0

StageInv == TypeOK /\ QueuesInOrder /\ SlotsInOrder /\ TriedInOrder

-----------------------------------------------------------------------------
(***************************************************************************)
(* Bundles are numbers.                                                    *)
(***************************************************************************)
LEMMA BundlesAreNumbers == Bundles \in SUBSET Nat
BY BundleStageAssumption, FS_CardinalityType

(***************************************************************************)
(* Each is a number, and none comes before itself.                         *)
(***************************************************************************)
LEMMA NotBeforeItself == \A b \in Bundles : b \in Nat /\ ~ (b < b)
BY BundlesAreNumbers

(***************************************************************************)
(* The elements of a sequence are members of its set.                      *)
(***************************************************************************)
LEMMA ElementsAreMembers ==
  ASSUME NEW T, NEW s \in Seq(T)
  PROVE  \A x \in Elements(s) : x \in T
BY DEF Elements

(***************************************************************************)
(* They are its range as a function.                                       *)
(***************************************************************************)
LEMMA RangeIsElements ==
  ASSUME NEW T, NEW s \in Seq(T)
  PROVE  Range(s) = Elements(s)
<1>1. DOMAIN s = 1..Len(s)
  OBVIOUS
<1> QED
  BY <1>1 DEF Range, Elements

(***************************************************************************)
(* A concatenation has the elements of its parts.                          *)
(***************************************************************************)
LEMMA ConcatMembers ==
  ASSUME NEW T, NEW s \in Seq(T), NEW t \in Seq(T)
  PROVE  /\ s \o t \in Seq(T)
         /\ Elements(s \o t) = Elements(s) \cup Elements(t)
<1> DEFINE m == Len(s)
           n == Len(t)
           q == s \o t
<1>1. m \in Nat /\ n \in Nat
  OBVIOUS
<1>2. /\ q \in Seq(T) /\ Len(q) = m + n
      /\ \A i \in 1..(m + n) : q[i] = IF i <= m THEN s[i] ELSE t[i - m]
  OBVIOUS
<1> HIDE DEF q, m, n
<1>3. \A i \in 1..m : i \in 1..(m + n) /\ q[i] = s[i] /\ s[i] \in Elements(s)
  BY <1>1, <1>2 DEF m, Elements
<1>4. \A i \in 1..n : m + i \in 1..(m + n) /\ q[m + i] = t[i] /\ t[i] \in Elements(t)
  <2>1. \A i \in 1..n : m + i \in 1..(m + n) /\ ~ (m + i <= m) /\ (m + i) - m = i
    BY <1>1
  <2> QED
    BY <1>2, <2>1 DEF n, Elements
<1>5. \A i \in 1..(m + n) : i \in 1..m \/ (i - m \in 1..n /\ i = m + (i - m))
  BY <1>1
<1>6. Elements(q) = {q[i] : i \in 1..(m + n)}
  BY <1>2 DEF Elements
<1>7. Elements(s) = {s[i] : i \in 1..m} /\ Elements(t) = {t[i] : i \in 1..n}
  BY DEF Elements, m, n
<1>8. \A i \in 1..(m + n) : q[i] \in Elements(s) \cup Elements(t)
  BY <1>3, <1>4, <1>5
<1>9. \A x \in Elements(s) : x \in Elements(q)
  BY Zenon, <1>3, <1>6, <1>7
<1>10. \A x \in Elements(t) : x \in Elements(q)
  BY <1>4, <1>6, <1>7
<1> QED
  BY <1>2, <1>6, <1>8, <1>9, <1>10 DEF q

(***************************************************************************)
(* A concatenation is in order if its two parts are, one after the other.  *)
(***************************************************************************)
LEMMA ConcatInOrder ==
  ASSUME NEW T \in SUBSET Nat, NEW s \in Seq(T), NEW t \in Seq(T),
         Increasing(s), Increasing(t), Before(s, t)
  PROVE  /\ s \o t \in Seq(T)
         /\ Increasing(s \o t)
         /\ Elements(s \o t) = Elements(s) \cup Elements(t)
<1> DEFINE m == Len(s)
           n == Len(t)
           q == s \o t
<1>1. m \in Nat /\ n \in Nat
  OBVIOUS
<1>2. /\ Len(q) = m + n
      /\ \A i \in 1..(m + n) : q[i] = IF i <= m THEN s[i] ELSE t[i - m]
  OBVIOUS
<1> HIDE DEF q, m, n
<1>3. \A i \in 1..m : q[i] = s[i] /\ s[i] \in Elements(s)
  BY <1>1, <1>2 DEF m, Elements
<1>4. \A i \in 1..(m + n) : i \notin 1..m =>
        i - m \in 1..n /\ q[i] = t[i - m] /\ t[i - m] \in Elements(t)
  <2>1. \A i \in 1..(m + n) : i \notin 1..m => i - m \in 1..n /\ ~ (i <= m)
    BY <1>1
  <2> QED
    BY <1>2, <2>1 DEF n, Elements
<1>5. Increasing(q)
  <2> SUFFICES ASSUME NEW i \in 1..(m + n), NEW j \in 1..(m + n), i < j
               PROVE  q[i] < q[j]
    BY <1>2 DEF Increasing
  <2>1. CASE i \in 1..m /\ j \in 1..m
    BY <1>3, <2>1 DEF Increasing, m
  <2>2. CASE i \in 1..m /\ j \notin 1..m
    <3>1. q[i] \in Elements(s) /\ q[j] \in Elements(t)
      BY <1>3, <1>4, <2>2
    <3> QED
      BY <3>1 DEF Before
  <2>3. CASE i \notin 1..m
    <3>1. j \notin 1..m /\ i - m < j - m
      BY <1>1, <2>3
    <3>2. /\ i - m \in 1..n /\ j - m \in 1..n
          /\ q[i] = t[i - m] /\ q[j] = t[j - m]
      BY <1>4, <2>3, <3>1
    <3> QED
      BY <3>1, <3>2 DEF Increasing, n
  <2> QED
    BY <2>1, <2>2, <2>3
<1> QED
  BY <1>5, ConcatMembers DEF q

(***************************************************************************)
(* The head of a queue in order comes before the rest of it.               *)
(***************************************************************************)
LEMMA HeadIsFirst ==
  ASSUME NEW T \in SUBSET Nat, NEW s \in Seq(T), s # <<>>, Increasing(s)
  PROVE  /\ Tail(s) \in Seq(T) /\ Head(s) \in T /\ Increasing(Tail(s))
         /\ Elements(s) = Elements(Tail(s)) \cup {Head(s)}
         /\ \A b \in Elements(Tail(s)) : Head(s) < b
<1>1. /\ Tail(s) \in Seq(T) /\ Head(s) \in T
      /\ Elements(s) = Elements(Tail(s)) \cup {Head(s)}
  BY HeadTailElements
<1>2. /\ Len(Tail(s)) = Len(s) - 1
      /\ \A i \in 1..Len(Tail(s)) : Tail(s)[i] = s[i + 1]
      /\ Head(s) = s[1]
  OBVIOUS
<1>3. Len(s) \in Nat /\ Len(s) >= 1
  OBVIOUS
<1>4. \A i \in 1..Len(Tail(s)) : i + 1 \in 1..Len(s) /\ 1 < i + 1
  BY <1>2, <1>3
<1>5. 1 \in 1..Len(s)
  BY <1>3
<1>6. Increasing(Tail(s))
  BY <1>2, <1>4 DEF Increasing
<1>7. \A i \in 1..Len(Tail(s)) : Head(s) < Tail(s)[i]
  BY <1>2, <1>4, <1>5 DEF Increasing
<1> QED
  BY SMTT(20), <1>1, <1>6, <1>7 DEF Elements

-----------------------------------------------------------------------------
(***************************************************************************)
(* The empty stage is in order.                                            *)
(***************************************************************************)
LEMMA InitInOrder == Init => StageInv
<1> SUFFICES ASSUME Init PROVE StageInv
  OBVIOUS
<1>1. Elements(<<>>) = {} /\ <<>> \in Seq(Bundles) /\ Increasing(<<>>)
  BY DEF Elements, Increasing
<1>2. tried \in [Bundles -> Nat]
  BY DEF Init
<1> QED
  BY <1>1, <1>2 DEF Init, StageInv, TypeOK, QueuesInOrder, SlotsInOrder, TriedInOrder, Before

(***************************************************************************)
(* A bundle that arrives is later than all others and was never tried.     *)
(***************************************************************************)
LEMMA InsertInOrder ==
  ASSUME StageInv, receive_and_buffer_bundles
  PROVE  StageInv'
<1> DEFINE n == arrived + 1
<1>1. /\ on = 0 /\ arrived < Cardinality(Bundles) /\ arrived' = n
      /\ unprocessed' = Append(unprocessed, n) \/ unprocessed' = unprocessed
      /\ UNCHANGED <<buffered, last_slot, window, on, leader, tried>>
  BY Zenon DEF receive_and_buffer_bundles, insert_bundle, world
<1>2. arrived \in Nat /\ n \in Nat /\ arrived < n
  BY DEF StageInv, TypeOK
<1>3. n \in Bundles
  BY <1>1, <1>2, BundleStageAssumption, FS_CardinalityType
<1>4. \A b \in Elements(buffered) \cup Elements(window) \cup Elements(unprocessed) :
        b \in Nat /\ b <= arrived
  BY Zenon, BundlesAreNumbers, ElementsAreMembers DEF StageInv, TypeOK, QueuesInOrder
<1>5. \A b \in Elements(buffered) \cup Elements(window) \cup Elements(unprocessed) :
        b < n /\ b <= n
  BY <1>2, <1>4
<1>6. \A b \in Bundles : b > arrived' => tried'[b] = 0
  <2>1. \A b \in Bundles : b > n => b > arrived
    BY <1>2, BundlesAreNumbers
  <2> QED
    BY <1>1, <2>1 DEF StageInv, TriedInOrder
<1>7. CASE unprocessed' = unprocessed
  <2>1. TypeOK'
    BY <1>1, <1>2, <1>7 DEF StageInv, TypeOK
  <2>2. QueuesInOrder'
    BY <1>1, <1>5, <1>7 DEF StageInv, QueuesInOrder, Before
  <2>3. SlotsInOrder' /\ TriedInOrder'
    BY <1>1, <1>7, <1>6 DEF StageInv, SlotsInOrder, TriedInOrder
  <2> QED
    BY <2>1, <2>2, <2>3 DEF StageInv
<1>8. CASE unprocessed' = Append(unprocessed, n)
  <2>1. /\ unprocessed' \in Seq(Bundles) /\ Increasing(unprocessed')
        /\ Elements(unprocessed') = Elements(unprocessed) \cup {n}
    BY <1>3, <1>5, <1>8, AppendLater, BundlesAreNumbers DEF StageInv, TypeOK, QueuesInOrder
  <2>2. TypeOK'
    BY <1>1, <1>2, <2>1 DEF StageInv, TypeOK
  <2>3. QueuesInOrder'
    BY <1>1, <1>2, <1>5, <2>1 DEF StageInv, QueuesInOrder, Before
  <2>4. SlotsInOrder'
    BY <1>1 DEF StageInv, SlotsInOrder
  <2>5. tried[n] = 0
    BY <1>2, <1>3 DEF StageInv, TriedInOrder
  <2>6. TriedInOrder'
    BY <1>1, <1>6, <2>1, <2>5 DEF StageInv, TriedInOrder
  <2> QED
    BY <2>2, <2>3, <2>4, <2>6 DEF StageInv
<1> QED
  BY <1>1, <1>7, <1>8

(***************************************************************************)
(* pop_bundle in a new slot finds all that waits, the buffered first; in   *)
(* the slot of the last pop, only what was not tried in it.                *)
(***************************************************************************)
LEMMA RefillInOrder ==
  ASSUME StageInv, on # 0
  PROVE  /\ Refilled \in Seq(Bundles) /\ StillBuffered \in Seq(Bundles)
         /\ Increasing(Refilled) /\ Increasing(StillBuffered)
         /\ Before(StillBuffered, window) /\ Before(StillBuffered, Refilled)
         /\ Before(window, Refilled)
         /\ \A b \in Elements(Refilled) \cup Elements(StillBuffered) : b <= arrived
         /\ \A b \in Elements(Refilled) : tried[b] < on
         /\ \A b \in Elements(StillBuffered) : tried[b] <= on
<1>1. CASE on = last_slot
  <2>1. Refilled = unprocessed /\ StillBuffered = buffered
    BY <1>1 DEF Refilled, StillBuffered
  <2>2. \A b \in Elements(Refilled) : tried[b] < on
    BY <1>1, <2>1 DEF StageInv, TypeOK, TriedInOrder
  <2>3. \A b \in Elements(StillBuffered) : tried[b] <= on
    BY <1>1, <2>1 DEF StageInv, TriedInOrder
  <2> QED
    BY <2>1, <2>2, <2>3 DEF StageInv, TypeOK, QueuesInOrder
<1>2. CASE on # last_slot
  <2>1. Refilled = buffered \o unprocessed /\ StillBuffered = <<>> /\ window = <<>>
    BY <1>2 DEF Refilled, StillBuffered, StageInv, SlotsInOrder
  <2>2. Elements(<<>>) = {} /\ <<>> \in Seq(Bundles) /\ Increasing(<<>>)
    BY DEF Elements, Increasing
  <2>3. /\ Refilled \in Seq(Bundles) /\ Increasing(Refilled)
        /\ Elements(Refilled) = Elements(buffered) \cup Elements(unprocessed)
    BY <2>1, BundlesAreNumbers, ConcatInOrder DEF StageInv, TypeOK, QueuesInOrder
  <2>4. last_slot < on /\ on \in Nat /\ last_slot \in Nat
    BY <1>2 DEF StageInv, TypeOK, SlotsInOrder
  <2>5. \A b \in Elements(Refilled) : b \in Bundles
    BY <2>3, ElementsAreMembers
  <2>6. ASSUME NEW b \in Elements(Refilled)
        PROVE  tried[b] < on
    <3>1. tried[b] \in Nat
      BY <2>5 DEF StageInv, TypeOK
    <3>2. tried[b] = 0 \/ tried[b] < last_slot \/ tried[b] <= last_slot
      BY <2>3 DEF StageInv, TriedInOrder
    <3> QED
      BY <2>4, <3>1, <3>2
  <2>7. \A b \in Elements(Refilled) : b <= arrived
    BY <2>3 DEF StageInv, QueuesInOrder
  <2> QED
    BY <2>1, <2>2, <2>3, <2>6, <2>7 DEF StageInv, QueuesInOrder, Before
<1> QED
  BY <1>1, <1>2

(***************************************************************************)
(* A popped bundle comes last in the window and was not tried in the slot. *)
(***************************************************************************)
LEMMA FillInOrder ==
  ASSUME StageInv, Fill
  PROVE  StageInv'
<1> DEFINE b == Head(Refilled)
<1>1. /\ on # 0 /\ Refilled # <<>>
      /\ window' = window \/ window' = Append(window, b)
      /\ unprocessed' = Tail(Refilled) /\ buffered' = StillBuffered /\ last_slot' = on
      /\ UNCHANGED <<arrived, on, leader, tried>>
  BY Zenon DEF Fill, world
<1>2. /\ Refilled \in Seq(Bundles) /\ StillBuffered \in Seq(Bundles)
      /\ Increasing(Refilled) /\ Increasing(StillBuffered)
      /\ Before(StillBuffered, window) /\ Before(StillBuffered, Refilled)
      /\ Before(window, Refilled)
      /\ \A c \in Elements(Refilled) \cup Elements(StillBuffered) : c <= arrived
      /\ \A c \in Elements(Refilled) : tried[c] < on
      /\ \A c \in Elements(StillBuffered) : tried[c] <= on
  BY <1>1, RefillInOrder
<1>3. /\ Tail(Refilled) \in Seq(Bundles) /\ b \in Bundles /\ Increasing(Tail(Refilled))
      /\ Elements(Refilled) = Elements(Tail(Refilled)) \cup {b}
      /\ \A c \in Elements(Tail(Refilled)) : b < c
  BY <1>1, <1>2, BundlesAreNumbers, HeadIsFirst
<1> HIDE DEF b
<1>4. /\ window' \in Seq(Bundles) /\ Increasing(window')
      /\ Elements(window') \in SUBSET (Elements(window) \cup {b})
  <2>1. window \in Seq(Bundles) /\ Increasing(window)
    BY DEF StageInv, TypeOK, QueuesInOrder
  <2>2. \A c \in Elements(window) : c < b
    BY <1>2, <1>3 DEF Before
  <2>3. /\ Append(window, b) \in Seq(Bundles) /\ Increasing(Append(window, b))
        /\ Elements(Append(window, b)) = Elements(window) \cup {b}
    BY <1>3, <2>1, <2>2, AppendLater, BundlesAreNumbers
  <2> QED
    BY Zenon, <1>1, <2>1, <2>3
<1>5. TypeOK'
  BY <1>1, <1>2, <1>3, <1>4 DEF StageInv, TypeOK
<1>6. QueuesInOrder'
  <2>1. Before(buffered', window') /\ Before(buffered', unprocessed')
    BY <1>1, <1>2, <1>3, <1>4 DEF Before
  <2>2. Before(window', unprocessed')
    BY <1>1, <1>2, <1>3, <1>4 DEF Before
  <2>3. \A c \in Elements(window) : c <= arrived
    BY DEF StageInv, QueuesInOrder
  <2> QED
    BY <1>1, <1>2, <1>3, <1>4, <2>1, <2>2, <2>3 DEF QueuesInOrder
<1>7. SlotsInOrder'
  BY <1>1 DEF StageInv, SlotsInOrder, TypeOK
<1>8. TriedInOrder'
  <2>1. \A c \in Elements(window) : tried[c] < on
    BY DEF StageInv, TriedInOrder
  <2> QED
    BY <1>1, <1>2, <1>3, <1>4, <2>1 DEF StageInv, TriedInOrder
<1> QED
  BY <1>5, <1>6, <1>7, <1>8 DEF StageInv

(***************************************************************************)
(* A processed bundle comes last among the buffered ones, if it is kept.   *)
(***************************************************************************)
LEMMA ProcessInOrder ==
  ASSUME StageInv, NEW result, Process(result)
  PROVE  StageInv'
<1> DEFINE b == Head(window)
<1>1. /\ window # <<>> /\ window' = Tail(window)
      /\ tried' = [tried EXCEPT ![b] = on]
      /\ buffered' = buffered \/ buffered' = Append(buffered, b)
      /\ UNCHANGED <<arrived, unprocessed, last_slot, on, leader>>
  BY Zenon DEF Process, world
<1>2. /\ Tail(window) \in Seq(Bundles) /\ b \in Bundles /\ Increasing(Tail(window))
      /\ Elements(window) = Elements(Tail(window)) \cup {b}
      /\ \A c \in Elements(Tail(window)) : b < c
  BY <1>1, BundlesAreNumbers, HeadIsFirst DEF StageInv, TypeOK, QueuesInOrder
<1> HIDE DEF b
<1>3. on # 0 /\ last_slot = on /\ on \in Nat
  BY <1>1 DEF StageInv, TypeOK, SlotsInOrder
<1>4. /\ buffered' \in Seq(Bundles) /\ Increasing(buffered')
      /\ Elements(buffered') \in SUBSET (Elements(buffered) \cup {b})
  <2>1. buffered \in Seq(Bundles) /\ Increasing(buffered)
    BY DEF StageInv, TypeOK, QueuesInOrder
  <2>2. \A c \in Elements(buffered) : c < b
    BY <1>2 DEF StageInv, QueuesInOrder, Before
  <2>3. /\ Append(buffered, b) \in Seq(Bundles) /\ Increasing(Append(buffered, b))
        /\ Elements(Append(buffered, b)) = Elements(buffered) \cup {b}
    BY <1>2, <2>1, <2>2, AppendLater, BundlesAreNumbers
  <2> QED
    BY Zenon, <1>1, <2>1, <2>3
<1>5. TypeOK'
  BY <1>1, <1>2, <1>3, <1>4 DEF StageInv, TypeOK
<1>6. QueuesInOrder'
  <2>1. Before(buffered', window')
    BY <1>1, <1>2, <1>4 DEF StageInv, QueuesInOrder, Before
  <2>2. Before(buffered', unprocessed') /\ Before(window', unprocessed')
    BY <1>1, <1>2, <1>4 DEF StageInv, QueuesInOrder, Before
  <2> QED
    BY <1>1, <1>2, <1>4, <2>1, <2>2 DEF StageInv, QueuesInOrder
<1>7. SlotsInOrder'
  BY <1>1, <1>3 DEF StageInv, SlotsInOrder
<1>8. TriedInOrder'
  <2>1. tried'[b] = on /\ \A c \in Bundles : c # b => tried'[c] = tried[c]
    BY <1>1, <1>2 DEF StageInv, TypeOK
  <2>2. b \in Nat /\ b <= arrived /\ arrived \in Nat
    BY Zenon, <1>2, BundlesAreNumbers DEF StageInv, TypeOK, QueuesInOrder
  <2>3. \A c \in Elements(unprocessed) : c \in Bundles /\ c \in Nat /\ b < c
    BY Zenon, <1>2, BundlesAreNumbers, ElementsAreMembers DEF StageInv, TypeOK, QueuesInOrder, Before
  <2>4. \A c \in Elements(Tail(window)) : c \in Bundles /\ c \in Nat /\ b < c
    BY Zenon, <1>2, BundlesAreNumbers, ElementsAreMembers
  <2>5. \A c \in Elements(buffered) : c \in Bundles
    BY ElementsAreMembers DEF StageInv, TypeOK
  <2>6. \A c \in Elements(unprocessed') : tried'[c] = 0 \/ tried'[c] < last_slot'
    BY <1>1, <2>1, <2>2, <2>3 DEF StageInv, TriedInOrder
  <2>7. \A c \in Elements(buffered') : tried'[c] <= last_slot'
    BY <1>1, <1>3, <1>4, <2>1, <2>5 DEF StageInv, TriedInOrder
  <2>8. \A c \in Elements(window') : tried'[c] < on'
    BY <1>1, <1>2, <2>1, <2>2, <2>4 DEF StageInv, TriedInOrder
  <2>9. \A c \in Bundles : c > arrived' => tried'[c] = 0
    BY <1>1, <2>1, <2>2 DEF StageInv, TriedInOrder
  <2> QED
    BY <2>6, <2>7, <2>8, <2>9 DEF TriedInOrder
<1> QED
  BY <1>5, <1>6, <1>7, <1>8 DEF StageInv

(***************************************************************************)
(* The end of consume_bundles pops once more, and finds nothing.           *)
(***************************************************************************)
LEMMA EndInOrder ==
  ASSUME StageInv, EndConsume
  PROVE  StageInv'
<1>1. /\ on # 0 /\ window = <<>> /\ window' = window
      /\ Refilled = <<>> \/ Len(window) = Window
      /\ buffered' = StillBuffered /\ last_slot' = on /\ on' = 0
      /\ UNCHANGED <<arrived, unprocessed, leader, tried>>
  BY DEF EndConsume, FrontIsDue, world
<1>2. Refilled = <<>> /\ Elements(<<>>) = {}
  BY <1>1, BundleStageAssumption DEF Elements
<1>3. /\ StillBuffered \in Seq(Bundles) /\ Increasing(StillBuffered)
      /\ Before(StillBuffered, window)
      /\ \A c \in Elements(StillBuffered) : c <= arrived
      /\ \A c \in Elements(StillBuffered) : tried[c] <= on
  BY <1>1, RefillInOrder
<1>4. unprocessed = <<>>
  BY <1>2 DEF Refilled, StageInv, TypeOK
<1>5. TypeOK' /\ SlotsInOrder'
  BY <1>1, <1>3 DEF StageInv, TypeOK, SlotsInOrder
<1>6. QueuesInOrder'
  BY <1>1, <1>2, <1>3, <1>4 DEF StageInv, QueuesInOrder, Before
<1>7. TriedInOrder'
  BY <1>1, <1>2, <1>3, <1>4 DEF StageInv, TriedInOrder
<1> QED
  BY <1>5, <1>6, <1>7 DEF StageInv

(***************************************************************************)
(* Every step keeps the queues, the slots and the attempts in order.       *)
(***************************************************************************)
LEMMA NextInOrder ==
  ASSUME StageInv, [Next]_vars
  PROVE  StageInv'
<1> USE DEF StageInv
<1>1. CASE BeginConsume
  <2>1. /\ on = 0 /\ on' = leader.slot
        /\ UNCHANGED <<arrived, unprocessed, buffered, last_slot, window, leader, tried>>
    BY <1>1 DEF BeginConsume, storage, world
  <2>2. window = <<>> /\ Elements(<<>>) = {}
    BY <2>1 DEF SlotsInOrder, Elements
  <2> QED
    BY <2>1, <2>2 DEF TypeOK, QueuesInOrder, SlotsInOrder, TriedInOrder, Before
<1>2. CASE clear
  <2>1. /\ unprocessed' = <<>> /\ buffered' = <<>>
        /\ UNCHANGED <<arrived, last_slot, window, on, leader, tried>>
    BY <1>2 DEF clear, world
  <2>2. Elements(<<>>) = {} /\ <<>> \in Seq(Bundles) /\ Increasing(<<>>)
    BY DEF Elements, Increasing
  <2> QED
    BY <2>1, <2>2 DEF TypeOK, QueuesInOrder, SlotsInOrder, TriedInOrder, Before
<1>3. CASE Fill
  BY <1>3, FillInOrder
<1>4. CASE EndConsume
  BY <1>4, EndInOrder
<1>5. ASSUME NEW result, Process(result) PROVE StageInv'
  BY <1>5, ProcessInOrder
<1>6. CASE receive_and_buffer_bundles
  BY <1>6, InsertInOrder
<1>7. CASE CompleteBank
  BY <1>7 DEF CompleteBank, storage, TypeOK, QueuesInOrder, SlotsInOrder, TriedInOrder, Before
<1>8. ASSUME NEW decision, NextSlot(decision) PROVE StageInv'
  <2>1. /\ leader'.slot = leader.slot + 1
        /\ UNCHANGED <<arrived, unprocessed, buffered, last_slot, window, on, tried>>
    BY <1>8 DEF NextSlot, storage
  <2> QED
    BY <2>1 DEF TypeOK, QueuesInOrder, SlotsInOrder, TriedInOrder, Before
<1>9. CASE UNCHANGED vars
  BY <1>9 DEF vars, TypeOK, QueuesInOrder, SlotsInOrder, TriedInOrder, Before
<1> QED
  BY <1>1, <1>2, <1>3, <1>4, <1>5, <1>6, <1>7, <1>8, <1>9 DEF Next, StageRuns

(***************************************************************************)
(* The invariant implies the property.                                     *)
(***************************************************************************)
LEMMA OrderFollows == StageInv => ArrivalOrder
<1> SUFFICES ASSUME StageInv PROVE ArrivalOrder
  OBVIOUS
<1>1. /\ buffered \o window \in Seq(Bundles) /\ Increasing(buffered \o window)
      /\ Elements(buffered \o window) = Elements(buffered) \cup Elements(window)
  BY BundlesAreNumbers, ConcatInOrder DEF StageInv, TypeOK, QueuesInOrder
<1>2. Before(buffered \o window, unprocessed)
  BY <1>1 DEF StageInv, QueuesInOrder, Before
<1> DEFINE all == (buffered \o window) \o unprocessed
<1>3. all \in Seq(Bundles) /\ Increasing(all)
  BY Zenon, <1>1, <1>2, BundlesAreNumbers, ConcatInOrder DEF StageInv, TypeOK, QueuesInOrder
<1> HIDE DEF all
<1>4. \A i, j \in DOMAIN all : i < j => all[i] < all[j]
  BY <1>3 DEF Increasing
<1>5. Range(window) = Elements(window)
  BY RangeIsElements DEF StageInv, TypeOK
<1> QED
  BY <1>4, <1>5 DEF ArrivalOrder, Stored, StageInv, TriedInOrder, all

(***************************************************************************)
(* For any bundles, window and slots, and whatever the results: a retry    *)
(* costs a bundle neither its place nor a second attempt in the slot.      *)
(***************************************************************************)
THEOREM BundlesKeepTheirPlace == Spec => []ArrivalOrder
<1> QED
  BY InitInOrder, NextInOrder, OrderFollows, PTL DEF Spec

-----------------------------------------------------------------------------
(***************************************************************************)
(* The entries of the container, in terms of the queues.                   *)
(***************************************************************************)
Waiting == Elements(buffered) \cup Elements(unprocessed)
Locked == Elements(window)

Holds(b, taken) == \A id \in container_ids[b] : container[id] = Entry(b, taken)

EntriesInv ==
    /\ container_ids \in [Bundles -> SUBSET Keys]
    /\ DOMAIN container = IdsOf(Waiting \cup Locked)
    /\ \A b \in Waiting \cup Locked : Cardinality(container_ids[b]) = Size[b]
    /\ \A b \in Waiting : Holds(b, FALSE)
    /\ \A b \in Locked : Holds(b, TRUE)

(***************************************************************************)
(* A container id is in the hands of one bundle only.                      *)
(***************************************************************************)
LEMMA OneOwner ==
  ASSUME EntriesInv, NEW b \in Waiting \cup Locked, NEW c \in Waiting \cup Locked,
         NEW id \in container_ids[b], id \in container_ids[c]
  PROVE  b = c
<1>1. \A x \in Waiting \cup Locked :
        id \in container_ids[x] =>
          container[id] = Entry(x, FALSE) \/ container[id] = Entry(x, TRUE)
  BY Zenon DEF EntriesInv, Holds
<1>2. \A x : Entry(x, FALSE).bundle = x /\ Entry(x, TRUE).bundle = x
  BY DEF Entry
<1>3. container[id].bundle = b /\ container[id].bundle = c
  BY Zenon, <1>1, <1>2
<1> QED
  BY <1>3

(***************************************************************************)
(* The ids of the stored bundles are those of the container.               *)
(***************************************************************************)
LEMMA IdsAreThere ==
  ASSUME EntriesInv, NEW b \in Waiting \cup Locked, NEW id \in container_ids[b]
  PROVE  id \in DOMAIN container
BY DEF EntriesInv, IdsOf

(***************************************************************************)
(* Bundles that leave the stage take their entries with them, and no more. *)
(***************************************************************************)
LEMMA DestroyKeepsEntries ==
  ASSUME EntriesInv, NEW bs, destroy(bs), bs \subseteq Waiting \cup Locked,
         Waiting \cup Locked \subseteq Bundles,
         Waiting' = Waiting \ bs, Locked' = Locked \ bs
  PROVE  EntriesInv'
<1> DEFINE Left == (Waiting \cup Locked) \ bs
<1>1. /\ container' = Restrict(container, DOMAIN container \ IdsOf(bs))
      /\ container_ids' = [b \in Bundles |-> IF b \in bs THEN {} ELSE container_ids[b]]
  BY DEF destroy, Without
<1>2. container_ids' \in [Bundles -> SUBSET Keys]
  BY <1>1 DEF EntriesInv
<1>3. \A b \in Left : container_ids'[b] = container_ids[b]
  BY <1>1
<1>4. /\ DOMAIN container' = DOMAIN container \ IdsOf(bs)
      /\ \A id \in DOMAIN container \ IdsOf(bs) : container'[id] = container[id]
  BY <1>1 DEF Restrict
<1>5. \A b \in Left : \A id \in container_ids[b] : id \in DOMAIN container \ IdsOf(bs)
  <2> SUFFICES ASSUME NEW b \in Left, NEW id \in container_ids[b], id \in IdsOf(bs)
               PROVE  FALSE
    BY IdsAreThere
  <2>1. PICK c \in bs : id \in container_ids[c]
    BY DEF IdsOf
  <2>2. b = c
    BY <2>1, OneOwner
  <2> QED
    BY <2>1, <2>2
<1>6. Waiting' \cup Locked' = Left
  OBVIOUS
<1>7. DOMAIN container' = IdsOf(Waiting \cup Locked)'
  <2>1. IdsOf(Waiting \cup Locked)' = UNION {container_ids'[b] : b \in Left}
    BY <1>6 DEF IdsOf
  <2>2. UNION {container_ids'[b] : b \in Left} = UNION {container_ids[b] : b \in Left}
    BY <1>3
  <2>3. DOMAIN container = UNION {container_ids[b] : b \in Waiting \cup Locked}
    BY DEF EntriesInv, IdsOf
  <2>4. ASSUME NEW id \in DOMAIN container \ IdsOf(bs)
        PROVE  id \in UNION {container_ids[b] : b \in Left}
    BY <2>3, <2>4 DEF IdsOf
  <2> QED
    BY ZenonT(30), <1>4, <1>5, <2>1, <2>2, <2>4
<1>8. \A b \in Left : Cardinality(container_ids'[b]) = Size[b]
  BY <1>3 DEF EntriesInv
<1>9. ASSUME NEW b \in Left, NEW t, Holds(b, t)
      PROVE  Holds(b, t)'
  BY <1>3, <1>4, <1>5, <1>9 DEF Holds, Entry
<1>10. \A b \in Waiting' : Holds(b, FALSE)'
  BY Zenon, <1>9 DEF EntriesInv
<1>11. \A b \in Locked' : Holds(b, TRUE)'
  BY Zenon, <1>9 DEF EntriesInv
<1> QED
  BY Zenon, <1>2, <1>6, <1>7, <1>8, <1>10, <1>11 DEF EntriesInv

(***************************************************************************)
(* Taking the transactions of a bundle, or giving them back, leaves the    *)
(* entries of every other bundle as they are.                              *)
(***************************************************************************)
LEMMA MarkKeepsEntries ==
  ASSUME EntriesInv, NEW b \in Waiting \cup Locked, NEW taken \in BOOLEAN,
         container' = Marked(b, taken), container_ids' = container_ids,
         Waiting' = IF taken THEN Waiting \ {b} ELSE Waiting \cup {b},
         Locked' = IF taken THEN Locked \cup {b} ELSE Locked \ {b}
  PROVE  EntriesInv'
<1>1. /\ DOMAIN container' = DOMAIN container
      /\ \A id \in DOMAIN container :
           container'[id] = IF id \in container_ids[b] THEN Entry(b, taken) ELSE container[id]
  BY DEF Marked
<1>2. Waiting' \cup Locked' = Waiting \cup Locked
  OBVIOUS
<1>3. Holds(b, taken)'
  BY <1>1, IdsAreThere DEF Holds, Entry
<1>4. ASSUME NEW c \in Waiting \cup Locked, c # b, NEW t, Holds(c, t)
      PROVE  Holds(c, t)'
  <2> SUFFICES ASSUME NEW id \in container_ids[c]
               PROVE  container'[id] = Entry(c, t)
    BY DEF Holds, Entry
  <2>1. id \in DOMAIN container /\ id \notin container_ids[b]
    BY <1>4, IdsAreThere, OneOwner
  <2> QED
    BY <1>1, <1>4, <2>1 DEF Holds
<1>5. \A c \in Waiting' : Holds(c, FALSE)'
  BY Zenon, <1>3, <1>4 DEF EntriesInv
<1>6. \A c \in Locked' : Holds(c, TRUE)'
  BY Zenon, <1>3, <1>4 DEF EntriesInv
<1>7. IdsOf(Waiting \cup Locked)' = IdsOf(Waiting \cup Locked)
  BY <1>2 DEF IdsOf
<1> QED
  BY Zenon, <1>1, <1>2, <1>5, <1>6, <1>7 DEF EntriesInv

(***************************************************************************)
(* The ids of a set of bundles and one more.                               *)
(***************************************************************************)
LEMMA UnionWithOne ==
  ASSUME NEW f, NEW S, NEW n
  PROVE  UNION {f[b] : b \in S \cup {n}} = (UNION {f[b] : b \in S}) \cup f[n]
OBVIOUS

(***************************************************************************)
(* A new bundle gets vacant ids, one for each packet; a bundle that is     *)
(* given up half way leaves the container as it was.                       *)
(***************************************************************************)
LEMMA InsertKeepsEntries ==
  ASSUME StageInv, EntriesInv, receive_and_buffer_bundles
  PROVE  EntriesInv'
<1> DEFINE D == DOMAIN container
<1>0. PICK n \in Nat : n = arrived + 1
  BY DEF StageInv, TypeOK
<1>1. PICK result \in InsertResults, ids \in SUBSET (Keys \ D) : insert_bundle(n, result, ids)
  BY <1>0 DEF receive_and_buffer_bundles
<1>2. UNCHANGED <<buffered, window>> /\ arrived < Cardinality(Bundles)
  BY DEF receive_and_buffer_bundles
<1> DEFINE filled == [id \in D \cup ids |-> IF id \in ids THEN Entry(n, FALSE) ELSE container[id]]
<1>3. CASE result = "Ok"
  <2>1. /\ container' = filled
        /\ container_ids' = [container_ids EXCEPT ![n] = ids]
        /\ unprocessed' = Append(unprocessed, n)
        /\ Cardinality(ids) = Size[n]
    BY Zenon, <1>1, <1>3 DEF insert_bundle, Inserted
  <2>2. arrived \in Nat /\ n \in Bundles
    BY <1>0, <1>2, BundleStageAssumption, FS_CardinalityType DEF StageInv, TypeOK
  <2>3. Elements(unprocessed') = Elements(unprocessed) \cup {n}
    BY <2>1, <2>2, AppendElements DEF StageInv, TypeOK
  <2>4. n \notin Waiting \cup Locked
    BY <1>0, <2>2 DEF Waiting, Locked, StageInv, QueuesInOrder
  <2>5. Waiting' = Waiting \cup {n} /\ Locked' = Locked
    BY <1>2, <2>3 DEF Waiting, Locked
  <2>6. /\ container_ids' \in [Bundles -> SUBSET Keys]
        /\ container_ids'[n] = ids
        /\ \A b \in Bundles : b # n => container_ids'[b] = container_ids[b]
    BY <2>1, <2>2 DEF EntriesInv
  <2>7. \A b \in Waiting \cup Locked : b \in Bundles /\ container_ids'[b] = container_ids[b]
    <3>1. \A b \in Waiting \cup Locked : b \in Bundles
      BY ElementsAreMembers DEF Waiting, Locked, StageInv, TypeOK
    <3> QED
      BY <2>4, <2>6, <3>1
  <2>8. DOMAIN container' = D \cup ids
    BY <2>1
  <2>9. \A id \in ids : container'[id] = Entry(n, FALSE)
    BY <2>1
  <2>10. \A id \in D : container'[id] = container[id]
    BY Zenon, <2>1
  <2> HIDE DEF filled
  <2>11. IdsOf(Waiting \cup Locked)' = D \cup ids
    <3>1. D = UNION {container_ids[b] : b \in Waiting \cup Locked}
      BY DEF EntriesInv, IdsOf
    <3>2. IdsOf(Waiting \cup Locked)' =
            UNION {container_ids'[b] : b \in (Waiting \cup Locked) \cup {n}}
      <4>1. (Waiting \cup Locked)' = (Waiting \cup Locked) \cup {n}
        BY <2>5
      <4> QED
        BY <4>1 DEF IdsOf
    <3>3. UNION {container_ids'[b] : b \in (Waiting \cup Locked) \cup {n}}
            = (UNION {container_ids'[b] : b \in Waiting \cup Locked}) \cup container_ids'[n]
      BY Zenon, UnionWithOne
    <3>4. UNION {container_ids'[b] : b \in Waiting \cup Locked}
            = UNION {container_ids[b] : b \in Waiting \cup Locked}
      BY <2>7
    <3> QED
      BY <2>6, <3>1, <3>2, <3>3, <3>4
  <2>12. \A b \in (Waiting \cup Locked)' : Cardinality(container_ids'[b]) = Size[b]
    BY <2>1, <2>5, <2>6, <2>7 DEF EntriesInv
  <2>13. ASSUME NEW b \in Waiting \cup Locked, NEW t, Holds(b, t)
         PROVE  Holds(b, t)'
    BY <2>7, <2>10, <2>13, IdsAreThere DEF Holds, Entry
  <2>14. Holds(n, FALSE)'
    BY Zenon, <2>6, <2>9 DEF Holds, Entry
  <2>15. \A b \in Waiting' : Holds(b, FALSE)'
    BY Zenon, <2>5, <2>13, <2>14 DEF EntriesInv
  <2>16. \A b \in Locked' : Holds(b, TRUE)'
    BY Zenon, <2>5, <2>13 DEF EntriesInv
  <2> QED
    BY Zenon, <2>6, <2>8, <2>11, <2>12, <2>15, <2>16 DEF EntriesInv
<1>4. CASE result # "Ok"
  <2>1. /\ container' = Restrict(filled, DOMAIN filled \ ids)
        /\ UNCHANGED <<container_ids, unprocessed>>
    BY <1>1, <1>4 DEF insert_bundle, Rollback, Without
  <2>2. DOMAIN filled \ ids = D /\ \A id \in D : filled[id] = container[id]
    BY Zenon
  <2>3. DOMAIN container' = D /\ \A id \in D : container'[id] = container[id]
    BY Zenon, <2>1, <2>2 DEF Restrict
  <2> HIDE DEF filled
  <2>4. Waiting' = Waiting /\ Locked' = Locked
    BY <1>2, <2>1 DEF Waiting, Locked
  <2>5. IdsOf(Waiting \cup Locked)' = IdsOf(Waiting \cup Locked)
    BY <2>1, <2>4 DEF IdsOf
  <2>6. ASSUME NEW b \in Waiting \cup Locked, NEW t, Holds(b, t)
        PROVE  Holds(b, t)'
    BY Zenon, <2>1, <2>3, <2>6, IdsAreThere DEF Holds, Entry
  <2>7. \A b \in Waiting' : Holds(b, FALSE)'
    BY Zenon, <2>4, <2>6 DEF EntriesInv
  <2>8. \A b \in Locked' : Holds(b, TRUE)'
    BY Zenon, <2>4, <2>6 DEF EntriesInv
  <2> QED
    BY Zenon, <2>1, <2>3, <2>4, <2>5, <2>7, <2>8 DEF EntriesInv
<1> QED
  BY <1>3, <1>4

(***************************************************************************)
(* What is stored is a bundle.                                             *)
(***************************************************************************)
LEMMA StoredAreBundles == StageInv => Waiting \cup Locked \subseteq Bundles
BY ElementsAreMembers DEF Waiting, Locked, StageInv, TypeOK

(***************************************************************************)
(* The popped bundle is in no queue any more; its entries are taken, or    *)
(* go.                                                                     *)
(***************************************************************************)
LEMMA FillKeepsEntries ==
  ASSUME StageInv, EntriesInv, Fill
  PROVE  EntriesInv'
<1> DEFINE b == Head(Refilled)
<1>1. /\ on # 0 /\ Refilled # <<>>
      /\ unprocessed' = Tail(Refilled) /\ buffered' = StillBuffered
      /\ \/ destroy({b}) /\ window' = window
         \/ /\ container' = Marked(b, TRUE) /\ container_ids' = container_ids
            /\ window' = Append(window, b)
  BY Zenon DEF Fill
<1>2. /\ Refilled \in Seq(Bundles) /\ Increasing(Refilled)
      /\ Before(StillBuffered, Refilled) /\ Before(window, Refilled)
  BY <1>1, RefillInOrder
<1>3. /\ b \in Bundles /\ Elements(Refilled) = Elements(Tail(Refilled)) \cup {b}
      /\ \A c \in Elements(Tail(Refilled)) : b < c
  BY <1>1, <1>2, BundlesAreNumbers, HeadIsFirst
<1> HIDE DEF b
<1>4. Waiting = Elements(Refilled) \cup Elements(StillBuffered)
  <2>1. CASE on = last_slot
    BY <2>1 DEF Waiting, Refilled, StillBuffered
  <2>2. CASE on # last_slot
    <3>1. Elements(buffered \o unprocessed) = Elements(buffered) \cup Elements(unprocessed)
      BY BundlesAreNumbers, ConcatInOrder DEF StageInv, TypeOK, QueuesInOrder
    <3>2. Elements(<<>>) = {}
      BY DEF Elements
    <3> QED
      BY <2>2, <3>1, <3>2 DEF Waiting, Refilled, StillBuffered
  <2> QED
    BY <2>1, <2>2
<1>5. b \notin Elements(Tail(Refilled)) /\ b \notin Elements(StillBuffered)
  BY <1>2, <1>3, NotBeforeItself DEF Before
<1>6. b \notin Locked
  BY <1>2, <1>3, NotBeforeItself DEF Before, Locked
<1>7. Waiting' = Waiting \ {b} /\ b \in Waiting
  BY <1>1, <1>3, <1>4, <1>5 DEF Waiting
<1>8. CASE destroy({b}) /\ window' = window
  <2>1. Locked' = Locked \ {b}
    BY <1>6, <1>8 DEF Locked
  <2> QED
    BY <1>7, <1>8, <2>1, DestroyKeepsEntries, StoredAreBundles
<1>9. CASE /\ container' = Marked(b, TRUE) /\ container_ids' = container_ids
           /\ window' = Append(window, b)
  <2>1. Locked' = Locked \cup {b}
    BY <1>3, <1>9, AppendElements DEF StageInv, TypeOK, Locked
  <2> QED
    BY Zenon, <1>7, <1>9, <2>1, MarkKeepsEntries
<1> QED
  BY Zenon, <1>1, <1>8, <1>9

(***************************************************************************)
(* The processed bundle leaves the window; its entries wait again, or go.  *)
(***************************************************************************)
LEMMA ProcessKeepsEntries ==
  ASSUME StageInv, EntriesInv, NEW result, Process(result)
  PROVE  EntriesInv'
<1> DEFINE b == Head(window)
<1>1. /\ window # <<>> /\ window' = Tail(window) /\ unprocessed' = unprocessed
      /\ \/ destroy({b}) /\ buffered' = buffered
         \/ /\ container' = Marked(b, FALSE) /\ container_ids' = container_ids
            /\ buffered' = Append(buffered, b)
  BY Zenon DEF Process
<1>2. /\ b \in Bundles /\ Elements(window) = Elements(Tail(window)) \cup {b}
      /\ \A c \in Elements(Tail(window)) : b < c
  BY Zenon, <1>1, BundlesAreNumbers, HeadIsFirst DEF StageInv, TypeOK, QueuesInOrder
<1> HIDE DEF b
<1>3. b \notin Elements(Tail(window)) /\ b \notin Waiting
  BY <1>2, BundlesAreNumbers DEF StageInv, QueuesInOrder, Before, Waiting
<1>4. Locked' = Locked \ {b} /\ b \in Locked
  BY <1>1, <1>2, <1>3 DEF Locked
<1>5. CASE destroy({b}) /\ buffered' = buffered
  <2>1. Waiting' = Waiting \ {b}
    BY <1>1, <1>3, <1>5 DEF Waiting
  <2> QED
    BY <1>4, <1>5, <2>1, DestroyKeepsEntries, StoredAreBundles
<1>6. CASE /\ container' = Marked(b, FALSE) /\ container_ids' = container_ids
           /\ buffered' = Append(buffered, b)
  <2>1. Waiting' = Waiting \cup {b}
    <3>1. Elements(buffered') = Elements(buffered) \cup {b}
      BY <1>2, <1>6, AppendElements DEF StageInv, TypeOK
    <3> QED
      BY <1>1, <3>1 DEF Waiting
  <2> QED
    BY Zenon, <1>4, <1>6, <2>1, MarkKeepsEntries
<1> QED
  BY Zenon, <1>1, <1>5, <1>6

(***************************************************************************)
(* A step that touches neither the container nor what is stored.           *)
(***************************************************************************)
LEMMA SameKeepsEntries ==
  ASSUME EntriesInv, UNCHANGED <<container, container_ids>>,
         Waiting' = Waiting, Locked' = Locked
  PROVE  EntriesInv'
BY DEF EntriesInv, Holds, IdsOf, Entry

(***************************************************************************)
(* No step leaves an entry behind or loses one.                            *)
(***************************************************************************)
LEMMA NextKeepsEntries ==
  ASSUME StageInv, EntriesInv, [Next]_vars
  PROVE  EntriesInv'
<1>0. Elements(<<>>) = {}
  BY DEF Elements
<1>1. CASE BeginConsume
  BY <1>1, SameKeepsEntries DEF BeginConsume, storage, Waiting, Locked
<1>2. CASE clear
  <2>1. /\ on = 0 /\ destroy(Range(unprocessed) \cup Range(buffered)) /\ window' = window
        /\ unprocessed' = <<>> /\ buffered' = <<>>
    BY <1>2 DEF clear
  <2>2. Range(unprocessed) \cup Range(buffered) = Waiting
    BY RangeIsElements DEF Waiting, StageInv, TypeOK
  <2>3. Locked = {} /\ Locked' = {}
    BY <1>0, <2>1 DEF StageInv, SlotsInOrder, Locked
  <2>4. Waiting' = {}
    BY <1>0, <2>1 DEF Waiting
  <2> QED
    BY <2>1, <2>2, <2>3, <2>4, DestroyKeepsEntries, StoredAreBundles
<1>3. CASE EndConsume
  <2>1. /\ on # 0 /\ window = <<>> /\ buffered' = StillBuffered
        /\ Refilled = <<>> \/ Len(window) = Window
        /\ UNCHANGED <<container, container_ids, unprocessed, window>>
    BY <1>3 DEF EndConsume, FrontIsDue
  <2>2. Refilled = <<>>
    BY <2>1, BundleStageAssumption
  <2>3. buffered' = buffered \/ (buffered = <<>> /\ buffered' = <<>>)
    BY <2>1, <2>2 DEF Refilled, StillBuffered, StageInv, TypeOK
  <2> QED
    BY <2>1, <2>3, SameKeepsEntries DEF Waiting, Locked
<1>4. CASE CompleteBank
  BY <1>4, SameKeepsEntries DEF CompleteBank, storage, Waiting, Locked
<1>5. ASSUME NEW decision, NextSlot(decision) PROVE EntriesInv'
  BY <1>5, SameKeepsEntries DEF NextSlot, storage, Waiting, Locked
<1>6. CASE UNCHANGED vars
  BY <1>6, SameKeepsEntries DEF vars, Waiting, Locked
<1> QED
  BY <1>1, <1>2, <1>3, <1>4, <1>5, <1>6, FillKeepsEntries, ProcessKeepsEntries,
     InsertKeepsEntries DEF Next, StageRuns

(***************************************************************************)
(* The invariants imply the property: queues in order hold no bundle twice *)
(***************************************************************************)
LEMMA MatchFollows == StageInv /\ EntriesInv => EntriesMatch
<1> SUFFICES ASSUME StageInv, EntriesInv PROVE EntriesMatch
  OBVIOUS
<1>1. Locked \cap Waiting = {}
  <2>1. \A b \in Locked : ~ (b < b)
    BY NotBeforeItself, ElementsAreMembers DEF StageInv, TypeOK, Locked
  <2> QED
    BY <2>1 DEF StageInv, QueuesInOrder, Before, Waiting, Locked
<1>2. Range(window) = Locked
  BY RangeIsElements DEF StageInv, TypeOK, Locked
<1>3. Stored \in Seq(Bundles) /\ Range(Stored) = Waiting \cup Locked
  <2> DEFINE q == buffered \o window
             all == q \o unprocessed
  <2>1. q \in Seq(Bundles) /\ Elements(q) = Elements(buffered) \cup Elements(window)
    BY ConcatMembers DEF StageInv, TypeOK
  <2>2. unprocessed \in Seq(Bundles)
    BY DEF StageInv, TypeOK
  <2> HIDE DEF q
  <2>3. all \in Seq(Bundles) /\ Elements(all) = Elements(q) \cup Elements(unprocessed)
    BY <2>1, <2>2, ConcatMembers
  <2> HIDE DEF all
  <2>4. Range(all) = Elements(all)
    BY <2>3, RangeIsElements
  <2>5. all = Stored
    BY DEF all, q, Stored
  <2> QED
    BY <2>1, <2>3, <2>4, <2>5 DEF Waiting, Locked
<1>4. IsInjective(Stored)
  <2>1. \A i, j \in DOMAIN Stored : i < j => Stored[i] < Stored[j]
    BY OrderFollows DEF ArrivalOrder
  <2> DEFINE all == Stored
  <2> HIDE DEF all
  <2>2. ASSUME NEW i \in DOMAIN all, NEW j \in DOMAIN all, all[i] = all[j]
        PROVE  i = j
    <3>1. i \in Int /\ j \in Int /\ all[i] \in Nat /\ all[j] \in Nat
      <4>1. /\ Len(all) \in Nat /\ DOMAIN all = 1..Len(all)
            /\ all \in [1..Len(all) -> Bundles]
        BY <1>3 DEF all
      <4>2. i \in 1..Len(all) /\ j \in 1..Len(all)
        BY <4>1
      <4>3. all[i] \in Bundles /\ all[j] \in Bundles
        BY <4>1, <4>2
      <4>4. all[i] \in Nat /\ all[j] \in Nat
        BY Zenon, <4>3, NotBeforeItself
      <4>5. \A n \in Nat : \A k \in 1..n : k \in Int
        OBVIOUS
      <4> QED
        BY Zenon, <4>1, <4>2, <4>4, <4>5
    <3>2. i < j => all[i] < all[j]
      BY <2>1 DEF all
    <3>3. j < i => all[j] < all[i]
      BY <2>1 DEF all
    <3> QED
      BY <2>2, <3>1, <3>2, <3>3
  <2> QED
    BY <2>2 DEF IsInjective, all
<1>5. ASSUME NEW b \in Waiting \cup Locked
      PROVE  /\ Cardinality(container_ids[b]) = Size[b]
             /\ \A id \in container_ids[b] : container[id] = Entry(b, b \in Locked)
  <2>1. CASE b \in Waiting
    <3>1. (b \in Locked) = FALSE
      BY <1>1, <2>1
    <3> QED
      BY Zenon, <2>1, <3>1 DEF EntriesInv, Holds
  <2>2. CASE b \in Locked
    <3>1. (b \in Locked) = TRUE
      BY <2>2
    <3> QED
      BY Zenon, <2>2, <3>1 DEF EntriesInv, Holds
  <2> QED
    BY <2>1, <2>2
<1>6. DOMAIN container = IdsOf(Range(Stored))
  BY <1>3 DEF EntriesInv
<1> QED
  BY <1>2, <1>3, <1>4, <1>5, <1>6 DEF EntriesMatch

(***************************************************************************)
(* No entry of the container leaks through a bundle given up half way, a   *)
(* clear, a refused lock, a failure or a retry, and none is missing that   *)
(* pop_bundle or retry_bundle unwraps, for any bundles, window and slots.  *)
(***************************************************************************)
THEOREM EntriesAreExact == Spec => []EntriesMatch
<1>1. Init => EntriesInv
  <2> SUFFICES ASSUME Init PROVE EntriesInv
    OBVIOUS
  <2>1. Elements(<<>>) = {} /\ DOMAIN <<>> = {}
    BY DEF Elements
  <2>2. Waiting = {} /\ Locked = {}
    BY <2>1 DEF Init, Waiting, Locked
  <2>3. IdsOf({}) = {}
    BY DEF IdsOf
  <2>4. container_ids \in [Bundles -> SUBSET Keys] /\ DOMAIN container = {}
    BY <2>1 DEF Init
  <2> QED
    BY <2>2, <2>3, <2>4 DEF EntriesInv
<1> QED
  BY <1>1, InitInOrder, NextInOrder, NextKeepsEntries, MatchFollows, PTL DEF Spec

-----------------------------------------------------------------------------
(***************************************************************************)
(* buffer_size counts what is there: the entries are finitely many, and no *)
(* more than the capacity.                                                 *)
(***************************************************************************)
CapacityInv ==
    /\ IsFiniteSet(DOMAIN container)
    /\ buffer_size <= Capacity

(***************************************************************************)
(* insert_bundle adds the entries of a new bundle that fits, and no other  *)
(* step adds any.                                                          *)
(***************************************************************************)
LEMMA NextKeepsCapacity ==
  ASSUME StageInv, CapacityInv, [Next]_vars
  PROVE  CapacityInv'
<1> DEFINE D == DOMAIN container
<1>1. ASSUME DOMAIN container' \subseteq D
      PROVE  CapacityInv'
  <2>1. IsFiniteSet(DOMAIN container') /\ Cardinality(DOMAIN container') <= Cardinality(D)
    BY <1>1, FS_Subset DEF CapacityInv
  <2>2. Cardinality(DOMAIN container') \in Nat /\ Cardinality(D) \in Nat
    BY <2>1, FS_CardinalityType DEF CapacityInv
  <2>3. Cardinality(DOMAIN container') <= Capacity
    BY <2>1, <2>2, BundleStageAssumption DEF CapacityInv, buffer_size
  <2> QED
    BY <2>1, <2>3 DEF CapacityInv, buffer_size
<1>2. ASSUME NEW bs, destroy(bs)
      PROVE  CapacityInv'
  BY <1>1, <1>2 DEF destroy, Without, Restrict
<1>3. ASSUME NEW b, NEW t, container' = Marked(b, t)
      PROVE  CapacityInv'
  BY <1>1, <1>3 DEF Marked
<1>4. CASE receive_and_buffer_bundles
  <2> DEFINE n == arrived + 1
  <2>1. PICK result \in InsertResults, ids \in SUBSET (Keys \ D) : insert_bundle(n, result, ids)
    BY <1>4 DEF receive_and_buffer_bundles
  <2>2. n \in Bundles /\ Size[n] \in Nat \ {0}
    BY <1>4, BundleStageAssumption, FS_CardinalityType
    DEF receive_and_buffer_bundles, StageInv, TypeOK
  <2>3. CASE result # "Ok"
    <3>1. DOMAIN container' \subseteq D
      BY <2>1, <2>3 DEF insert_bundle, Rollback, Without, Restrict
    <3> QED
      BY <1>1, <3>1
  <2>4. CASE result = "Ok"
    <3>1. /\ DOMAIN container' = D \cup ids
          /\ Cardinality(ids) = Size[n]
          /\ buffer_size + Size[n] <= Capacity
      BY <2>1, <2>4 DEF insert_bundle, Inserted
    <3>2. IsFiniteSet(ids)
      BY FS_Subset, BundleStageAssumption
    <3>3. D \cap ids = {} /\ IsFiniteSet(D)
      BY DEF CapacityInv
    <3> HIDE DEF D, n
    <3>4. /\ IsFiniteSet(D \cup ids)
          /\ Cardinality(D \cup ids) = Cardinality(D) + Cardinality(ids) - Cardinality(D \cap ids)
      BY <3>2, <3>3, FS_Union
    <3>5. Cardinality(D \cap ids) = 0
      BY <3>3, FS_EmptySet
    <3>6. Cardinality(D) \in Nat
      BY <3>3, FS_CardinalityType
    <3>7. Cardinality(D) + Size[n] <= Capacity
      BY <3>1 DEF buffer_size, D
    <3>8. Cardinality(D \cup ids) <= Capacity
      BY <2>2, <3>1, <3>4, <3>5, <3>6, <3>7
    <3> QED
      BY <3>1, <3>4, <3>8 DEF CapacityInv, buffer_size
  <2> QED
    BY <2>3, <2>4
<1>5. CASE Fill
  BY Zenon, <1>2, <1>3, <1>5 DEF Fill
<1>6. ASSUME NEW result, Process(result) PROVE CapacityInv'
  BY Zenon, <1>2, <1>3, <1>6 DEF Process
<1>7. CASE clear
  BY <1>2, <1>7 DEF clear
<1>8. CASE BeginConsume \/ EndConsume \/ CompleteBank \/ UNCHANGED vars
  BY <1>1, <1>8 DEF BeginConsume, EndConsume, CompleteBank, vars, storage
<1>9. ASSUME NEW decision, NextSlot(decision) PROVE CapacityInv'
  BY <1>1, <1>9 DEF NextSlot, storage
<1> QED
  BY <1>4, <1>5, <1>6, <1>7, <1>8, <1>9 DEF Next, StageRuns

(***************************************************************************)
(* No entry leaks, none is missing, and the container never holds more     *)
(* packets than transaction_capacity, for any bundles of any sizes,        *)
(* whichever ids the slab hands out and however insert_bundle ends.        *)
(***************************************************************************)
THEOREM StorageNeverLeaks == Spec => []NothingLeaks
<1>1. Init => CapacityInv
  <2> SUFFICES ASSUME Init PROVE CapacityInv
    OBVIOUS
  <2>1. DOMAIN container = {}
    BY DEF Init
  <2>2. IsFiniteSet({}) /\ Cardinality({}) = 0
    BY FS_EmptySet
  <2>3. 0 <= Capacity
    BY BundleStageAssumption
  <2> QED
    BY Zenon, <2>1, <2>2, <2>3 DEF CapacityInv, buffer_size
<1>2. Spec => []CapacityInv
  BY <1>1, InitInOrder, NextInOrder, NextKeepsCapacity, PTL DEF Spec
<1>3. CapacityInv /\ EntriesMatch => NothingLeaks
  BY DEF CapacityInv, NothingLeaks
<1> QED
  BY <1>2, <1>3, EntriesAreExact, PTL
=============================================================================
