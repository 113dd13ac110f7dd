------------------- MODULE SchedulingStateMachineProofs -------------------
(* What TLC checks of SchedulingStateMachine on small instances, proved for
   every number of tasks and addresses: an inductive invariant, what follows
   from it, and its preservation by every step. *)
EXTENDS SchedulingStateMachine, FiniteSetTheorems, TLAPS

---------------------------------------------------------------------------
(* What a queue of tasks holds after an element is added or taken *)

\* A function on 1..n is a sequence.
LEMMA FunctionIsSequence ==
  ASSUME NEW T, NEW n \in Nat, NEW f \in [1..n -> T]
  PROVE  f \in Seq(T) /\ Len(f) = n
OBVIOUS

\* A task appended to the queue is its only new element.
LEMMA AppendElements ==
  ASSUME NEW T, NEW s \in Seq(T), NEW t \in T
  PROVE  /\ Append(s, t) \in Seq(T)
         /\ Elements(Append(s, t)) = Elements(s) \union {t}
         /\ Distinct(s) /\ t \notin Elements(s) => Distinct(Append(s, t))
<1>1. /\ Append(s, t) \in Seq(T)
      /\ Len(Append(s, t)) = Len(s) + 1
      /\ \A i \in 1..Len(s) : Append(s, t)[i] = s[i]
      /\ Append(s, t)[Len(s) + 1] = t
  OBVIOUS
<1>2. Len(s) \in Nat
  OBVIOUS
<1>3. \A i \in 1..(Len(s) + 1) : i \in 1..Len(s) \/ i = Len(s) + 1
  BY <1>2
<1>4. 1..Len(s) \subseteq 1..(Len(s) + 1) /\ Len(s) + 1 \in 1..(Len(s) + 1)
  BY <1>2
<1>5. Elements(Append(s, t)) = Elements(s) \union {t}
  BY <1>1, <1>3, <1>4 DEF Elements
<1>6. ASSUME Distinct(s), t \notin Elements(s)
      PROVE  Distinct(Append(s, t))
  BY <1>1, <1>3, <1>6 DEF Distinct, Elements
<1> QED
  BY <1>1, <1>5, <1>6

\* The head taken off the queue is the element it loses.
LEMMA HeadTailElements ==
  ASSUME NEW T, NEW s \in Seq(T), s # <<>>
  PROVE  /\ Tail(s) \in Seq(T) /\ Head(s) \in T
         /\ Elements(s) = Elements(Tail(s)) \union {Head(s)}
         /\ Distinct(s) => Head(s) \notin Elements(Tail(s)) /\ Distinct(Tail(s))
<1>1. /\ Tail(s) \in Seq(T) /\ Head(s) \in T
      /\ Len(Tail(s)) = Len(s) - 1
      /\ \A i \in 1..Len(Tail(s)) : Tail(s)[i] = s[i + 1]
      /\ Head(s) = s[1]
  OBVIOUS
<1>2. Len(s) \in Nat /\ Len(s) >= 1
  OBVIOUS
<1>3. \A i \in 1..Len(s) : i = 1 \/ (i - 1 \in 1..Len(Tail(s)) /\ (i - 1) + 1 = i)
  BY <1>1, <1>2
<1>4. \A i \in 1..Len(Tail(s)) : i + 1 \in 1..Len(s) /\ i + 1 # 1
  BY <1>1, <1>2
<1>5. 1 \in 1..Len(s)
  BY <1>2
<1>6. Elements(s) = Elements(Tail(s)) \union {Head(s)}
  <2>1. \A i \in 1..Len(s) : s[i] \in Elements(Tail(s)) \union {Head(s)}
    <3> SUFFICES ASSUME NEW i \in 1..Len(s), i # 1
                 PROVE  s[i] \in Elements(Tail(s))
      BY <1>1
    <3>1. i - 1 \in 1..Len(Tail(s)) /\ Tail(s)[i - 1] = s[(i - 1) + 1] /\ (i - 1) + 1 = i
      BY <1>1, <1>3
    <3> QED
      BY SMTT(30), <3>1 DEF Elements
  <2>2. \A i \in 1..Len(Tail(s)) : Tail(s)[i] \in Elements(s)
    BY <1>1, <1>4 DEF Elements
  <2>3. Head(s) \in Elements(s)
    BY <1>1, <1>5 DEF Elements
  <2> QED
    BY <2>1, <2>2, <2>3 DEF Elements
<1>7. ASSUME Distinct(s)
      PROVE  Head(s) \notin Elements(Tail(s)) /\ Distinct(Tail(s))
  <2>1. \A i \in 1..Len(Tail(s)) : Tail(s)[i] # Head(s)
    BY <1>1, <1>4, <1>5, <1>7 DEF Distinct
  <2>2. ASSUME NEW i \in 1..Len(Tail(s)), NEW j \in 1..Len(Tail(s)),
               Tail(s)[i] = Tail(s)[j]
        PROVE  i = j
    <3>1. i + 1 = j + 1
      BY <1>1, <1>4, <1>7, <2>2 DEF Distinct
    <3> QED
      BY <1>1, <1>2, <3>1
  <2> QED
    BY <2>1, <2>2 DEF Distinct, Elements
<1> QED
  BY <1>1, <1>6, <1>7

\* Appending a listing of a set adds the elements of the set.
LEMMA ConcatElements ==
  ASSUME NEW T, NEW s \in Seq(T), IsFiniteSet(T),
         NEW S \in SUBSET T, NEW l \in Listings(S)
  PROVE  /\ s \o l \in Seq(T)
         /\ Elements(s \o l) = Elements(s) \union S
         /\ Distinct(s) /\ Elements(s) \intersect S = {} => Distinct(s \o l)
<1> DEFINE n == Len(s)
           k == Cardinality(S)
<1>1. IsFiniteSet(S) /\ k \in Nat
  BY Zenon, FS_Subset, FS_CardinalityType
<1>2. /\ l \in [1..k -> S]
      /\ \A i, j \in 1..k : l[i] = l[j] => i = j
      /\ \A x \in S : \E i \in 1..k : l[i] = x
  BY DEF Listings
<1>3. l \in Seq(T) /\ Len(l) = k
  <2>1. l \in [1..k -> T]
    BY <1>2
  <2>2. l \in Seq(T)
    BY <1>1, <2>1, FunctionIsSequence
  <2>3. DOMAIN l = 1..k /\ DOMAIN l = 1..Len(l) /\ Len(l) \in Nat
    BY <1>2, <2>2
  <2>4. Len(l) = k
    BY <1>1, <2>3
  <2> QED
    BY <2>2, <2>4
<1>4. n \in Nat
  OBVIOUS
<1> HIDE DEF n, k
<1>5. /\ s \o l \in Seq(T)
      /\ Len(s \o l) = n + k
      /\ \A i \in 1..(n + k) : (s \o l)[i] = IF i <= n THEN s[i] ELSE l[i - n]
  BY <1>3 DEF n
<1>6. /\ \A i \in 1..n : i \in 1..(n + k) /\ (s \o l)[i] = s[i]
      /\ \A i \in 1..k : i + n \in 1..(n + k) /\ (s \o l)[i + n] = l[i]
      /\ \A i \in 1..(n + k) : i \in 1..n \/ (i - n \in 1..k /\ (s \o l)[i] = l[i - n])
  BY <1>1, <1>4, <1>5
<1>7. Elements(s \o l) = Elements(s) \union S
  <2>1. \A i \in 1..(n + k) : (s \o l)[i] \in Elements(s) \union S
    BY Zenon, <1>2, <1>6 DEF Elements, n
  <2>2. \A x \in Elements(s) : \E i \in 1..(n + k) : (s \o l)[i] = x
    BY <1>6 DEF Elements, n
  <2>3. ASSUME NEW x \in S
        PROVE  \E i \in 1..(n + k) : (s \o l)[i] = x
    <3>1. PICK i \in 1..k : l[i] = x
      BY <1>2
    <3>2. i + n \in 1..(n + k) /\ (s \o l)[i + n] = x
      BY Zenon, <1>6, <3>1
    <3> QED
      BY Zenon, <3>2
  <2> QED
    BY Zenon, <1>5, <2>1, <2>2, <2>3 DEF Elements
<1>8. ASSUME Distinct(s), Elements(s) \intersect S = {}
      PROVE  Distinct(s \o l)
  <2> SUFFICES ASSUME NEW i \in 1..(n + k), NEW j \in 1..(n + k),
                      (s \o l)[i] = (s \o l)[j]
               PROVE  i = j
    BY <1>5 DEF Distinct
  <2>1. \A m \in 1..n : s[m] \in Elements(s)
    BY DEF Elements, n
  <2>2. \A m \in 1..k : l[m] \in S
    BY <1>2
  <2>3. CASE i \in 1..n /\ j \in 1..n
    BY <1>6, <1>8, <2>3 DEF Distinct, n
  <2>4. CASE i \notin 1..n /\ j \notin 1..n
    <3>1. /\ i - n \in 1..k /\ (s \o l)[i] = l[i - n]
          /\ j - n \in 1..k /\ (s \o l)[j] = l[j - n]
      BY Zenon, <1>6, <2>4
    <3>2. l[i - n] = l[j - n]
      BY Zenon, <3>1
    <3>3. i - n = j - n
      BY <1>2, <3>1, <3>2
    <3> QED
      BY <1>1, <1>4, <3>3
  <2>5. CASE i \in 1..n /\ j \notin 1..n
    <3>1. (s \o l)[i] \in Elements(s) /\ j - n \in 1..k /\ (s \o l)[j] = l[j - n]
      BY Zenon, <1>6, <2>1, <2>5
    <3> QED
      BY <1>8, <2>2, <3>1
  <2>6. CASE i \notin 1..n /\ j \in 1..n
    <3>1. (s \o l)[j] \in Elements(s) /\ i - n \in 1..k /\ (s \o l)[i] = l[i - n]
      BY Zenon, <1>6, <2>1, <2>6
    <3> QED
      BY <1>8, <2>2, <3>1
  <2> QED
    BY <2>3, <2>4, <2>5, <2>6
<1> QED
  BY <1>5, <1>7, <1>8

---------------------------------------------------------------------------
(* Increasing sequences *)

\* A set of numbers that is not empty has a least element.
LEMMA LeastNumber ==
  ASSUME NEW S \in SUBSET Nat, S # {}
  PROVE  \E m \in S : \A n \in S : m <= n
<1>1. PICK m \in S : \A n \in S : ~(<<n, m>> \in OpToRel(<, Nat))
  BY Zenon, NatLessThanWellFounded, WFMin
<1>2. \A n \in S : n \in Nat /\ m \in Nat
  OBVIOUS
<1>3. \A n \in S : ~(n < m)
  BY Zenon, <1>1, <1>2 DEF OpToRel
<1> QED
  BY <1>2, <1>3

---------------------------------------------------------------------------
(* The inductive invariant.  One usage queue: its holders and its blocked
   tasks are the active tasks that asked for the address; it has readers or
   one writer; a holder that a blocked task would have to wait for either has
   the higher priority or is blocked nowhere; the first task blocked behind
   readers is a writer. *)
IdleInv(a) ==
  /\ current[a].usage = "none" <=> current[a].tasks = {}
  /\ current[a].usage = "none" => blocked[a] = {}

HolderInv(a) ==
  /\ \A t \in current[a].tasks :
       t \in active /\ t \notin blocked[a] /\ requested[t][a] = current[a].usage
  /\ current[a].usage = "Writable" => \A t, u \in current[a].tasks : t = u

MemberInv(a) ==
  /\ \A t \in blocked[a] : t \in active /\ requested[t][a] # "none"
  /\ \A t \in active :
       requested[t][a] # "none" => t \in current[a].tasks \/ t \in blocked[a]

OrderInv(a) ==
  \A b \in blocked[a], h \in current[a].tasks : blocked_usage_count[h] # 0 => h < b

WriterFirst(a) ==
  current[a].usage = "Readonly" =>
    \A r \in blocked[a] :
      requested[r][a] = "Readonly" =>
        \E w \in blocked[a] : w < r /\ requested[w][a] = "Writable"

QueueInv(a) ==
  IdleInv(a) /\ HolderInv(a) /\ MemberInv(a) /\ OrderInv(a) /\ WriterFirst(a)

\* The addresses task t is blocked on, which its counter counts.
BlockedOn(t) == {a \in Accounts : t \in blocked[a]}
CountInv ==
  \A t \in Tasks : blocked_usage_count[t] = Cardinality(BlockedOn(t))

\* The active tasks blocked nowhere run or are queued, each once.
UnblockedInv ==
  /\ Unblocked = {t \in active : blocked_usage_count[t] = 0}
  /\ running \intersect Elements(unblocked_task_queue) = {}
  /\ \A i, j \in 1..Len(unblocked_task_queue) :
       unblocked_task_queue[i] = unblocked_task_queue[j] => i = j

TaskInv ==
  /\ active \intersect fresh = {}
  /\ \A t \in Tasks : t \notin active => requested[t] = Unused
  /\ clearing => running = {}

\* unique_active_task_hashes are the hashes of the active tasks.
HashInv ==
  IF MaxActive = NoCap
  THEN hashes = {}
  ELSE /\ hashes = {Hash[t] : t \in active}
       /\ \A t, u \in active : Hash[t] = Hash[u] => t = u

IInv ==
  /\ TypeOK
  /\ \A a \in Accounts : QueueInv(a)
  /\ CountInv
  /\ UnblockedInv
  /\ TaskInv
  /\ HashInv

---------------------------------------------------------------------------
(* Lemmas *)

\* A task is blocked on finitely many addresses.
LEMMA BlockedOnFinite ==
  ASSUME NEW t
  PROVE  IsFiniteSet(BlockedOn(t)) /\ Cardinality(BlockedOn(t)) \in Nat
BY AccountsAreFinite, FS_Subset, FS_CardinalityType DEF BlockedOn

\* A counter is zero exactly when its task is blocked nowhere.
LEMMA CountIsZero ==
  ASSUME CountInv, NEW t \in Tasks
  PROVE  blocked_usage_count[t] = 0 <=> \A a \in Accounts : t \notin blocked[a]
<1>1. BlockedOn(t) = {} <=> \A a \in Accounts : t \notin blocked[a]
  BY DEF BlockedOn
<1>2. Cardinality(BlockedOn(t)) = 0 <=> BlockedOn(t) = {}
  BY BlockedOnFinite, FS_EmptySet
<1> QED
  BY <1>1, <1>2 DEF CountInv

\* A task blocked nowhere holds every address it asked for.
LEMMA UnblockedHolds ==
  ASSUME IInv, NEW t \in Unblocked, NEW a \in Accounts, requested[t][a] # "none"
  PROVE  t \in current[a].tasks
<1>1. t \in active /\ blocked_usage_count[t] = 0 /\ t \in Tasks
  BY DEF IInv, UnblockedInv, TypeOK
<1>2. t \notin blocked[a]
  BY <1>1, CountIsZero DEF IInv
<1> QED
  BY <1>1, <1>2 DEF IInv, QueueInv, IdleInv, HolderInv, MemberInv, OrderInv, WriterFirst

\* The order of task ids, as the steps below use it.
LEMMA TaskOrder ==
  \A x, y, z \in Tasks :
    /\ x <= x
    /\ x < y /\ y < z => x < z
    /\ ~(x < y) => y <= x
    /\ x <= y /\ x # y => x < y
    /\ x < y => x # y
    /\ x < y => ~(y < x)
    /\ x < y => x <= y
    /\ x < y => ~(y <= x)
BY TasksAreOrdered

\* A set of task ids that is not empty has a least element.
LEMMA LeastTask ==
  ASSUME NEW S \in SUBSET Tasks, S # {}
  PROVE  \E m \in S : \A t \in S : m <= t
<1>1. S \in SUBSET Nat
  BY TasksAreOrdered
<1> QED
  BY <1>1, LeastNumber

---------------------------------------------------------------------------
(* What the inductive invariant gives. *)

\* Tasks that run hold all they asked for, and a writer holds alone.
LEMMA MutualExclusionFromInv ==
  IInv => MutualExclusion
<1> SUFFICES ASSUME IInv,
                    NEW t \in Unblocked, NEW u \in Unblocked, NEW a \in Accounts,
                    t # u, requested[t][a] = "Writable", requested[u][a] # "none"
             PROVE  FALSE
  BY DEF MutualExclusion
<1>1. t \in current[a].tasks /\ u \in current[a].tasks
  BY UnblockedHolds
<1> QED
  BY <1>1 DEF IInv, QueueInv, IdleInv, HolderInv, MemberInv, OrderInv, WriterFirst

\* The active task of highest priority waits only for tasks blocked nowhere.
LEMMA NoDeadlockFromInv ==
  IInv => NoDeadlock
<1> SUFFICES ASSUME IInv, active # {}
             PROVE  Unblocked # {}
  BY DEF NoDeadlock
<1>1. active \in SUBSET Tasks
  BY DEF IInv, TypeOK
<1>2. PICK m \in active : \A t \in active : m <= t
  BY <1>1, LeastTask
<1>3. CASE blocked_usage_count[m] = 0
  BY <1>3 DEF IInv, UnblockedInv
<1>4. CASE blocked_usage_count[m] # 0
  <2>1. PICK a \in Accounts : m \in blocked[a]
    BY <1>1, <1>4, CountIsZero DEF IInv
  <2>2. PICK h \in current[a].tasks : TRUE
    BY <2>1 DEF IInv, QueueInv, IdleInv, HolderInv, MemberInv, OrderInv, WriterFirst
  <2>3. h \in active /\ ~(h < m)
    <3>1. h \in active
      BY <2>2 DEF IInv, QueueInv, IdleInv, HolderInv, MemberInv, OrderInv, WriterFirst
    <3>2. m <= h /\ m \in Nat /\ h \in Nat
      BY <1>1, <1>2, <3>1, TasksAreOrdered
    <3> QED
      BY <3>1, <3>2
  <2>4. blocked_usage_count[h] = 0
    BY <2>1, <2>2, <2>3 DEF IInv, QueueInv, IdleInv, HolderInv, MemberInv, OrderInv, WriterFirst
  <2> QED
    BY <2>3, <2>4 DEF IInv, UnblockedInv
<1> QED
  BY <1>3, <1>4

\* With nothing running and nothing queued, nothing is active.
LEMMA ClearNeverPanicsFromInv ==
  IInv => ClearNeverPanics
<1> SUFFICES ASSUME IInv,
                    active = {} \/ (clearing /\ unblocked_task_queue = <<>>)
             PROVE  ReinitializeAsserts
  BY DEF ClearNeverPanics
<1>1. active = {}
  <2> SUFFICES ASSUME clearing, unblocked_task_queue = <<>>
               PROVE  active = {}
    OBVIOUS
  <2>1. Unblocked = {}
    BY DEF IInv, TaskInv, Unblocked, Elements
  <2> QED
    BY <2>1, NoDeadlockFromInv DEF NoDeadlock
<1>2. running = {} /\ Elements(unblocked_task_queue) = {}
  BY <1>1 DEF IInv, UnblockedInv, Unblocked
<1>3. unblocked_task_queue = <<>>
  <2>1. unblocked_task_queue \in Seq(Tasks)
    BY DEF IInv, TypeOK
  <2>2. Len(unblocked_task_queue) = 0
    BY <1>2, <2>1 DEF Elements
  <2> QED
    BY <2>1, <2>2
<1>4. hashes = {}
  BY <1>1 DEF IInv, HashInv
<1> QED
  BY <1>1, <1>2, <1>3, <1>4 DEF ReinitializeAsserts

\* The asserts of the usage queues are part of the invariant.
LEMMA QueueAssertsFromInv ==
  IInv => QueueAssertsHold
<1> SUFFICES ASSUME IInv
             PROVE  QueueAssertsHold
  OBVIOUS
<1>1. ASSUME NEW t \in running, NEW a \in Accounts, requested[t][a] # "none"
      PROVE  Holds(a, t) /\ current[a].usage = requested[t][a]
  <2>1. t \in Unblocked
    BY <1>1 DEF Unblocked
  <2>2. t \in current[a].tasks
    BY <1>1, <2>1, UnblockedHolds
  <2> QED
    BY <2>2 DEF IInv, QueueInv, IdleInv, HolderInv, MemberInv, OrderInv, WriterFirst, Holds
<1> QED
  BY <1>1 DEF IInv, QueueInv, IdleInv, HolderInv, MemberInv, OrderInv, WriterFirst, QueueAssertsHold

\* Only active tasks hold or wait for an address.
LEMMA QueuesComeBackFromInv ==
  IInv => QueuesComeBack
<1> SUFFICES ASSUME IInv, active = {}
             PROVE  /\ current = [a \in Accounts |-> Idle]
                    /\ blocked = [a \in Accounts |-> {}]
                    /\ blocked_usage_count = [t \in Tasks |-> 0]
  BY DEF QueuesComeBack
<1>1. ASSUME NEW a \in Accounts
      PROVE  current[a] = Idle /\ blocked[a] = {}
  <2>1. current[a].tasks = {} /\ current[a].usage = "none" /\ blocked[a] = {}
    BY DEF IInv, QueueInv, IdleInv, HolderInv, MemberInv, OrderInv, WriterFirst
  <2> QED
    BY <2>1 DEF IInv, TypeOK, Idle
<1>2. ASSUME NEW t \in Tasks
      PROVE  blocked_usage_count[t] = 0
  BY <1>1, CountIsZero DEF IInv
<1> QED
  BY <1>1, <1>2 DEF IInv, TypeOK

---------------------------------------------------------------------------
(* The inductive invariant holds initially and is preserved by every action. *)

\* A new machine satisfies the invariant.
LEMMA InitInv ==
  Init => IInv
<1> SUFFICES ASSUME Init
             PROVE  IInv
  OBVIOUS
<1>1. TypeOK
  <2>1. <<>> \in Seq(Tasks)
    OBVIOUS
  <2> QED
    BY Zenon, <2>1, SessionsHaveTasks DEF Init, TypeOK, Idle, Unused, Usages
<1>2. \A a \in Accounts : QueueInv(a)
  BY DEF Init, QueueInv, IdleInv, HolderInv, MemberInv, OrderInv, WriterFirst, Idle
<1>3. CountInv
  <2>1. \A t : BlockedOn(t) = {}
    BY DEF Init, BlockedOn
  <2> QED
    BY Zenon, <2>1, FS_EmptySet DEF Init, CountInv
<1>4. UnblockedInv
  BY DEF Init, UnblockedInv, Unblocked, Elements
<1>5. TaskInv
  BY DEF Init, TaskInv
<1>6. HashInv
  BY DEF Init, HashInv
<1> QED
  BY <1>1, <1>2, <1>3, <1>4, <1>5, <1>6 DEF IInv

\* A task the machine does not own appears in no usage queue.
LEMMA NewTaskIsNowhere ==
  ASSUME IInv, NEW t \in fresh
  PROVE  /\ t \in Tasks /\ t \notin active /\ t \notin Unblocked
         /\ \A a \in Accounts : t \notin current[a].tasks /\ t \notin blocked[a]
BY DEF IInv, TypeOK, TaskInv, QueueInv, IdleInv, HolderInv, MemberInv, UnblockedInv

\* A task loses, and a new task misses, finitely many addresses.
LEMMA TakenAndMissed ==
  ASSUME NEW t, NEW new, NEW ctx
  PROVE  /\ IsFiniteSet(Taken(t, new, ctx)) /\ Cardinality(Taken(t, new, ctx)) \in Nat
         /\ IsFiniteSet(Missed(new, ctx)) /\ Cardinality(Missed(new, ctx)) \in Nat
<1>1. Taken(t, new, ctx) \in SUBSET Accounts /\ Missed(new, ctx) \in SUBSET Accounts
  BY DEF Taken, Missed
<1> QED
  BY <1>1, AccountsAreFinite, FS_Subset, FS_CardinalityType

\* Locking only adds to the counter of a task that is blocked already.
LEMMA LockingCounts ==
  ASSUME IInv, NEW t \in fresh, NEW ctx, try_lock_usage_queues(t, ctx)
  PROVE  /\ blocked_usage_count' \in [Tasks -> Nat]
         /\ \A h \in Tasks \ {t} :
              blocked_usage_count'[h] = 0 <=> blocked_usage_count[h] = 0
<1>1. blocked_usage_count' \in [Tasks -> Nat]
  <2>1. ASSUME NEW h \in Tasks
        PROVE  /\ blocked_usage_count[h] + Cardinality(Taken(h, t, ctx)) \in Nat
               /\ Cardinality(Missed(t, ctx)) \in Nat
    <3>1. blocked_usage_count[h] \in Nat
      BY DEF IInv, TypeOK
    <3> QED
      BY <3>1, TakenAndMissed
  <2> QED
    BY <2>1 DEF try_lock_usage_queues
<1>2. ASSUME NEW h \in Tasks \ {t}
      PROVE  blocked_usage_count'[h] = 0 <=> blocked_usage_count[h] = 0
  <2>1. blocked_usage_count'[h] = blocked_usage_count[h] + Cardinality(Taken(h, t, ctx))
    BY DEF try_lock_usage_queues
  <2>2. blocked_usage_count[h] \in Nat
    BY DEF IInv, TypeOK
  <2>3. CASE blocked_usage_count[h] = 0
    <3>1. Taken(h, t, ctx) = {}
      BY <2>3 DEF Taken, Reblocked, try_reblock
    <3> QED
      BY <2>1, <2>3, <3>1, FS_EmptySet
  <2>4. CASE blocked_usage_count[h] # 0
    BY <2>1, <2>2, <2>4, TakenAndMissed
  <2> QED
    BY <2>3, <2>4
<1> QED
  BY <1>1, <1>2

\* At every address, the tasks blocked before come after a new task that locks it.
LEMMA LockerIsFirst ==
  ASSUME IInv, NEW t \in fresh, NEW a \in Accounts, NEW u, Lockable(a, t, u)
  PROVE  /\ \A b \in blocked[a] : t < b
         /\ ~BothReadonly(a, u) => \A c \in current[a].tasks, b \in blocked[a] : c < b
<1>0. t \in Nat /\ current[a].tasks \subseteq Nat /\ blocked[a] \subseteq Nat
  BY Zenon, TasksAreOrdered DEF IInv, TypeOK
<1>1. CASE BothReadonly(a, u)
  BY <1>1 DEF Lockable
<1>2. CASE ~BothReadonly(a, u)
  <2>1. \A c \in current[a].tasks : t < c /\ blocked_usage_count[c] # 0
    BY <1>2 DEF Lockable, Reblocked, try_reblock
  <2>2. \A c \in current[a].tasks, b \in blocked[a] : c < b
    BY <2>1 DEF IInv, QueueInv, IdleInv, HolderInv, MemberInv, OrderInv, WriterFirst
  <2>3. ASSUME NEW b \in blocked[a] PROVE t < b
    <3>1. PICK c \in current[a].tasks : TRUE
      BY <2>3 DEF IInv, QueueInv, IdleInv, HolderInv, MemberInv, OrderInv, WriterFirst
    <3>2. t < c /\ c < b
      BY <3>1, <2>1, <2>2
    <3>3. t \in Nat /\ c \in Nat /\ b \in Nat
      BY <1>0, <2>3, <3>1
    <3> QED
      BY <3>2, <3>3
  <2> QED
    BY <2>2, <2>3
<1> QED
  BY <1>1, <1>2

\* The usage queue of one address after the new task t walked over it.
LEMMA LockedQueue ==
  ASSUME IInv, NEW t \in fresh, NEW ctx \in [Accounts -> Usages \union {"none"}],
         try_lock_usage_queues(t, ctx),
         requested' = [requested EXCEPT ![t] = ctx],
         active' = active \union {t},
         NEW a \in Accounts
  PROVE  QueueInv(a)'
<1>0. /\ t \in Tasks /\ t \notin active /\ t \notin current[a].tasks /\ t \notin blocked[a]
      /\ QueueInv(a)
      /\ current[a] \in [usage : Usages \union {"none"}, tasks : SUBSET Tasks]
      /\ blocked[a] \in SUBSET Tasks /\ active \in SUBSET Tasks
      /\ Tasks \subseteq Nat
  BY NewTaskIsNowhere, TasksAreOrdered DEF IInv, TypeOK
<1>r. /\ requested'[t] = ctx
      /\ \A h \in active : requested'[h] = requested[h]
  BY <1>0 DEF IInv, TypeOK
<1>c. \A h \in active : blocked_usage_count'[h] = 0 <=> blocked_usage_count[h] = 0
  BY <1>0, LockingCounts
<1>1. CASE ctx[a] = "none"
  <2>1. current'[a] = current[a] /\ blocked'[a] = blocked[a]
    BY <1>1 DEF try_lock_usage_queues
  <2> QED
    <3>1. IdleInv(a)'
      BY <1>0, <2>1 DEF QueueInv, IdleInv
    <3>2. HolderInv(a)'
      BY <1>0, <1>r, <2>1 DEF QueueInv, HolderInv
    <3>3. MemberInv(a)'
      BY <1>0, <1>r, <1>1, <2>1 DEF QueueInv, MemberInv
    <3>4. OrderInv(a)'
      BY Zenon, <1>0, <1>c, <2>1 DEF QueueInv, HolderInv, OrderInv
    <3>5. WriterFirst(a)'
      BY <1>0, <1>r, <2>1 DEF QueueInv, MemberInv, WriterFirst
    <3> QED
      BY Zenon, <3>1, <3>2, <3>3, <3>4, <3>5 DEF QueueInv
<1>2. CASE ctx[a] # "none"
  <2> DEFINE u == ctx[a]
             R == Reblocked(a, t, u)
  <2>0. u \in Usages
    BY <1>2 DEF Usages
  <2>1. /\ current'[a] = CurrentAfterLock(a, t, u)
        /\ blocked'[a] = BlockedAfterLock(a, t, u)
    BY Zenon, <1>2 DEF try_lock_usage_queues
  <2>2. CASE BothReadonly(a, u) /\ Lockable(a, t, u)
    <3>1. /\ current'[a].usage = "Readonly"
          /\ current'[a].tasks = current[a].tasks \union {t}
          /\ blocked'[a] = blocked[a]
          /\ current[a].usage = "Readonly"
          /\ u = "Readonly"
      BY <2>1, <2>2 DEF CurrentAfterLock, BlockedAfterLock, Reblocked, BothReadonly
    <3>2. \A b \in blocked[a] : t < b
      BY <2>2, LockerIsFirst
    <3> QED
      <4>1. IdleInv(a)'
        BY <1>0, <3>1 DEF QueueInv, IdleInv
      <4>2. HolderInv(a)'
        BY <1>0, <1>r, <3>1 DEF QueueInv, HolderInv
      <4>3. MemberInv(a)'
        BY Zenon, <1>0, <1>r, <3>1 DEF QueueInv, MemberInv
      <4>4. OrderInv(a)'
        BY Zenon, <1>0, <1>c, <3>1, <3>2 DEF QueueInv, HolderInv, OrderInv
      <4>5. WriterFirst(a)'
        BY <1>0, <1>r, <3>1 DEF QueueInv, MemberInv, WriterFirst
      <4> QED
        BY <4>1, <4>2, <4>3, <4>4, <4>5 DEF QueueInv
  <2>3. CASE BothReadonly(a, u) /\ ~Lockable(a, t, u)
    <3>1. /\ current'[a].usage = "Readonly"
          /\ current'[a].tasks = current[a].tasks
          /\ blocked'[a] = blocked[a] \union {t}
          /\ current[a].usage = "Readonly"
          /\ u = "Readonly"
      BY <1>0, <2>1, <2>3 DEF CurrentAfterLock, BlockedAfterLock, Reblocked, BothReadonly
    <3>2. PICK b \in blocked[a] : b < t
      <4>1. PICK b \in blocked[a] : ~(t < b)
        BY <2>3 DEF Lockable
      <4>2. b # t /\ b \in Nat /\ t \in Nat
        BY Zenon, <1>0, <4>1
      <4> QED
        BY <4>1, <4>2
    <3>3. PICK w \in blocked[a] : w < t /\ requested[w][a] = "Writable"
      <4>1. requested[b][a] \in Usages
        BY <1>0, <3>2 DEF IInv, TypeOK, QueueInv, IdleInv, HolderInv, MemberInv, OrderInv, WriterFirst, Usages
      <4>2. CASE requested[b][a] = "Writable"
        BY <3>2, <4>2
      <4>3. CASE requested[b][a] = "Readonly"
        <5>1. PICK w \in blocked[a] : w < b /\ requested[w][a] = "Writable"
          BY <1>0, <3>1, <3>2, <4>3 DEF QueueInv, IdleInv, HolderInv, MemberInv, OrderInv, WriterFirst
        <5>2. w < t
          BY <1>0, <3>2, <5>1, TaskOrder
        <5> QED
          BY Zenon, <5>1, <5>2
      <4> QED
        BY Zenon, <4>1, <4>2, <4>3 DEF Usages
    <3>4. \A h \in current[a].tasks : blocked_usage_count[h] # 0 => h < t
      <4> SUFFICES ASSUME NEW h \in current[a].tasks, blocked_usage_count[h] # 0
                   PROVE  h < t
        OBVIOUS
      <4>1. h < b
        BY Zenon, <1>0, <3>2 DEF QueueInv, IdleInv, HolderInv, MemberInv, OrderInv, WriterFirst
      <4> QED
        BY Zenon, <1>0, <3>2, <4>1, TaskOrder
    <3> QED
      <4>1. IdleInv(a)'
        BY Zenon, <1>0, <3>1 DEF QueueInv, IdleInv
      <4>2. HolderInv(a)'
        BY Zenon, <1>0, <1>r, <3>1 DEF QueueInv, HolderInv
      <4>3. MemberInv(a)'
        BY Zenon, <1>0, <1>r, <3>1 DEF QueueInv, MemberInv
      <4>4. OrderInv(a)'
        <5> SUFFICES ASSUME NEW x \in blocked[a] \union {t}, NEW h \in current[a].tasks,
                            blocked_usage_count'[h] # 0
                     PROVE  h < x
          BY Zenon, <3>1 DEF OrderInv
        <5>1. blocked_usage_count[h] # 0
          BY Zenon, <1>0, <1>c DEF QueueInv, HolderInv
        <5> QED
          <6>1. CASE x = t
            BY Zenon, <3>4, <5>1, <6>1
          <6>2. CASE x \in blocked[a]
            BY Zenon, <1>0, <5>1, <6>2 DEF QueueInv, OrderInv
          <6> QED
            BY Zenon, <6>1, <6>2
      <4>5. WriterFirst(a)'
        BY <1>0, <1>r, <3>1, <3>3 DEF QueueInv, MemberInv, WriterFirst
      <4> QED
        BY <4>1, <4>2, <4>3, <4>4, <4>5 DEF QueueInv
  <2>4. CASE ~BothReadonly(a, u) /\ Lockable(a, t, u)
    <3>1. /\ current'[a].usage = u
          /\ current'[a].tasks = {t}
          /\ blocked'[a] = blocked[a] \union current[a].tasks
      BY <1>0, <2>1, <2>4 DEF CurrentAfterLock, BlockedAfterLock, Lockable, Reblocked
    <3>2. /\ \A b \in blocked[a] : t < b
          /\ \A c \in current[a].tasks, b \in blocked[a] : c < b
      BY <2>4, LockerIsFirst
    <3>3. \A c \in current[a].tasks : t < c
      BY Zenon, <2>4 DEF Lockable, Reblocked
    <3>4. \A c \in current[a].tasks :
            c \in active /\ requested[c][a] = current[a].usage /\ requested[c][a] # "none"
      BY <1>0 DEF QueueInv, IdleInv, HolderInv, MemberInv, OrderInv, WriterFirst
    <3>5. u = "Readonly" =>
            \A r \in blocked[a] \union current[a].tasks :
              requested[r][a] = "Readonly" =>
                \E w \in blocked[a] \union current[a].tasks :
                  w < r /\ requested[w][a] = "Writable"
      <4> SUFFICES ASSUME u = "Readonly",
                          NEW r \in blocked[a] \union current[a].tasks,
                          requested[r][a] = "Readonly"
                   PROVE  \E w \in current[a].tasks :
                            w < r /\ requested[w][a] = "Writable"
        OBVIOUS
      <4>1. current[a].usage # "Readonly"
        BY <2>4 DEF BothReadonly
      <4>2. r \in blocked[a]
        BY Zenon, <3>4, <4>1
      <4>3. PICK c \in current[a].tasks : TRUE
        BY <1>0, <4>2 DEF QueueInv, IdleInv, HolderInv, MemberInv, OrderInv, WriterFirst
      <4>4. requested[c][a] = "Writable"
        BY Zenon, <1>0, <3>4, <4>1, <4>3 DEF Usages
      <4> QED
        BY <3>2, <4>2, <4>3, <4>4
    <3> QED
      BY <1>0, <1>r, <1>c, <2>0, <3>1, <3>2, <3>3, <3>4, <3>5 DEF QueueInv, IdleInv, HolderInv, MemberInv, OrderInv, WriterFirst, Usages
  <2>5. CASE ~BothReadonly(a, u) /\ ~Lockable(a, t, u)
    <3>1. /\ current'[a].usage = current[a].usage
          /\ current'[a].tasks = current[a].tasks \ R
          /\ blocked'[a] = blocked[a] \union R \union {t}
          /\ R \subseteq current[a].tasks
          /\ \A c \in R : t < c /\ blocked_usage_count[c] # 0
      BY Zenon, <1>0, <2>1, <2>5 DEF CurrentAfterLock, BlockedAfterLock, Reblocked, try_reblock
    <3>2. current[a].tasks \ R # {}
      BY Zenon, <2>5, <3>1 DEF Lockable
    <3>3. \A h \in current[a].tasks \ R : blocked_usage_count[h] # 0 => h < t
      <4>1. \A h \in current[a].tasks : ~(t < h) => h < t
        BY Zenon, <1>0, TaskOrder
      <4> QED
        BY <2>5, <4>1 DEF Reblocked, try_reblock
    <3>4. \A h \in current[a].tasks \ R, c \in R : blocked_usage_count[h] # 0 => h < c
      BY Zenon, <1>0, <3>1, <3>3, TaskOrder
    <3>5. \A c \in R : c \in active /\ requested[c][a] = current[a].usage
      BY Zenon, <1>0, <3>1 DEF QueueInv, IdleInv, HolderInv, MemberInv, OrderInv, WriterFirst
    <3>6. R # {} => \A b \in blocked[a], c \in R : c < b
      BY Zenon, <1>0, <3>1 DEF QueueInv, IdleInv, HolderInv, MemberInv, OrderInv, WriterFirst
    <3>7. current[a].usage = "Readonly" =>
            \A r \in blocked[a] \union R \union {t} :
              requested'[r][a] = "Readonly" =>
                \E w \in blocked[a] \union R \union {t} :
                  w < r /\ requested'[w][a] = "Writable"
      <4> SUFFICES ASSUME current[a].usage = "Readonly",
                          NEW r \in blocked[a] \union R \union {t},
                          requested'[r][a] = "Readonly"
                   PROVE  \E w \in blocked[a] \union R \union {t} :
                            w < r /\ requested'[w][a] = "Writable"
        OBVIOUS
      <4>1. u = "Writable"
        BY <2>0, <2>5 DEF BothReadonly, Usages
      <4>2. r # t
        BY <1>r, <4>1
      <4>3. CASE r \in R
        BY Zenon, <3>1, <4>3, <4>1, <1>r
      <4>4. CASE r \in blocked[a]
        BY <1>0, <1>r, <4>4 DEF QueueInv, IdleInv, HolderInv, MemberInv, OrderInv, WriterFirst
      <4> QED
        BY <4>2, <4>3, <4>4
    <3>8. R # {} /\ current[a].usage = "Writable" => FALSE
      BY <1>0, <3>1, <3>2 DEF QueueInv, IdleInv, HolderInv, MemberInv, OrderInv, WriterFirst
    <3>9. current[a].usage # "none"
      BY Zenon, <1>0, <3>2 DEF QueueInv, IdleInv, HolderInv, MemberInv, OrderInv, WriterFirst
    <3> HIDE DEF R
    <3> QED
      <4>1. IdleInv(a)'
        BY Zenon, <3>1, <3>2, <3>9 DEF IdleInv
      <4>2. HolderInv(a)'
        BY <1>0, <1>r, <3>1 DEF QueueInv, HolderInv
      <4>3. MemberInv(a)'
        BY Zenon, <1>0, <1>r, <1>2, <3>1, <3>5, <3>9 DEF QueueInv, MemberInv
      <4>4. OrderInv(a)'
        BY <1>0, <1>c, <3>1, <3>3, <3>4 DEF QueueInv, HolderInv, OrderInv
      <4>5. WriterFirst(a)'
        BY <3>1, <3>7 DEF WriterFirst
      <4> QED
        BY <4>1, <4>2, <4>3, <4>4, <4>5 DEF QueueInv
  <2> QED
    BY <2>2, <2>3, <2>4, <2>5
<1> QED
  BY <1>1, <1>2

\* What a sequence of tasks contains, and once, after the operations on the
\* unblocked_task_queue.
---------------------------------------------------------------------------
(* Taking a task *)

\* schedule_or_buffer_task preserves the invariant when it takes the task.
LEMMA AcceptInv ==
  ASSUME IInv, NEW t \in fresh, NEW ctx \in [Accounts -> Usages \union {"none"}],
         NEW force_buffering \in BOOLEAN, ~clearing,
         AcceptTask(t, ctx, force_buffering)
  PROVE  IInv'
<1>s. /\ ~IsDropped(t)
      /\ fresh' = fresh \ {t} /\ clearing' = clearing
      /\ requested' = [requested EXCEPT ![t] = ctx]
      /\ active' = active \union {t}
      /\ hashes' = IF MaxActive = NoCap THEN hashes ELSE hashes \union {Hash[t]}
      /\ try_lock_usage_queues(t, ctx)
  BY Zenon DEF AcceptTask
<1>q. /\ current' = [a \in Accounts |->
            IF ctx[a] # "none" THEN CurrentAfterLock(a, t, ctx[a]) ELSE current[a]]
      /\ blocked' = [a \in Accounts |->
            IF ctx[a] # "none" THEN BlockedAfterLock(a, t, ctx[a]) ELSE blocked[a]]
      /\ blocked_usage_count' = [h \in Tasks |->
            IF h = t THEN Cardinality(Missed(t, ctx))
                     ELSE blocked_usage_count[h] + Cardinality(Taken(h, t, ctx))]
  BY <1>s DEF try_lock_usage_queues
<1>0. /\ t \in Tasks /\ t \notin active /\ t \notin Unblocked
      /\ \A a \in Accounts : t \notin current[a].tasks /\ t \notin blocked[a]
  BY NewTaskIsNowhere
<1>1. \A a \in Accounts : QueueInv(a)'
  BY Zenon, <1>s, LockedQueue
<1>2. CountInv'
  <2> SUFFICES ASSUME NEW h \in Tasks
               PROVE  blocked_usage_count'[h] = Cardinality(BlockedOn(h)')
    BY Zenon DEF CountInv
  <2>1. CASE h = t
    <3>1. BlockedOn(t)' = Missed(t, ctx)
      BY Zenon, <1>0, <1>q DEF BlockedOn, Missed, BlockedAfterLock, Reblocked
    <3> QED
      BY <1>q, <2>1, <3>1
  <2>2. CASE h # t
    <3>1. BlockedOn(h)' = BlockedOn(h) \union Taken(h, t, ctx)
      BY Zenon, <1>q, <2>2 DEF BlockedOn, Taken, BlockedAfterLock
    <3>2. BlockedOn(h) \intersect Taken(h, t, ctx) = {}
      BY DEF BlockedOn, Taken, Reblocked, IInv, QueueInv, HolderInv
    <3>3. /\ Cardinality(BlockedOn(h) \union Taken(h, t, ctx))
             = Cardinality(BlockedOn(h)) + Cardinality(Taken(h, t, ctx))
                 - Cardinality(BlockedOn(h) \intersect Taken(h, t, ctx))
          /\ Cardinality(BlockedOn(h)) \in Nat /\ Cardinality(Taken(h, t, ctx)) \in Nat
      BY BlockedOnFinite, TakenAndMissed, FS_Union
    <3>4. Cardinality(BlockedOn(h)') = Cardinality(BlockedOn(h)) + Cardinality(Taken(h, t, ctx))
      <4>1. Cardinality(BlockedOn(h) \intersect Taken(h, t, ctx)) = 0
        BY <3>2, FS_EmptySet
      <4>2. Cardinality(BlockedOn(h) \union Taken(h, t, ctx))
              = Cardinality(BlockedOn(h)) + Cardinality(Taken(h, t, ctx))
        BY <3>3, <4>1
      <4> QED
        BY <3>1, <4>2
    <3> QED
      BY Zenon, <1>q, <2>2, <3>4 DEF IInv, CountInv
  <2> QED
    BY <2>1, <2>2
<1>3. \A h \in Tasks \ {t} : blocked_usage_count'[h] = 0 <=> blocked_usage_count[h] = 0
  BY Zenon, <1>s, LockingCounts
<1>4. /\ unblocked_task_queue \in Seq(Tasks)
      /\ Distinct(unblocked_task_queue)
      /\ t \notin running /\ t \notin Elements(unblocked_task_queue)
  BY <1>0 DEF IInv, TypeOK, UnblockedInv, Distinct, Unblocked
<1>5. UnblockedInv' /\ unblocked_task_queue' \in Seq(Tasks) /\ running' \in SUBSET Tasks
  <2> DEFINE runs == blocked_usage_count'[t] = 0
                       /\ ~(~is_task_runnable \/ force_buffering)
             queued == blocked_usage_count'[t] = 0
                       /\ (~is_task_runnable \/ force_buffering)
  <2>1. {h \in active' : blocked_usage_count'[h] = 0}
          = Unblocked \union (IF blocked_usage_count'[t] = 0 THEN {t} ELSE {})
    <3>1. Unblocked = {h \in active : blocked_usage_count[h] = 0} /\ active \subseteq Tasks
      BY Zenon DEF IInv, UnblockedInv, TypeOK
    <3> QED
      BY Zenon, <1>0, <1>3, <1>s, <3>1
  <2>2. CASE runs
    <3>1. running' = running \union {t} /\ unblocked_task_queue' = unblocked_task_queue
      BY <2>2 DEF AcceptTask
    <3>2. Unblocked' = Unblocked \union {t}
      BY Zenon, <3>1 DEF Unblocked
    <3> QED
      BY <1>0, <1>4, <2>1, <2>2, <3>1, <3>2 DEF IInv, TypeOK, UnblockedInv, Elements
  <2>3. CASE queued
    <3>1. running' = running /\ unblocked_task_queue' = Append(unblocked_task_queue, t)
      BY <2>3 DEF AcceptTask
    <3>2. /\ unblocked_task_queue' \in Seq(Tasks)
          /\ Elements(unblocked_task_queue') = Elements(unblocked_task_queue) \union {t}
          /\ Distinct(unblocked_task_queue')
      BY <1>0, <1>4, <3>1, AppendElements
    <3>3. Unblocked' = Unblocked \union {t}
      BY <3>1, <3>2 DEF Unblocked, Elements
    <3>4. running' \intersect Elements(unblocked_task_queue)' = {}
      BY Zenon, <1>4, <3>1, <3>2 DEF IInv, UnblockedInv, Elements
    <3> QED
      BY <2>1, <2>3, <3>1, <3>2, <3>3, <3>4 DEF IInv, TypeOK, UnblockedInv, Distinct
  <2>4. CASE blocked_usage_count'[t] # 0
    <3>1. running' = running /\ unblocked_task_queue' = unblocked_task_queue
      BY <2>4 DEF AcceptTask
    <3>2. Unblocked' = Unblocked
      BY <3>1 DEF Unblocked
    <3> QED
      BY <2>1, <2>4, <3>1, <3>2 DEF IInv, TypeOK, UnblockedInv, Elements
  <2> QED
    BY Zenon, <2>2, <2>3, <2>4
<1>6. TaskInv'
  <2>1. \A h \in Tasks : h # t => requested'[h] = requested[h]
    BY <1>s DEF IInv, TypeOK
  <2> QED
    BY Zenon, <1>s, <2>1 DEF IInv, TaskInv
<1>7. HashInv' /\ hashes' \in SUBSET {Hash[h] : h \in Tasks}
  <2>1. CASE MaxActive = NoCap
    BY Zenon, <1>s, <2>1 DEF IInv, HashInv
  <2>2. CASE MaxActive # NoCap
    <3>1. Hash[t] \notin hashes
      BY Zenon, <1>s, <2>2 DEF IsDropped
    <3> QED
      BY <1>0, <1>s, <2>2, <3>1 DEF IInv, TypeOK, HashInv
  <2> QED
    BY Zenon, <2>1, <2>2
<1>8. TypeOK'
  <2>1. ASSUME NEW a \in Accounts
        PROVE  /\ current'[a] \in [usage : Usages \union {"none"}, tasks : SUBSET Tasks]
               /\ blocked'[a] \in SUBSET Tasks
    <3>1. /\ current[a] \in [usage : Usages \union {"none"}, tasks : SUBSET Tasks]
          /\ blocked[a] \in SUBSET Tasks
          /\ ctx[a] \in Usages \union {"none"}
      BY Zenon DEF IInv, TypeOK
    <3>2. CASE ctx[a] = "none"
      BY <1>q, <3>1, <3>2
    <3>3. CASE ctx[a] # "none"
      BY SMTT(30), <1>0, <1>q, <3>1, <3>3 DEF CurrentAfterLock, BlockedAfterLock, Reblocked
    <3> QED
      BY <3>2, <3>3
  <2>2. current' \in [Accounts -> [usage : Usages \union {"none"}, tasks : SUBSET Tasks]]
    BY Zenon, <1>q, <2>1
  <2>3. blocked' \in [Accounts -> SUBSET Tasks]
    BY <1>q, <2>1
  <2>4. blocked_usage_count' \in [Tasks -> Nat]
    BY Zenon, <1>s, LockingCounts
  <2>5. requested' \in [Tasks -> [Accounts -> Usages \union {"none"}]]
    BY <1>0, <1>s DEF IInv, TypeOK
  <2> QED
    BY Zenon, <1>0, <1>s, <1>5, <1>7, <2>2, <2>3, <2>4, <2>5 DEF IInv, TypeOK
<1> QED
  BY Zenon, <1>1, <1>2, <1>5, <1>6, <1>7, <1>8 DEF IInv

---------------------------------------------------------------------------
(* Retiring a task *)

\* A task is handed finitely many addresses.
LEMMA GrantsFinite ==
  ASSUME NEW u, NEW t
  PROVE  IsFiniteSet(GrantsOf(u, t)) /\ Cardinality(GrantsOf(u, t)) \in Nat
<1>1. GrantsOf(u, t) \in SUBSET Accounts
  BY DEF GrantsOf, Addresses
<1> QED
  BY <1>1, AccountsAreFinite, FS_Subset, FS_CardinalityType

\* Unlocking lowers the counter of a task by the addresses handed to it, which
\* are among those it is blocked on.
LEMMA UnlockingCounts ==
  ASSUME IInv, NEW t \in Tasks, NEW rest, unlock_usage_queues(t, rest), NEW u \in Tasks
  PROVE  /\ blocked_usage_count'[u] \in Nat
         /\ blocked_usage_count'[u] = Cardinality(BlockedOn(u)')
         /\ blocked_usage_count[u] = 0 => blocked_usage_count'[u] = 0
<1>1. blocked_usage_count'[u] = blocked_usage_count[u] - Cardinality(GrantsOf(u, t))
  BY DEF unlock_usage_queues
<1>2. GrantsOf(u, t) \subseteq BlockedOn(u)
  BY Zenon DEF GrantsOf, Granted, BlockedOn, Addresses
<1>3. BlockedOn(u)' = BlockedOn(u) \ GrantsOf(u, t)
  BY DEF BlockedOn, GrantsOf, unlock_usage_queues, Addresses
<1>4. BlockedOn(u) \intersect GrantsOf(u, t) = GrantsOf(u, t)
  BY <1>2
<1>5. /\ Cardinality(BlockedOn(u) \ GrantsOf(u, t))
         = Cardinality(BlockedOn(u)) - Cardinality(BlockedOn(u) \intersect GrantsOf(u, t))
      /\ IsFiniteSet(BlockedOn(u) \ GrantsOf(u, t))
  BY Zenon, BlockedOnFinite, FS_Difference
<1>6. Cardinality(BlockedOn(u)') = blocked_usage_count'[u]
  BY <1>1, <1>3, <1>4, <1>5 DEF IInv, CountInv
<1>7. Cardinality(BlockedOn(u)') \in Nat
  BY <1>3, <1>5, FS_CardinalityType
<1>8. ASSUME blocked_usage_count[u] = 0
      PROVE  blocked_usage_count'[u] = 0
  <2>1. GrantsOf(u, t) = {}
    BY <1>2, <1>8, CountIsZero DEF IInv, BlockedOn
  <2> QED
    BY <1>1, <1>8, <2>1, FS_EmptySet
<1> QED
  BY Zenon, <1>6, <1>7, <1>8

\* Those that leave the count zero are the newly unblocked ones.
LEMMA NewlyUnblockedCounts ==
  ASSUME IInv, NEW t \in Tasks, NEW rest, unlock_usage_queues(t, rest), NEW u \in Tasks
  PROVE  blocked_usage_count'[u] = 0 <=>
           blocked_usage_count[u] = 0 \/ u \in NewlyUnblocked(t)
<1>1. blocked_usage_count'[u] = blocked_usage_count[u] - Cardinality(GrantsOf(u, t))
  BY DEF unlock_usage_queues
<1>2. blocked_usage_count[u] \in Nat /\ Cardinality(GrantsOf(u, t)) \in Nat
  BY GrantsFinite DEF IInv, TypeOK
<1>3. blocked_usage_count[u] = 0 => blocked_usage_count'[u] = 0
  BY Zenon, UnlockingCounts
<1> QED
  BY <1>1, <1>2, <1>3 DEF NewlyUnblocked

\* A task handed an address precedes those left blocked there, readers come
\* together, and a writer comes alone.
LEMMA GrantOrder ==
  ASSUME IInv, NEW t, NEW a \in Accounts, t \in current[a].tasks
  PROVE  /\ \A g \in Granted(a, t), b \in blocked[a] \ Granted(a, t) : g < b
         /\ \A g \in Granted(a, t) : g \in blocked[a] /\ requested[g][a] \in Usages
         /\ \A g, h \in Granted(a, t) : requested[g][a] = "Writable" => g = h
         /\ \A r \in blocked[a] \ Granted(a, t) :
              /\ \A g \in Granted(a, t) : requested[g][a] # "Writable"
              /\ requested[r][a] = "Readonly"
              => \E w \in blocked[a] \ Granted(a, t) :
                   w < r /\ requested[w][a] = "Writable"
         /\ current[a].tasks \subseteq {t} /\ blocked[a] # {} => Granted(a, t) # {}
<1>0. blocked[a] \in SUBSET Tasks /\ \A b \in blocked[a] : requested[b][a] \in Usages
  BY DEF IInv, TypeOK, QueueInv, MemberInv, Usages
<1>1. CASE ~(current[a].tasks \subseteq {t})
  <2>1. Granted(a, t) = {}
    BY <1>1 DEF Granted
  <2>2. current[a].usage # "Writable" /\ current[a].usage # "none"
    BY <1>1 DEF IInv, QueueInv, IdleInv, HolderInv
  <2>3. current[a].usage = "Readonly"
    BY <2>2 DEF IInv, TypeOK, Usages
  <2>4. \A r \in blocked[a] :
          requested[r][a] = "Readonly" =>
            \E w \in blocked[a] : w < r /\ requested[w][a] = "Writable"
    BY Zenon, <2>3 DEF IInv, QueueInv, WriterFirst
  <2> QED
    BY <1>1, <2>1, <2>4
<1>2. CASE current[a].tasks \subseteq {t}
  <2>1. \A b : b \in Granted(a, t) <=>
           /\ b \in blocked[a]
           /\ \/ \A o \in blocked[a] : b <= o
              \/ \A o \in blocked[a] : o <= b => requested[o][a] = "Readonly"
    BY <1>2 DEF Granted
  <2>r. \A b \in blocked[a] : b <= b
    BY <1>0, TaskOrder
  <2>2. ASSUME NEW g \in Granted(a, t), NEW b \in blocked[a] \ Granted(a, t)
        PROVE  g < b
    <3> SUFFICES ASSUME ~(g < b) PROVE FALSE
      BY Zenon
    <3>1. b <= g /\ b # g
      BY Zenon, <1>0, <2>1, <2>2, TaskOrder
    <3>2. b < g
      BY <1>0, <2>1, <2>2, <3>1, TaskOrder
    <3>3. ASSUME NEW o \in blocked[a], o <= b
          PROVE  o <= g
      <4>1. o \in Nat /\ b \in Nat /\ g \in Nat
        BY <1>0, <2>1, <2>2, TasksAreOrdered
      <4> QED
        BY <3>2, <3>3, <4>1
    <3>4. ~(g <= b)
      BY Zenon, <1>0, <2>1, <2>2, <3>2, TaskOrder
    <3> QED
      BY <2>1, <2>2, <3>3, <3>4
  <2>3. ASSUME NEW g \in Granted(a, t), NEW h \in Granted(a, t),
               requested[g][a] = "Writable"
        PROVE  g = h
    <3>1. \A o \in blocked[a] : g <= o
      BY <2>1, <2>r, <2>3
    <3>2. h <= g
      BY Zenon, <2>1, <2>3, <3>1
    <3> QED
      BY <1>0, <2>1, <3>1, <3>2, TaskOrder
  <2>4. ASSUME NEW r \in blocked[a] \ Granted(a, t),
               \A g \in Granted(a, t) : requested[g][a] # "Writable",
               requested[r][a] = "Readonly"
        PROVE  \E w \in blocked[a] \ Granted(a, t) :
                 w < r /\ requested[w][a] = "Writable"
    <3>1. PICK w \in blocked[a] : w <= r /\ requested[w][a] # "Readonly"
      BY <2>1, <2>4
    <3>2. requested[w][a] = "Writable" /\ w # r
      BY <1>0, <2>4, <3>1 DEF Usages
    <3>3. w < r
      BY <1>0, <3>1, <3>2, TaskOrder
    <3> QED
      BY Zenon, <2>4, <3>2, <3>3
  <2>5. ASSUME blocked[a] # {}
        PROVE  Granted(a, t) # {}
    <3>1. PICK m \in blocked[a] : \A o \in blocked[a] : m <= o
      BY <1>0, <2>5, LeastTask
    <3> QED
      BY Zenon, <2>1, <3>1
  <2> QED
    BY Zenon, <1>0, <2>1, <2>2, <2>3, <2>4, <2>5
<1> QED
  BY Zenon, <1>1, <1>2

\* The usage queue of one address after task t was retired.
LEMMA UnlockedQueue ==
  ASSUME IInv, NEW t \in Unblocked, NEW rest, Retire(t, rest), NEW a \in Accounts
  PROVE  QueueInv(a)'
<1>s. /\ requested' = [requested EXCEPT ![t] = Unused]
      /\ active' = active \ {t}
      /\ unlock_usage_queues(t, rest)
  BY Zenon DEF Retire
<1>q. /\ current' = [x \in Accounts |->
            IF x \in Addresses(t) THEN CurrentAfterUnlock(x, t) ELSE current[x]]
      /\ blocked' = [x \in Accounts |->
            IF x \in Addresses(t) THEN blocked[x] \ Granted(x, t) ELSE blocked[x]]
  BY Zenon, <1>s DEF unlock_usage_queues
<1>0. /\ t \in Tasks /\ t \in active
      /\ QueueInv(a)
      /\ current[a] \in [usage : Usages \union {"none"}, tasks : SUBSET Tasks]
      /\ blocked[a] \in SUBSET Tasks /\ active \in SUBSET Tasks
      /\ blocked_usage_count[t] = 0
  BY Zenon DEF IInv, TypeOK, UnblockedInv
<1>b. t \notin blocked[a]
  BY Zenon, <1>0, CountIsZero DEF IInv
<1>r. \A h \in active' : requested'[h] = requested[h] /\ h \in active /\ h # t
  BY Zenon, <1>s DEF IInv, TypeOK
<1>c. \A h \in active : blocked_usage_count[h] = 0 => blocked_usage_count'[h] = 0
  BY <1>0, <1>s, UnlockingCounts
<1>1. CASE a \notin Addresses(t)
  <2>1. current'[a] = current[a] /\ blocked'[a] = blocked[a]
    BY Zenon, <1>1, <1>q
  <2>2. t \notin current[a].tasks
    BY Zenon, <1>0, <1>1 DEF Addresses, QueueInv, IdleInv, HolderInv
  <2>3. IdleInv(a)'
    BY Zenon, <1>0, <2>1 DEF QueueInv, IdleInv
  <2>4. HolderInv(a)'
    BY Zenon, <1>0, <1>s, <2>1, <2>2, <1>r DEF QueueInv, HolderInv
  <2>5. MemberInv(a)'
    BY Zenon, <1>0, <1>b, <1>r, <1>s, <2>1 DEF QueueInv, MemberInv
  <2>6. OrderInv(a)'
    BY Zenon, <1>0, <1>c, <2>1 DEF QueueInv, HolderInv, OrderInv
  <2>7. WriterFirst(a)'
    BY Zenon, <1>0, <1>b, <1>r, <1>s, <2>1 DEF QueueInv, MemberInv, WriterFirst
  <2> QED
    BY Zenon, <2>3, <2>4, <2>5, <2>6, <2>7 DEF QueueInv
<1>2. CASE a \in Addresses(t)
  <2> DEFINE G == Granted(a, t)
  <2>0. t \in current[a].tasks
    BY <1>2, UnblockedHolds DEF Addresses
  <2>1. current'[a] = CurrentAfterUnlock(a, t) /\ blocked'[a] = blocked[a] \ G
    BY <1>2, <1>q
  <2>2. CASE ~(current[a].tasks \subseteq {t})
    <3>1. /\ G = {} /\ blocked'[a] = blocked[a]
          /\ current'[a].usage = current[a].usage
          /\ current'[a].tasks = current[a].tasks \ {t}
      BY Zenon, <1>0, <2>1, <2>2 DEF CurrentAfterUnlock, Granted
    <3>2. IdleInv(a)'
      BY Zenon, <1>0, <2>2, <3>1 DEF QueueInv, IdleInv
    <3>3. HolderInv(a)'
      BY Zenon, <1>0, <1>r, <1>s, <3>1 DEF QueueInv, HolderInv
    <3>4. MemberInv(a)'
      BY Zenon, <1>0, <1>b, <1>r, <1>s, <3>1 DEF QueueInv, MemberInv
    <3>5. OrderInv(a)'
      BY Zenon, <1>0, <1>c, <3>1 DEF QueueInv, HolderInv, OrderInv
    <3>6. WriterFirst(a)'
      BY Zenon, <1>0, <1>b, <1>r, <1>s, <3>1 DEF QueueInv, MemberInv, WriterFirst
    <3> QED
      BY <3>2, <3>3, <3>4, <3>5, <3>6 DEF QueueInv
  <2>3. CASE current[a].tasks \subseteq {t} /\ G = {}
    <3>1. current'[a].usage = "none" /\ current'[a].tasks = {} /\ blocked'[a] = {}
      BY <2>0, <2>1, <2>3, GrantOrder DEF CurrentAfterUnlock, Idle
    <3>2. \A h \in active' : requested'[h][a] = "none"
      <4>1. blocked[a] = {}
        BY <2>0, <2>3, GrantOrder
      <4> QED
        BY Zenon, <1>0, <1>r, <2>3, <4>1 DEF QueueInv, MemberInv
    <3> QED
      BY Zenon, <3>1, <3>2 DEF QueueInv, IdleInv, HolderInv, MemberInv, OrderInv, WriterFirst
  <2>4. CASE current[a].tasks \subseteq {t} /\ G # {}
    <3>1. /\ current'[a].tasks = G /\ blocked'[a] = blocked[a] \ G
          /\ current'[a].usage = IF \E g \in G : requested[g][a] = "Writable"
                                 THEN "Writable" ELSE "Readonly"
      BY <2>1, <2>4 DEF CurrentAfterUnlock
    <3>2. /\ \A g \in G, b \in blocked[a] \ G : g < b
          /\ \A g \in G : g \in blocked[a] /\ requested[g][a] \in Usages
          /\ \A g, h \in G : requested[g][a] = "Writable" => g = h
          /\ \A r \in blocked[a] \ G :
               /\ \A g \in G : requested[g][a] # "Writable"
               /\ requested[r][a] = "Readonly"
               => \E w \in blocked[a] \ G : w < r /\ requested[w][a] = "Writable"
      BY SMTT(30), <2>0, GrantOrder
    <3> HIDE DEF G
    <3>3. \A g \in blocked[a] : g \in active' /\ requested'[g] = requested[g]
      BY Zenon, <1>0, <1>b, <1>r, <1>s DEF QueueInv, MemberInv
    <3>4. IdleInv(a)'
      BY Zenon, <2>4, <3>1 DEF IdleInv
    <3>5. HolderInv(a)'
      BY <3>1, <3>2, <3>3 DEF HolderInv, Usages
    <3>6. MemberInv(a)'
      BY Zenon, <1>0, <1>r, <2>4, <3>1, <3>2, <3>3 DEF QueueInv, MemberInv
    <3>7. OrderInv(a)'
      BY <3>1, <3>2 DEF OrderInv
    <3>8. WriterFirst(a)'
      BY Zenon, <3>1, <3>2, <3>3 DEF WriterFirst
    <3> QED
      BY <3>4, <3>5, <3>6, <3>7, <3>8 DEF QueueInv
  <2> QED
    BY Zenon, <2>2, <2>3, <2>4
<1> QED
  BY <1>1, <1>2

\* Retiring a task that leaves running (or the head of the queue), with the
\* remaining unblocked tasks in keep and rest, preserves the invariant.
LEMMA RetireInv ==
  ASSUME IInv, NEW t \in Unblocked, NEW rest \in Seq(Tasks), Retire(t, rest),
         running' \in SUBSET Tasks,
         running' \union Elements(rest) = Unblocked \ {t},
         running' \intersect Elements(rest) = {},
         Distinct(rest),
         fresh' = fresh, clearing' = clearing, clearing => running' = {}
  PROVE  IInv'
<1>s. /\ requested' = [requested EXCEPT ![t] = Unused]
      /\ active' = active \ {t}
      /\ hashes' = IF MaxActive = NoCap THEN hashes ELSE hashes \ {Hash[t]}
      /\ unlock_usage_queues(t, rest)
  BY SMTT(30) DEF Retire
<1>q. /\ current' = [x \in Accounts |->
            IF x \in Addresses(t) THEN CurrentAfterUnlock(x, t) ELSE current[x]]
      /\ blocked' = [x \in Accounts |->
            IF x \in Addresses(t) THEN blocked[x] \ Granted(x, t) ELSE blocked[x]]
      /\ blocked_usage_count' = [u \in Tasks |->
            blocked_usage_count[u] - Cardinality(GrantsOf(u, t))]
      /\ \E seq \in Listings(NewlyUnblocked(t)) : unblocked_task_queue' = rest \o seq
  BY Zenon, <1>s DEF unlock_usage_queues
<1>0. t \in Tasks /\ t \in active /\ active \in SUBSET Tasks
  BY DEF IInv, TypeOK, UnblockedInv
<1>1. \A a \in Accounts : QueueInv(a)'
  BY Zenon, UnlockedQueue
<1>2. CountInv'
  BY Zenon, <1>0, <1>s, UnlockingCounts DEF CountInv
<1>3. UnblockedInv' /\ unblocked_task_queue' \in Seq(Tasks)
  <2>1. PICK seq \in Listings(NewlyUnblocked(t)) : unblocked_task_queue' = rest \o seq
    BY Zenon, <1>q
  <2>2. NewlyUnblocked(t) \in SUBSET Tasks
    BY Zenon DEF NewlyUnblocked
  <2>3. Unblocked = {h \in active : blocked_usage_count[h] = 0}
    BY Zenon DEF IInv, UnblockedInv
  <2>4. \A h \in NewlyUnblocked(t) : blocked_usage_count[h] # 0 /\ h \in active
    <3> SUFFICES ASSUME NEW h \in NewlyUnblocked(t)
                 PROVE  blocked_usage_count[h] # 0 /\ h \in active
      OBVIOUS
    <3>1. blocked_usage_count[h] # 0 /\ h \in Tasks
      BY Zenon DEF NewlyUnblocked
    <3>2. PICK a \in Accounts : h \in blocked[a]
      BY <3>1, CountIsZero DEF IInv
    <3> QED
      BY <3>1, <3>2 DEF IInv, QueueInv, MemberInv
  <2>5. Elements(rest) \intersect NewlyUnblocked(t) = {}
    BY <2>3, <2>4
  <2>6. /\ unblocked_task_queue' \in Seq(Tasks)
        /\ Elements(unblocked_task_queue') = Elements(rest) \union NewlyUnblocked(t)
        /\ Distinct(unblocked_task_queue')
    BY <2>1, <2>2, <2>5, TasksAreOrdered, ConcatElements
  <2>7. running' \intersect Elements(unblocked_task_queue') = {}
    BY <2>3, <2>4, <2>6
  <2>8. Unblocked' = (Unblocked \ {t}) \union NewlyUnblocked(t)
    BY Zenon, <2>6 DEF Unblocked, Elements
  <2>9. {h \in active' : blocked_usage_count'[h] = 0}
          = (Unblocked \ {t}) \union NewlyUnblocked(t)
    <3>1. \A h \in active :
            blocked_usage_count'[h] = 0 <=>
              blocked_usage_count[h] = 0 \/ h \in NewlyUnblocked(t)
      BY <1>0, <1>s, NewlyUnblockedCounts
    <3>2. t \notin NewlyUnblocked(t)
      BY Zenon, <2>3, <2>4
    <3> QED
      BY Zenon, <1>s, <2>3, <2>4, <3>1, <3>2
  <2> QED
    BY Zenon, <2>6, <2>7, <2>8, <2>9 DEF UnblockedInv, Distinct, Elements
<1>4. TaskInv'
  BY <1>0, <1>s DEF IInv, TypeOK, TaskInv, Unused
<1>5. HashInv' /\ hashes' \in SUBSET {Hash[h] : h \in Tasks}
  <2>1. CASE MaxActive = NoCap
    BY Zenon, <1>s, <2>1 DEF IInv, HashInv
  <2>2. CASE MaxActive # NoCap
    BY SMTT(30), <1>0, <1>s, <2>2 DEF IInv, TypeOK, HashInv
  <2> QED
    BY Zenon, <2>1, <2>2
<1>6. TypeOK'
  <2>1. ASSUME NEW a \in Accounts
        PROVE  /\ current'[a] \in [usage : Usages \union {"none"}, tasks : SUBSET Tasks]
               /\ blocked'[a] \in SUBSET Tasks
    <3>1. /\ current[a] \in [usage : Usages \union {"none"}, tasks : SUBSET Tasks]
          /\ blocked[a] \in SUBSET Tasks
      BY Zenon DEF IInv, TypeOK
    <3>2. Granted(a, t) \subseteq blocked[a]
      BY DEF Granted
    <3>3. CurrentAfterUnlock(a, t) \in [usage : Usages \union {"none"}, tasks : SUBSET Tasks]
      BY Zenon, <3>1, <3>2 DEF CurrentAfterUnlock, Idle, Usages
    <3> QED
      BY Zenon, <1>q, <3>1, <3>3
  <2>2. current' \in [Accounts -> [usage : Usages \union {"none"}, tasks : SUBSET Tasks]]
    BY Zenon, <1>q, <2>1
  <2>3. blocked' \in [Accounts -> SUBSET Tasks]
    BY Zenon, <1>q, <2>1
  <2>4. blocked_usage_count' \in [Tasks -> Nat]
    <3>1. \A u \in Tasks : blocked_usage_count'[u] \in Nat
      BY <1>0, <1>s, UnlockingCounts
    <3> QED
      BY Zenon, <1>q, <3>1
  <2>5. requested' \in [Tasks -> [Accounts -> Usages \union {"none"}]]
    BY Zenon, <1>s DEF IInv, TypeOK, Unused
  <2> QED
    BY Zenon, <1>0, <1>3, <1>5, <1>s, <2>2, <2>3, <2>4, <2>5 DEF IInv, TypeOK
<1> QED
  BY Zenon, <1>1, <1>2, <1>3, <1>4, <1>5, <1>6 DEF IInv

---------------------------------------------------------------------------
(* The theorems *)

\* Steps that leave the machine's own state alone.
LEMMA UnchangedInv ==
  ASSUME IInv, UNCHANGED <<queues, running, active, hashes, requested>>
  PROVE  (\A a \in Accounts : QueueInv(a)') /\ CountInv' /\ UnblockedInv' /\ HashInv'
<1>s. UNCHANGED <<current, blocked, blocked_usage_count, unblocked_task_queue>>
  BY DEF queues
<1>1. ASSUME NEW a \in Accounts PROVE QueueInv(a)'
  <2>1. QueueInv(a)
    BY Zenon DEF IInv
  <2>2. IdleInv(a)' /\ HolderInv(a)'
    BY Zenon, <1>s, <2>1 DEF QueueInv, IdleInv, HolderInv
  <2>3. MemberInv(a)'
    BY Zenon, <1>s, <2>1 DEF QueueInv, MemberInv
  <2>4. OrderInv(a)' /\ WriterFirst(a)'
    BY <1>s, <2>1 DEF QueueInv, OrderInv, WriterFirst
  <2> QED
    BY <2>2, <2>3, <2>4 DEF QueueInv
<1>2. CountInv'
  <2>1. \A t \in Tasks : BlockedOn(t)' = BlockedOn(t)
    BY Zenon, <1>s DEF BlockedOn
  <2> QED
    BY <1>s, <2>1 DEF IInv, CountInv
<1>3. UnblockedInv'
  BY <1>s DEF IInv, UnblockedInv, Unblocked, Elements
<1>4. HashInv'
  BY DEF IInv, HashInv
<1> QED
  BY <1>1, <1>2, <1>3, <1>4

\* Every action of the machine preserves the invariant.
LEMMA NextInv ==
  IInv /\ [Next]_vars => IInv'
<1> SUFFICES ASSUME IInv, [Next]_vars
             PROVE  IInv'
  BY Zenon
<1>d. /\ unblocked_task_queue \in Seq(Tasks) /\ Distinct(unblocked_task_queue)
      /\ running \in SUBSET Tasks /\ running \intersect Elements(unblocked_task_queue) = {}
      /\ Unblocked = running \union Elements(unblocked_task_queue)
  BY DEF IInv, TypeOK, UnblockedInv, Unblocked, Distinct
<1>1. ASSUME NEW t \in Tasks, NEW ctx \in [Accounts -> Usages \union {"none"}],
             NEW force_buffering \in BOOLEAN,
             schedule_or_buffer_task(t, ctx, force_buffering)
      PROVE  IInv'
  <2>1. CASE DropTask(t)
    <3>1. /\ \A a \in Accounts : QueueInv(a)'
          /\ CountInv' /\ UnblockedInv' /\ HashInv'
      BY Zenon, <2>1, UnchangedInv DEF DropTask
    <3>2. TaskInv' /\ TypeOK'
      BY <2>1 DEF DropTask, IInv, queues, TaskInv, TypeOK
    <3> QED
      BY <3>1, <3>2 DEF IInv
  <2>2. CASE AcceptTask(t, ctx, force_buffering)
    BY Zenon, <1>1, <2>2, AcceptInv DEF schedule_or_buffer_task
  <2> QED
    BY <1>1, <2>1, <2>2 DEF schedule_or_buffer_task
<1>2. ASSUME NEW t \in Tasks, deschedule_task(t)
      PROVE  IInv'
  <2>1. /\ t \in running /\ running' = running \ {t} /\ ~clearing
        /\ Retire(t, unblocked_task_queue)
        /\ fresh' = fresh /\ clearing' = clearing
    BY <1>2 DEF deschedule_task
  <2>2. /\ t \in Unblocked
        /\ running' \union Elements(unblocked_task_queue) = Unblocked \ {t}
        /\ running' \intersect Elements(unblocked_task_queue) = {}
        /\ running' \in SUBSET Tasks
    BY <1>d, <2>1
  <2> QED
    BY <1>d, <2>1, <2>2, RetireInv
<1>3. ASSUME schedule_next_unblocked_task
      PROVE  IInv'
  <2> DEFINE q == unblocked_task_queue
  <2>1. /\ q # <<>> /\ running' = running \union {Head(q)} /\ q' = Tail(q)
        /\ UNCHANGED <<current, blocked, blocked_usage_count, active, hashes,
                       requested, fresh, clearing>>
        /\ ~clearing
    BY Zenon, <1>3 DEF schedule_next_unblocked_task
  <2>2. /\ Tail(q) \in Seq(Tasks) /\ Head(q) \in Tasks
        /\ Elements(q) = Elements(Tail(q)) \union {Head(q)}
        /\ Head(q) \notin Elements(Tail(q)) /\ Distinct(Tail(q))
    BY Zenon, <1>d, <2>1, HeadTailElements
  <2>3. Elements(q)' = Elements(Tail(q))
    BY Zenon, <2>1 DEF Elements
  <2>4. Unblocked' = Unblocked /\ running' \intersect Elements(q)' = {}
    BY <1>d, <2>1, <2>2, <2>3 DEF Unblocked
  <2>5. UnblockedInv'
    BY Zenon, <2>1, <2>2, <2>4 DEF IInv, UnblockedInv, Distinct
  <2>6. (\A a \in Accounts : QueueInv(a)') /\ CountInv' /\ HashInv' /\ TaskInv'
    <3>1. ASSUME NEW a \in Accounts PROVE QueueInv(a)'
      <4>1. QueueInv(a)
        BY Zenon DEF IInv
      <4> QED
        BY Zenon, <2>1, <4>1 DEF QueueInv, IdleInv, HolderInv, MemberInv, OrderInv, WriterFirst
    <3>2. CountInv'
      BY Zenon, <2>1 DEF IInv, CountInv, BlockedOn
    <3>3. HashInv' /\ TaskInv'
      BY Zenon, <2>1 DEF IInv, HashInv, TaskInv
    <3> QED
      BY Zenon, <3>1, <3>2, <3>3
  <2>7. TypeOK'
    BY <1>d, <2>1, <2>2 DEF IInv, TypeOK
  <2> QED
    BY <2>5, <2>6, <2>7 DEF IInv
<1>4. ASSUME \/ BeginClear
             \/ reinitialize
             \/ UNCHANGED vars
      PROVE  IInv'
  <2>1. UNCHANGED <<queues, running, active, hashes, requested>>
    BY Zenon, <1>4 DEF BeginClear, reinitialize, vars
  <2>2. (\A a \in Accounts : QueueInv(a)') /\ CountInv' /\ UnblockedInv' /\ HashInv'
    BY Zenon, <2>1, UnchangedInv
  <2>3. TaskInv'
    BY <1>4, <2>1 DEF BeginClear, reinitialize, ReinitializeAsserts, vars, IInv, TaskInv
  <2>4. fresh' \in SUBSET Tasks /\ clearing' \in BOOLEAN
    BY Zenon, <1>4, SessionsHaveTasks DEF BeginClear, reinitialize, vars, IInv, TypeOK
  <2>5. TypeOK'
    BY Zenon, <2>1, <2>4 DEF queues, IInv, TypeOK
  <2> QED
    BY Zenon, <2>2, <2>3, <2>5 DEF IInv
<1>5. ASSUME ClearOne
      PROVE  IInv'
  <2> DEFINE q == unblocked_task_queue
  <2>1. /\ clearing /\ q # <<>> /\ Retire(Head(q), Tail(q))
        /\ running' = running /\ fresh' = fresh /\ clearing' = clearing
    BY Zenon, <1>5 DEF ClearOne
  <2>2. /\ Tail(q) \in Seq(Tasks) /\ Head(q) \in Tasks
        /\ Elements(q) = Elements(Tail(q)) \union {Head(q)}
        /\ Head(q) \notin Elements(Tail(q)) /\ Distinct(Tail(q))
    BY Zenon, <1>d, <2>1, HeadTailElements
  <2>3. running = {}
    BY <2>1 DEF IInv, TaskInv
  <2>4. /\ Head(q) \in Unblocked
        /\ running' \union Elements(Tail(q)) = Unblocked \ {Head(q)}
        /\ running' \intersect Elements(Tail(q)) = {}
        /\ running' \in SUBSET Tasks /\ running' = {}
    BY <1>d, <2>1, <2>2, <2>3
  <2> QED
    BY Zenon, <2>1, <2>2, <2>4, RetireInv
<1> QED
  BY <1>1, <1>2, <1>3, <1>4, <1>5 DEF Next

\* The inductive invariant holds in every state of the machine.
THEOREM Invariance == Spec => []IInv
<1> QED
  BY InitInv, NextInv, PTL DEF Spec

\* Every field of the machine and of its usage queues keeps its type; no
\* ShortCounter of a task ever goes below zero.
THEOREM TypeCorrectness == Spec => []TypeOK
<1>1. IInv => TypeOK
  BY DEF IInv
<1> QED
  BY <1>1, Invariance, PTL

\* Two tasks that run, or were returned as unblocked, never conflict, whatever
\* the number of tasks, of addresses and of handler threads.
THEOREM ConflictFreedom == Spec => []MutualExclusion
BY Invariance, MutualExclusionFromInv, PTL

\* As long as a task is active some task runs or can run: taking addresses
\* back from blocked tasks of lower priority never ties a knot.
THEOREM DeadlockFreedom == Spec => []NoDeadlock
BY Invariance, NoDeadlockFromInv, PTL

\* No assert, unwrap or unreachable arm of the usage queues, nor of
\* clear_and_reinitialize called with no task running, is ever reached.
THEOREM AssertsHold == Spec => []NoAssertFails
BY Invariance, QueueAssertsFromInv, ClearNeverPanicsFromInv, PTL DEF NoAssertFails

\* With no active task the usage queues are back in their initial state.
THEOREM QueuesAreReusable == Spec => []QueuesComeBack
BY Invariance, QueuesComeBackFromInv, PTL

\* The hashes kept never exceed the cap.
CapInv == MaxActive # NoCap => Cardinality(hashes) <= MaxActive

\* With a cap the hashes kept are as many as the active tasks.
LEMMA HashesOfActive ==
  ASSUME IInv, MaxActive # NoCap
  PROVE  /\ IsFiniteSet(hashes)
         /\ Cardinality(hashes) = Cardinality(active)
         /\ Cardinality(hashes) \in Nat
<1> DEFINE f == [t \in active |-> Hash[t]]
<1>1. IsFiniteSet(active)
  BY Zenon, TasksAreOrdered, FS_Subset DEF IInv, TypeOK
<1>2. /\ hashes = {Hash[t] : t \in active}
      /\ \A t, u \in active : Hash[t] = Hash[u] => t = u
  BY DEF IInv, HashInv
<1>3. f \in [active -> hashes] /\ \A t \in active : f[t] = Hash[t]
  BY <1>2
<1>4. f \in Injection(active, hashes)
  BY Zenon, <1>2, <1>3 DEF Injection, IsInjective
<1>5. f \in Surjection(active, hashes)
  BY <1>2, <1>3 DEF Surjection
<1> QED
  BY Zenon, <1>1, <1>4, <1>5, FS_Surjection, FS_CardinalityType

\* A hash is added only below the cap.
LEMMA CapPreserved ==
  ASSUME IInv, CapInv, [Next]_vars
  PROVE  CapInv'
<1> SUFFICES ASSUME MaxActive # NoCap
             PROVE  Cardinality(hashes') <= MaxActive
  BY DEF CapInv
<1>0. /\ IsFiniteSet(hashes) /\ Cardinality(hashes) \in Nat /\ MaxActive \in Nat
      /\ Cardinality(hashes) <= MaxActive
  BY HashesOfActive, CapIsANumber DEF CapInv
<1>1. CASE hashes' = hashes
  BY Zenon, <1>0, <1>1
<1>2. ASSUME NEW t \in Tasks, ~IsDropped(t), hashes' = hashes \union {Hash[t]}
      PROVE  Cardinality(hashes') <= MaxActive
  <2>1. Cardinality(hashes) < MaxActive
    BY <1>0, <1>2 DEF IsDropped
  <2> QED
    BY <1>0, <1>2, <2>1, FS_AddElement
<1>3. ASSUME NEW t, hashes' = hashes \ {Hash[t]}
      PROVE  Cardinality(hashes') <= MaxActive
  BY <1>0, <1>3, FS_RemoveElement
<1>4. \/ hashes' = hashes
      \/ \E t \in Tasks : ~IsDropped(t) /\ hashes' = hashes \union {Hash[t]}
      \/ \E t : hashes' = hashes \ {Hash[t]}
  BY Zenon DEF Next, schedule_or_buffer_task, DropTask, AcceptTask, deschedule_task, Retire,
       schedule_next_unblocked_task, BeginClear, ClearOne, reinitialize, vars
<1> QED
  BY <1>1, <1>2, <1>3, <1>4

\* As many tasks are active as hashes are kept.
LEMMA CapIsExactFromInv ==
  ASSUME IInv, CapInv
  PROVE  CapIsExact
<1> SUFFICES ASSUME MaxActive # NoCap
             PROVE  Cardinality(active) <= MaxActive
  BY DEF CapIsExact, IInv, HashInv
<1> QED
  BY Zenon, HashesOfActive DEF CapInv

\* With a cap no more tasks are active than it allows, no two of them carry the
\* same transaction, and a dropped or finished task leaves no hash behind.
THEOREM CapHolds == Spec => []CapIsExact
<1>1. Init => CapInv
  BY CapIsANumber, FS_EmptySet DEF Init, CapInv
<1>2. IInv /\ CapInv /\ [Next]_vars => CapInv'
  BY CapPreserved
<1>3. IInv /\ CapInv => CapIsExact
  BY CapIsExactFromInv
<1> QED
  BY <1>1, <1>2, <1>3, Invariance, PTL DEF Spec

\* A task of lower priority never overtakes a conflicting one the machine
\* already owns, at the moment it becomes unblocked.
THEOREM NoOvertaking == Spec => PriorityRespected
<1> DEFINE Respected ==
      \A u \in Unblocked' \ Unblocked, t \in active' : \A a \in Accounts :
        /\ t < u
        /\ requested'[t][a] # "none"
        /\ requested'[u][a] # "none"
        => requested'[t][a] = "Readonly" /\ requested'[u][a] = "Readonly"
<1>1. ASSUME IInv, IInv', [Next]_vars
      PROVE  Respected
  <2> SUFFICES ASSUME NEW u \in Unblocked' \ Unblocked, NEW t \in active',
                      NEW a \in Accounts, t < u,
                      requested'[t][a] # "none", requested'[u][a] # "none"
               PROVE  requested'[t][a] = "Readonly" /\ requested'[u][a] = "Readonly"
    OBVIOUS
  <2>i. IInv
    BY Zenon, <1>1
  <2>j. /\ TypeOK' /\ QueueInv(a)' /\ CountInv' /\ UnblockedInv'
    BY <1>1 DEF IInv
  <2>k. TypeOK /\ QueueInv(a)
    BY Zenon, <2>i DEF IInv
  <2>0. /\ t \in Tasks /\ u \in Tasks /\ u \in active' /\ blocked_usage_count'[u] = 0
        /\ blocked[a] \in SUBSET Tasks /\ current[a].tasks \in SUBSET Tasks
    BY SMTT(30), <2>j, <2>k DEF TypeOK, UnblockedInv
  <2>h. u \in current'[a].tasks
    <3>1. u \notin blocked'[a]
      <4>1. BlockedOn(u)' = {}
        <5>1. Cardinality(BlockedOn(u)') = 0
          BY <2>0, <2>j DEF CountInv
        <5>2. IsFiniteSet(BlockedOn(u)')
          <6>1. BlockedOn(u)' \in SUBSET Accounts
            BY Zenon DEF BlockedOn
          <6> QED
            BY <6>1, AccountsAreFinite, FS_Subset
        <5> QED
          BY Zenon, <5>1, <5>2, FS_EmptySet
      <4> QED
        BY <4>1 DEF BlockedOn
    <3> QED
      BY Zenon, <2>0, <2>j, <3>1 DEF QueueInv, MemberInv
  <2>1. CASE t \in current'[a].tasks
    <3>1. t # u
      BY Zenon, <2>0, TaskOrder
    <3>2. /\ requested'[t][a] = current'[a].usage /\ requested'[u][a] = current'[a].usage
          /\ current'[a].usage # "Writable"
      BY Zenon, <2>h, <2>j, <2>1, <3>1 DEF QueueInv, HolderInv
    <3>3. current'[a].usage \in Usages \union {"none"}
      BY Zenon, <2>j DEF TypeOK
    <3> QED
      BY <3>2, <3>3 DEF Usages
  <2>2. CASE t \in blocked'[a]
    <3>n. ~(u < t)
      BY <2>0, TaskOrder
    <3>1. ASSUME NEW n \in Tasks, NEW ctx \in [Accounts -> Usages \union {"none"}],
                 NEW force_buffering \in BOOLEAN,
                 schedule_or_buffer_task(n, ctx, force_buffering)
          PROVE  FALSE
      <4>1. AcceptTask(n, ctx, force_buffering) /\ n \in fresh
        BY <3>1 DEF schedule_or_buffer_task, DropTask, queues, Unblocked, Elements
      <4>2. u = n
        <5>1. unblocked_task_queue \in Seq(Tasks)
          BY <2>k DEF TypeOK
        <5>2. /\ running' \subseteq running \union {n}
              /\ \/ unblocked_task_queue' = Append(unblocked_task_queue, n)
                 \/ unblocked_task_queue' = unblocked_task_queue
          BY Zenon, <4>1 DEF AcceptTask
        <5>3. CASE unblocked_task_queue' = Append(unblocked_task_queue, n)
          <6>1. Elements(Append(unblocked_task_queue, n)) = Elements(unblocked_task_queue) \union {n}
            BY Zenon, <3>1, <5>1, AppendElements
          <6> QED
            BY <5>2, <5>3, <6>1 DEF Unblocked, Elements
        <5>4. CASE unblocked_task_queue' = unblocked_task_queue
          BY Zenon, <5>2, <5>4 DEF Unblocked, Elements
        <5> QED
          BY Zenon, <5>2, <5>3, <5>4
      <4>3. requested'[n] = ctx /\ ctx[a] # "none"
        BY Zenon, <2>k, <4>1, <4>2 DEF AcceptTask, TypeOK
      <4>4. /\ current'[a] = CurrentAfterLock(a, n, ctx[a])
            /\ blocked'[a] = BlockedAfterLock(a, n, ctx[a])
        BY <4>1, <4>3 DEF AcceptTask, try_lock_usage_queues
      <4>5. Lockable(a, n, ctx[a])
        <5>1. n \notin current[a].tasks
          BY Zenon, <2>i, <4>1, NewTaskIsNowhere
        <5>2. current[a] \in [usage : Usages \union {"none"}, tasks : SUBSET Tasks]
          BY Zenon, <2>k DEF TypeOK
        <5> QED
          BY <2>h, <4>2, <4>4, <5>1, <5>2 DEF CurrentAfterLock
      <4>6. t \in blocked[a] \/ t \in Reblocked(a, n, ctx[a])
        BY Zenon, <2>2, <4>4, <4>5 DEF BlockedAfterLock
      <4>7. n < t
        BY Zenon, <2>i, <4>1, <4>5, <4>6, LockerIsFirst DEF Reblocked
      <4> QED
        BY Zenon, <3>n, <4>2, <4>7
    <3>2. ASSUME NEW n \in Unblocked, NEW rest \in Seq(Tasks), Retire(n, rest),
                 running' \union Elements(rest) \subseteq Unblocked
          PROVE  FALSE
      <4>0. /\ current' = [x \in Accounts |->
                  IF x \in Addresses(n) THEN CurrentAfterUnlock(x, n) ELSE current[x]]
            /\ blocked' = [x \in Accounts |->
                  IF x \in Addresses(n) THEN blocked[x] \ Granted(x, n) ELSE blocked[x]]
            /\ \E seq \in Listings(NewlyUnblocked(n)) : unblocked_task_queue' = rest \o seq
        BY Zenon, <3>2 DEF Retire, unlock_usage_queues
      <4>1. u \in NewlyUnblocked(n)
        <5>1. PICK seq \in Listings(NewlyUnblocked(n)) : unblocked_task_queue' = rest \o seq
          BY Zenon, <4>0
        <5>2. Elements(rest \o seq) = Elements(rest) \union NewlyUnblocked(n)
          <6>1. NewlyUnblocked(n) \in SUBSET Tasks
            BY Zenon DEF NewlyUnblocked
          <6>2. IsFiniteSet(Tasks)
            BY Zenon, TasksAreOrdered
          <6> QED
            BY <3>2, <5>1, <6>1, <6>2, ConcatElements
        <5> QED
          BY Zenon, <3>2, <5>1, <5>2 DEF Unblocked, Elements
      <4>2. blocked_usage_count[u] # 0
        BY <4>1 DEF NewlyUnblocked
      <4>3. t \in blocked[a]
        BY Zenon, <2>2, <4>0
      <4>4. u \notin current[a].tasks
        BY Zenon, <2>k, <3>n, <4>2, <4>3 DEF QueueInv, OrderInv
      <4>5. a \in Addresses(n) /\ current'[a] = CurrentAfterUnlock(a, n)
            /\ blocked'[a] = blocked[a] \ Granted(a, n)
        BY <2>h, <4>0, <4>4
      <4>6. u \in Granted(a, n)
        <5>1. current[a] \in [usage : Usages \union {"none"}, tasks : SUBSET Tasks]
          BY Zenon, <2>k DEF TypeOK
        <5> QED
          BY SMTT(30), <2>h, <4>4, <4>5, <5>1 DEF CurrentAfterUnlock, Idle
      <4>7. n \in current[a].tasks
        BY Zenon, <2>i, <3>2, <4>5, UnblockedHolds DEF Addresses
      <4>8. t \in blocked[a] \ Granted(a, n)
        BY SMTT(20), <2>2, <4>5
      <4>9. u < t
        BY Zenon, <2>i, <4>6, <4>7, <4>8, GrantOrder
      <4> QED
        BY SMTT(30), <3>n, <4>9
    <3>d. /\ unblocked_task_queue \in Seq(Tasks)
          /\ Unblocked = running \union Elements(unblocked_task_queue)
      BY Zenon, <2>k DEF TypeOK, Unblocked
    <3>3. ASSUME NEW n \in Tasks, deschedule_task(n)
          PROVE  FALSE
      BY <3>2, <3>3, <3>d DEF deschedule_task
    <3>4. ASSUME ClearOne
          PROVE  FALSE
      <4>1. /\ Tail(unblocked_task_queue) \in Seq(Tasks)
            /\ Elements(unblocked_task_queue)
                 = Elements(Tail(unblocked_task_queue)) \union {Head(unblocked_task_queue)}
        BY <3>4, <3>d, HeadTailElements DEF ClearOne
      <4> QED
        BY Zenon, <3>2, <3>4, <3>d, <4>1 DEF ClearOne
    <3>5. ASSUME schedule_next_unblocked_task
          PROVE  FALSE
      <4>1. /\ Tail(unblocked_task_queue) \in Seq(Tasks)
            /\ Elements(unblocked_task_queue)
                 = Elements(Tail(unblocked_task_queue)) \union {Head(unblocked_task_queue)}
        BY <3>5, <3>d, HeadTailElements DEF schedule_next_unblocked_task
      <4>2. Elements(unblocked_task_queue)' = Elements(Tail(unblocked_task_queue))
        BY <3>5 DEF schedule_next_unblocked_task, Elements
      <4>3. Unblocked' = Unblocked
        BY Zenon, <3>5, <3>d, <4>1, <4>2 DEF schedule_next_unblocked_task, Unblocked
      <4> QED
        BY Zenon, <4>3
    <3>6. ASSUME BeginClear \/ reinitialize \/ UNCHANGED vars
          PROVE  FALSE
      BY <3>6 DEF BeginClear, reinitialize, vars, queues, Unblocked, Elements
    <3> QED
      BY Zenon, <1>1, <3>1, <3>3, <3>4, <3>5, <3>6 DEF Next
  <2> QED
    BY Zenon, <2>j, <2>1, <2>2 DEF QueueInv, MemberInv
<1>2. IInv /\ IInv' /\ [Next]_vars => [Respected]_vars
  BY <1>1
<1> QED
  BY <1>2, Invariance, PTL DEF Spec, PriorityRespected
============================================================================
