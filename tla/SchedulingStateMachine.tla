---------------------- MODULE SchedulingStateMachine ----------------------
(* The unified scheduler's state machine (unified-scheduler-logic/src/lib.rs)
   over usage queues with Capability::PriorityQueueing, the mode of block
   production.  The machine runs on one thread; its caller, the scheduler
   pool, decides when a task arrives, when a handler thread is done with a
   task and when the session ends, so each public method is one action.

   A task id is its priority: the smaller, the higher (is_higher_priority).
   A method walks the lock contexts of one task, and what it does at one
   address never depends on what it did at an earlier one: try_reblock only
   asks whether a task's count is zero, and an increment never changes that
   answer.  A walk is therefore written as one function over Accounts.  Only
   the order in which a walk appends to unblocked_task_queue is visible. *)
EXTENDS TaskSequences

CONSTANTS Tasks,        \* task ids, numbers
          Sessions,     \* the sets of tasks that one session may create
          Accounts,     \* addresses, one UsageQueue each
          MaxRunning,   \* max_running_task_count
          MaxActive,    \* max_unique_active_task_count, NoCap for None
          NoCap,
          Hash          \* message hash of each task's transaction

ASSUME TasksAreOrdered == Tasks \subseteq Nat /\ IsFiniteSet(Tasks)
ASSUME SessionsHaveTasks == Sessions \subseteq SUBSET Tasks
ASSUME AccountsAreFinite == IsFiniteSet(Accounts)
ASSUME SomeTaskCanRun == MaxRunning \in Nat \ {0}
ASSUME CapIsANumber == MaxActive = NoCap \/ MaxActive \in Nat
ASSUME EachTaskHasAHash == DOMAIN Hash = Tasks

VARIABLES current,              \* current_usage of each address
          blocked,              \* blocked_usages_from_tasks of each address
          blocked_usage_count,  \* of each task
          unblocked_task_queue,
          running,              \* tasks handed out and not yet descheduled
          active,               \* tasks owned by the machine
          hashes,               \* unique_active_task_hashes
          requested,            \* the lock contexts of each created task
          fresh,                \* tasks not yet given to the machine
          clearing              \* inside clear_and_reinitialize

queues == <<current, blocked, blocked_usage_count, unblocked_task_queue>>
vars == <<queues, running, active, hashes, requested, fresh, clearing>>

Usages == {"Readonly", "Writable"}
Unused == [a \in Accounts |-> "none"]
Idle == [usage |-> "none", tasks |-> {}]
Addresses(t) == {a \in Accounts : requested[t][a] # "none"}

Init ==
  /\ current = [a \in Accounts |-> Idle]
  /\ blocked = [a \in Accounts |-> {}]
  /\ blocked_usage_count = [t \in Tasks |-> 0]
  /\ unblocked_task_queue = <<>>
  /\ running = {}
  /\ active = {}
  /\ hashes = {}
  /\ requested = [t \in Tasks |-> Unused]
  /\ fresh \in Sessions
  /\ clearing = FALSE

---------------------------------------------------------------------------
(* Locking: prepare_lock, then try_lock, then push_blocked if either fails. *)

is_task_runnable == Cardinality(running) < MaxRunning

\* try_reblock succeeds on a task whose count is not zero.
try_reblock(t) == blocked_usage_count[t] # 0

BothReadonly(a, u) == current[a].usage = "Readonly" /\ u = "Readonly"

\* Mutants: a holder loses the address even when nothing else blocks it; no
\* holder ever loses one.
MutantReblocksAll(a, new, u) ==
  IF BothReadonly(a, u) THEN {} ELSE {c \in current[a].tasks : new < c}
MutantReblocksNone(a, new, u) == {}

\* The holders of a that lose it to the new task in prepare_lock.
Reblocked(a, new, u) ==
  IF BothReadonly(a, u)
  THEN {}
  ELSE {c \in current[a].tasks : new < c /\ try_reblock(c)}

\* Mutant: a reader joins the readers past a blocked writer before it.
MutantReadersJoin(a, new, u) ==
  BothReadonly(a, u) \/ current[a].tasks \subseteq Reblocked(a, new, u)

\* prepare_lock is Ok, after which try_lock cannot fail.
Lockable(a, new, u) ==
  IF BothReadonly(a, u)
  THEN \A b \in blocked[a] : new < b
  ELSE current[a].tasks \subseteq Reblocked(a, new, u)

CurrentAfterLock(a, new, u) ==
  IF Lockable(a, new, u)
  THEN [usage |-> u,
        tasks |-> (current[a].tasks \ Reblocked(a, new, u)) \union {new}]
  ELSE [current[a] EXCEPT !.tasks = @ \ Reblocked(a, new, u)]

BlockedAfterLock(a, new, u) ==
  blocked[a] \union Reblocked(a, new, u)
             \union (IF Lockable(a, new, u) THEN {} ELSE {new})

\* The addresses task t loses to the new one, and those the new one misses.
Taken(t, new, ctx) ==
  {a \in Accounts : ctx[a] # "none" /\ t \in Reblocked(a, new, ctx[a])}
Missed(new, ctx) ==
  {a \in Accounts : ctx[a] # "none" /\ ~Lockable(a, new, ctx[a])}

\* try_lock_usage_queues for task new whose lock contexts are ctx.
try_lock_usage_queues(new, ctx) ==
  /\ current' = [a \in Accounts |->
        IF ctx[a] # "none" THEN CurrentAfterLock(a, new, ctx[a]) ELSE current[a]]
  /\ blocked' = [a \in Accounts |->
        IF ctx[a] # "none" THEN BlockedAfterLock(a, new, ctx[a]) ELSE blocked[a]]
  /\ blocked_usage_count' = [t \in Tasks |->
        IF t = new THEN Cardinality(Missed(new, ctx))
                   ELSE blocked_usage_count[t] + Cardinality(Taken(t, new, ctx))]

\* Mutant: the hash of a new task is not looked up among the active ones.
MutantTakesDuplicates(t) == MaxActive # NoCap /\ Cardinality(hashes) >= MaxActive

\* Past its cap, or for a hash that is active, the machine drops the task.
IsDropped(t) ==
  MaxActive # NoCap /\ (Cardinality(hashes) >= MaxActive \/ Hash[t] \in hashes)

DropTask(t) ==
  /\ IsDropped(t)
  /\ fresh' = fresh \ {t}
  /\ UNCHANGED <<queues, running, active, hashes, requested, clearing>>

AcceptTask(t, ctx, force_buffering) ==
  /\ ~IsDropped(t)
  /\ fresh' = fresh \ {t}
  /\ requested' = [requested EXCEPT ![t] = ctx]
  /\ active' = active \union {t}
  /\ hashes' = IF MaxActive = NoCap THEN hashes ELSE hashes \union {Hash[t]}
  /\ try_lock_usage_queues(t, ctx)
  /\ LET locked == blocked_usage_count'[t] = 0
         buffered == ~is_task_runnable \/ force_buffering
     IN /\ running' = IF locked /\ ~buffered THEN running \union {t} ELSE running
        /\ unblocked_task_queue' = IF locked /\ buffered
                                   THEN Append(unblocked_task_queue, t)
                                   ELSE unblocked_task_queue
  /\ UNCHANGED clearing

schedule_or_buffer_task(t, ctx, force_buffering) ==
  /\ ~clearing
  /\ t \in fresh
  /\ \/ DropTask(t)
     \/ AcceptTask(t, ctx, force_buffering)

---------------------------------------------------------------------------
(* Unlocking: unlock, then hand the address to the blocked tasks in the order
   of their ids, a writer alone or the readers before the first writer. *)

\* Mutant: the readers behind the first one are not let in with it.
MutantGrantsFirst(a, t) ==
  {b \in blocked[a] : current[a].tasks \subseteq {t} /\ \A o \in blocked[a] : b <= o}

\* The tasks to which a is handed over when t leaves it.
Granted(a, t) ==
  IF current[a].tasks \subseteq {t}
  THEN {b \in blocked[a] :
          \/ \A o \in blocked[a] : b <= o
          \/ \A o \in blocked[a] : o <= b => requested[o][a] = "Readonly"}
  ELSE {}

CurrentAfterUnlock(a, t) ==
  IF current[a].tasks \subseteq {t}
  THEN IF Granted(a, t) = {}
       THEN Idle
       ELSE [usage |-> IF \E g \in Granted(a, t) : requested[g][a] = "Writable"
                       THEN "Writable" ELSE "Readonly",
             tasks |-> Granted(a, t)]
  ELSE [current[a] EXCEPT !.tasks = @ \ {t}]

GrantsOf(u, t) == {a \in Addresses(t) : u \in Granted(a, t)}

\* try_unblock brings the count of these tasks to zero while t is unlocked.
NewlyUnblocked(t) ==
  {u \in Tasks : /\ blocked_usage_count[u] # 0
                 /\ blocked_usage_count[u] = Cardinality(GrantsOf(u, t))}

\* seq lists them as the walk over t's lock contexts, taken in the order pos,
\* meets the address that completes each; at one address, by task id.
InWalkOrder(seq, t, pos) ==
  LET Last(u) == CHOOSE a \in GrantsOf(u, t) :
                    \A b \in GrantsOf(u, t) : pos[b] <= pos[a]
  IN \A i, j \in 1..Len(seq) : i < j =>
        \/ pos[Last(seq[i])] < pos[Last(seq[j])]
        \/ Last(seq[i]) = Last(seq[j]) /\ seq[i] < seq[j]

\* unlock_usage_queues; rest is unblocked_task_queue as the caller left it.
unlock_usage_queues(t, rest) ==
  /\ current' = [a \in Accounts |->
        IF a \in Addresses(t) THEN CurrentAfterUnlock(a, t) ELSE current[a]]
  /\ blocked' = [a \in Accounts |->
        IF a \in Addresses(t) THEN blocked[a] \ Granted(a, t) ELSE blocked[a]]
  /\ blocked_usage_count' = [u \in Tasks |->
        blocked_usage_count[u] - Cardinality(GrantsOf(u, t))]
  /\ \E order \in Listings(Addresses(t)), seq \in Listings(NewlyUnblocked(t)) :
        /\ InWalkOrder(seq, t, [a \in Addresses(t) |->
                                  IndexIn(order, a)])
        /\ unblocked_task_queue' = rest \o seq

\* deschedule_task once running_task_count is accounted for; the caller then
\* drops the task and its lock contexts with it.
Retire(t, rest) ==
  /\ requested' = [requested EXCEPT ![t] = Unused]
  /\ hashes' = IF MaxActive = NoCap THEN hashes ELSE hashes \ {Hash[t]}
  /\ active' = active \ {t}
  /\ unlock_usage_queues(t, rest)

deschedule_task(t) ==
  /\ ~clearing
  /\ t \in running
  /\ running' = running \ {t}
  /\ Retire(t, unblocked_task_queue)
  /\ UNCHANGED <<fresh, clearing>>

\* Mutant: the early return on is_task_runnable is inverted.
MutantWaitsForTheCap ==
  /\ ~clearing
  /\ ~is_task_runnable
  /\ unblocked_task_queue # <<>>
  /\ running' = running \union {Head(unblocked_task_queue)}
  /\ unblocked_task_queue' = Tail(unblocked_task_queue)
  /\ UNCHANGED <<current, blocked, blocked_usage_count, active, hashes,
                 requested, fresh, clearing>>

schedule_next_unblocked_task ==
  /\ ~clearing
  /\ is_task_runnable
  /\ unblocked_task_queue # <<>>
  /\ running' = running \union {Head(unblocked_task_queue)}
  /\ unblocked_task_queue' = Tail(unblocked_task_queue)
  /\ UNCHANGED <<current, blocked, blocked_usage_count, active, hashes,
                 requested, fresh, clearing>>

---------------------------------------------------------------------------
(* clear_and_reinitialize, called with no task running.  The loop is one step
   per iteration; nothing else runs on the machine's thread meanwhile. *)

BeginClear ==
  /\ ~clearing
  /\ running = {}
  /\ clearing' = TRUE
  /\ UNCHANGED <<queues, running, active, hashes, requested, fresh>>

ClearOne ==
  /\ clearing
  /\ is_task_runnable
  /\ unblocked_task_queue # <<>>
  /\ Retire(Head(unblocked_task_queue), Tail(unblocked_task_queue))
  /\ UNCHANGED <<running, fresh, clearing>>

\* The asserts at the head of reinitialize.
ReinitializeAsserts ==
  active = {} /\ hashes = {} /\ running = {} /\ unblocked_task_queue = <<>>

\* Called when the loop is over, or by itself once no task is active; the
\* caller's next session creates new tasks.
reinitialize ==
  /\ ReinitializeAsserts
  /\ clearing' = FALSE
  /\ fresh' \in Sessions
  /\ UNCHANGED <<queues, running, active, hashes, requested>>

Next ==
  \/ \E t \in Tasks, ctx \in [Accounts -> Usages \union {"none"}],
        force_buffering \in BOOLEAN :
       schedule_or_buffer_task(t, ctx, force_buffering)
  \/ \E t \in Tasks : deschedule_task(t)
  \/ schedule_next_unblocked_task
  \/ BeginClear
  \/ ClearOne
  \/ reinitialize

Spec == Init /\ [][Next]_vars

(* The scheduler thread keeps asking for unblocked tasks, handler threads
   finish what they run, and a loop that was entered runs to its end. *)
Fairness ==
  /\ WF_vars(schedule_next_unblocked_task)
  /\ \A t \in Tasks : WF_vars(deschedule_task(t))
  /\ WF_vars(ClearOne)

FairSpec == Spec /\ Fairness

---------------------------------------------------------------------------
(* Properties *)

Unblocked == running \union Elements(unblocked_task_queue)
Holds(a, t) == t \in current[a].tasks

\* Every field has its type; no ShortCounter went below zero.
TypeOK ==
  /\ current \in [Accounts -> [usage : Usages \union {"none"}, tasks : SUBSET Tasks]]
  /\ blocked \in [Accounts -> SUBSET Tasks]
  /\ blocked_usage_count \in [Tasks -> Nat]
  /\ unblocked_task_queue \in Seq(Tasks)
  /\ running \in SUBSET Tasks
  /\ active \in SUBSET Tasks
  /\ hashes \in SUBSET {Hash[t] : t \in Tasks}
  /\ requested \in [Tasks -> [Accounts -> Usages \union {"none"}]]
  /\ fresh \in SUBSET Tasks
  /\ clearing \in BOOLEAN

\* Tasks that run, or that were promised to the caller as unblocked, never
\* conflict: two of them touch one address only if both read it.
MutualExclusion ==
  \A t, u \in Unblocked : \A a \in Accounts :
    /\ t # u
    /\ requested[t][a] = "Writable"
    => requested[u][a] = "none"

\* While tasks are active, one of them runs or can be run: the reblocking of
\* prepare_lock is consistent over all usage queues, so no cycle of tasks
\* waits for one another ("otherwise, deadlock would happen").
NoDeadlock == active # {} => Unblocked # {}

\* Neither clear_and_reinitialize called without running tasks ("it's
\* guaranteed not to panic otherwise") nor reinitialize called without active
\* ones fails an assert of reinitialize.
ClearNeverPanics ==
  active = {} \/ (clearing /\ unblocked_task_queue = <<>>) => ReinitializeAsserts

\* The asserts, unwraps and unreachable arms of the usage queues: an idle
\* queue blocks nobody, what unlock gives back is what was locked, and the
\* first task blocked behind readers is a writer (write-always-follows-read).
QueueAssertsHold ==
  /\ \A a \in Accounts :
       /\ current[a].usage = "none" <=> current[a].tasks = {}
       /\ current[a].usage = "none" => blocked[a] = {}
       /\ current[a].usage = "Readonly" =>
            \A r \in blocked[a] :
              requested[r][a] = "Readonly" =>
                \E w \in blocked[a] : w < r /\ requested[w][a] = "Writable"
  /\ \A t \in running, a \in Accounts :
       requested[t][a] # "none" =>
         Holds(a, t) /\ current[a].usage = requested[t][a]

\* No assert, unwrap or unreachable arm of the machine is hit, in the usage
\* queues or in clear_and_reinitialize, in whatever order tasks come, go and
\* are cleared.
NoAssertFails == QueueAssertsHold /\ ClearNeverPanics

\* A blocked task is never overtaken: a task that becomes unblocked in a step
\* conflicts with no task of higher priority that the machine already owns.
PriorityRespected ==
  [][\A u \in Unblocked' \ Unblocked, t \in active' : \A a \in Accounts :
       /\ t < u
       /\ requested'[t][a] # "none"
       /\ requested'[u][a] # "none"
       => requested'[t][a] = "Readonly" /\ requested'[u][a] = "Readonly"]_vars

\* With no active task left, every usage queue is as it was created, so the
\* queues can be kept for the next session.
QueuesComeBack ==
  active = {} =>
    /\ current = [a \in Accounts |-> Idle]
    /\ blocked = [a \in Accounts |-> {}]
    /\ blocked_usage_count = [t \in Tasks |-> 0]

\* With a cap, no two active tasks carry the same transaction, and the hashes
\* kept are those of the active tasks: none leaks when a task is dropped.
CapIsExact ==
  MaxActive # NoCap =>
    /\ Cardinality(active) <= MaxActive
    /\ hashes = {Hash[t] : t \in active}
    /\ \A t, u \in active : Hash[t] = Hash[u] => t = u

\* Every task the machine takes is handled, or cleared with its session.
EveryTaskFinishes == \A t \in Tasks : t \in active ~> t \notin active
============================================================================
