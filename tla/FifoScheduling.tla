-------------------------- MODULE FifoScheduling --------------------------
(* The unified scheduler's state machine (unified-scheduler-logic/src/lib.rs)
   over usage queues with Capability::FifoQueueing, the mode of block
   verification: an address remembers how many readers hold it, not which,
   and the blocked usages form a queue in order of arrival.  The scheduler
   pool uses it with no limit on running or active tasks, never forces a task
   to be buffered, and ends a session only when no task is active
   (unified-scheduler-pool/src/lib.rs).  Task ids are the positions of the
   transactions in the block, which replay hands over in order.  *)
EXTENDS TaskSequences

CONSTANTS Tasks, Accounts

ASSUME BlockIsOrdered == Tasks \subseteq Nat /\ IsFiniteSet(Tasks)
ASSUME AddressesAreFinite == IsFiniteSet(Accounts)

VARIABLES current,              \* current_usage of each address
          blocked,              \* blocked_usages_from_tasks of each address
          blocked_usage_count,
          unblocked_task_queue,
          running,
          active,
          requested,            \* the lock contexts of each created task
          fresh                 \* transactions replay has not handed over yet

queues == <<current, blocked, blocked_usage_count, unblocked_task_queue>>
vars == <<queues, running, active, requested, fresh>>

Usages == {"Readonly", "Writable"}
Unused == [a \in Accounts |-> "none"]
Idle == [usage |-> "none", count |-> 0]
Addresses(t) == {a \in Accounts : requested[t][a] # "none"}

Init ==
  /\ current = [a \in Accounts |-> Idle]
  /\ blocked = [a \in Accounts |-> <<>>]
  /\ blocked_usage_count = [t \in Tasks |-> 0]
  /\ unblocked_task_queue = <<>>
  /\ running = {}
  /\ active = {}
  /\ requested = [t \in Tasks |-> Unused]
  /\ fresh = Tasks

---------------------------------------------------------------------------

\* Mutant: a reader joins the readers past the blocked tasks.
MutantReadersJoin(a, u) ==
  \/ blocked[a] = <<>> /\ current[a].usage = "none"
  \/ current[a].usage = "Readonly" /\ u = "Readonly"

\* prepare_lock refuses whoever would overtake a blocked task; then try_lock.
Lockable(a, u) ==
  /\ blocked[a] = <<>>
  /\ current[a].usage = "none" \/ (current[a].usage = "Readonly" /\ u = "Readonly")

try_lock_usage_queues(new, ctx) ==
  LET touched == {a \in Accounts : ctx[a] # "none"}
      locked == {a \in touched : Lockable(a, ctx[a])}
  IN /\ current' = [a \in Accounts |->
           IF a \in locked THEN [usage |-> ctx[a], count |-> current[a].count + 1]
                           ELSE current[a]]
     /\ blocked' = [a \in Accounts |->
           IF a \in touched \ locked THEN Append(blocked[a], new) ELSE blocked[a]]
     /\ blocked_usage_count' = [blocked_usage_count EXCEPT
           ![new] = Cardinality(touched \ locked)]

schedule_or_buffer_task(t, ctx) ==
  /\ t \in fresh
  /\ \A o \in fresh : t <= o
  /\ fresh' = fresh \ {t}
  /\ requested' = [requested EXCEPT ![t] = ctx]
  /\ active' = active \union {t}
  /\ try_lock_usage_queues(t, ctx)
  /\ running' = IF blocked_usage_count'[t] = 0 THEN running \union {t} ELSE running
  /\ UNCHANGED unblocked_task_queue

---------------------------------------------------------------------------

\* unlock frees the address when its only reader or its writer leaves.
Frees(a) == current[a].usage = "Writable" \/ current[a].count = 1

\* How many blocked tasks the loop of unlock_usage_queues then lets in: a
\* writer alone, or the readers up to the first writer.
Popped(a) ==
  LET readers == {i \in 1..Len(blocked[a]) :
                    \A j \in 1..i : requested[blocked[a][j]][a] = "Readonly"}
  IN IF ~Frees(a) \/ blocked[a] = <<>> THEN 0
     ELSE IF readers = {} THEN 1 ELSE Cardinality(readers)

Granted(a) == SubSeq(blocked[a], 1, Popped(a))

\* Mutant: the readers let in are counted as one.
MutantCountsOne(a) ==
  IF ~Frees(a) THEN [current[a] EXCEPT !.count = @ - 1]
  ELSE IF Popped(a) = 0 THEN Idle
  ELSE [usage |-> requested[Head(blocked[a])][a], count |-> 1]

CurrentAfterUnlock(a) ==
  IF ~Frees(a) THEN [current[a] EXCEPT !.count = @ - 1]
  ELSE IF Popped(a) = 0 THEN Idle
  ELSE [usage |-> requested[Head(blocked[a])][a], count |-> Popped(a)]

GrantsOf(u, t) == {a \in Addresses(t) : u \in Elements(Granted(a))}

NewlyUnblocked(t) ==
  {u \in Tasks : /\ blocked_usage_count[u] # 0
                 /\ blocked_usage_count[u] = Cardinality(GrantsOf(u, t))}

\* seq lists them as the walk over t's lock contexts, taken in the order pos,
\* meets the address that completes each; at one address, as they queued.
InWalkOrder(seq, t, pos) ==
  LET Last(u) == CHOOSE a \in GrantsOf(u, t) :
                    \A b \in GrantsOf(u, t) : pos[b] <= pos[a]
      Turn(u) == IndexIn(blocked[Last(u)], u)
  IN \A i, j \in 1..Len(seq) : i < j =>
        \/ pos[Last(seq[i])] < pos[Last(seq[j])]
        \/ Last(seq[i]) = Last(seq[j]) /\ Turn(seq[i]) < Turn(seq[j])

unlock_usage_queues(t) ==
  /\ current' = [a \in Accounts |->
        IF a \in Addresses(t) THEN CurrentAfterUnlock(a) ELSE current[a]]
  /\ blocked' = [a \in Accounts |->
        IF a \in Addresses(t)
        THEN SubSeq(blocked[a], Popped(a) + 1, Len(blocked[a])) ELSE blocked[a]]
  /\ blocked_usage_count' = [u \in Tasks |->
        blocked_usage_count[u] - Cardinality(GrantsOf(u, t))]
  /\ \E order \in Listings(Addresses(t)), seq \in Listings(NewlyUnblocked(t)) :
        /\ InWalkOrder(seq, t, [a \in Addresses(t) |-> IndexIn(order, a)])
        /\ unblocked_task_queue' = unblocked_task_queue \o seq

deschedule_task(t) ==
  /\ t \in running
  /\ running' = running \ {t}
  /\ active' = active \ {t}
  /\ requested' = [requested EXCEPT ![t] = Unused]
  /\ unlock_usage_queues(t)
  /\ UNCHANGED fresh

schedule_next_unblocked_task ==
  /\ unblocked_task_queue # <<>>
  /\ running' = running \union {Head(unblocked_task_queue)}
  /\ unblocked_task_queue' = Tail(unblocked_task_queue)
  /\ UNCHANGED <<current, blocked, blocked_usage_count, active, requested, fresh>>

\* The session ends, and the machine and its usage queues serve another block.
reinitialize ==
  /\ active = {}
  /\ fresh' = Tasks
  /\ UNCHANGED <<queues, running, active, requested>>

Next ==
  \/ \E t \in Tasks, ctx \in [Accounts -> Usages \union {"none"}] :
       schedule_or_buffer_task(t, ctx)
  \/ \E t \in Tasks : deschedule_task(t)
  \/ schedule_next_unblocked_task
  \/ reinitialize

Spec == Init /\ [][Next]_vars

---------------------------------------------------------------------------
(* Properties *)

\* The holders of an address, which the fifo queue only counts.
Holders(a) ==
  {t \in active : requested[t][a] # "none" /\ t \notin Elements(blocked[a])}

Unblocked == running \union Elements(unblocked_task_queue)
Conflict(t, u) ==
  \E a \in Accounts : /\ requested[t][a] # "none"
                      /\ requested[u][a] # "none"
                      /\ "Writable" \in {requested[t][a], requested[u][a]}

\* The results of a block are those of its transactions in their order: no
\* task runs, or is promised to the caller, while an earlier task of the block
\* with which it conflicts is still active.  Two conflicting tasks, then, never
\* run together either.
BlockOrder ==
  \A u \in Unblocked, t \in active : t < u => ~Conflict(t, u)
============================================================================
