-------------------------- MODULE PooledScheduler --------------------------
(* The threads of one unified scheduler (unified-scheduler-pool/src/lib.rs)
   and those who use it through a bank (runtime/src/installed_scheduler_pool.rs).

   A scheduler is a scheduler thread, which owns a SchedulingStateMachine, and
   handler threads.  It outlives its sessions: a bank takes it from the pool,
   sends it tasks, ends the session and returns it.  Verification: the replay
   thread schedules the transactions of a block; a timeout listener may take
   the scheduler away from a slow bank, which then resumes with one.
   Production: handlers turn packets into tasks at any time, PoH signals the
   end of the block and replay ends the session.

   One scheduler is followed: a bank installs or resumes when this one is in
   the pool, or is to be spawned anew.  Schedulers share nothing else. *)
EXTENDS Integers, FiniteSets, Sequences

CONSTANTS Banks,         \* numbers from 1
          Handlers,      \* handler threads
          Transactions,  \* numbers; the order of a block and of priorities
          BlockOf,       \* the bank whose block holds each transaction
          Packets,       \* the transactions that arrive as packets in production
          Locks,         \* the lock contexts of each transaction
          MaxAttempts,   \* bound: how often a transaction becomes a task
          MaxResets,     \* bound: how often the pool discards the buffer
          Accounts, MaxRunning, MaxActive, NoCap

NoBank == 0
InPool == -1
NotSpawned == -2
Tasks == {10 * x + k : x \in Transactions, k \in 0 .. MaxAttempts - 1}
TxOf(t) == t \div 10
FirstTask(x) == 10 * x
\* recreate_task: the same priority, a new id.
recreate_task(t) == t + 1

VARIABLES current, blocked, blocked_usage_count, unblocked_task_queue, running,
          active, hashes, requested, fresh, clearing

machine == <<current, blocked, blocked_usage_count, unblocked_task_queue,
             running, active, hashes, requested, fresh, clearing>>

M == INSTANCE SchedulingStateMachine
       WITH Hash <- [t \in Tasks |-> TxOf(t)], Sessions <- {Tasks}

VARIABLES mode,            \* the scheduler's SchedulingMode
          status,          \* SchedulerStatus of each bank
          replay,          \* where the replay thread is with each bank
          verdict,         \* what wait_for_completed_scheduler gave replay
          listeners,       \* banks with a registered TimeoutListener
          poh,             \* the bank PoH records for
          ender,           \* who holds a bank's write lock to end a session
          owner,           \* the bank with the scheduler, or where it is
          new_task,        \* new_task channel, to the scheduler thread
          results,         \* session_result channel, from it
          session_result,  \* session_result_with_timings
          joined,          \* are_threads_joined
          sched,           \* the scheduler thread
          chain,           \* chained_channel: one subchannel per session
          handlers,
          finished,        \* finished_{blocked,idle}_task channels
          created,         \* transactions sent as a task
          executed,        \* <<transaction, bank, outcome>> of each execution
          discarded,       \* transactions dropped on purpose
          resets,
          panicked         \* an assert, unwrap or unreachable arm was hit

bankVars == <<status, replay, verdict, listeners, poh>>
managerVars == <<owner, session_result, joined>>
threadVars == <<sched, chain, handlers, finished>>
history == <<executed, discarded>>
vars == <<machine, mode, bankVars, ender, managerVars, new_task, results,
          threadVars, created, history, resets, panicked>>

Verification == mode = "Verification"
Production == mode = "Production"

Active == [is |-> "Active", result |-> "none"]
Unavailable == [is |-> "Unavailable", result |-> "none"]
Stale(r) == [is |-> "Stale", result |-> r]

NoEnder == [bank |-> NoBank, why |-> "none", step |-> "none"]
Unlocked(b) == ender.bank # b

Payload(t) == [type |-> "Payload", task |-> t]
Open(b, r) == [type |-> "Open", bank |-> b, result |-> r]
Signal(kind) == [type |-> kind]

\* new_task_receiver is dropped: a send fails.
Disconnected == sched.place = "exited"
Send(m) == new_task' = Append(new_task, m)

Chained == 0
NewSubchannel(b) == [context |-> b, main |-> <<>>, aux |-> <<>>]
NewHandlers == [h \in Handlers |-> [at |-> 1, task |-> 0, from |-> "none", place |-> "waiting"]]
NoneFinished == [blocked |-> <<>>, idle |-> <<>>]
NewThread(place, r) == [place |-> place, ending |-> FALSE, result |-> r, rebuffer |-> 0]

(* The scheduler of block production is spawned for no bank and put into the
   pool at once; the Close of into_inner may still be on its way.  Verification
   starts with an empty pool. *)
Init ==
  /\ M!Init
  /\ mode \in {"Verification", "Production"}
  /\ status = [b \in Banks |-> Unavailable]
  /\ replay = [b \in Banks |-> "out"]
  /\ verdict = [b \in Banks |-> "none"]
  /\ listeners = {}
  /\ poh = NoBank
  /\ ender = NoEnder
  /\ owner = IF Production THEN InPool ELSE NotSpawned
  /\ new_task = IF Production THEN <<Signal("Close")>> ELSE <<>>
  /\ results = <<>>
  /\ session_result = "none"
  /\ joined = Verification
  /\ sched = NewThread(IF Production THEN "between" ELSE "exited", "none")
  /\ chain = <<NewSubchannel(NoBank)>>
  /\ handlers = NewHandlers
  /\ finished = NoneFinished
  /\ created = {}
  /\ executed = {}
  /\ discarded = {}
  /\ resets = 0
  /\ panicked = FALSE

Panics(condition) == panicked' = (panicked \/ condition)

---------------------------------------------------------------------------
(* Taking a scheduler: take_scheduler and take_resumed_scheduler, either from
   the pool (from_inner, start_session) or by spawn. *)

TakeFromPool(b, r) ==
  /\ owner = InPool
  /\ Send(Open(b, r))
  /\ Panics(joined \/ session_result # "none" \/ Disconnected)
  /\ UNCHANGED <<machine, joined, results, threadVars>>

\* A state machine that owns nothing yet.
NewMachine ==
  /\ current' = [a \in Accounts |-> M!Idle]
  /\ blocked' = [a \in Accounts |-> {}]
  /\ blocked_usage_count' = [t \in Tasks |-> 0]
  /\ unblocked_task_queue' = <<>>
  /\ running' = {}
  /\ active' = {}
  /\ hashes' = {}
  /\ requested' = [t \in Tasks |-> M!Unused]
  /\ fresh' = Tasks
  /\ clearing' = FALSE

Spawn(b, r) ==
  /\ owner = NotSpawned
  /\ NewMachine
  /\ new_task' = <<>>
  /\ results' = <<>>
  /\ joined' = FALSE
  /\ sched' = NewThread("running", r)
  /\ chain' = <<NewSubchannel(b)>>
  /\ handlers' = NewHandlers
  /\ finished' = NoneFinished
  /\ UNCHANGED panicked

Take(b, r) ==
  /\ TakeFromPool(b, r) \/ Spawn(b, r)
  /\ owner' = b
  /\ status' = [status EXCEPT ![b] = Active]
  /\ UNCHANGED session_result

\* BankForks::insert_with_scheduling_mode, install_scheduler_into_bank.  Blocks
\* are produced one after the other, which take_pooled relies on.
Install(b) ==
  /\ replay[b] = "out"
  /\ \A c \in Banks : c < b => replay[c] # "out"
  /\ Production => \A c \in Banks : c < b => replay[c] = "ended"
  /\ Take(b, "Ok")
  /\ listeners' = IF Verification THEN listeners \union {b} ELSE listeners
  /\ replay' = [replay EXCEPT ![b] = IF Verification THEN "replaying" ELSE "installed"]
  /\ UNCHANGED <<mode, verdict, poh, ender, created, history, resets>>

---------------------------------------------------------------------------
(* The replay thread on a bank under verification. *)

Unscheduled(b) == {x \in Transactions : BlockOf[x] = b} \ created
NextTx(b) == CHOOSE x \in Unscheduled(b) : \A y \in Unscheduled(b) : x <= y

\* schedule_execution on the active scheduler: SchedulerAborted once the
\* scheduler thread is gone.
schedule_execution(b) ==
  IF Disconnected
  THEN /\ replay' = [replay EXCEPT ![b] = "failed"]
       /\ UNCHANGED <<new_task, created>>
  ELSE /\ replay' = [replay EXCEPT ![b] = "replaying"]
       /\ Send(Payload(FirstTask(NextTx(b))))
       /\ created' = created \union {NextTx(b)}

MayRead(b, place) ==
  Verification /\ replay[b] = place /\ Unlocked(b) /\ Unscheduled(b) # {}

\* with_active_scheduler on the fast path.
ScheduleActive(b) ==
  /\ MayRead(b, "replaying")
  /\ status[b].is = "Active"
  /\ schedule_execution(b)
  /\ UNCHANGED <<machine, mode, status, verdict, listeners, poh, ender, managerVars,
                 results, threadVars, history, resets, panicked>>

\* with_active_scheduler on a stale bank lets go of the read lock to resume,
\* or fails.
SeeStale(b) ==
  /\ MayRead(b, "replaying")
  /\ status[b].is # "Active"
  /\ replay' = [replay EXCEPT ![b] = IF status[b] = Stale("Err") THEN "failed" ELSE "resuming"]
  /\ Panics(status[b].is = "Unavailable")
  /\ UNCHANGED <<machine, mode, status, verdict, listeners, poh, ender, managerVars,
                 new_task, results, threadVars, created, history, resets>>

\* Mutant: the listener is registered before the read lock is taken again.
MutantListensEarly(b) ==
  /\ replay[b] = "resuming"
  /\ Unlocked(b)
  /\ status[b].is = "Stale"
  /\ Take(b, status[b].result)
  /\ replay' = [replay EXCEPT ![b] = "resumed"]
  /\ listeners' = listeners \union {b}
  /\ UNCHANGED <<mode, verdict, poh, ender, created, history, resets>>

\* transition_from_stale_to_active under the write lock.
Resume(b) ==
  /\ replay[b] = "resuming"
  /\ Unlocked(b)
  /\ status[b].is = "Stale"
  /\ Take(b, status[b].result)
  /\ replay' = [replay EXCEPT ![b] = "resumed"]
  /\ UNCHANGED <<mode, verdict, listeners, poh, ender, created, history, resets>>

\* The read lock again, the listener, and the task at last; active_scheduler
\* panics unless the bank is still active.
ScheduleResumed(b) ==
  /\ MayRead(b, "resumed")
  /\ listeners' = listeners \union {b}
  /\ Panics(status[b].is # "Active")
  /\ schedule_execution(b)
  /\ UNCHANGED <<machine, mode, status, verdict, poh, ender, managerVars, results,
                 threadVars, history, resets>>

---------------------------------------------------------------------------
(* Ending a session.  The caller holds the bank's write lock from here to
   FinishEnding: the replay thread to pause for the last tick, to recover an
   error or to complete the block, the pool's cleaner thread on a timeout. *)

do_end_session(b, why) ==
  IF joined \/ session_result # "none"
  THEN /\ ender' = [bank |-> b, why |-> why, step |-> "done"]
       /\ Panics(joined /\ session_result = "none")
       /\ UNCHANGED new_task
  ELSE IF Disconnected
  THEN /\ ender' = [bank |-> b, why |-> why, step |-> "join_then_receive"]
       /\ UNCHANGED <<new_task, panicked>>
  ELSE /\ ender' = [bank |-> b, why |-> why, step |-> "receive"]
       /\ Send(Signal("Close"))
       /\ UNCHANGED panicked

\* retrieve_error_after_schedule_failure.
RetrieveError(b) ==
  /\ replay[b] = "failed"
  /\ Unlocked(b)
  /\ IF status[b].is = "Active"
     THEN /\ ender' = [bank |-> b, why |-> "recover",
                       step |-> IF joined THEN "done" ELSE "join_then_receive"]
          /\ UNCHANGED <<replay, panicked>>
     ELSE /\ replay' = [replay EXCEPT ![b] = "recovered"]
          /\ Panics(status[b] # Stale("Err"))
          /\ UNCHANGED ender
  /\ UNCHANGED <<machine, mode, status, verdict, listeners, poh, managerVars, new_task,
                 results, threadVars, created, history, resets>>

\* The last tick of a verified block: wait_for_paused_scheduler.
PauseForLastTick(b) ==
  /\ Verification
  /\ replay[b] = "replaying"
  /\ Unscheduled(b) = {}
  /\ Unlocked(b)
  /\ IF status[b].is = "Active"
     THEN do_end_session(b, "pause") /\ UNCHANGED replay
     ELSE /\ replay' = [replay EXCEPT ![b] = "paused"]
          /\ UNCHANGED <<ender, new_task, panicked>>
  /\ UNCHANGED <<machine, mode, status, verdict, listeners, poh, managerVars, results,
                 threadVars, created, history, resets>>

\* wait_for_completed_scheduler: the block is complete, dead or dropped.
WaitForCompleted(b) ==
  /\ replay[b] \in {"replaying", "paused", "recovered", "producing"}
  /\ Unlocked(b)
  /\ IF status[b].is = "Active"
     THEN do_end_session(b, "complete") /\ UNCHANGED <<status, replay, verdict>>
     ELSE /\ verdict' = [verdict EXCEPT ![b] = status[b].result]
          /\ status' = [status EXCEPT ![b] = Unavailable]
          /\ replay' = [replay EXCEPT ![b] = "ended"]
          /\ UNCHANGED <<ender, new_task, panicked>>
  /\ UNCHANGED <<machine, mode, listeners, poh, managerVars, results, threadVars, created,
                 history, resets>>

\* The cleaner triggers an expired listener: maybe_transition_from_active_to_stale.
TriggerTimeout(b) ==
  /\ b \in listeners
  /\ Unlocked(b)
  /\ listeners' = listeners \ {b}
  /\ IF status[b].is = "Active"
     THEN do_end_session(b, "timeout")
     ELSE UNCHANGED <<ender, new_task, panicked>>
  /\ UNCHANGED <<machine, mode, status, replay, verdict, poh, managerVars, results,
                 threadVars, created, history, resets>>

AllExited == Disconnected /\ \A h \in Handlers : handlers[h].place = "exited"

\* session_result_receiver.recv, then put_session_result_with_timings.
ReceiveResult ==
  /\ ender.step = "receive"
  /\ results # <<>>
  /\ results' = Tail(results)
  /\ session_result' = Head(results)
  /\ ender' = [ender EXCEPT !.step = IF Head(results) = "Err" THEN "join" ELSE "done"]
  /\ Panics(session_result # "none")
  /\ UNCHANGED <<machine, mode, bankVars, owner, joined, new_task, threadVars, created,
                 history, resets>>

\* ensure_join_threads_after_abort, with or without a result to receive.
JoinThreads ==
  /\ ender.step \in {"join", "join_then_receive"}
  /\ AllExited
  /\ joined' = TRUE
  /\ IF ender.step = "join"
     THEN /\ Panics(session_result # "Err")
          /\ UNCHANGED <<results, session_result>>
     ELSE /\ Panics(results = <<>> \/ session_result # "none" \/ Head(results) # "Err")
          /\ session_result' = IF results = <<>> THEN "Err" ELSE Head(results)
          /\ results' = IF results = <<>> THEN results ELSE Tail(results)
  /\ ender' = [ender EXCEPT !.step = "done"]
  /\ UNCHANGED <<machine, mode, bankVars, owner, new_task, threadVars, created, history,
                 resets>>

\* take_session_result_with_timings and return_to_pool, unless the session was
\* only paused or an error recovered; the lock is released.
FinishEnding ==
  /\ ender.step = "done"
  /\ ender' = NoEnder
  /\ LET b == ender.bank
     IN CASE ender.why = "pause" ->
               /\ replay' = [replay EXCEPT ![b] = "paused"]
               /\ UNCHANGED <<status, verdict, owner, session_result, panicked>>
          [] ender.why = "recover" ->
               /\ replay' = [replay EXCEPT ![b] = "recovered"]
               /\ Panics(session_result # "Err")
               /\ UNCHANGED <<status, verdict, owner, session_result>>
          [] OTHER ->
               /\ session_result' = "none"
               /\ Panics(session_result = "none")
               /\ owner' = IF joined THEN NotSpawned ELSE InPool
               /\ IF ender.why = "timeout"
                  THEN /\ status' = [status EXCEPT ![b] = Stale(session_result)]
                       /\ UNCHANGED <<replay, verdict>>
                  ELSE /\ status' = [status EXCEPT ![b] = Unavailable]
                       /\ verdict' = [verdict EXCEPT ![b] = session_result]
                       /\ replay' = [replay EXCEPT ![b] = "ended"]
  /\ UNCHANGED <<machine, mode, listeners, poh, joined, new_task, results, threadVars,
                 created, history, resets>>

---------------------------------------------------------------------------
(* Block production: the replay thread makes the bank PoH's working bank and
   unpauses the scheduler; PoH signals the end of the block without waiting. *)

SetBank(b) ==
  /\ replay[b] = "installed"
  /\ poh = NoBank
  /\ poh' = b
  /\ replay' = [replay EXCEPT ![b] = "set"]
  /\ UNCHANGED <<machine, mode, status, verdict, listeners, ender, managerVars, new_task,
                 results, threadVars, created, history, resets, panicked>>

\* unpause_new_block_production_scheduler.
Unpause(b) ==
  /\ replay[b] = "set"
  /\ Unlocked(b)
  /\ Send(Signal("Unpause"))
  /\ Panics(Disconnected)
  /\ replay' = [replay EXCEPT ![b] = "producing"]
  /\ UNCHANGED <<machine, mode, status, verdict, listeners, poh, ender, managerVars,
                 results, threadVars, created, history, resets>>

\* pause_for_recent_blockhash on PoH's thread, at the bank's last tick.
PohPauses(b) ==
  /\ poh = b
  /\ Unlocked(b)
  /\ poh' = NoBank
  /\ IF status[b].is = "Active" /\ session_result = "none"
     THEN Send(Signal("Close")) ELSE UNCHANGED new_task
  /\ UNCHANGED <<machine, mode, status, replay, verdict, listeners, ender, managerVars,
                 results, threadVars, created, history, resets, panicked>>

\* PoH is reset away from a bank that replay gave up.
PohResets(b) ==
  /\ poh = b
  /\ replay[b] = "ended" \/ ender.bank = b
  /\ poh' = NoBank
  /\ UNCHANGED <<machine, mode, status, replay, verdict, listeners, ender, managerVars,
                 new_task, results, threadVars, created, history, resets, panicked>>

\* A handler turns a packet into a task: create_new_task and send_new_task.
BufferPacket(x) ==
  /\ Production
  /\ x \notin created
  /\ \E h \in Handlers : handlers[h].place = "waiting"
  /\ Send(Payload(FirstTask(x)))
  /\ created' = created \union {x}
  /\ Panics(Disconnected)
  /\ UNCHANGED <<machine, mode, bankVars, ender, managerVars, results, threadVars, history,
                 resets>>

\* The cleaner discards the buffer of a pooled scheduler while the node is far
\* from being leader.
DiscardBuffer ==
  /\ Production
  /\ owner = InPool
  /\ resets < MaxResets
  /\ resets' = resets + 1
  /\ Send(Signal("Reset"))
  /\ Panics(Disconnected)
  /\ UNCHANGED <<machine, mode, bankVars, ender, managerVars, results, threadVars, created,
                 history>>

---------------------------------------------------------------------------
(* The scheduler thread in a session: one arm of select_biased per step.  The
   arms before an arm are looked at first, but a channel may fill meanwhile;
   only the dummy receiver of unblocked tasks never comes too late. *)

Channel(c) == [chain EXCEPT ![Len(chain)] = c]
Subchannel == chain[Len(chain)]
SendMain(t) == chain' = Channel([Subchannel EXCEPT !.main = Append(@, t)])
SendAux(t) == chain' = Channel([Subchannel EXCEPT !.aux = Append(@, t)])

\* Mutant: tasks are held back in an ending session of either mode.
MutantHoldsBack ==
  ~sched.ending /\ M!is_task_runnable /\ unblocked_task_queue # <<>>

can_receive_unblocked_task ==
  /\ unblocked_task_queue # <<>>
  /\ Production => ~sched.ending /\ M!is_task_runnable

\* Mutants: either mode only waits for the running tasks; production does not
\* wait for them.
MutantWaitsForRunning(ending, act, run) == ending /\ run = {}
MutantWaitsForNone(ending, act, run) == ending /\ (Verification => act = {})

can_finish_session(ending, act, run) ==
  ending /\ IF Verification THEN act = {} ELSE run = {}

\* The end of an iteration: is_finished.
Loop(s) ==
  sched' = [s EXCEPT !.place = IF can_finish_session(s.ending, active', running')
                               THEN "finished" ELSE "running"]

InSession == sched.place = "running" /\ sched.rebuffer = 0

\* abort_or_accumulate_result_with_timings and the loop after it.  In
\* production a block may be full by its size after any task.
Accumulate(t, outcome) ==
  CASE outcome = "Err" ->
         sched' = [sched EXCEPT !.place = "aborting", !.result = "Err"]
    [] outcome = "Full" ->
         sched' = [sched EXCEPT !.rebuffer = recreate_task(t), !.ending = TRUE]
    [] outcome = "Ok" /\ Production ->
         \E full \in BOOLEAN : Loop([sched EXCEPT !.ending = @ \/ full])
    [] OTHER -> Loop(sched)

Deschedule(c) ==
  /\ InSession
  /\ finished[c] # <<>>
  /\ M!deschedule_task(Head(finished[c]).task)
  /\ finished' = [finished EXCEPT ![c] = Tail(@)]
  /\ Accumulate(Head(finished[c]).task, Head(finished[c]).outcome)
  /\ UNCHANGED <<mode, bankVars, ender, managerVars, new_task, results, chain, handlers,
                 created, history, resets, panicked>>

FinishedBlocked == Deschedule("blocked")
FinishedIdle == ~can_receive_unblocked_task /\ Deschedule("idle")

\* Mutant: a task that did not fit into the block is not kept.
MutantForgets ==
  /\ sched.rebuffer # 0
  /\ UNCHANGED machine
  /\ Loop([sched EXCEPT !.rebuffer = 0])
  /\ UNCHANGED <<mode, bankVars, ender, managerVars, new_task, results, chain, handlers,
                 finished, created, history, resets, panicked>>

\* rebuffer_task_for_next_session, right after the task was descheduled.
Rebuffer ==
  /\ sched.rebuffer # 0
  /\ M!AcceptTask(sched.rebuffer, Locks[TxOf(sched.rebuffer)], TRUE)
  /\ Loop([sched EXCEPT !.rebuffer = 0])
  /\ UNCHANGED <<mode, bankVars, ender, managerVars, new_task, results, chain, handlers,
                 finished, created, history, resets, panicked>>

UnblockedTask ==
  /\ InSession
  /\ can_receive_unblocked_task
  /\ M!schedule_next_unblocked_task
  /\ SendMain(Head(unblocked_task_queue))
  /\ Loop(sched)
  /\ UNCHANGED <<mode, bankVars, ender, managerVars, new_task, results, handlers, finished,
                 created, history, resets, panicked>>

\* schedule_or_buffer_task; the cap of production may drop the task.
AddTask(t, force_buffering) ==
  /\ M!schedule_or_buffer_task(t, Locks[TxOf(t)], force_buffering)
  /\ discarded' = IF t \in active' THEN discarded ELSE discarded \union {TxOf(t)}
  /\ IF t \in running' THEN SendAux(t) ELSE UNCHANGED chain

Receive(type) ==
  /\ new_task # <<>>
  /\ Head(new_task).type = type
  /\ new_task' = Tail(new_task)

InSessionReceive(type) ==
  InSession /\ ~can_receive_unblocked_task /\ Receive(type)

NewTask ==
  /\ InSessionReceive("Payload")
  /\ AddTask(Head(new_task).task, sched.ending)
  /\ Loop(sched)
  /\ Panics(Verification /\ sched.ending)
  /\ UNCHANGED <<mode, bankVars, ender, managerVars, results, handlers, finished, created,
                 executed, resets>>

CloseSubchannel ==
  /\ InSessionReceive("Close")
  /\ UNCHANGED machine
  /\ Loop([sched EXCEPT !.ending = TRUE])
  /\ Panics(Verification /\ sched.ending)
  /\ UNCHANGED <<mode, bankVars, ender, managerVars, results, chain, handlers, finished,
                 created, history, resets>>

\* The end of a session: the result first, then reinitialize in verification.
SessionFinished ==
  /\ sched.place = "finished"
  /\ results' = Append(results, sched.result)
  /\ IF Verification /\ M!ReinitializeAsserts THEN M!reinitialize ELSE UNCHANGED machine
  /\ sched' = NewThread("between", "none")
  /\ Panics(Verification /\ ~M!ReinitializeAsserts)
  /\ UNCHANGED <<mode, bankVars, ender, managerVars, new_task, chain, handlers, finished,
                 created, history, resets>>

---------------------------------------------------------------------------
(* The scheduler thread between two sessions. *)

Between == sched.place = "between" /\ ~clearing

BufferTask ==
  /\ Between
  /\ Receive("Payload")
  /\ AddTask(Head(new_task).task, TRUE)
  /\ Panics(Verification)
  /\ UNCHANGED <<mode, bankVars, ender, managerVars, results, sched, handlers, finished,
                 created, executed, resets>>

\* send_chained_channel: every handler is sent the next subchannel once.
send_chained_channel(b) ==
  Append(Channel([Subchannel EXCEPT !.main =
                    @ \o [i \in 1 .. Cardinality(Handlers) |-> Chained]]),
         NewSubchannel(b))

OpenSubchannel ==
  /\ Between
  /\ Receive("Open")
  /\ chain' = send_chained_channel(Head(new_task).bank)
  /\ sched' = [sched EXCEPT !.place = IF Verification THEN "running" ELSE "between",
                            !.result = Head(new_task).result]
  /\ Panics(sched.result # "none")
  /\ UNCHANGED <<machine, mode, bankVars, ender, managerVars, results, handlers, finished,
                 created, history, resets>>

UnpauseOpenedSubchannel ==
  /\ Between
  /\ Receive("Unpause")
  /\ sched' = [sched EXCEPT !.place = "running"]
  /\ Panics(Verification \/ sched.result = "none")
  /\ UNCHANGED <<machine, mode, bankVars, ender, managerVars, results, chain, handlers,
                 finished, created, history, resets>>

\* The session ended by itself, or none was ever opened.
IgnoreClose ==
  /\ Between
  /\ Receive("Close")
  /\ Panics(Verification)
  /\ UNCHANGED <<machine, mode, bankVars, ender, managerVars, results, threadVars, created,
                 history, resets>>

\* clear_and_reinitialize with the tasks of the machine.
ResetBuffer ==
  /\ Between
  /\ Receive("Reset")
  /\ IF running = {} THEN M!BeginClear ELSE UNCHANGED machine
  /\ discarded' = discarded \union {TxOf(t) : t \in active}
  /\ Panics(Verification \/ running # {})
  /\ UNCHANGED <<mode, bankVars, ender, managerVars, results, threadVars, created, executed,
                 resets>>

Clear ==
  /\ clearing
  /\ M!ClearOne \/ M!reinitialize
  /\ UNCHANGED <<mode, bankVars, ender, managerVars, new_task, results, threadVars, created,
                 history, resets, panicked>>

---------------------------------------------------------------------------
(* The scheduler thread after an error: the result goes out before the
   receiver of new tasks is dropped. *)

Abort ==
  /\ sched.place = "aborting"
  /\ results' = Append(results, sched.result)
  /\ sched' = [sched EXCEPT !.place = "aborted"]
  /\ UNCHANGED <<machine, mode, bankVars, ender, managerVars, new_task, chain, handlers,
                 finished, created, history, resets, panicked>>

DropReceiver ==
  /\ sched.place = "aborted"
  /\ sched' = [sched EXCEPT !.place = "exited"]
  /\ new_task' = <<>>
  /\ UNCHANGED <<machine, mode, bankVars, ender, managerVars, results, chain, handlers,
                 finished, created, history, resets, panicked>>

---------------------------------------------------------------------------
(* The handler threads. *)

Waiting(h) == handlers[h].place = "waiting"
At(h) == chain[handlers[h].at]
Working(h, t, from) ==
  [handlers EXCEPT ![h].place = "working", ![h].task = t, ![h].from = from]

handlerKeeps == <<machine, mode, bankVars, ender, managerVars, new_task, results, sched,
                  created, discarded, resets, panicked>>

\* A task, or the next subchannel with its context (after_select).
TakeMain(h) ==
  /\ Waiting(h)
  /\ At(h).main # <<>>
  /\ chain' = [chain EXCEPT ![handlers[h].at].main = Tail(@)]
  /\ handlers' = IF Head(At(h).main) = Chained
                 THEN [handlers EXCEPT ![h].at = @ + 1]
                 ELSE Working(h, Head(At(h).main), "blocked")
  /\ UNCHANGED <<handlerKeeps, finished, executed>>

TakeAux(h) ==
  /\ Waiting(h)
  /\ At(h).aux # <<>>
  /\ chain' = [chain EXCEPT ![handlers[h].at].aux = Tail(@)]
  /\ handlers' = Working(h, Head(At(h).aux), "idle")
  /\ UNCHANGED <<handlerKeeps, finished, executed>>

\* What TaskHandler::handle may come to.  PoH records for its bank only; a
\* task out of attempts (a bound) is not refused again.
Outcomes(b, t) ==
  IF Verification
  THEN {"Ok", "Err"}
  ELSE {"Bad"} \union (IF poh = b THEN {"Ok"} ELSE {})
               \union (IF recreate_task(t) \in Tasks THEN {"Full"} ELSE {})

\* Execute, then send the task back; the thread ends if nobody receives it.
Execute(h) ==
  /\ handlers[h].place = "working"
  /\ LET t == handlers[h].task
         b == At(h).context
     IN \E outcome \in Outcomes(b, t) :
          /\ executed' = IF outcome = "Full" THEN executed
                         ELSE executed \union {<<TxOf(t), b, outcome>>}
          /\ IF Disconnected
             THEN /\ handlers' = [handlers EXCEPT ![h].place = "exited"]
                  /\ UNCHANGED finished
             ELSE /\ handlers' = [handlers EXCEPT ![h].place = "waiting", ![h].task = 0,
                                                  ![h].from = "none"]
                  /\ finished' = [finished EXCEPT ![handlers[h].from] =
                                    Append(@, [task |-> t, outcome |-> outcome])]
  /\ UNCHANGED <<handlerKeeps, chain>>

\* The scheduler thread is gone and its last messages are taken.
HandlerExits(h) ==
  /\ Waiting(h)
  /\ Disconnected
  /\ ~joined
  /\ At(h).main = <<>>
  /\ handlers' = [handlers EXCEPT ![h].place = "exited"]
  /\ UNCHANGED <<handlerKeeps, chain, finished, executed>>

---------------------------------------------------------------------------

Bank(b) ==
  \/ Install(b) \/ ScheduleActive(b) \/ SeeStale(b) \/ Resume(b) \/ ScheduleResumed(b)
  \/ RetrieveError(b) \/ PauseForLastTick(b) \/ WaitForCompleted(b) \/ TriggerTimeout(b)
  \/ SetBank(b) \/ Unpause(b) \/ PohPauses(b) \/ PohResets(b)

Ending == ReceiveResult \/ JoinThreads \/ FinishEnding

SchedulerThread ==
  \/ FinishedBlocked \/ UnblockedTask \/ NewTask \/ CloseSubchannel \/ FinishedIdle
  \/ Rebuffer \/ SessionFinished
  \/ BufferTask \/ OpenSubchannel \/ UnpauseOpenedSubchannel \/ IgnoreClose
  \/ ResetBuffer \/ Clear
  \/ Abort \/ DropReceiver

Handler(h) == TakeMain(h) \/ TakeAux(h) \/ Execute(h) \/ HandlerExits(h)

Next ==
  \/ \E b \in Banks : Bank(b)
  \/ Ending
  \/ \E x \in Packets : BufferPacket(x)
  \/ DiscardBuffer
  \/ SchedulerThread
  \/ \E h \in Handlers : Handler(h)

(* The operating system runs every thread that can run.  Nothing obliges a
   bank to be completed or PoH to reach its last tick. *)
Fairness ==
  /\ WF_vars(Ending)
  /\ WF_vars(SchedulerThread)
  /\ \A h \in Handlers : WF_vars(Handler(h))

Spec == Init /\ [][Next]_vars /\ Fairness

---------------------------------------------------------------------------
(* Properties *)

Positions(seq, x) == {i \in DOMAIN seq : seq[i] # Chained /\ TxOf(seq[i]) = x}
SentToHandlers(x) ==
  UNION {{<<c, "main", i>> : i \in Positions(chain[c].main, x)}
         \union {<<c, "aux", i>> : i \in Positions(chain[c].aux, x)} : c \in DOMAIN chain}
SentBack(x) ==
  {<<c, i>> \in {"blocked", "idle"} \X (1 .. Cardinality(Tasks)) :
     /\ i \in DOMAIN finished[c]
     /\ TxOf(finished[c][i].task) = x
     /\ finished[c][i].outcome = "Full"}

\* The places transaction x is at: on its way to the scheduler thread, in its
\* machine, with the handlers, on its way back and about to be buffered, or
\* done with.
Places(x) ==
  {<<"new", i>> : i \in {j \in DOMAIN new_task : new_task[j] = Payload(FirstTask(x))}}
  \union {<<"owned", t>> : t \in {u \in active \ running : TxOf(u) = x /\ ~clearing}}
  \union SentToHandlers(x)
  \union {<<"handler", h>> : h \in {g \in Handlers : TxOf(handlers[g].task) = x}}
  \union SentBack(x)
  \union {<<"rebuffer", t>> : t \in {u \in {sched.rebuffer} : TxOf(u) = x}}
  \union {<<"executed", e>> : e \in {f \in executed : f[1] = x}}
  \union {<<"discarded", y>> : y \in discarded \intersect {x}}

Aborting == sched.place \in {"aborting", "aborted", "exited"}

\* Every transaction sent to the scheduler is at one place until it is executed,
\* and only once: a task refused by a full block, or arriving between two
\* sessions, is kept for the next one.  Only Reset and the cap drop tasks.
NoTaskIsLost ==
  \A x \in created :
    Production \/ (owner = BlockOf[x] /\ ~Aborting) => Cardinality(Places(x)) = 1

\* A handler runs a task for the bank that has the scheduler, in verification
\* the one whose block holds the transaction.  Nothing is executed in a bank
\* once its session has ended, also if it was aborted: a frozen bank is not
\* written, and no handler is left behind in the context of an earlier bank.
RunsInItsSession ==
  \A h \in Handlers :
    handlers[h].place = "working" =>
      /\ At(h).context = owner
      /\ Verification => BlockOf[TxOf(handlers[h].task)] = owner

\* What a bank learns of its session, on completion or in between: it is an
\* error iff one of its transactions failed, across timeouts, resumptions and
\* pauses ("any transaction errors are always handled without loss of
\* information"), and Ok only if all it scheduled were executed.
VerdictIsRight ==
  Verification => \A b \in Banks : \A r \in {verdict[b], status[b].result} :
    /\ r = "Ok" => \A x \in created : BlockOf[x] = b => <<x, b, "Ok">> \in executed
    /\ r = "Err" => \E x \in created : <<x, b, "Err">> \in executed

\* No assert, unwrap, expect or unreachable arm of the scheduler thread, of the
\* thread manager and of the bank's SchedulerStatus is hit.
ThreadsNeverPanic ==
  /\ ~panicked
  /\ InSession /\ new_task # <<>> => Head(new_task).type \in {"Payload", "Close"}
  /\ \A b \in Banks : replay[b] = "resuming" /\ Unlocked(b) => status[b].is = "Stale"

\* Whoever holds a bank's lock to end a session comes to its end: neither the
\* scheduler thread, nor a handler, nor the thread joining them waits forever.
SessionsEnd == ender # NoEnder ~> ender = NoEnder
============================================================================
