------------------------------- MODULE Timers -------------------------------
(* votor's timers (votor/src/timer_manager.rs, timer_manager/timers.rs): the
   event loop sets a timer for the window of a slot, a thread of its own sleeps
   until the earliest deadline and sends the timeouts that are due.  Both work
   on the timers under one lock: an iteration of progress is one step, and
   set_timeouts waits while progress runs.  Time is a number of ticks. *)
EXTENDS LeaderWindows

CONSTANTS DELTA_TIMEOUT, DELTA_BLOCK,
          IDLE,            \* how long the thread sleeps when no timer runs
          TimerSlots,      \* the slots whose parent becomes ready
          MaxTime,         \* bound: the clock stops here
          MaxIdentities    \* bound: so many changes of identity

\* The sleep of the thread is never longer than a new timer takes to expire.
ASSUME DeltasFit ==
  /\ DELTA_TIMEOUT \in Nat /\ DELTA_BLOCK \in Nat \ {0} /\ IDLE \in Nat
  /\ DELTA_BLOCK <= DELTA_TIMEOUT /\ IDLE <= DELTA_TIMEOUT
ASSUME TimerSlotsAreSlots == TimerSlots \subseteq Slots
ASSUME TimerBounds == MaxTime \in Nat /\ MaxIdentities \in Nat

VARIABLES now,         \* Instant::now()
          timers,      \* HashMap<Slot, TimerState>
          heap,        \* BinaryHeap<(Instant, Slot)>, the earliest first
          thread,      \* the timer thread: its place, progress's now and result
          wake,        \* when the sleeping thread wakes up
          ready,       \* slots in vote_history.parent_ready_slots
          identities,  \* changes of identity so far
          punctual,    \* whether the thread runs as soon as it can
          sent         \* per timer: when it was set, its events and their times

vars == <<now, timers, heap, thread, wake, ready, identities, punctual, sent>>

Never == -1
NeverSet == [at |-> Never, events |-> <<>>]
NoTimer == [stage |-> "None", front |-> 0, back |-> 0, timeout |-> 0]

\* The window is the slots from front to back.
new(slot) ==
  [stage |-> "WaitDeltaTimeout", front |-> slot, back |-> last_of_consecutive_leader_slots(slot),
   timeout |-> now + DELTA_TIMEOUT]

EventOf(T) == IF T.stage = "WaitDeltaTimeout" THEN <<"TimeoutCrashedLeader", T.front>>
                                              ELSE <<"Timeout", T.front>>

\* A timer that is due, after its event; NoTimer when it is done.
MutantKeepsPace(T, at) ==
  IF T.stage = "WaitDeltaTimeout"
  THEN [T EXCEPT !.stage = "WaitDeltaBlock", !.timeout = T.timeout + DELTA_BLOCK]
  ELSE IF T.front = T.back THEN NoTimer
                          ELSE [T EXCEPT !.front = @ + 1, !.timeout = T.timeout + DELTA_BLOCK]
TimerProgress(T, at) ==
  IF T.stage = "WaitDeltaTimeout"
  THEN [T EXCEPT !.stage = "WaitDeltaBlock", !.timeout = at + DELTA_BLOCK]
  ELSE IF T.front = T.back THEN NoTimer
                          ELSE [T EXCEPT !.front = @ + 1, !.timeout = at + DELTA_BLOCK]

\* S, what a timer sent, with the event it sends at the time at.
WithEvent(S, T, at) == [S EXCEPT !.events = Append(@, [event |-> EventOf(T), at |-> at])]

Running == {s \in TimerSlots : timers[s].stage # "None"}

Init ==
  /\ now = 0
  /\ timers = [s \in TimerSlots |-> NoTimer]
  /\ heap = {}
  /\ thread = [place |-> "progress", at |-> 0, ret |-> Never]
  /\ wake = 0
  /\ ready = {}
  /\ identities = 0
  /\ punctual \in BOOLEAN
  /\ sent = [s \in TimerSlots |-> NeverSet]

---------------------------------------------------------------------------
(* The event loop *)

\* The first ready parent of the slot sets its timer; one that runs already stays.
MutantPushesAlways(slot) ==
  /\ heap' = heap \union {<<new(slot).timeout, slot>>}
  /\ IF slot \in Running
     THEN UNCHANGED <<timers, sent>>
     ELSE /\ timers' = [timers EXCEPT ![slot] = new(slot)]
          /\ sent' = [sent EXCEPT ![slot] = [at |-> now, events |-> <<>>]]
set_timeouts(slot) ==
  IF slot \in Running
  THEN UNCHANGED <<timers, heap, sent>>
  ELSE /\ timers' = [timers EXCEPT ![slot] = new(slot)]
       /\ heap' = heap \union {<<new(slot).timeout, slot>>}
       /\ sent' = [sent EXCEPT ![slot] = [at |-> now, events |-> <<>>]]

ParentReady(slot) ==
  /\ slot \notin ready
  /\ thread.place # "looping"
  /\ ready' = ready \union {slot}
  /\ set_timeouts(slot)
  /\ UNCHANGED <<now, thread, wake, identities, punctual>>

\* Another identity's vote history is loaded: it knows fewer ready parents.
SetIdentity ==
  /\ identities < MaxIdentities
  /\ identities' = identities + 1
  /\ ready' \in SUBSET ready
  /\ UNCHANGED <<now, timers, heap, thread, wake, punctual, sent>>

---------------------------------------------------------------------------
(* The timer thread *)

Earliest(e) == e \in heap /\ \A o \in heap : e[1] < o[1] \/ (e[1] = o[1] /\ e[2] <= o[2])

MutantKeepsFirst(ret, next) == IF ret = Never THEN next ELSE ret
Sooner(ret, next) == IF ret = Never \/ next < ret THEN next ELSE ret

\* progress takes the lock and reads the clock.
StartProgress ==
  /\ thread.place = "progress"
  /\ thread' = [place |-> "looping", at |-> now, ret |-> Never]
  /\ UNCHANGED <<now, timers, heap, wake, ready, identities, punctual, sent>>

\* The earliest deadline has passed: the timer sends its event.
Fire(e) ==
  LET slot == e[2]
      T == TimerProgress(timers[slot], thread.at)
      left == heap \ {e}
  IN /\ thread.place = "looping"
     /\ Earliest(e)
     /\ e[1] <= thread.at
     /\ timers' = [timers EXCEPT ![slot] = T]
     /\ sent' = [sent EXCEPT ![slot] = WithEvent(@, timers[slot], thread.at)]
     /\ IF T.stage = "None"
        THEN heap' = left /\ UNCHANGED thread
        ELSE /\ heap' = left \union {<<T.timeout, slot>>}
             /\ thread' = [thread EXCEPT !.ret = Sooner(@, T.timeout)]
     /\ UNCHANGED <<now, wake, ready, identities, punctual>>

\* Nothing is due: progress returns the next deadline, if any, and unlocks.
EndProgress ==
  /\ thread.place = "looping"
  /\ \A e \in heap : thread.at < e[1]
  /\ \/ heap = {} /\ thread' = [thread EXCEPT !.place = "computed"]
     \/ \E e \in heap : /\ Earliest(e)
                        /\ thread' = [thread EXCEPT !.place = "computed", !.ret = Sooner(@, e[1])]
  /\ UNCHANGED <<now, timers, heap, wake, ready, identities, punctual, sent>>

\* The sleep starts later than progress ended, and is not negative.
Sleep ==
  /\ thread.place = "computed"
  /\ wake' = IF thread.ret = Never THEN now + IDLE
             ELSE IF thread.ret < now THEN now ELSE thread.ret
  /\ thread' = [place |-> "sleeping", at |-> 0, ret |-> Never]
  /\ UNCHANGED <<now, timers, heap, ready, identities, punctual, sent>>

Wake ==
  /\ thread.place = "sleeping"
  /\ wake <= now
  /\ thread' = [thread EXCEPT !.place = "progress"]
  /\ wake' = 0
  /\ UNCHANGED <<now, timers, heap, ready, identities, punctual, sent>>

\* Time passes: for a punctual thread only while it sleeps and need not wake.
Tick ==
  /\ now < MaxTime
  /\ punctual => thread.place = "sleeping" /\ now < wake
  /\ now' = now + 1
  /\ UNCHANGED <<timers, heap, thread, wake, ready, identities, punctual, sent>>

Next ==
  \/ \E slot \in TimerSlots : ParentReady(slot)
  \/ SetIdentity
  \/ StartProgress
  \/ \E e \in heap : Fire(e)
  \/ EndProgress
  \/ Sleep
  \/ Wake
  \/ Tick

Spec == Init /\ [][Next]_vars

---------------------------------------------------------------------------
(* Properties *)

\* The asserts and unwraps of set_timeouts and progress: in every state the heap
\* has exactly one entry per running timer, and it is the timer's deadline.
HeapMatchesTimers == heap = {<<timers[s].timeout, s>> : s \in Running}

\* The earliest time for event i of a timer that sent S.
Deadline(S, i) == IF i = 1 THEN S.at + DELTA_TIMEOUT ELSE S.events[i - 1].at + DELTA_BLOCK

\* However late the thread wakes up, the events of a timer are those of its window,
\* each once and in order, and every leader has its full time: none is sent earlier
\* than DELTA_TIMEOUT after the timer was set or DELTA_BLOCK after the one before.
\* The timer is gone exactly when all are sent.
WindowRunsDown ==
  \A s \in TimerSlots : sent[s].at # Never =>
    LET n == Len(sent[s].events)
    IN /\ n <= Len(Timer(s))
       /\ (n = Len(Timer(s))) <=> (s \notin Running)
       /\ \A i \in 1..n : /\ sent[s].events[i].event = Timer(s)[i]
                          /\ sent[s].events[i].at >= Deadline(sent[s], i)

\* When the thread is punctual no timeout is late, also for a timer that is set
\* while the thread sleeps until another deadline or for the idle time.
OnTime ==
  punctual => \A s \in TimerSlots :
    /\ s \in Running => timers[s].timeout >= now
    /\ \A i \in 1..Len(sent[s].events) : sent[s].events[i].at = Deadline(sent[s], i)
=============================================================================
