---------------------------- MODULE TimersProofs ----------------------------
(* That the timers keep heap and map in step, run every window down in order,
   and are on time when their thread is, for every set of slots and every
   choice of the delays that DeltasFit allows.

   The argument for being on time: the thread sleeps until the earliest
   deadline it saw, or for IDLE.  Whatever it saw was at most DELTA_TIMEOUT
   away (a new timer's delay; DELTA_BLOCK, the delay between events, is no
   longer), so a timer set while the thread sleeps expires after it wakes. *)
EXTENDS Timers, TLAPS

Stages == {"None", "WaitDeltaTimeout", "WaitDeltaBlock"}
Places == {"progress", "looping", "computed", "sleeping"}
TimerEvents == {"TimeoutCrashedLeader", "Timeout"} \X Int

TimerStates == [stage : Stages, front : Int, back : Int, timeout : Nat]
SentEvents == [event : TimerEvents, at : Nat]
SentRecords == [at : Nat \union {Never}, events : Seq(SentEvents)]

TypeOK ==
  /\ now \in Nat
  /\ timers \in [TimerSlots -> TimerStates]
  /\ heap \subseteq Nat \X TimerSlots
  /\ thread \in [place : Places, at : Nat, ret : Nat \union {Never}]
  /\ wake \in Nat
  /\ punctual \in BOOLEAN
  /\ sent \in [TimerSlots -> SentRecords]

HeapInv ==
  \A t \in Nat, s \in TimerSlots : <<t, s>> \in heap <=> s \in Running /\ t = timers[s].timeout

\* How far the timer T of slot s is, by what it sent.
Stage(s, T, S) ==
  LET n == Len(S.events)
  IN /\ S.at = Never => T.stage = "None" /\ n = 0
     /\ T.stage # "None" => T.back = last_of_consecutive_leader_slots(s)
     /\ T.stage = "WaitDeltaTimeout" => n = 0 /\ T.front = s /\ T.timeout = S.at + DELTA_TIMEOUT
     /\ T.stage = "WaitDeltaBlock" =>
          /\ T.front \in s..T.back /\ n = T.front - s + 1
          /\ T.timeout = S.events[n].at + DELTA_BLOCK
     /\ T.stage = "None" /\ S.at # Never => n = last_of_consecutive_leader_slots(s) - s + 2

\* What the timer of slot s sent is right, and on time if exact.
SentRight(s, S, exact) ==
  \A i \in 1..Len(S.events) :
    /\ S.events[i].event = Timer(s)[i]
    /\ S.events[i].at >= Deadline(S, i)
    /\ exact => S.events[i].at = Deadline(S, i)

WindowInv == \A s \in TimerSlots : Stage(s, timers[s], sent[s]) /\ SentRight(s, sent[s], punctual)

\* What a punctual thread knows of the deadlines in each of its places.
PunctualInv ==
  punctual =>
    /\ \A s \in Running : timers[s].timeout >= now
    /\ thread.place \in {"looping", "computed"} =>
         /\ thread.at = now
         /\ thread.ret # Never => thread.ret <= now + DELTA_TIMEOUT
    /\ thread.place = "computed" =>
         \A s \in Running : IF thread.ret = Never THEN timers[s].timeout >= now + IDLE
                                                  ELSE timers[s].timeout >= thread.ret
    /\ thread.place = "sleeping" =>
         /\ now <= wake /\ wake <= now + DELTA_TIMEOUT
         /\ \A s \in Running : timers[s].timeout >= wake

ClockInv ==
  /\ thread.at <= now
  /\ \A s \in Running : timers[s].timeout <= now + DELTA_TIMEOUT

TimersInv ==
  /\ TypeOK
  /\ HeapInv
  /\ ClockInv
  /\ WindowInv
  /\ PunctualInv

\* A leader's window ends at or after each of its slots.
LEMMA WindowEnds ==
  ASSUME NEW s \in TimerSlots
  PROVE  /\ s \in Nat
         /\ last_of_consecutive_leader_slots(s) \in Int
         /\ last_of_consecutive_leader_slots(s) >= s
<1>1. s \in Nat /\ Window \in Nat \ {0}
  BY TimerSlotsAreSlots, WindowsFit DEF Slots
<1>2. s % Window \in 0..Window - 1
  BY <1>1
<1> QED
  BY <1>1, <1>2 DEF last_of_consecutive_leader_slots

\* The sequence of a timer's events, element by element.
LEMMA TimerElements ==
  ASSUME NEW s \in TimerSlots
  PROVE  /\ Len(Timer(s)) = last_of_consecutive_leader_slots(s) - s + 2
         /\ Timer(s)[1] = <<"TimeoutCrashedLeader", s>>
         /\ \A i \in 2..Len(Timer(s)) : Timer(s)[i] = <<"Timeout", s + i - 2>>
<1> DEFINE m == last_of_consecutive_leader_slots(s) - s + 1
           f == << <<"TimeoutCrashedLeader", s>> >>
           g == [i \in 1..m |-> <<"Timeout", s + i - 1>>]
<1>1. s \in Nat /\ m \in Nat
  BY WindowEnds
<1>2. f \in Seq(TimerEvents) /\ Len(f) = 1 /\ f[1] = <<"TimeoutCrashedLeader", s>>
  BY <1>1 DEF TimerEvents
<1> HIDE DEF m
<1>3. g \in Seq(TimerEvents) /\ Len(g) = m /\ \A i \in 1..m : g[i] = <<"Timeout", s + i - 1>>
  BY <1>1 DEF TimerEvents
<1>4. Timer(s) = f \o g
  BY DEF Timer, m
<1> HIDE DEF f, g
<1>5. Len(f \o g) = m + 1 /\ (f \o g)[1] = f[1] /\ \A i \in 2..m + 1 : (f \o g)[i] = g[i - 1]
  <2>1. /\ Len(f \o g) = Len(f) + Len(g)
        /\ \A i \in 1..Len(f) + Len(g) :
             (f \o g)[i] = IF i <= Len(f) THEN f[i] ELSE g[i - Len(f)]
    <3>1. f \in Seq(TimerEvents) /\ g \in Seq(TimerEvents)
      BY SMTT(20), <1>2, <1>3
    <3> QED
      BY <3>1
  <2>2. /\ Len(f \o g) = m + 1
        /\ \A i \in 1..m + 1 : (f \o g)[i] = IF i <= 1 THEN f[i] ELSE g[i - 1]
    <3>1. Len(f) = 1 /\ Len(g) = m /\ Len(f) + Len(g) = m + 1
      BY <1>1, <1>2, <1>3
    <3> QED
      BY <2>1, <3>1
  <2> QED
    BY <2>2, <1>1
<1>6. \A i \in 2..m + 1 : (f \o g)[i] = <<"Timeout", s + i - 2>>
  <2> SUFFICES ASSUME NEW i \in 2..m + 1
               PROVE  (f \o g)[i] = <<"Timeout", s + i - 2>>
    BY Zenon
  <2>1. i - 1 \in 1..m /\ s + (i - 1) - 1 = s + i - 2
    BY <1>1
  <2> QED
    BY <2>1, <1>3, <1>5
<1>7. m + 1 = last_of_consecutive_leader_slots(s) - s + 2
  BY WindowEnds DEF m
<1> QED
  BY Zenon, <1>2, <1>4, <1>5, <1>6, <1>7

\* A due timer sends the next event of its window, at the time it is due or later.
LEMMA NextEvent ==
  ASSUME NEW s \in TimerSlots, NEW O \in TimerStates, NEW S \in SentRecords, NEW at \in Nat,
         NEW exact \in BOOLEAN, Stage(s, O, S), SentRight(s, S, exact),
         O.stage # "None", O.timeout <= at, exact => O.timeout = at
  PROVE  /\ TimerProgress(O, at) \in TimerStates
         /\ TimerProgress(O, at).stage # "None" => TimerProgress(O, at).timeout = at + DELTA_BLOCK
         /\ WithEvent(S, O, at) \in SentRecords
         /\ Stage(s, TimerProgress(O, at), WithEvent(S, O, at))
         /\ SentRight(s, WithEvent(S, O, at), exact)
<1> DEFINE n == Len(S.events)
           ev == [event |-> EventOf(O), at |-> at]
           N == Append(S.events, ev)
           T == TimerProgress(O, at)
           W == WithEvent(S, O, at)
<1>1. /\ S.events \in Seq(SentEvents) /\ n \in Nat /\ ev \in SentEvents
      /\ O.stage \in {"WaitDeltaTimeout", "WaitDeltaBlock"} /\ O.timeout \in Nat
      /\ O.front \in Int /\ O.back \in Int /\ S.at # Never /\ S.at \in Nat
  BY DEF SentRecords, TimerStates, Stages, SentEvents, TimerEvents, EventOf, Stage
<1>2. /\ N \in Seq(SentEvents) /\ Len(N) = n + 1 /\ N[n + 1] = ev
      /\ \A i \in 1..n : N[i] = S.events[i]
  BY <1>1
<1>3. W = [at |-> S.at, events |-> N]
  BY SMTT(20) DEF WithEvent, SentRecords
<1>4. \A i \in 1..n + 1 : Deadline(W, i) = Deadline(S, i)
  <2> TAKE i \in 1..n + 1
  <2>1. i = 1 \/ i - 1 \in 1..n
    BY <1>1
  <2>2. W.at = S.at /\ W.events = N
    BY <1>3
  <2> QED
    BY <2>1, <2>2, <1>2 DEF Deadline
<1>5. s \in Nat /\ last_of_consecutive_leader_slots(s) \in Int /\ last_of_consecutive_leader_slots(s) >= s
  BY WindowEnds
<1>6. n + 1 \in 1..Len(Timer(s)) /\ EventOf(O) = Timer(s)[n + 1] /\ O.timeout = Deadline(S, n + 1)
  <2>1. CASE O.stage = "WaitDeltaTimeout"
    <3>1. n = 0 /\ O.front = s /\ O.timeout = S.at + DELTA_TIMEOUT
      BY <2>1 DEF Stage
    <3> QED
      BY <2>1, <3>1, <1>5, TimerElements DEF EventOf, Deadline
  <2>2. CASE O.stage = "WaitDeltaBlock"
    <3>1. /\ n = O.front - s + 1 /\ O.front \in s..O.back /\ O.timeout = S.events[n].at + DELTA_BLOCK
          /\ O.back = last_of_consecutive_leader_slots(s)
      BY <2>2 DEF Stage
    <3>2. n + 1 # 1 /\ (n + 1) - 1 = n /\ n + 1 \in 2..Len(Timer(s)) /\ s + (n + 1) - 2 = O.front
      <4>1. Len(Timer(s)) = O.back - s + 2
        BY <3>1, TimerElements
      <4>2. \A f \in s..O.back : f - s + 1 >= 1 /\ (f - s + 1) + 1 \in 2..O.back - s + 2 /\ s + ((f - s + 1) + 1) - 2 = f
        BY <1>1, <1>5
      <4> HIDE DEF n
      <4>3. n >= 1 /\ n + 1 \in 2..O.back - s + 2 /\ s + (n + 1) - 2 = O.front
        BY <3>1, <4>2
      <4> QED
        BY <4>1, <4>3, <1>1
    <3>3. EventOf(O) = Timer(s)[n + 1]
      BY <2>2, <3>2, TimerElements DEF EventOf
    <3>4. O.timeout = Deadline(S, n + 1)
      BY <3>1, <3>2 DEF Deadline
    <3>5. n + 1 \in 1..Len(Timer(s))
      BY <3>2
    <3> QED
      BY <3>3, <3>4, <3>5
  <2> QED
    BY <1>1, <2>1, <2>2
<1>7. SentRight(s, W, exact)
  <2>1. W.events = N /\ Len(W.events) = n + 1
    BY <1>2, <1>3
  <2> SUFFICES ASSUME NEW i \in 1..n + 1
               PROVE  /\ N[i].event = Timer(s)[i]
                      /\ N[i].at >= Deadline(S, i)
                      /\ exact => N[i].at = Deadline(S, i)
    BY <2>1, <1>4 DEF SentRight
  <2>2. CASE i = n + 1
    <3>1. N[i].event = EventOf(O) /\ N[i].at = at
      BY <2>2, <1>2
    <3> QED
      BY <2>2, <3>1, <1>6
  <2>3. CASE i # n + 1
    <3>1. i \in 1..n
      BY <2>3, <1>1
    <3> QED
      BY <3>1, <1>2 DEF SentRight
  <2> QED
    BY <2>2, <2>3
<1>8. at + DELTA_BLOCK \in Nat
  BY DeltasFit
<1>9. W.at = S.at /\ W.events = N /\ Len(W.events) = n + 1 /\ W.events[n + 1].at = at /\ W \in SentRecords
  BY <1>1, <1>2, <1>3 DEF SentRecords
<1> HIDE DEF n, W, N, ev
<1>10. CASE O.stage = "WaitDeltaTimeout"
  <2>1. T = [O EXCEPT !.stage = "WaitDeltaBlock", !.timeout = at + DELTA_BLOCK]
    BY <1>10 DEF TimerProgress
  <2> HIDE DEF T
  <2>2. /\ T \in TimerStates /\ T.stage = "WaitDeltaBlock" /\ T.front = O.front /\ T.back = O.back
        /\ T.timeout = at + DELTA_BLOCK
    BY Zenon, <2>1, <1>8 DEF TimerStates, Stages
  <2>3. n = 0 /\ O.front = s /\ O.back = last_of_consecutive_leader_slots(s)
    BY <1>10 DEF Stage, n
  <2>4. Stage(s, T, W)
    BY <2>2, <2>3, <1>1, <1>5, <1>9 DEF Stage
  <2> QED
    BY <2>2, <2>4, <1>7, <1>9 DEF T, W
<1>11. CASE O.stage = "WaitDeltaBlock" /\ O.front = O.back
  <2>1. T = NoTimer
    BY <1>11 DEF TimerProgress
  <2> HIDE DEF T
  <2>2. T \in TimerStates /\ T.stage = "None"
    BY <2>1 DEF NoTimer, TimerStates, Stages
  <2>3. n = O.front - s + 1 /\ O.back = last_of_consecutive_leader_slots(s)
    BY <1>11 DEF Stage, n
  <2>4. n + 1 = last_of_consecutive_leader_slots(s) - s + 2
    BY <2>3, <1>1, <1>5, <1>11
  <2>5. Stage(s, T, W)
    BY <2>2, <2>4, <1>1, <1>9 DEF Stage
  <2> QED
    BY <2>2, <2>5, <1>7, <1>9 DEF T, W
<1>12. CASE O.stage = "WaitDeltaBlock" /\ O.front # O.back
  <2>1. T = [O EXCEPT !.front = @ + 1, !.timeout = at + DELTA_BLOCK]
    BY <1>12 DEF TimerProgress
  <2> HIDE DEF T
  <2>2. /\ T \in TimerStates /\ T.stage = "WaitDeltaBlock" /\ T.front = O.front + 1 /\ T.back = O.back
        /\ T.timeout = at + DELTA_BLOCK
    <3>1. O.front + 1 \in Int
      BY <1>1
    <3> QED
      BY Zenon, <2>1, <3>1, <1>8, <1>12 DEF TimerStates
  <2>3. n = O.front - s + 1 /\ O.front \in s..O.back /\ O.back = last_of_consecutive_leader_slots(s)
    BY <1>12 DEF Stage, n
  <2>4. T.front \in s..T.back /\ n + 1 = T.front - s + 1
    BY SMTT(20), <2>2, <2>3, <1>1, <1>5, <1>12
  <2>5. Stage(s, T, W)
    BY <2>2, <2>3, <2>4, <1>1, <1>9 DEF Stage
  <2> QED
    BY <2>2, <2>5, <1>7, <1>9 DEF T, W
<1> QED
  BY <1>1, <1>10, <1>11, <1>12

\* The thread starts with no timers.
LEMMA TimersInvInit == Init => TimersInv
<1> SUFFICES ASSUME Init PROVE TimersInv
  OBVIOUS
<1>1. TypeOK
  <2>1. NoTimer \in TimerStates /\ NeverSet \in SentRecords
    BY DEF NoTimer, NeverSet, TimerStates, Stages, SentRecords
  <2> QED
    BY <2>1 DEF Init, TypeOK, Places
<1>2. Running = {}
  BY DEF Init, Running, NoTimer
<1>3. HeapInv /\ ClockInv /\ PunctualInv
  BY <1>2 DEF Init, HeapInv, ClockInv, PunctualInv
<1>4. WindowInv
  BY DEF Init, WindowInv, Stage, SentRight, NoTimer, NeverSet
<1> QED
  BY <1>1, <1>3, <1>4 DEF TimersInv

\* A step that touches neither timers, heap nor events, and does not turn back
\* the clock, can disturb only what the thread knows.
LEMMA TimersKept ==
  ASSUME TimersInv, UNCHANGED <<timers, heap, sent, punctual>>, now' \in Nat, now' >= now
  PROVE  /\ HeapInv' /\ WindowInv' /\ Running' = Running
         /\ \A s \in Running : timers'[s].timeout <= now' + DELTA_TIMEOUT
<1>1. Running' = Running
  BY DEF Running
<1>2. HeapInv'
  BY Zenon, <1>1 DEF TimersInv, HeapInv
<1>3. WindowInv'
  BY DEF TimersInv, WindowInv
<1>4. ASSUME NEW s \in Running PROVE timers'[s].timeout <= now' + DELTA_TIMEOUT
  <2>1. now \in Nat /\ timers[s].timeout \in Nat /\ timers[s].timeout <= now + DELTA_TIMEOUT
    BY DEF TimersInv, TypeOK, ClockInv, Running, TimerStates
  <2> QED
    BY <2>1, DeltasFit
<1> QED
  BY <1>1, <1>2, <1>3, <1>4

\* The thread's own steps but Fire, and the clock.
LEMMA ThreadKeeps ==
  ASSUME TimersInv,
         SetIdentity \/ StartProgress \/ EndProgress \/ Sleep \/ Wake \/ Tick
  PROVE  TimersInv'
<1>0. TypeOK /\ HeapInv /\ ClockInv /\ PunctualInv
  BY DEF TimersInv
<1>1. UNCHANGED <<timers, heap, sent, punctual>> /\ now' \in Nat /\ now' >= now
  <2>1. UNCHANGED <<timers, heap, sent, punctual>> /\ (now' = now \/ now' = now + 1)
    BY Zenon DEF SetIdentity, StartProgress, EndProgress, Sleep, Wake, Tick
  <2>2. now \in Nat
    BY <1>0 DEF TypeOK
  <2> QED
    BY <2>1, <2>2
<1>2. /\ HeapInv' /\ WindowInv' /\ Running' = Running
      /\ \A s \in Running : timers'[s].timeout <= now' + DELTA_TIMEOUT
  BY <1>1, TimersKept
<1>3. ASSUME NEW s \in Running
      PROVE  /\ s \in TimerSlots /\ timers[s].timeout \in Nat
             /\ <<timers[s].timeout, s>> \in heap
             /\ timers[s].timeout <= now + DELTA_TIMEOUT
  <2>1. s \in TimerSlots /\ timers[s].timeout \in Nat
    BY <1>0 DEF Running, TypeOK, TimerStates
  <2> QED
    BY <2>1, <1>0 DEF HeapInv, ClockInv
<1>4. ASSUME NEW e \in heap
      PROVE  e[2] \in Running /\ e[1] = timers[e[2]].timeout /\ e[1] \in Nat
  BY <1>0 DEF HeapInv, TypeOK
<1>5. CASE SetIdentity
  <2>1. TypeOK' /\ ClockInv' /\ PunctualInv'
    BY <1>0, <1>2, <1>5 DEF SetIdentity, TypeOK, ClockInv, PunctualInv
  <2> QED
    BY <2>1, <1>2 DEF TimersInv
<1>6. CASE StartProgress
  <2>1. /\ thread' = [place |-> "looping", at |-> now, ret |-> Never]
        /\ UNCHANGED <<now, wake>> /\ now \in Nat
    BY <1>0, <1>6 DEF StartProgress, TypeOK
  <2>2. TypeOK'
    BY <1>0, <1>1, <2>1 DEF TypeOK, Places
  <2>3. ClockInv' /\ PunctualInv'
    BY SMTT(20), <1>0, <1>1, <1>2, <2>1 DEF ClockInv, PunctualInv
  <2> QED
    BY <2>2, <2>3, <1>2 DEF TimersInv
<1>7. CASE EndProgress
  <2>1. CASE heap = {} /\ thread' = [thread EXCEPT !.place = "computed"]
    <3>1. Running = {}
      BY <1>3, <2>1
    <3>2. thread' = [place |-> "computed", at |-> thread.at, ret |-> thread.ret]
      BY <1>0, <2>1 DEF TypeOK
    <3>3. TypeOK' /\ ClockInv'
      BY Zenon, <3>2, <1>0, <1>2, <1>7 DEF EndProgress, TypeOK, ClockInv, Places
    <3>4. PunctualInv'
      BY Zenon, <3>1, <3>2, <1>0, <1>2, <1>7 DEF EndProgress, PunctualInv
    <3> QED
      BY <3>3, <3>4, <1>2 DEF TimersInv
  <2>2. CASE \E e \in heap : /\ Earliest(e)
                             /\ thread' = [thread EXCEPT !.place = "computed", !.ret = Sooner(@, e[1])]
    <3>1. PICK e \in heap : /\ Earliest(e)
                            /\ thread' = [thread EXCEPT !.place = "computed", !.ret = Sooner(@, e[1])]
      BY Zenon, <2>2
    <3> DEFINE r == Sooner(thread.ret, e[1])
    <3>2. e[1] \in Nat /\ e[1] <= now + DELTA_TIMEOUT
      BY Zenon, <1>3, <1>4
    <3>3. thread.ret \in Nat \union {Never} /\ thread.place = "looping" /\ now \in Nat
      BY Zenon, <1>0, <1>7 DEF TypeOK, EndProgress
    <3>4. r \in Nat /\ r # Never /\ r <= e[1] /\ r <= now + DELTA_TIMEOUT
      BY <3>2, <3>3, DeltasFit DEF Sooner, Never
    <3>5. ASSUME NEW s \in Running PROVE timers[s].timeout >= r
      <4>1. <<timers[s].timeout, s>> \in heap /\ timers[s].timeout \in Nat
        BY <1>3
      <4>2. e[1] < timers[s].timeout \/ e[1] = timers[s].timeout
        BY <4>1, <3>1 DEF Earliest
      <4> QED
        BY <4>1, <4>2, <3>4, <3>2
    <3>6. thread' = [place |-> "computed", at |-> thread.at, ret |-> r]
      BY Zenon, <3>1, <1>0 DEF TypeOK
    <3> HIDE DEF r
    <3>7. TypeOK' /\ ClockInv'
      BY Zenon, <3>6, <3>4, <1>0, <1>2, <1>7 DEF EndProgress, TypeOK, ClockInv, Places
    <3>8. PunctualInv'
      BY Zenon, <3>3, <3>4, <3>5, <3>6, <1>0, <1>2, <1>7 DEF EndProgress, PunctualInv
    <3> QED
      BY <3>7, <3>8, <1>2 DEF TimersInv
  <2> QED
    BY Zenon, <1>7, <2>1, <2>2 DEF EndProgress
<1>8. CASE Sleep
  <2>1. /\ thread' = [place |-> "sleeping", at |-> 0, ret |-> Never]
        /\ wake' = IF thread.ret = Never THEN now + IDLE
                   ELSE IF thread.ret < now THEN now ELSE thread.ret
        /\ thread.place = "computed" /\ now' = now /\ punctual' = punctual /\ timers' = timers
    BY <1>8 DEF Sleep
  <2>2. now \in Nat /\ thread.ret \in Nat \union {Never} /\ wake' \in Nat
    BY <2>1, <1>0, DeltasFit DEF TypeOK
  <2>3. TypeOK' /\ ClockInv'
    <3>1. TypeOK'
      BY <1>0, <1>1, <2>1, <2>2 DEF TypeOK, Places
    <3>2. ClockInv'
      BY <1>2, <2>1, <2>2 DEF ClockInv
    <3> QED
      BY <3>1, <3>2
  <2>4. PunctualInv'
    <3> SUFFICES ASSUME punctual PROVE PunctualInv'
      BY <2>1 DEF PunctualInv
    <3>1. now <= wake' /\ wake' <= now + DELTA_TIMEOUT
      BY <2>1, <2>2, <1>0, DeltasFit DEF PunctualInv
    <3>2. ASSUME NEW s \in Running PROVE timers[s].timeout >= wake' /\ timers[s].timeout >= now
      BY <2>1, <2>2, <1>0, <1>3 DEF PunctualInv
    <3> QED
      BY <2>1, <3>1, <3>2, <1>2 DEF PunctualInv
  <2> QED
    BY <2>3, <2>4, <1>2 DEF TimersInv
<1>9. CASE Wake
  <2>1. TypeOK' /\ ClockInv' /\ PunctualInv'
    BY <1>0, <1>2, <1>9 DEF Wake, TypeOK, ClockInv, PunctualInv, Places
  <2> QED
    BY <2>1, <1>2 DEF TimersInv
<1>10. CASE Tick
  <2>0. /\ now' = now + 1 /\ UNCHANGED <<thread, wake, punctual, timers>>
        /\ now \in Nat /\ wake \in Nat /\ thread.at \in Nat
        /\ punctual => thread.place = "sleeping" /\ now < wake
    BY <1>0, <1>10 DEF Tick, TypeOK
  <2>1. TypeOK' /\ ClockInv'
    <3>1. TypeOK'
      BY <1>0, <1>1, <2>0 DEF TypeOK
    <3>2. thread.at <= now
      BY <1>0 DEF ClockInv
    <3>3. ClockInv'
      BY <1>2, <2>0, <3>2 DEF ClockInv
    <3> QED
      BY <3>1, <3>3
  <2>2. PunctualInv'
    <3> SUFFICES ASSUME punctual PROVE PunctualInv'
      BY <2>0 DEF PunctualInv
    <3>1. now' <= wake /\ wake <= now' + DELTA_TIMEOUT /\ thread'.place = "sleeping"
      BY <1>0, <2>0, DeltasFit DEF PunctualInv
    <3>2. ASSUME NEW s \in Running PROVE timers[s].timeout >= wake /\ timers[s].timeout >= now'
      <4>1. timers[s].timeout >= wake /\ timers[s].timeout \in Nat
        BY Zenon, <1>0, <1>3, <2>0 DEF PunctualInv
      <4> QED
        BY <4>1, <2>0, <3>1
    <3> QED
      BY <2>0, <3>1, <3>2, <1>2 DEF PunctualInv
  <2> QED
    BY <2>1, <2>2, <1>2 DEF TimersInv
<1> QED
  BY <1>5, <1>6, <1>7, <1>8, <1>9, <1>10

\* A new timer expires after whatever the thread waits for.
LEMMA ParentReadyKeeps ==
  ASSUME TimersInv, NEW slot \in TimerSlots, ParentReady(slot)
  PROVE  TimersInv'
<1>0. TypeOK /\ HeapInv /\ ClockInv /\ PunctualInv /\ WindowInv
  BY DEF TimersInv
<1>1. /\ UNCHANGED <<now, thread, wake, punctual>> /\ thread.place # "looping"
      /\ now \in Nat /\ set_timeouts(slot)
  BY <1>0 DEF ParentReady, TypeOK
<1>2. CASE slot \in Running
  <2>1. UNCHANGED <<timers, heap, sent>>
    BY <1>1, <1>2 DEF set_timeouts
  <2>2. HeapInv' /\ WindowInv' /\ Running' = Running
    BY <2>1, <1>1, TimersKept
  <2>3. TypeOK'
    BY <1>0, <1>1, <2>1 DEF TypeOK
  <2>4. ClockInv' /\ PunctualInv'
    BY <1>0, <1>1, <2>1, <2>2 DEF ClockInv, PunctualInv
  <2> QED
    BY <2>2, <2>3, <2>4 DEF TimersInv
<1>3. CASE slot \notin Running
  <2> DEFINE T == new(slot)
             S == [at |-> now, events |-> <<>>]
  <2>1. /\ timers' = [timers EXCEPT ![slot] = T]
        /\ heap' = heap \union {<<T.timeout, slot>>}
        /\ sent' = [sent EXCEPT ![slot] = S]
    BY <1>1, <1>3 DEF set_timeouts
  <2>2. /\ T \in TimerStates
        /\ T.stage = "WaitDeltaTimeout" /\ T.front = slot /\ T.timeout = now + DELTA_TIMEOUT
        /\ T.back = last_of_consecutive_leader_slots(slot) /\ T.timeout \in Nat
    BY <1>1, WindowEnds, DeltasFit DEF new, Stages, TimerStates
  <2>3. S \in SentRecords /\ Stage(slot, T, S) /\ SentRight(slot, S, punctual)
    BY <1>1, <2>2 DEF SentRecords, Stage, SentRight, Never
  <2> HIDE DEF T, S
  <2>4. /\ timers' \in [TimerSlots -> TimerStates] /\ timers'[slot] = T
        /\ \A s \in TimerSlots \ {slot} : timers'[s] = timers[s]
    BY <1>0, <2>1, <2>2 DEF TypeOK
  <2>5. /\ sent' \in [TimerSlots -> SentRecords] /\ sent'[slot] = S
        /\ \A s \in TimerSlots \ {slot} : sent'[s] = sent[s]
    BY <1>0, <2>1, <2>3 DEF TypeOK
  <2>6. Running' = Running \union {slot}
    BY <2>2, <2>4 DEF Running
  <2>7. TypeOK'
    <3>1. heap' \subseteq Nat \X TimerSlots
      BY <1>0, <2>1, <2>2 DEF TypeOK
    <3> QED
      BY <3>1, <1>0, <1>1, <2>4, <2>5 DEF TypeOK
  <2>8. HeapInv'
    BY Zenon, <1>0, <1>3, <2>1, <2>2, <2>4, <2>6 DEF HeapInv
  <2>9. WindowInv'
    BY <1>0, <1>1, <2>3, <2>4, <2>5 DEF WindowInv
  <2>10. ASSUME NEW s \in Running' PROVE s = slot \/ (s \in Running /\ timers'[s] = timers[s])
    BY <2>4, <2>6 DEF Running
  <2>11. PunctualInv'
    <3> SUFFICES ASSUME punctual PROVE PunctualInv'
      BY <1>1 DEF PunctualInv
    <3>1. /\ wake \in Nat /\ thread.ret \in Nat \union {Never}
          /\ T.timeout >= now /\ T.timeout >= now + IDLE
      BY <1>0, <1>1, <2>2, DeltasFit DEF TypeOK
    <3>2. /\ thread.place = "computed" /\ thread.ret # Never => T.timeout >= thread.ret
          /\ thread.place = "sleeping" => T.timeout >= wake
      BY <1>0, <1>1, <2>2, <3>1, DeltasFit DEF PunctualInv
    <3> QED
      BY <1>0, <1>1, <2>4, <2>10, <3>1, <3>2 DEF PunctualInv
  <2>12. ClockInv'
    BY <1>0, <1>1, <2>2, <2>4, <2>10, DeltasFit DEF ClockInv
  <2> QED
    BY <2>7, <2>8, <2>9, <2>11, <2>12 DEF TimersInv
<1> QED
  BY <1>2, <1>3

\* A timer that is due sends its event and is put back, unless it is done.
LEMMA FireKeeps ==
  ASSUME TimersInv, NEW e \in heap, Fire(e)
  PROVE  TimersInv'
<1>0. TypeOK /\ HeapInv /\ ClockInv /\ PunctualInv /\ WindowInv
  BY DEF TimersInv
<1>1. PICK t \in Nat, slot \in TimerSlots : e = <<t, slot>>
  BY <1>0 DEF TypeOK
<1> DEFINE O == timers[slot]
           T == TimerProgress(O, thread.at)
           S == WithEvent(sent[slot], O, thread.at)
<1>2. slot \in Running /\ t = O.timeout /\ O \in TimerStates /\ O.stage # "None" /\ sent[slot] \in SentRecords
  BY <1>0, <1>1 DEF HeapInv, TypeOK, Running
<1>3. /\ UNCHANGED <<now, wake, punctual>> /\ thread.place = "looping"
      /\ O.timeout <= thread.at /\ thread.at <= now
      /\ thread.at \in Nat /\ now \in Nat /\ thread.ret \in Nat \union {Never} /\ punctual \in BOOLEAN
  BY <1>0, <1>1, <1>2 DEF Fire, TypeOK, ClockInv
<1>4. /\ timers' = [timers EXCEPT ![slot] = T]
      /\ sent' = [sent EXCEPT ![slot] = S]
      /\ T.stage = "None" => heap' = heap \ {<<t, slot>>} /\ UNCHANGED thread
      /\ T.stage # "None" => /\ heap' = (heap \ {<<t, slot>>}) \union {<<T.timeout, slot>>}
                             /\ thread' = [thread EXCEPT !.ret = Sooner(@, T.timeout)]
  BY <1>1 DEF Fire
<1>5. /\ T \in TimerStates
      /\ T.stage # "None" => T.timeout = thread.at + DELTA_BLOCK
      /\ S \in SentRecords /\ Stage(slot, T, S) /\ SentRight(slot, S, punctual)
  <2>1. punctual => O.timeout = thread.at
    BY <1>0, <1>2, <1>3 DEF PunctualInv, TimerStates
  <2>2. Stage(slot, O, sent[slot]) /\ SentRight(slot, sent[slot], punctual)
    BY <1>0 DEF WindowInv
  <2> QED
    BY <2>1, <2>2, <1>2, <1>3, NextEvent
<1> HIDE DEF T, S
<1>6. /\ timers' \in [TimerSlots -> TimerStates] /\ timers'[slot] = T
      /\ \A s \in TimerSlots \ {slot} : timers'[s] = timers[s]
  BY <1>0, <1>4, <1>5 DEF TypeOK
<1>7. /\ sent' \in [TimerSlots -> SentRecords] /\ sent'[slot] = S
      /\ \A s \in TimerSlots \ {slot} : sent'[s] = sent[s]
  BY <1>0, <1>4, <1>5 DEF TypeOK
<1>8. Running' = IF T.stage = "None" THEN Running \ {slot} ELSE Running
  BY <1>2, <1>6 DEF Running
<1>9. T.timeout \in Nat
  BY <1>5 DEF TimerStates
<1>10. /\ thread' \in [place : Places, at : Nat, ret : Nat \union {Never}]
       /\ thread'.place = "looping" /\ thread'.at = thread.at
       /\ thread'.ret = thread.ret \/ (T.stage # "None" /\ thread'.ret = thread.at + DELTA_BLOCK)
  <2>1. CASE T.stage = "None"
    BY <2>1, <1>0, <1>3, <1>4 DEF TypeOK
  <2>2. CASE T.stage # "None"
    <3> DEFINE r == Sooner(thread.ret, T.timeout)
    <3>1. thread' = [thread EXCEPT !.ret = r]
      BY <2>2, <1>4
    <3>2. r \in Nat \union {Never} /\ r \in {thread.ret, T.timeout}
      BY <1>3, <1>9 DEF Sooner
    <3> HIDE DEF r
    <3>3. /\ thread' \in [place : Places, at : Nat, ret : Nat \union {Never}]
          /\ thread'.place = thread.place /\ thread'.at = thread.at /\ thread'.ret = r
      BY <1>0, <3>1, <3>2 DEF TypeOK
    <3> QED
      BY <2>2, <3>2, <3>3, <1>3, <1>5
  <2> QED
    BY <2>1, <2>2
<1>11. TypeOK'
  <2>1. heap' \subseteq Nat \X TimerSlots
    BY <1>0, <1>4, <1>9 DEF TypeOK
  <2> QED
    BY <1>0, <1>3, <1>6, <1>7, <1>10, <2>1 DEF TypeOK
<1>12. HeapInv'
  <2>1. CASE T.stage = "None"
    <3>1. heap' = heap \ {<<t, slot>>} /\ Running' = Running \ {slot}
      BY <2>1, <1>4, <1>8
    <3> QED
      BY Zenon, <3>1, <1>0, <1>2, <1>6 DEF HeapInv
  <2>2. CASE T.stage # "None"
    <3>1. heap' = (heap \ {<<t, slot>>}) \union {<<T.timeout, slot>>} /\ Running' = Running
      BY <2>2, <1>4, <1>8
    <3> QED
      BY Zenon, <3>1, <1>0, <1>2, <1>6, <1>9 DEF HeapInv
  <2> QED
    BY <2>1, <2>2
<1>13. WindowInv'
  BY <1>0, <1>3, <1>5, <1>6, <1>7 DEF WindowInv
<1>14. ASSUME NEW s \in Running'
       PROVE  \/ s = slot /\ timers'[s].timeout = thread.at + DELTA_BLOCK
              \/ s \in Running /\ timers'[s] = timers[s]
  BY <1>2, <1>5, <1>6, <1>8 DEF Running
<1>15. ClockInv'
  <2>1. thread'.at <= now'
    BY <1>3, <1>10
  <2>2. \A s \in Running' : timers'[s].timeout <= now' + DELTA_TIMEOUT
    BY <1>0, <1>3, <1>14, DeltasFit DEF ClockInv
  <2> QED
    BY <2>1, <2>2 DEF ClockInv
<1>16. PunctualInv'
  <2> SUFFICES ASSUME punctual PROVE PunctualInv'
    BY <1>3 DEF PunctualInv
  <2>1. thread.at = now
    BY <1>0, <1>3 DEF PunctualInv
  <2>2. \A s \in Running' : timers'[s].timeout >= now
    BY <2>1, <1>0, <1>3, <1>14, DeltasFit DEF PunctualInv
  <2>3. thread'.ret # Never => thread'.ret <= now + DELTA_TIMEOUT
    BY <2>1, <1>0, <1>3, <1>10, DeltasFit DEF PunctualInv
  <2> QED
    BY <2>1, <2>2, <2>3, <1>3, <1>10 DEF PunctualInv
<1> QED
  BY <1>11, <1>12, <1>13, <1>15, <1>16 DEF TimersInv

\* TimersInv is inductive.
THEOREM TimersInvHolds == Spec => []TimersInv
<1>1. ASSUME TimersInv, [Next]_vars PROVE TimersInv'
  <2>1. CASE \E slot \in TimerSlots : ParentReady(slot)
    BY <1>1, <2>1, ParentReadyKeeps
  <2>2. CASE \E e \in heap : Fire(e)
    BY <1>1, <2>2, FireKeeps
  <2>3. CASE SetIdentity \/ StartProgress \/ EndProgress \/ Sleep \/ Wake \/ Tick
    BY <1>1, <2>3, ThreadKeeps
  <2>4. CASE UNCHANGED vars
    BY <1>1, <2>4 DEF vars, TimersInv, TypeOK, HeapInv, ClockInv, WindowInv, PunctualInv, Running
  <2> QED
    BY <1>1, <2>1, <2>2, <2>3, <2>4 DEF Next
<1> QED
  BY <1>1, TimersInvInit, PTL DEF Spec

\* No assert or unwrap of set_timeouts and progress fails.
THEOREM HeapIsExact == Spec => []HeapMatchesTimers
<1>1. ASSUME TimersInv PROVE HeapMatchesTimers
  <2>1. \A s \in Running : s \in TimerSlots /\ timers[s].timeout \in Nat
    BY <1>1 DEF TimersInv, TypeOK, Running, TimerStates
  <2>2. \A e \in heap : \E s \in Running : e = <<timers[s].timeout, s>>
    BY <1>1 DEF TimersInv, TypeOK, HeapInv
  <2>3. \A s \in Running : <<timers[s].timeout, s>> \in heap
    BY <1>1, <2>1 DEF TimersInv, HeapInv
  <2> QED
    BY <2>2, <2>3 DEF HeapMatchesTimers
<1> QED
  BY <1>1, TimersInvHolds, PTL

\* The events of a timer are those of its window, in order and never early.
THEOREM WindowsRunDown == Spec => []WindowRunsDown
<1>1. ASSUME TimersInv, NEW s \in TimerSlots, sent[s].at # Never
      PROVE  LET n == Len(sent[s].events)
             IN /\ n <= Len(Timer(s))
                /\ (n = Len(Timer(s))) <=> (s \notin Running)
                /\ \A i \in 1..n : /\ sent[s].events[i].event = Timer(s)[i]
                                   /\ sent[s].events[i].at >= Deadline(sent[s], i)
  <2>1. Stage(s, timers[s], sent[s]) /\ SentRight(s, sent[s], punctual) /\ timers[s].stage \in Stages
    BY <1>1 DEF TimersInv, TypeOK, WindowInv, TimerStates
  <2>2. Len(Timer(s)) = last_of_consecutive_leader_slots(s) - s + 2
    BY TimerElements
  <2>3. /\ Len(sent[s].events) <= Len(Timer(s))
        /\ (Len(sent[s].events) = Len(Timer(s))) <=> (s \notin Running)
    BY <1>1, <2>1, <2>2, WindowEnds DEF Stage, Running, Stages
  <2> QED
    BY <2>1, <2>3 DEF SentRight
<1>2. TimersInv => WindowRunsDown
  BY <1>1 DEF WindowRunsDown
<1> QED
  BY <1>2, TimersInvHolds, PTL

\* A punctual thread sends every timeout at its time.
THEOREM TimeoutsAreOnTime == Spec => []OnTime
<1>1. TimersInv => OnTime
  BY DEF TimersInv, PunctualInv, WindowInv, SentRight, OnTime, Running
<1> QED
  BY <1>1, TimersInvHolds, PTL
=============================================================================
