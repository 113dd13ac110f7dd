---------------------- MODULE PohTickProducerProofs ----------------------
(* That every record the channel lets in is recorded within its slot, for every
   length of ticks, slots, hash batches and records that SlotIsLong allows.

   Only the last tick matters: before it a whole tick is left, which is more
   than the channel, the ticks and a batch of hashes take.  In the last tick
   the channel is open only with more than Capacity + TicksPerSlot hashes
   left, so closing it leaves, after the hashes or batches that closed it, a
   hash for each batch still in it and one for the tick. *)
EXTENDS PohTickProducer, TLAPS

LastTick == TicksPerSlot - 1

\* What each place in record_or_hash may rely on.
SlotInv ==
  /\ TypeOK
  /\ has_bank <=> tick_number < TicksPerSlot
  /\ ~has_bank => at = "hash" /\ ~open /\ pending = 0
  /\ at = "tick" => until_tick = 1
  /\ next_record = 0 <=> at # "record"
  /\ tick_number < LastTick => open
  /\ open /\ tick_number = LastTick => until_tick > Capacity + TicksPerSlot
  /\ ~open /\ at \in {"hash", "tick"} => pending = 0
  /\ ~open /\ at \in {"poll", "record"} => until_tick > pending + next_record

\* remaining_hashes_in_slot in the last tick of the slot, and before it.
LEMMA RemainingHashes ==
  ASSUME NEW ticks \in 0..LastTick, NEW until \in Nat
  PROVE  /\ remaining_hashes_in_slot(ticks, until) \in Nat
         /\ ticks = LastTick => remaining_hashes_in_slot(ticks, until) = until
         /\ ticks < LastTick => remaining_hashes_in_slot(ticks, until) >= HashesPerTick + until
<1> DEFINE left == TicksPerSlot - (ticks + 1)
<1>1. TicksPerSlot \in Nat \ {0} /\ HashesPerTick \in Nat
  BY SlotIsLong
<1>2. ticks % TicksPerSlot = ticks
  BY <1>1 DEF LastTick
<1>3. left \in Nat /\ (ticks = LastTick => left = 0) /\ (ticks < LastTick => left >= 1)
  BY <1>1 DEF LastTick
<1>4. remaining_hashes_in_slot(ticks, until) = left * HashesPerTick + until
  BY <1>2 DEF remaining_hashes_in_slot
<1> HIDE DEF left
<1>5. left * HashesPerTick \in Nat
  BY <1>1, <1>3
<1>6. left = 0 => left * HashesPerTick = 0
  BY <1>1
<1>7. left >= 1 => left * HashesPerTick >= HashesPerTick
  BY <1>1, <1>3
<1> QED
  BY <1>1, <1>3, <1>4, <1>5, <1>6, <1>7

\* The channel is opened with at least one whole tick left.
LEMMA SlotInvInit == Init => SlotInv
  BY SlotIsLong DEF Init, SlotInv, TypeOK, LastTick

\* Senders fill the channel up to its capacity, and only while it is open.
LEMMA SendKeeps ==
  ASSUME SlotInv, NEW n \in 1..MaxBatches, Send(n) PROVE SlotInv'
  BY SlotIsLong DEF Send, SlotInv, TypeOK, LastTick

\* A batch of hashes does not take the hashes of what is in the channel.
LEMMA HashKeeps ==
  ASSUME SlotInv, Hash PROVE SlotInv'
<1> DEFINE hashes == IF until_tick - 1 < HashesPerBatch THEN until_tick - 1 ELSE HashesPerBatch
           remaining == remaining_hashes_in_slot(tick_number, until_tick - hashes)
<1>1. /\ tick_number \in 0..LastTick
      /\ until_tick \in 1..HashesPerTick
      /\ hashes \in 0..HashesPerBatch
      /\ until_tick - hashes \in 1..HashesPerTick
  BY SlotIsLong DEF Hash, SlotInv, TypeOK, LastTick
<1>2. /\ remaining \in Nat
      /\ tick_number = LastTick => remaining = until_tick - hashes
      /\ tick_number < LastTick => remaining >= HashesPerTick + until_tick - hashes
  BY <1>1, RemainingHashes, SlotIsLong
<1>3. /\ until_tick' = until_tick - hashes
      /\ open' <=> open /\ ~should_shutdown(IF remaining < HashesPerBatch THEN 0
                                            ELSE remaining - HashesPerBatch)
      /\ open' \in BOOLEAN
      /\ at' = IF until_tick' = 1 THEN "tick" ELSE "poll"
      /\ at = "hash" /\ has_bank
      /\ UNCHANGED <<tick_number, pending, next_record, has_bank>>
  BY DEF Hash
<1> HIDE DEF hashes, remaining
<1>4. /\ tick_number < LastTick /\ open => open'
      /\ open' /\ tick_number = LastTick => until_tick' > Capacity + TicksPerSlot
  BY <1>1, <1>2, <1>3, SlotIsLong DEF should_shutdown, LastTick
<1>5. ~open' => (open /\ until_tick' > Capacity) \/ pending = 0
  <2>1. CASE open /\ ~open'
    BY <2>1, <1>1, <1>3, <1>4, SlotIsLong DEF SlotInv, TypeOK, LastTick
  <2>2. CASE ~open
    BY <2>2, <1>3 DEF SlotInv
  <2> QED
    BY <2>1, <2>2
<1> QED
  BY <1>1, <1>3, <1>4, <1>5, SlotIsLong DEF SlotInv, TypeOK, LastTick

\* A tick ends the slot only with the channel closed and empty.
LEMMA TickKeeps ==
  ASSUME SlotInv, TickDue PROVE SlotInv'
  BY SlotIsLong DEF TickDue, Tick, SlotInv, TypeOK, LastTick

\* Taking a record out of the channel keeps its hashes for it.
LEMMA PollKeeps ==
  ASSUME SlotInv, Poll PROVE SlotInv'
  BY SlotIsLong DEF Poll, SlotInv, TypeOK, LastTick

\* Ticks made for a record are never the last of the slot.
LEMMA RecordTicksKeeps ==
  ASSUME SlotInv, RecordTicks PROVE SlotInv'
<1>1. tick_number < LastTick
  BY SlotIsLong DEF RecordTicks, SlotInv, TypeOK, LastTick
<1>2. CASE until_tick > 1
  BY <1>1, <1>2, SlotIsLong DEF RecordTicks, Tick, SlotInv, TypeOK, LastTick
<1>3. CASE ~(until_tick > 1)
  <2>1. /\ until_tick' = HashesPerTick
        /\ tick_number' = tick_number + 1
        /\ has_bank' = (tick_number' < TicksPerSlot)
    BY <1>3, Zenon DEF RecordTicks, Tick
  <2>2. tick_number' < TicksPerSlot
    BY <1>1, <2>1, SlotIsLong DEF SlotInv, TypeOK, LastTick
  <2>3. has_bank' = TRUE
    BY <2>1, <2>2, Zenon
  <2> QED
    BY <1>1, <2>1, <2>2, <2>3, SlotIsLong DEF RecordTicks, SlotInv, TypeOK, LastTick
<1> QED
  BY <1>2, <1>3

\* A record does not take the hashes of the ones behind it.
LEMMA RecordBatchesKeeps ==
  ASSUME SlotInv, RecordBatches PROVE SlotInv'
<1> DEFINE remaining == remaining_hashes_in_slot(tick_number, until_tick')
<1>1. /\ tick_number \in 0..LastTick
      /\ until_tick' \in 1..HashesPerTick
      /\ until_tick' = until_tick - next_record
      /\ next_record \in 1..MaxBatches
  BY SlotIsLong DEF RecordBatches, SlotInv, TypeOK, LastTick
<1>2. /\ remaining \in Nat
      /\ tick_number = LastTick => remaining = until_tick'
      /\ tick_number < LastTick => remaining >= HashesPerTick + until_tick'
  BY <1>1, RemainingHashes, SlotIsLong
<1>3. (open' <=> open /\ ~should_shutdown(remaining)) /\ open' \in BOOLEAN
  BY DEF RecordBatches
<1> HIDE DEF remaining
<1>4. /\ tick_number < LastTick /\ open => open'
      /\ open' /\ tick_number = LastTick => until_tick' > Capacity + TicksPerSlot
  BY <1>1, <1>2, <1>3, SlotIsLong DEF should_shutdown, LastTick
<1>5. ~open' => until_tick' > pending
  BY <1>1, <1>3, <1>4, SlotIsLong DEF RecordBatches, SlotInv, TypeOK, LastTick
<1> QED
  BY <1>1, <1>3, <1>4, <1>5, SlotIsLong DEF RecordBatches, SlotInv, TypeOK, LastTick

\* Every step of the service and of the senders keeps the invariant.
THEOREM SlotInvariance == Spec => []SlotInv
<1>1. SlotInv /\ [Next]_vars => SlotInv'
  <2> SUFFICES ASSUME SlotInv, [Next]_vars PROVE SlotInv'
    OBVIOUS
  <2>1. CASE UNCHANGED vars
    BY <2>1 DEF vars, SlotInv, TypeOK
  <2>2. CASE Next
    BY <2>2, SendKeeps, HashKeeps, TickKeeps, PollKeeps, RecordTicksKeeps, RecordBatchesKeeps
       DEF Next
  <2> QED
    BY <2>1, <2>2
<1> QED
  BY <1>1, SlotInvInit, PTL DEF Spec

\* The tick producer's counters stay in range: Poh::hash never takes the last
\* hash before a tick.
THEOREM SlotTypes == Spec => []TypeOK
<1>1. SlotInv => TypeOK
  BY DEF SlotInv
<1> QED
  BY <1>1, SlotInvariance, PTL

\* Whatever the senders do, tick_producer ends a slot with the channel closed
\* and empty: no record that try_send accepted is lost.
THEOREM RecordsAreNotLost == Spec => []SentIsRecorded
<1>1. SlotInv => SentIsRecorded
  BY DEF SlotInv, SentIsRecorded
<1> QED
  BY <1>1, SlotInvariance, PTL

\* An open channel has a hash for each batch it can hold and one a tick.
THEOREM ChannelClosesInTime == Spec => []ClosesInTime
<1>1. SlotInv => ClosesInTime
  <2> SUFFICES ASSUME SlotInv, open PROVE ClosesInTime
    BY DEF ClosesInTime
  <2>1. tick_number \in 0..LastTick /\ until_tick \in 1..HashesPerTick
    BY SlotIsLong DEF SlotInv, TypeOK, LastTick
  <2>2. until_tick \in Nat
    BY <2>1, SlotIsLong
  <2> QED
    BY <2>1, <2>2, RemainingHashes, SlotIsLong DEF SlotInv, ClosesInTime, LastTick
<1> QED
  BY <1>1, SlotInvariance, PTL
============================================================================
