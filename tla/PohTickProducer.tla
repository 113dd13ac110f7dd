------------------------- MODULE PohTickProducer -------------------------
(* One slot of PohService::tick_producer (poh/src/poh_service.rs): hashing,
   recording and ticking (entry/src/poh.rs, poh/src/poh_recorder.rs) against
   transaction threads that fill the record channel as fast as it lets them.
   The channel is what RecordChannel promises, with its capacity; a record is
   the number of its batches, each of which takes a hash, and what is in the
   channel the number of batches in all. *)
EXTENDS Integers

CONSTANTS HashesPerTick,
          TicksPerSlot,
          HashesPerBatch,   \* hashes between two looks at the channel
          Capacity,         \* of the channel, in batches
          MaxBatches        \* the most batches of a record

\* A tick is long enough for all that the channel holds, for the hashes
\* between two looks and for one hash a tick; a slot has as many ticks as a
\* record has batches, and as a hash batch has hashes.
ASSUME SlotIsLong ==
  /\ TicksPerSlot \in Nat /\ HashesPerTick \in Nat /\ Capacity \in Nat
  /\ MaxBatches \in 1..TicksPerSlot /\ MaxBatches <= Capacity
  /\ HashesPerBatch \in 1..TicksPerSlot
  /\ HashesPerTick > Capacity + TicksPerSlot + HashesPerBatch

VARIABLES at,           \* where the service is
          tick_number,  \* ticks of the slot
          until_tick,   \* remaining_hashes_until_tick
          open,         \* the channel accepts records
          pending,      \* batches in the channel
          next_record,  \* the record taken out of it, or 0
          has_bank      \* the slot is not over for the recorder

vars == <<at, tick_number, until_tick, open, pending, next_record, has_bank>>

\* The channel is opened with a tick to spare before the last one.
Init ==
  /\ at = "hash"
  /\ tick_number \in 0..(TicksPerSlot - 2)
  /\ until_tick \in 1..HashesPerTick
  /\ open = TRUE
  /\ pending = 0
  /\ next_record = 0
  /\ has_bank = TRUE

\* Transaction threads reserve while there is room for all the batches.
Send(n) ==
  /\ open
  /\ pending + n <= Capacity
  /\ pending' = pending + n
  /\ UNCHANGED <<at, tick_number, until_tick, open, next_record, has_bank>>

\* After the last tick the recorder counts on, in the next slot.
remaining_hashes_in_slot(ticks, until) ==
  (TicksPerSlot - ((ticks % TicksPerSlot) + 1)) * HashesPerTick + until

\* Mutant: ticks are not allowed for.
MutantForgetsTicks(remaining) == remaining <= Capacity

should_shutdown(remaining) == remaining - TicksPerSlot <= Capacity

\* Mutant: the tick is due a hash too late, which never comes.
MutantNeverDue ==
  LET hashes == IF until_tick - 1 < HashesPerBatch THEN until_tick - 1 ELSE HashesPerBatch
      remaining == remaining_hashes_in_slot(tick_number, until_tick - hashes)
  IN /\ at = "hash" /\ has_bank
     /\ until_tick' = until_tick - hashes
     /\ open' = (open /\ ~should_shutdown(remaining - HashesPerBatch))
     /\ at' = IF until_tick' = 0 THEN "tick" ELSE "poll"
     /\ UNCHANGED <<tick_number, pending, next_record, has_bank>>

\* The branch of record_or_hash without a record.
Hash ==
  LET hashes == IF until_tick - 1 < HashesPerBatch THEN until_tick - 1 ELSE HashesPerBatch
      remaining == remaining_hashes_in_slot(tick_number, until_tick - hashes)
      after == IF remaining < HashesPerBatch THEN 0 ELSE remaining - HashesPerBatch
  IN /\ at = "hash" /\ has_bank
     /\ until_tick' = until_tick - hashes
     /\ open' = (open /\ ~should_shutdown(after))
     /\ at' = IF until_tick' = 1 THEN "tick" ELSE "poll"
     /\ UNCHANGED <<tick_number, pending, next_record, has_bank>>

\* Poh::tick and, at the end of the slot, PohRecorder::clear_bank.
Tick ==
  IF until_tick > 1
  THEN until_tick' = until_tick - 1 /\ UNCHANGED <<tick_number, has_bank>>
  ELSE /\ until_tick' = HashesPerTick
       /\ tick_number' = tick_number + 1
       /\ has_bank' = (tick_number' < TicksPerSlot)

TickDue ==
  /\ at = "tick"
  /\ Tick
  /\ at' = "hash"
  /\ UNCHANGED <<open, pending, next_record>>

\* try_recv: empty means that no record is under way either.
Poll ==
  /\ at = "poll"
  /\ IF pending = 0 THEN at' = "hash" /\ UNCHANGED <<pending, next_record>>
     ELSE \E n \in 1..MaxBatches :
            /\ n <= pending
            /\ at' = "record" /\ next_record' = n /\ pending' = pending - n
  /\ UNCHANGED <<tick_number, until_tick, open, has_bank>>

\* PohRecorder::record ticks until all batches fit before a tick.
RecordTicks ==
  /\ at = "record" /\ has_bank
  /\ until_tick < next_record + 1
  /\ Tick
  /\ UNCHANGED <<at, open, pending, next_record>>

\* Poh::record_batches, and the channel closed when the slot gets short.
RecordBatches ==
  /\ at = "record" /\ has_bank
  /\ until_tick >= next_record + 1
  /\ until_tick' = until_tick - next_record
  /\ open' = (open /\ ~should_shutdown(remaining_hashes_in_slot(tick_number, until_tick')))
  /\ next_record' = 0
  /\ at' = "poll"
  /\ UNCHANGED <<tick_number, pending, has_bank>>

Next ==
  \/ \E n \in 1..MaxBatches : Send(n)
  \/ Hash \/ TickDue \/ Poll \/ RecordTicks \/ RecordBatches

Spec == Init /\ [][Next]_vars /\ WF_vars(Hash \/ TickDue \/ Poll \/ RecordTicks \/ RecordBatches)

---------------------------------------------------------------------------
(* Properties *)

TypeOK ==
  /\ at \in {"hash", "tick", "poll", "record"}
  /\ tick_number \in 0..TicksPerSlot
  /\ until_tick \in 1..HashesPerTick
  /\ open \in BOOLEAN /\ has_bank \in BOOLEAN
  /\ next_record \in 0..MaxBatches
  /\ pending \in 0..Capacity

\* The slot never ends with records in the channel: the service would panic,
\* and transactions that were told they are recorded would be lost
\* ("This channel must guarantee that all sent records are recorded").
SentIsRecorded == ~has_bank => ~open /\ pending = 0 /\ next_record = 0

\* While the channel is open the slot has a hash for each batch it can hold and
\* one for each tick: record_or_hash closes it before a batch of hashes or a
\* record goes below that, whichever of the two comes next.
ClosesInTime ==
  open => remaining_hashes_in_slot(tick_number, until_tick) > Capacity + TicksPerSlot

\* Every slot ends, however fast the senders fill the channel: record_or_hash
\* ticks although its inner loops run as long as there are records.
SlotsEnd == <>~has_bank
============================================================================
