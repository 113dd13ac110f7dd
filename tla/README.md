# Verification of flowra-validator

TLA+ models of the concurrent and protocol parts of the validator in `src/`, with TLC
runs that check them on small instances and TLAPS proofs that hold for every size.
`PROJECT.json` lists the components, the runs, the mutants (a plausible bug per checked
property, which TLC must find), the source lines behind every definition, the hazards,
the findings and the theorems.

    tlc -workers 2 -config SchedPriority.cfg MCSchedulingStateMachine
    tlapm SchedulingStateMachineProofs.tla

## 1. Inventory

The program is a Rust validator of over half a million lines, a fork of jito-solana/agave. What
decides whether it is correct as a *concurrent* program is a small part of it, on two paths.

| path | part | state | operations | what makes it hard |
|---|---|---|---|---|
| leader | unified scheduler (`unified-scheduler-logic`) | usage queue per address, blocked counters, unblocked queue | schedule, buffer, deschedule, take next, clear, reinitialize | tasks of higher priority take addresses back from waiting ones |
| both | scheduler threads (`unified-scheduler-pool`, `runtime/src/installed_scheduler_pool.rs`) | channels, sessions, a scheduler's owner, a bank's status | install, schedule, pause, complete, time out, resume, abort, join, rebuffer, discard | one pool of threads serves one bank after the other, and any thread may fail or be late |
| leader | bundle stage (`core/src/bundle_stage*`) | bundle queues, window, pre-locks, bank locks | insert, consume, retry, clear, lock with waits, record, commit | locks held while asleep; slot ends at any time |
| leader | banking stage (`core/src/banking_stage*`) | thread-aware locks, worker channels, bank locks | schedule, execute, record, commit, complete | pre-locks are looked at once, by the scheduler |
| leader | PoH (`poh`) | one atomic word, active counter, bounded queue, hash counters | `try_send`, `try_recv`, shutdown, restart, hash, tick, record | lock-free; off-by-one at the end of the slot |
| voter | consensus pool (`votor/src/consensus_pool*`) | votes, stakes, certificates, parent-ready tracker | add vote, add certificate, prune, standstill | any order of arrival; thresholds |
| voter | event loop (`votor/src/event_handler.rs`) | vote history, pending blocks, timers, root | ten kinds of event | any order of replay, certificates and timeouts |
| voter | timers (`votor/src/timer_manager*`) | map and heap of deadlines, a sleeping thread | set, progress, sleep | timers set while the thread sleeps for others; late wake-ups |
| voter | voting service (`votor/src/voting_service.rs`) | queue, stored history | save, broadcast | crash between any two steps |
| both | migration, tower, fork choice, replay, repair, block creation, BAM, proxies | see `components` | | later stages of the plan |
| none | accounts database, ledger, gossip, runtime, SVM, RPC, transports, tools | | | data, I/O or execution semantics |

How they interact: transactions, votes and bundles are executed on the leader's bank under
its account locks, are recorded through the record channel into PoH, and commit under the
bank's freeze lock. Blocks are replayed through a unified scheduler in fifo mode, whose threads
the bank takes from a pool and returns, and become
events of votor's event loop. Its votes go to the own pool and to the voting service. The
pool's certificates come back as events (notarized, finalized, parent ready, safe to notar,
safe to skip). A parent-ready window of the own leader slots starts block production.

## 2. Modules

| module | models | checked or proved with |
|---|---|---|
| `SchedulingStateMachine` | the scheduler with priority queues | `MCSchedulingStateMachine`, `SchedulingStateMachineProofs` |
| `FifoScheduling` | the scheduler with fifo queues | `MCPriorityReplacesFifo`, `PriorityReplacesFifo` |
| `PriorityReplacesFifo` | the second implements the first, with the proofs of both | `MCPriorityReplacesFifo` |
| `TaskSequences` | the sequences of tasks of both | (used for bundles too) |
| `PooledScheduler` | scheduler and handler threads, channels, sessions, banks and their timeouts, around `SchedulingStateMachine` | `MCPooledScheduler` |
| `LeaderWindows` | the windows of slots and their timeouts | (used by `EventHandler`, `Timers`) |
| `Timers` | the timer thread, its heap, the clock | `MCTimers`, `TimersProofs` |
| `ParentReadyTracker` | the tracker as values and functions | (used by the next two) |
| `ConsensusPool` | the pool as values and functions | (used by the next) |
| `ConsensusPoolService` | the pool's thread: votes, certificates and roots in any order | `MCConsensusPoolService` |
| `VoteHistory` | the vote history as values | (used by the next) |
| `EventHandler` | the event loop, timers as sequences of events | `MCEventHandler`, `VotorProofs` |
| `Votor` | event loop, voting service, crashes | `MCVotor`, `VotorProofs` |
| `VotorCertificates` | the above with own votes inside certificates | `MCVotorCertificates` |
| `RecordChannel` | what the record channel promises (abstract) | |
| `RecordChannels` | the lock-free channel, one atomic operation a step | `MCRecordChannels`, `RecordChannelsProofs` |
| `PohTickProducer` | one slot of the PoH service | `MCPohTickProducer`, `PohTickProducerProofs` |
| `AccountLocks` | lock tables as values | (used by the next) |
| `LeaderBank` | bundle stage, scheduler, workers, vote worker, end of slot on one bank | `MCLeaderBank`, `LeaderBankProofs` |
| `BundleStage` | bundle storage and window over several slots | `MCBundleStage`, `BundleStageProofs` |

Components that are plain data structures in the code (tracker, pool, vote history, lock
tables) are records with the methods as operators that return the next value; the thread that
owns them is a state machine around them. Names are the code's where TLA+ allows.

**Scheduler.** `current[a]` and `blocked[a]` are `UsageQueueInner` of an address. A method of
`SchedulingStateMachine` is one action since the machine runs on one thread. `clear_and_reinitialize`
is a loop and so `BeginClear`, a `ClearOne` per task, and `reinitialize`. A task's number is its
priority. `fresh` are tasks of the session not created yet, with any set of lock contexts; `Sessions` are the sets of
tasks a session may create, and `Hash` is the transaction of a task.

**Scheduler threads.** One scheduler is followed from spawn to spawn, in verification or in production
(`mode`), over several banks. `owner` is the bank that has it, `InPool` or `NotSpawned`. `new_task`, `results`,
`finished` and `chain` are the channels; `chain` has one subchannel per session, and a handler moves to the next
when it takes a `Chained` message, as in `chained_channel`. An action of `SchedulerThread` is one arm of its
`select_biased!` or of the loop between sessions; it contains the operation of the state machine, which is an
instance of `SchedulingStateMachine`. Only a task refused by a full block takes two steps, `Deschedule` and
`Rebuffer`, with nothing of the thread in between. `status` is the bank's `SchedulerStatus`; a thread that ends
a session (replay, or the cleaner on a timeout) is `ender` and holds the bank's write lock until `FinishEnding`.
Asserts, unwraps and unreachable arms set `panicked`. A transaction's tasks are numbered by its priority and the
number of its attempts, which is what `regenerated_task_id` does to an id.

**Timers.** A timer is its stage, the slots left of its window and its deadline; `heap` is a set of deadlines.
An iteration of `progress` is a step, and the lock keeps `set_timeouts` out until it ends. `punctual`, chosen
once, says that no time passes while the thread can run; otherwise the clock runs on at any moment.

**Pool and tracker.** A vote is a validator, a type, a slot and a block hash. Stakes are numbers,
thresholds exact fractions (the code compares `f64`s in two places, which differ for stakes above 2^53). Signatures
are taken as verified, as they are when they reach the pool.

**Event loop.** `node` is the memory of the loop: history, pending and finalized blocks, shreds
seen, running timers. An event action is its whole handler, trailing checks of pending and
rootable blocks included: the loops over pending blocks and over the slots of a window are
recursive functions on `node`. `able` are the slots whose votes can be signed during the event: apart from keys and the
root bank, `generate_vote_tx` looks at the vote's slot (`wait_to_vote_slot`, the ranks of its epoch). Replay freezes a bank
in one step (`BankFrozen`) and the loop handles its `Block` event in another; `replayed` are the blocks in between, whose
banks the loop may root, or prune, before it sees the event. They form a set, as the events of own blocks come from
the broadcast stage (`broadcast_utils.rs:209`) and the others from replay. `certs` is the environment: what the cluster notarized and finalized, consistent as its stake majority is.

**Voting service.** `queue` is the channel to it, each element a vote with the history to save.
`Crash` restarts from `stored` with the bank forks at the root.

**Record channel.** `word` packs bank id and insertions left in base `Radix` (2^10 in the code)
and wraps. A sender is at one of the places between the atomic operations of `try_send`, so is
the service in `try_recv`, `is_safe_to_restart`, `shutdown` and `restart`.

**Tick producer.** `until_tick`, `tick_number` are the counters of `entry/src/poh.rs`. The channel
is reduced to the number of batches in it, which `RecordChannel` justifies.

**Leader bank.** `state[a]` is the last committed writer, `saw[u]` what a transaction or bundle read
when it was executed, `log` what PoH recorded. This is enough to say that replaying `log` in order
reads the same as execution did. A batch of the banking stage is one transaction.

**Bundle stage.** The container, the two queues, the window and the leader's decision per slot;
processing ends with one of the three results of `process_bundle`. The container is a map from ids (`Keys`) to entries, and a
bundle remembers its ids (`container_ids`). `insert_bundle` ends in one of four ways (`InsertResults`): rejected before the first packet,
for its room among other things; with a packet refused after some went in; with all in and two of them the same
transaction; or well. After an error it takes out what it put in (`Rollback`). An id may be given again as soon as its
entry is gone.

## 3. Runs

All bounds are constants in the `.cfg` files. TLC explores all behaviours of each instance.

| run | instance | what it shows |
|---|---|---|
| `sched_priority` | sessions of 4 tasks, with 4 transactions or with one of them twice, 2 addresses, 2 running, cap 3 | conflicting tasks never run together, no deadlock, no assert fails (clearing included), the cap is exact and no transaction is active twice, no overtaking by lower priority, every task finishes |
| `sched_fifo` | a block of 5, 2 addresses | conflicting transactions run in block order, and the fifo queues have only behaviours of the priority queues (the claim in the source that the latter can replace them), so that what is proved of these holds for them |
| `sched_threads` | 2 banks, 2 handlers; verification: blocks of 2 and 1 transactions with failures and timeouts; production: 2 packets, 2 attempts each, 1 discarded buffer | every transaction is at exactly one place until it was executed, once; nothing runs in a bank whose session has ended; what a bank learns is an error exactly when a transaction failed, and Ok only when all were executed; no assert or unwrap of the threads, the manager or the status fails; whoever ends a session is not left waiting |
| `pool` | 3 validators with stakes 2, 2, 1; one of: all votes of the large ones for a slot with 2 blocks; the votes for one block together with the certificates made of them; the certificates of a chain over 4 slots; skip and fork certificates for 4 slots | certificates are built exactly when the stake is there, fallback votes are called safe exactly when they are, the incremental tracker agrees with the definition of parent-ready for every order and every root, the events sent are exact (each parent and finalization announced once, a leader window produced once, no panic on the way), the standstill set brings a peer up to date and does not panic |
| `votor_chain` | window of 2, 3 blocks on 2 forks, fair timers | voting follows the chain, no vote is forgotten (nothing votable is left pending, and what was notarized and voted is voted final), roots are finalized and descend, the assertions of the history hold, every slot of a ready window is voted or rooted over |
| `votor_crash` | 2 versions of a block, 2 crashes, failing signatures | broadcast votes never contradict each other |
| `timers` | windows of 2, timers for a first and a middle slot, 8 ticks of the clock, 1 change of identity | heap and map agree, a window's timeouts are sent each once, in order and not early however late the thread is, and on time if it is punctual |
| `record_channels` | 2 threads, 3 records, 2 banks, `Radix` 3, indexes tracked or not, fair | no assert fails, the word's budget is exact, the index returned is the record's place in its bank, the channel implements `RecordChannel`, a new bank is eventually set |
| `poh_slot` | 4 ticks of 13 hashes, batches of 4, capacity 4 | accepted records are recorded, the slot ends |
| `leader_bank` | 2 accounts; 2 bundles, 2 workers, a vote, or a tip bundle, a bundle, a worker, a vote; fair | lock counts are right, replay agrees with execution and the frozen bank, pre-locks only let work drain, bundles obtain their locks without giving up |
| `bundle_storage` | 5 bundles of 1 or 2 packets, 4 slots, capacity 3, 4 ids, window 2 | nothing leaks, from a half-inserted bundle either, arrival order is kept, one try a slot, buffered bundles are consumed |

Where one run has several kinds of input (`sched_threads`, `pool`, `record_channels`, `leader_bank`, `timers`), `Init` chooses one
of them and a behaviour keeps it.

The instances are the smallest in which each hard case happens, and the mutants measure this: each
property is violated, in its own run, by a mutation of a definition it is about.

One run expects a violation: the code and a text in the repository disagree.

- `votor_certificates`: "Update and save the vote history" (`voting_utils.rs:263`) is an update only.
  The vote goes to the own pool first, and a certificate with it can leave before the save.

Three smaller disagreements were met and have no run of their own. In the first two the properties
that pass say what the code does.

- "If it's a retryable error, add the bundle back to the back of the bundles deque" (`bundle_stage.rs:630`; the deque is
  the window). The code calls `retry_bundle` (`bundle_storage.rs:86`), which puts the bundle into the storage's buffer, from where
  it comes back in front of the others in the next slot. `ArrivalOrder` states and `bundle_storage` checks just this: after a
  retryable error a bundle keeps its place and is not tried again in the slot. Were the comment followed, both
  halves of the property would be false.
- A comment (`event_handler.rs:477`) says a late joiner votes at once, while in the middle of a window `try_notar` asks for
  an own vote on the parent, which is not there (`WindowsAreChained` in `votor_chain`).
- Genesis votes for different blocks of a slot add up (`consensus_pool.rs:166`), while `migration.rs:16` speaks of
  votes for one block.

### Bounds

- `Sessions` in `sched_priority`: a session with four transactions meets the cap, one with a transaction twice meets the
  duplicate; both at once would be a fifth task, which the proofs cover.
- `Keys` 4 with capacity 3 in the bundle stage: there is a free id for every packet the capacity lets in, and ids are given
  again, which a longer list of ids would only delay.
- `votor_chain` has no two frozen forks of different slots, so there no bank is pruned between its freezing and its
  event. `VotorProofs` covers that.
- Tasks, slots, validators, records, bundles, crashes: finite sets in the `.cfg`. Four tasks and two
  addresses give chains of reblocking and readers behind a reblocked writer. The proofs lift this bound.
- Scheduler threads: two banks are enough for a session to follow another on the same threads, and for a bank to
  find its scheduler gone; a third would repeat the second. `MaxAttempts` 2 lets a task be refused and run in
  the next session, `MaxResets` 1 discards the buffer once. The limits of the machine (2 running, 2 active) bind
  in production only, where the code has limits; in verification no more than 2 tasks exist in a session.
- `MaxTime` 8 is the length of a whole window after a late timer. `TimersProofs` lifts all bounds of `timers`.
- `MaxBacklog` bounds the votes queued when an event is taken. It is 0 or 1: the event loop does not
  read its queue, so a longer one only delays the voting service, and `votor_crash` has the delay of
  one event. `VotorProofs` lifts this bound and the next.
- `MaxCrashes` 2: one crash to lose state, one to lose what was rebuilt.
- `Radix` 3 instead of 2^10: a carry into the bank id is two insertions away, and the records of `Plan`
  do not all fit.
- `MaxSlot` 4 in the bundle stage: a bundle can be retried twice.

### Fairness

- Scheduler: handler threads finish tasks, and the scheduler thread takes what is runnable and goes on
  clearing (weak). Both are loops that block on nothing else.
- Scheduler threads: the scheduler thread, each handler, and a thread that is ending a session run when they can
  (weak). No bank need be completed and no timeout need come.
- Event loop: timers fire and the voting service takes votes. Timers have strong fairness because the
  bound on the backlog, which the code does not have, disables them at times.
- Record channel: weak for every thread inside a call. Strong for the mutex of the indexes and for the
  receiver's look at the queue, once a tick, which senders could otherwise pass for ever.
- PoH: the service's own steps (weak). No record need arrive.
- Bank: the bundle stage except its deadline, and each worker (weak).
- Bundle stage: its thread (weak), which polls with a timeout.

Deadlock is checked except where a run ends by its bounds (`CHECK_DEADLOCK FALSE`).

## 4. Proofs

`SchedulingStateMachineProofs`: for any finite sets of tasks and addresses,
any positive number running, any cap and any sessions,
`TypeCorrectness`, `ConflictFreedom`, `DeadlockFreedom`, `AssertsHold`,
`QueuesAreReusable`, `CapHolds` and `NoOvertaking`. None of these is inductive. `IInv` adds what the code keeps in
pieces: at each address, holders and blocked tasks are exactly the active tasks that asked for it; the
counter of a task is the number of addresses it is blocked on; the first task blocked behind readers is
a writer (`WriterFirst`, or a reader could wait for readers); and a holder that itself waits has a
higher priority than everything blocked behind it (`OrderInv`). The last is why reblocking cannot
deadlock: take the active task of highest priority. Wherever it is blocked, the holders have lower
priority, so by `OrderInv` they are blocked nowhere, and run or can run. `CapHolds` adds to `IInv` that the
hashes kept are at most `MaxActive`, and counts the active tasks through the bijection to their hashes.

`PriorityReplacesFifo`: for every block, that is any finite set of numbered tasks (`BlockIsOrdered`) over finitely
many addresses (`AddressesAreFinite`), `FifoInvariance` and `BlockIsReplayedInOrder`. `BlockOrder` is not
inductive: a fifo queue only counts its holders. `FifoInv` says who they are, namely the active tasks that asked for the
address and are not in its queue; that the count is their number; that they are readers or one writer; that the
queue is in block order and lies behind all of them, with a writer first behind readers; and that the counter of
a task is the number of queues it is in. A task with counter zero then holds all its addresses, and an earlier
conflicting task would have to be in a queue behind it.

In the same module, `PriorityQueueingReplacesFifo`: every behaviour of the fifo queues is one of the
priority queues, again for every block. `InitMaps` and `NextMaps` are the two halves; under the second there is a lemma per
action. The holders stand for `current`, the elements of the queue for `blocked`. That a priority
queue never reblocks here follows from block order (a new task has the lowest priority); that it grants the
same tasks, from `GrantedMaps`; and that both list the newly unblocked tasks in the same order, though one
pops an address's tasks by priority and the other by their place in its queue, from `WalkMaps`. So the safety
theorems of `SchedulingStateMachineProofs` apply to block verification, for a block that is not empty.

`PohTickProducerProofs`: for all lengths allowed by `SlotIsLong`, `RecordsAreNotLost`,
`ChannelClosesInTime` and `SlotTypes`. The invariant `SlotInv` says what each place of the loop relies
on: in the last tick the channel is open only with more than `Capacity + TicksPerSlot` hashes left, and
once it is closed there is a hash for every batch still in it and one for the tick. `SlotIsLong` holds
for the code's values by a wide margin when ticks have tens of thousands of hashes. It says that a tick
is longer than what a full channel needs.

`TimersProofs`: for all durations with `DELTA_BLOCK` and the idle sleep at most `DELTA_TIMEOUT`, all windows and
slots, `HeapIsExact`, `WindowsRunDown` and `TimeoutsAreOnTime`. `TimersInv` says that the state of a timer follows
from the events it sent (how many slots are left, and the deadline `DELTA_TIMEOUT` after it was set or
`DELTA_BLOCK` after the last event), that heap and map agree as a relation, and, for a punctual thread, that
no deadline lies before the time the thread will look at the heap: while it sleeps no timer is due before
`wake`, which is where `IDLE <= DELTA_TIMEOUT` is needed, the comment in `timer_manager.rs` turned into an
assumption.

`BundleStageProofs`: for any number of bundles and slots, any sizes and any window, `BundlesKeepTheirPlace` and
`StorageNeverLeaks`. `StageInv` adds to
`ArrivalOrder` how slots and attempts go together: there is a window only in the slot of the last pop, what is
unprocessed was not tried in that slot, and what is buffered was tried no later. Hence the refill in a new slot
may put the buffered bundles in front, and in the same slot they stay away. `EntriesInv` gives the entries in terms of the
queues, which are disjoint because they are in order, and says that the ids of two stored bundles are disjoint; so what a
rollback or `destroy` takes out is nobody else's. `CapacityInv` counts the entries packet by packet.

`RecordChannelsProofs`: for any finite set of threads, any plan of records that fit the capacity, any number of banks
and any `Radix`, `ChannelNeverFails`, `IndexesAreFollowed` and `ChannelKeepsPromise`. `ChannelInv` says what the code
leaves to its comments: `active` is the number of senders between `enter` and `leave`; a sender that is about to reserve
has seen a word that admits its record; what is reserved, queued or taken out is for the working bank;
once the service has found the channel safe to restart nobody holds a reservation, and then the queue is empty.
With this the compare-and-swap of `Reserve` and the `fetch_add` of the receiver keep the budget exact, and no carry
reaches the bank id. The index of a record is a matter of order: `Log` is what was recorded, is being recorded and is
queued, in that order. `LogInv` says that no record is in it twice, `IndexInv` that the mutex is held from load to
return and that the next index is the number of batches of the bank in `Log`. The refinement maps a reservation to the
abstract `Accept`, and taking a record from the queue to `Receive`.

`LeaderBankProofs`: for any transactions, bundles, accounts and size of the window, `LocksNeverLeak`,
`HoldersNeverConflict`, `PrelocksKeepOthersOut` and `BlockReplays`. A bundle is in one place only and `held` follows from
where the bundle stage is (`ControlInv`); the counts are those of the holders, and no two holders conflict
(`LockInv`, inductive together: the counts say who may join). `ReplayInv` adds what makes a block replayable: what a unit loaded
is what the block so far would give it, until it is recorded; a recorded unit that has not committed is the last writer of its
accounts; all other accounts are in the state the block gives. Recording keeps this because no other holder touches
the accounts, committing because the freeze lock is held from record to commit.

`VotorProofs`: for any tree of blocks, any window and number of slots, any backlog and number of crashes, and whether or not signing
fails. Of the event loop (`LoopSpec`): `LoopAssertsHold`, `LoopChainsWindows`, `LoopForgetsNoVote` and
`LoopRootsSoundly`; with the voting service and crashes (`Spec`): `NeverEquivocates` and
`RestartsAreSound`. The argument is in three layers.

- `HistoryInv` of a history: its indexes know of every vote in it, its votes are consistent, and notarizations are
  chained in a window. A vote that a handler's guards let through (`Allowed`) keeps it, passes the assertions of `add_vote`, and
  contradicts nothing; so does rooting.
- `Good` of the node in the middle of an event: the history is well-formed and extends the one the event began with,
  and every vote to be queued goes with a history that has it and extends the ones before. There is a lemma for each step
  of a handler. The loops (pending blocks, slots of a window) are recursive functions: `Recursion` gives a function
  that satisfies the equation, and `IntervalInduction`, over a set rather than a predicate, what holds after each round.
  `LoopForgetsNoVote` needs more of them: `Exhausted`, nothing pending could be voted for, is not
  kept by one vote but by the round over all slots in order, since a vote in a slot can only allow blocks of later slots; and
  `FinalInv` is broken by a notarization and repaired by the `try_final` that follows.
- `VotorInv` of the whole: the stored history is extended by each queued one and these by the one in memory, and
  what was sent since the stored root is in it. A vote is sent after a history with it is stored,
  so a restart forgets nothing that was sent, and no later vote contradicts it.

`ForgetsNothing` is not claimed across crashes: a vote is saved with the history as it is in the middle of its event, in
which the votes of the rest of the event are still owed.

Assumptions on constants are named where these are declared: `BlocksArePairs`, `ParentsAreEarlier` and `ParentsAreKnown` (a
block is a slot and a hash, and its parent is an earlier block or the root), `ThreadsAssumption`,
`LeaderBankAssumption` (a bundle is received once), and those above.

Only model-checked, and why:

- liveness (`EveryTaskFinishes`, `EveryWindowIsVoted`, `MessagesAreHandled`, `SlotsEnd`, `LocksAreObtained`,
  `BufferedComeBack`, `SessionsEnd`), which needs fairness and `ENABLED`;
- the pool (`CertificatesAreExact`, `FallbacksAreExact`, `StandstillSuffices`, `TracksTheCondition`, `EventsAreExact`). Stakes are sums
  over sets of validators and the tracker's `block_production_parent` and propagation are recursive over slots; what such a
  definition computes for every input needs induction with an operator, which the provers cannot instantiate;
- the scheduler threads (`NoTaskIsLost`, `RunsInItsSession`, `VerdictIsRight`, `ThreadsNeverPanic`). The model
  has an instance of `SchedulingStateMachine` inside and twenty more variables; an inductive invariant would have to say
  for every channel and every place of every thread which tasks may be there. The state machine itself is proved.

## 5. Not modelled

`components` in `PROJECT.json` gives the reason for each part. In short: cryptography, networking,
storage and execution semantics are left out as data or I/O. On the modelled paths these are left out:

- change of identity, metrics, rewards, and the full queue of the voting service;
- what a file system keeps after a power loss (a save is atomic and durable here), and with it the start from an empty
  history when the stored one cannot be loaded (`validator.rs:1593`): `NoEquivocation` is about restarts that load it;
- keys changed between two votes of one event, and the bound of votor's event channel, on which a sender would wait;
- the assertion of at most three certified blocks a slot (`parent_ready_tracker.rs:106`), which rests on the votes of
  the whole cluster;
- timers across a restart: a restored vote history knows the ready parents of the interrupted window, so its
  timer is not set again, and no text says what should become of the window;
- exit paths and other PoH producers;
- of the scheduler pool: panicking handlers, trashed production schedulers (overgrown, or switched off; there
  `send_new_task` unwraps, `unified-scheduler-pool/src/lib.rs:445`), dropping, and the reaping of idle ones;
- batches of several transactions, costs, retries of the banking stage, tip upkeep by workers, the BAM,
  external and unified schedulers as users of the leader's bank.

The flags `--bundle-cu-reserve-pct` and `--bundle-reserve-release-pct` are read and logged
(`src/validator/src/commands/run/execute.rs:768`); no code depends on them.

## 6. Plan

What would come next, in this order:

1. `MigrationStatus`: phases against PoH shutdown, replay and the genesis certificate.
2. `Alpenglow`: several validators with the votes `VoteHistory` allows and the pool's thresholds, one of them
   faulty: no two finalized blocks conflict; at most three fallback blocks a slot.
3. `ThreadAwareLocks`, the transaction container, QoS and cost tracker; block creation loop; fetch stage
   manager; BAM results.
4. `Tower`: lockouts, restored tower; then the fork choice against a recomputation.

Proofs, as the models stand: the tracker (`notar_fallbacks` and `skip` are what was certified at or above
the root, from which `TracksTheCondition`); and that a task of `PooledScheduler` is at one place (`NoTaskIsLost`).
