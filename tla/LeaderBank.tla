----------------------------- MODULE LeaderBank -----------------------------
(***************************************************************************)
(* Who may touch which account of the bank a leader is producing:          *)
(*   - the bundle stage (core/src/bundle_stage.rs) pre-locks a window of   *)
(*     bundles, then locks, executes, records and commits the front one;   *)
(*   - the scheduler (core/src/banking_stage/transaction_scheduler) hands  *)
(*     transactions to worker threads, none that touches a pre-locked      *)
(*     account, and the workers lock, execute, record and commit them;     *)
(*   - the vote worker locks votes itself, under the pre-locks' mutex;     *)
(*   - PoH stops taking records at the end of the slot and the bank is     *)
(*     frozen.                                                             *)
(* A batch of the banking stage is one transaction.  What a transaction    *)
(* does to an account is abstracted to its name: state[a] is the last      *)
(* writer of a, and an execution sees the writers of what it loads.        *)
(***************************************************************************)
EXTENDS AccountLocks, FiniteSetsExt

CONSTANTS Txs,              \* transactions of the banking stage
          Votes,            \* the ones among them the vote worker handles
          Threads,          \* consume workers
          Bundle,           \* Bundle[b] = the sequence of transactions of bundle b
          Slots,            \* what a slot may have to do: tip bundles, the bundles in
                            \* storage, in order, and the queued transactions
          Window,           \* BUNDLE_WINDOW_SIZE, 10 in the code
          None              \* the writer of an account nobody has written yet

Bundles == DOMAIN Bundle
Units == Txs \cup Bundles

(***************************************************************************)
(* A bundle is received once, and is not a transaction of the banking      *)
(* stage.                                                                  *)
(***************************************************************************)
ASSUME LeaderBankAssumption ==
    /\ IsFiniteSet(Txs) /\ Txs \cap Bundles = {} /\ Txs \subseteq DOMAIN Access
    /\ Votes \subseteq Txs
    /\ \A b \in Bundles : Bundle[b] \in Seq(DOMAIN Access)
    /\ \A slot \in Slots : /\ slot.tips \in Seq(Bundles) /\ slot.stored \in Seq(Bundles)
                           /\ IsInjective(slot.tips \o slot.stored)
    /\ Window \in Nat \ {0}

Batch(u) == IF u \in Bundles THEN Bundle[u] ELSE <<u>>
WritesOf(u) == UNION {Access[tx].write : tx \in Range(Batch(u))}
LoadsOf(u) == UNION {Touched(tx) : tx \in Range(Batch(u))}

VARIABLES
    locks,      \* the bank's AccountLocks
    prelocks,   \* the BundleAccountLocks
    tips,       \* tip bundles of this slot still to do
    stored,     \* unprocessed bundles
    window,     \* `bundles` of consume_bundles; the one in work stays at its front
    at,         \* where the bundle stage is
    held,       \* indexes of the front bundle's transactions whose locks it holds
    status,     \* where each banking transaction is
    work,       \* the channel of each worker; the transaction in work is its head
    on,         \* the thread for which the scheduler has locked a transaction's accounts
    bank,       \* "open", "closed" (no more records), "frozen"
    state,      \* last committed writer of each account
    saw,        \* what each unit loaded when it was executed, unless it was abandoned since
    log         \* the units recorded, in PoH's order

stage == <<tips, stored, window, at, held>>
banking == <<status, work, on>>
vars == <<locks, prelocks, tips, stored, window, at, held, status, work, on, bank, state,
          saw, log>>

Init ==
  \E slot \in Slots :
    /\ locks = NoLocks
    /\ prelocks = NoLocks
    /\ tips = slot.tips
    /\ stored = slot.stored
    /\ window = <<>>
    /\ at = "fill"
    /\ held = {}
    /\ status = [x \in Txs |-> IF x \in slot.queued THEN "queued" ELSE "done"]
    /\ work = [t \in Threads |-> <<>>]
    /\ on = [x \in Txs |-> None]
    /\ bank = "open"
    /\ state = [a \in Accounts |-> None]
    /\ saw = [u \in Units |-> <<>>]
    /\ log = <<>>

Loaded(u) == [a \in LoadsOf(u) |-> state[a]]
Written(u) == [a \in Accounts |-> IF a \in WritesOf(u) THEN u ELSE state[a]]

-----------------------------------------------------------------------------
(***************************************************************************)
(* The bundle stage.                                                       *)
(***************************************************************************)
lock_bundle(b) == prelocks' = LockAll(prelocks, Bundle[b], DOMAIN Bundle[b])
unlock_bundle(b) == prelocks' = UnlockAll(prelocks, Bundle[b], DOMAIN Bundle[b])

Current == Head(window)
All == DOMAIN Bundle[Current]

DropBatch == /\ locks' = UnlockAll(locks, Bundle[Current], held)
             /\ held' = {}

(***************************************************************************)
(* handle_tip_programs: a tip bundle is pre-locked and processed before    *)
(* any bundle of the storage.                                              *)
(***************************************************************************)
TakeTips ==
    /\ at = "fill" /\ window = <<>> /\ tips # <<>>
    /\ lock_bundle(Head(tips))
    /\ window' = <<Head(tips)>>
    /\ at' = "front"
    /\ UNCHANGED <<locks, tips, stored, held, banking, bank, state, saw, log>>

(***************************************************************************)
(* The window is filled before its front is taken.                         *)
(***************************************************************************)
Fill ==
    /\ at = "fill" /\ tips = <<>> /\ stored # <<>> /\ Len(window) < Window
    /\ lock_bundle(Head(stored))
    /\ window' = Append(window, Head(stored))
    /\ stored' = Tail(stored)
    /\ UNCHANGED <<locks, tips, at, held, banking, bank, state, saw, log>>

TakeFront ==
    /\ at = "fill" /\ tips = <<>> /\ window # <<>>
    /\ stored = <<>> \/ Len(window) = Window
    /\ at' = "front"
    /\ UNCHANGED <<locks, prelocks, tips, stored, window, held, banking, bank, state, saw, log>>

(***************************************************************************)
(* A complete bank, a transaction that fails its checks or does not fit    *)
(* in the block end the processing before anything is locked.              *)
(***************************************************************************)
CheckBundle ==
    /\ at = "front"
    /\ at' \in {"try", "failed"}
    /\ UNCHANGED <<locks, prelocks, tips, stored, window, held, banking, bank, state, saw, log>>

(***************************************************************************)
(* try_lock_batch.  A batch some of whose transactions are refused keeps   *)
(* the locks of the others while the stage sleeps, and drops them when it  *)
(* wakes up to try again, or to give up after the last attempt.            *)
(***************************************************************************)
TryLockBatch ==
    /\ at = "try"
    /\ LET ok == Lockable(locks, Bundle[Current])
       IN  /\ locks' = LockAll(locks, Bundle[Current], ok)
           /\ held' = ok
           /\ at' = IF ok = All THEN "locked" ELSE "asleep"
    /\ UNCHANGED <<prelocks, tips, stored, window, banking, bank, state, saw, log>>

MutantKeepsBatch ==
    /\ at = "asleep"
    /\ at' = "try"
    /\ UNCHANGED <<locks, prelocks, tips, stored, window, held, banking, bank, state, saw, log>>

WakeUp ==
    /\ at = "asleep"
    /\ DropBatch
    /\ at' = "try"
    /\ UNCHANGED <<prelocks, tips, stored, window, banking, bank, state, saw, log>>

GiveUp ==
    /\ at = "asleep"
    /\ DropBatch
    /\ at' = "failed"
    /\ UNCHANGED <<prelocks, tips, stored, window, banking, bank, state, saw, log>>

ExecuteBundle ==
    /\ at = "locked"
    /\ saw' = [saw EXCEPT ![Current] = Loaded(Current)]
    /\ at' = "executed"
    /\ UNCHANGED <<locks, prelocks, tips, stored, window, held, banking, bank, state, log>>

(***************************************************************************)
(* The bank's freeze lock is held from here until the commit.              *)
(***************************************************************************)
RecordBundle ==
    /\ at = "executed" /\ bank = "open"
    /\ log' = Append(log, Current)
    /\ at' = "recorded"
    /\ UNCHANGED <<locks, prelocks, tips, stored, window, held, banking, bank, state, saw>>

(***************************************************************************)
(* A transaction of the bundle failed, or the record was refused.          *)
(***************************************************************************)
AbandonBundle ==
    /\ at = "executed"
    /\ DropBatch
    /\ at' = "failed"
    /\ saw' = [saw EXCEPT ![Current] = <<>>]
    /\ UNCHANGED <<prelocks, tips, stored, window, banking, bank, state, log>>

CommitBundle ==
    /\ at = "recorded"
    /\ state' = Written(Current)
    /\ at' = "committed"
    /\ UNCHANGED <<locks, prelocks, tips, stored, window, held, banking, bank, saw, log>>

DropBundleBatch ==
    /\ at = "committed"
    /\ DropBatch
    /\ at' = "done"
    /\ UNCHANGED <<prelocks, tips, stored, window, banking, bank, state, saw, log>>

(***************************************************************************)
(* unlock_bundle, after the result of process_bundle.  A failed tip bundle *)
(* ends handle_tip_programs; its error does not stop the bundles.          *)
(***************************************************************************)
ReleaseBundle ==
    /\ at \in {"failed", "done"}
    /\ unlock_bundle(Current)
    /\ window' = Tail(window)
    /\ tips' = IF tips # <<>> /\ at = "done" THEN Tail(tips) ELSE <<>>
    /\ at' = "fill"
    /\ UNCHANGED <<locks, stored, held, banking, bank, state, saw, log>>

-----------------------------------------------------------------------------
(***************************************************************************)
(* The banking stage.  The thread-aware locks of the scheduler hold a      *)
(* transaction's accounts for its thread from the moment it is scheduled   *)
(* until its result has been received.                                     *)
(***************************************************************************)
schedulable_threads(x) ==
    {t \in Threads : \A y \in Txs : Conflict(x, y) => on[y] \in {t, None}}

(***************************************************************************)
(* try_schedule_transaction of the greedy and the prio-graph scheduler:    *)
(* the pre-locks are looked at and the thread-aware locks taken under the  *)
(* mutex of the pre-locks.                                                 *)
(***************************************************************************)
MutantForgetsPrelocks(x, t) ==
    /\ status[x] = "queued" /\ x \notin Votes
    /\ t \in schedulable_threads(x)
    /\ status' = [status EXCEPT ![x] = "sent"]
    /\ work' = [work EXCEPT ![t] = Append(@, x)]
    /\ on' = [on EXCEPT ![x] = t]
    /\ UNCHANGED <<locks, prelocks, stage, bank, state, saw, log>>

try_schedule_transaction(x, t) ==
    /\ status[x] = "queued" /\ x \notin Votes
    /\ can_lock_accounts(prelocks, x)
    /\ t \in schedulable_threads(x)
    /\ status' = [status EXCEPT ![x] = "sent"]
    /\ work' = [work EXCEPT ![t] = Append(@, x)]
    /\ on' = [on EXCEPT ![x] = t]
    /\ UNCHANGED <<locks, prelocks, stage, bank, state, saw, log>>

(***************************************************************************)
(* A worker takes the work of its channel in order and locks the accounts  *)
(* in the bank without asking for pre-locks again.                         *)
(***************************************************************************)
LockWork(x) ==
    /\ status[x] = "sent" /\ x = Head(work[on[x]])
    /\ can_lock_accounts(locks, x)
    /\ locks' = lock_accounts(locks, x)
    /\ status' = [status EXCEPT ![x] = "locked"]
    /\ UNCHANGED <<prelocks, stage, work, on, bank, state, saw, log>>

(***************************************************************************)
(* No working bank, an account in use or a block that is full: retryable.  *)
(***************************************************************************)
ReturnWork(x) ==
    /\ status[x] = "sent" /\ x = Head(work[on[x]])
    /\ work' = [work EXCEPT ![on[x]] = Tail(@)]
    /\ status' = [status EXCEPT ![x] = "retryable"]
    /\ UNCHANGED <<locks, prelocks, stage, on, bank, state, saw, log>>

(***************************************************************************)
(* The scheduler receives finished work, frees its own locks and queues    *)
(* the transaction again or removes it.                                    *)
(***************************************************************************)
try_receive_completed(x) ==
    /\ status[x] \in {"retryable", "removable"}
    /\ status' = [status EXCEPT ![x] = IF @ = "retryable" THEN "queued" ELSE "done"]
    /\ on' = [on EXCEPT ![x] = None]
    /\ UNCHANGED <<locks, prelocks, stage, work, bank, state, saw, log>>

(***************************************************************************)
(* The vote worker looks at the pre-locks and takes the bank's locks while *)
(* it holds the mutex of the pre-locks.                                    *)
(***************************************************************************)
LockVote(x) ==
    /\ status[x] = "queued" /\ x \in Votes
    /\ can_lock_accounts(prelocks, x)
    /\ can_lock_accounts(locks, x)
    /\ locks' = lock_accounts(locks, x)
    /\ status' = [status EXCEPT ![x] = "locked"]
    /\ UNCHANGED <<prelocks, stage, work, on, bank, state, saw, log>>

Execute(x) ==
    /\ status[x] = "locked"
    /\ saw' = [saw EXCEPT ![x] = Loaded(x)]
    /\ status' = [status EXCEPT ![x] = "executed"]
    /\ UNCHANGED <<locks, prelocks, stage, work, on, bank, state, log>>

(***************************************************************************)
(* The freeze lock is held from the record to the commit.                  *)
(***************************************************************************)
Record(x) ==
    /\ status[x] = "executed" /\ bank = "open"
    /\ log' = Append(log, x)
    /\ status' = [status EXCEPT ![x] = "recorded"]
    /\ UNCHANGED <<locks, prelocks, stage, work, on, bank, state, saw>>

(***************************************************************************)
(* The batch is dropped and the result sent.  A vote's result stays with   *)
(* the vote worker.                                                        *)
(***************************************************************************)
Finish(x, result) ==
    /\ locks' = unlock_accounts(locks, x)
    /\ IF x \in Votes
       THEN /\ status' = [status EXCEPT ![x] = IF result = "retryable" THEN "queued" ELSE "done"]
            /\ UNCHANGED work
       ELSE /\ status' = [status EXCEPT ![x] = result]
            /\ work' = [work EXCEPT ![on[x]] = Tail(@)]
    /\ UNCHANGED <<prelocks, stage, on, bank, state, log>>

(***************************************************************************)
(* The record was refused, or the transaction could not be processed.      *)
(***************************************************************************)
Abandon(x) ==
    /\ status[x] = "executed"
    /\ \E result \in {"retryable", "removable"} : Finish(x, result)
    /\ saw' = [saw EXCEPT ![x] = <<>>]

Commit(x) ==
    /\ status[x] = "recorded"
    /\ state' = Written(x)
    /\ status' = [status EXCEPT ![x] = "committed"]
    /\ UNCHANGED <<locks, prelocks, stage, work, on, bank, saw, log>>

DropWork(x) ==
    /\ status[x] = "committed"
    /\ Finish(x, "removable")
    /\ UNCHANGED saw

-----------------------------------------------------------------------------
(***************************************************************************)
(* The end of the slot: PoH takes no more records for the bank, and the    *)
(* bank is frozen by a writer of the lock that record-to-commit reads.     *)
(***************************************************************************)
CloseRecords ==
    /\ bank = "open"
    /\ bank' = "closed"
    /\ UNCHANGED <<locks, prelocks, stage, banking, state, saw, log>>

FreezeLocked == at = "recorded" \/ \E x \in Txs : status[x] = "recorded"

Freeze ==
    /\ bank = "closed"
    /\ ~ FreezeLocked
    /\ bank' = "frozen"
    /\ UNCHANGED <<locks, prelocks, stage, banking, state, saw, log>>

StageStep == \/ TakeTips \/ Fill \/ TakeFront \/ CheckBundle \/ TryLockBatch \/ WakeUp
             \/ GiveUp \/ ExecuteBundle \/ RecordBundle \/ AbandonBundle \/ CommitBundle
             \/ DropBundleBatch \/ ReleaseBundle

WorkStep(x) == \/ LockWork(x) \/ ReturnWork(x) \/ try_receive_completed(x) \/ Execute(x)
               \/ Record(x) \/ Abandon(x) \/ Commit(x) \/ DropWork(x)

Next == \/ StageStep
        \/ \E x \in Txs, t \in Threads : try_schedule_transaction(x, t)
        \/ \E x \in Txs : LockVote(x) \/ WorkStep(x)
        \/ CloseRecords \/ Freeze

Spec == Init /\ [][Next]_vars

(***************************************************************************)
(* The threads of the stage and of the workers run on.  Nothing forces the *)
(* stage to give up: its deadline is not needed for what is shown below.   *)
(***************************************************************************)
StageRuns == \/ TakeTips \/ Fill \/ TakeFront \/ CheckBundle \/ TryLockBatch \/ WakeUp
             \/ ExecuteBundle \/ RecordBundle \/ AbandonBundle \/ CommitBundle
             \/ DropBundleBatch \/ ReleaseBundle

FairSpec == /\ Spec
            /\ WF_vars(StageRuns)
            /\ \A x \in Txs : WF_vars(WorkStep(x))

-----------------------------------------------------------------------------
InFlight == {x \in Txs : status[x] \notin {"queued", "done"}}
Holders == {x \in Txs : status[x] \in {"locked", "executed", "recorded", "committed"}}

\* The transactions of these bundles that use an account.
PreLockers(bs, mode, a) ==
    UNION {{<<b, i>> : i \in Users(Bundle[b], DOMAIN Bundle[b], mode, a)} : b \in bs}

(***************************************************************************)
(* The counts in the bank's lock table are those of the batches that hold  *)
(* locks, a batch refused in part included, and the pre-locks are those of *)
(* the bundles in the window.  So no lock outlives its batch, and the      *)
(* stage leaves no pre-lock behind, which consume_bundles asserts at its   *)
(* end.                                                                    *)
(***************************************************************************)
LocksAreHeld ==
    \A a \in Accounts, mode \in {"write", "read"} :
      /\ locks[mode][a] = Cardinality({x \in Holders : a \in Access[x][mode]})
                            + Cardinality(Users(Bundle[Current], held, mode, a))
      /\ prelocks[mode][a] = Cardinality(PreLockers(Range(window), mode, a))

\* In the first n units of a block, in order.
LastWriter(block, n, a) ==
    LET writers == {i \in 1..n : a \in WritesOf(block[i])}
    IN  IF writers = {} THEN None ELSE block[Max(writers)]

(***************************************************************************)
(* Replaying the block gives every transaction what it saw when the leader *)
(* executed it: in PoH's order, the last writer of each account it loads   *)
(* is the one it loaded.  This is what the locks from execution to commit  *)
(* are for (the head comment of bundle_account_locker.rs).  And a frozen   *)
(* bank has everything that was recorded for its block and nothing else,   *)
(* whatever was between record and commit when the slot ended.             *)
(***************************************************************************)
ReplayAgrees ==
    /\ \A n \in DOMAIN log : \A a \in LoadsOf(log[n]) : saw[log[n]][a] = LastWriter(log, n - 1, a)
    /\ bank = "frozen" => \A a \in Accounts : state[a] = LastWriter(log, Len(log), a)

(***************************************************************************)
(* Once a bundle is pre-locked, the banking transactions in flight that    *)
(* conflict with it only become fewer: none is scheduled, and no vote is   *)
(* locked, until the bundle is released.                                   *)
(***************************************************************************)
Blocking(b) == {x \in (InFlight \ Votes) \cup Holders :
                  \E tx \in Range(Bundle[b]) : Conflict(x, tx)}

OnlyDrains ==
    [][\A b \in Range(window) \cap Range(window') : Blocking(b)' \subseteq Blocking(b)]_vars

(***************************************************************************)
(* A bundle that tries to lock its batch gets the locks or is given up by  *)
(* the deadline; and it gets them if there is no deadline, because what    *)
(* blocks it drains and its own partial locks starve nobody for ever.      *)
(***************************************************************************)
LocksAreObtained == at = "try" ~> at \in {"locked", "failed"}
=============================================================================
