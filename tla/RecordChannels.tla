-------------------------- MODULE RecordChannels --------------------------
(* The channel from the transaction threads to the PoH service
   (poh/src/record_channels.rs): RecordSender::try_send and the methods of
   RecordReceiver, one step per atomic operation, and the PoH service's use of
   them around a new bank (poh/src/poh_service.rs).

   One word holds the bank and the insertions still allowed; Radix stands for
   two to the power ALLOWED_INSERTIONS_BITS and the banks for BANK_ID_BITS. *)
EXTENDS Integers, Sequences, FiniteSets, Functions

CONSTANTS Threads,     \* the transaction threads
          Radix,       \* MAX_ALLOWED_INSERTIONS + 1
          MaxBankId,   \* bound: banks are set in the order of their ids
          Plan         \* bound: the batches of each record a thread sends

ASSUME NumbersFit == /\ Radix \in Nat /\ Radix > 1
                     /\ MaxBankId \in Nat \ {0}
                     /\ Plan \in [Threads -> Seq(1..(Radix - 1))]

ASSUME ThreadsAssumption == /\ IsFiniteSet(Threads)
                            /\ {"free", "service"} \intersect Threads = {}

VARIABLES tracking,  \* whether transaction indexes are tracked
          word,      \* bank_id_allowed_insertions
          active,    \* active_senders
          chan,      \* the bounded queue
          lock,      \* who holds transaction_indexes
          index,     \* transaction_indexes
          pc,        \* where each thread is in try_send
          record,    \* the record each thread sends
          seen,      \* the word each thread has loaded
          at,        \* where the PoH service is
          message,   \* the bank the service was told to set, or 0
          got,       \* the record the service has taken out of the queue
          bank,      \* the working bank of the recorder
          given,     \* history: records try_send returned an index for, with it
          recorded,  \* history: what was recorded, in order
          failed     \* an assertion or a panic of the code

sender == <<pc, record, seen, given>>
receiver == <<at, message, got, bank, recorded>>
vars == <<tracking, word, active, chan, lock, index, sender, receiver, failed>>

Capacity == Radix - 1
DISABLED_BANK_ID == MaxBankId + 1
encoded_value(id, insertions) == id * Radix + insertions
bank_id(w) == w \div Radix
allowed_insertions(w) == w % Radix
SHUTDOWN == encoded_value(DISABLED_BANK_ID, 0)
Wrapped(w) == w % ((DISABLED_BANK_ID + 1) * Radix)

Free == "free"
Service == "service"
NoRecord == [thread |-> Free, number |-> 0, bank |-> 0, batches |-> 0]

Init ==
  /\ tracking \in BOOLEAN
  /\ word = SHUTDOWN
  /\ active = 0
  /\ chan = <<>>
  /\ lock = Free
  /\ index = 0
  /\ pc = [t \in Threads |-> "idle"]
  /\ record = [t \in Threads |-> [NoRecord EXCEPT !.thread = t]]
  /\ seen = [t \in Threads |-> SHUTDOWN]
  /\ at = "top"
  /\ message = 0
  /\ got = NoRecord
  /\ bank = 0
  /\ given = {}
  /\ recorded = <<>>
  /\ failed = FALSE

---------------------------------------------------------------------------
(* RecordSender::try_send.  A batch has one transaction. *)

Goes(t, from, to) == pc[t] = from /\ pc' = [pc EXCEPT ![t] = to]

\* A thread calls try_send for a bank it has seen.
Call(t, b) ==
  /\ Goes(t, "idle", "lock")
  /\ record[t].number < Len(Plan[t])
  /\ b <= bank
  /\ record' = [record EXCEPT ![t] = [thread |-> t, number |-> @.number + 1, bank |-> b,
                                      batches |-> Plan[t][@.number + 1]]]
  /\ UNCHANGED <<tracking, word, active, chan, lock, index, seen, given, receiver, failed>>

\* Mutant: the index is read without its lock.
MutantNoLock(t) ==
  /\ Goes(t, "lock", "load")
  /\ UNCHANGED <<tracking, word, active, chan, lock, index, record, seen, given, receiver, failed>>

Lock(t) ==
  /\ Goes(t, "lock", "load")
  /\ tracking => lock = Free
  /\ lock' = IF tracking THEN t ELSE lock
  /\ UNCHANGED <<tracking, word, active, chan, index, record, seen, given, receiver, failed>>

Unlocked == IF tracking THEN Free ELSE lock

\* Mutant: the bank of the record is not compared.
MutantAnyBank(w, r) ==
  bank_id(w) # DISABLED_BANK_ID /\ allowed_insertions(w) >= r.batches

\* The loaded word lets the record in.
Admits(w, r) ==
  /\ bank_id(w) # DISABLED_BANK_ID
  /\ bank_id(w) = r.bank
  /\ allowed_insertions(w) >= r.batches

Load(t) ==
  /\ Goes(t, "load", "enter")
  /\ Admits(word, record[t])
  /\ seen' = [seen EXCEPT ![t] = word]
  /\ UNCHANGED <<tracking, word, active, chan, lock, index, record, given, receiver, failed>>

\* Err(Shutdown), Err(InactiveBankId) or Err(Full).
Refuse(t) ==
  /\ Goes(t, "load", "idle")
  /\ ~Admits(word, record[t])
  /\ lock' = Unlocked
  /\ UNCHANGED <<tracking, word, active, chan, index, record, seen, given, receiver, failed>>

\* active_senders is incremented before the reservation.
Enter(t) ==
  /\ Goes(t, "enter", "reserve")
  /\ active' = active + 1
  /\ UNCHANGED <<tracking, word, chan, lock, index, record, seen, given, receiver, failed>>

Reserve(t) ==
  /\ word = seen[t]
  /\ Goes(t, "reserve", "push")
  /\ word' = encoded_value(bank_id(seen[t]), allowed_insertions(seen[t]) - record[t].batches)
  /\ UNCHANGED <<tracking, active, chan, lock, index, record, seen, given, receiver, failed>>

\* Mutant: a sender that goes round again counts once more.
MutantStaysActive(t) ==
  /\ word # seen[t]
  /\ Goes(t, "reserve", "lock")
  /\ lock' = Unlocked
  /\ UNCHANGED <<tracking, word, active, chan, index, record, seen, given, receiver, failed>>

Retry(t) ==
  /\ word # seen[t]
  /\ Goes(t, "reserve", "lock")
  /\ active' = active - 1
  /\ lock' = Unlocked
  /\ UNCHANGED <<tracking, word, chan, index, record, seen, given, receiver, failed>>

\* A full queue fails the assertion that only a disconnected one refuses.
Push(t) ==
  /\ Goes(t, "push", "leave")
  /\ chan' = Append(chan, record[t])
  /\ failed' = (failed \/ Len(chan) >= Capacity)
  /\ UNCHANGED <<tracking, word, active, lock, index, record, seen, given, receiver>>

Leave(t) ==
  /\ Goes(t, "leave", "return")
  /\ active' = active - 1
  /\ UNCHANGED <<tracking, word, chan, lock, index, record, seen, given, receiver, failed>>

Return(t) ==
  /\ Goes(t, "return", "idle")
  /\ given' = IF tracking THEN given \union {[record |-> record[t], index |-> index]} ELSE given
  /\ index' = IF tracking THEN index + record[t].batches ELSE index
  /\ lock' = Unlocked
  /\ UNCHANGED <<tracking, word, active, chan, record, seen, receiver, failed>>

Send(t) ==
  \/ Lock(t) \/ Load(t) \/ Refuse(t) \/ Enter(t) \/ Reserve(t) \/ Retry(t)
  \/ Push(t) \/ Leave(t) \/ Return(t)

---------------------------------------------------------------------------
(* RecordReceiver, driven by PohService::tick_producer. *)

Moves(from, to) == at = from /\ at' = to
OnlyMoves == UNCHANGED <<tracking, word, active, chan, lock, index, sender,
                         message, got, bank, recorded, failed>>

\* check_for_service_message: a message shuts the channel.
TakeMessage ==
  /\ Moves("top", "work")
  /\ bank < MaxBankId
  /\ message' = bank + 1
  /\ word' = SHUTDOWN
  /\ UNCHANGED <<tracking, active, chan, lock, index, sender, got, bank, recorded, failed>>

NoMessage ==
  /\ Moves("top", "work")
  /\ OnlyMoves

\* should_shutdown: the slot is nearly over.
ShutEarly ==
  /\ at = "work"
  /\ word' = SHUTDOWN
  /\ UNCHANGED <<tracking, active, chan, lock, index, sender, receiver, failed>>

\* record_or_hash returns for a tick without looking at the queue.
OnlyHash ==
  /\ Moves("work", "after")
  /\ OnlyMoves

TryRecv ==
  /\ Moves("work", "try")
  /\ OnlyMoves

\* Both looks of try_recv at the queue.
Pop ==
  /\ at \in {"try", "recheck"}
  /\ chan # <<>>
  /\ got' = Head(chan)
  /\ chan' = Tail(chan)
  /\ at' = "add"
  /\ UNCHANGED <<tracking, word, active, lock, index, sender, message, bank, recorded, failed>>

SeeEmpty ==
  /\ Moves("try", "check")
  /\ chan = <<>>
  /\ OnlyMoves

\* try_recv goes round while a sender is active, and then looks once more.
CheckActive ==
  /\ at = "check"
  /\ at' = IF active # 0 THEN "try" ELSE "recheck"
  /\ OnlyMoves

Empty ==
  /\ Moves("recheck", "after")
  /\ chan = <<>>
  /\ OnlyMoves

on_received_record ==
  /\ Moves("add", "record")
  /\ word' = Wrapped(word + got.batches)
  /\ UNCHANGED <<tracking, active, chan, lock, index, sender, message, got, bank, recorded, failed>>

\* PohRecorder::record fails, and the service panics, for another bank.  The
\* channel is shut if the record leaves too little of the slot.
Record ==
  /\ Moves("record", "try")
  /\ word' \in {word, SHUTDOWN}
  /\ recorded' = Append(recorded, got)
  /\ failed' = (failed \/ got.bank # bank)
  /\ got' = NoRecord
  /\ UNCHANGED <<tracking, active, chan, lock, index, sender, message, bank>>

\* Mutant: only the queue is looked at.
MutantIgnoresSenders ==
  /\ at = "after"
  /\ at' = IF message = 0 THEN "top" ELSE "safe"
  /\ OnlyMoves

\* can_process_service_message, is_safe_to_restart: the senders first.
CheckSafe ==
  /\ at = "after"
  /\ at' = IF message = 0 THEN "top" ELSE IF active = 0 THEN "safe" ELSE "work"
  /\ OnlyMoves

CheckEmpty ==
  /\ at = "safe"
  /\ at' = IF chan = <<>> THEN "set" ELSE "work"
  /\ OnlyMoves

\* handle_service_message: too late in the slot to open the channel, or not.
SetBank ==
  /\ at = "set"
  /\ \/ at' = "restart" /\ message' = message
     \/ at' = "top" /\ message' = 0
  /\ bank' = message
  /\ UNCHANGED <<tracking, word, active, chan, lock, index, sender, got, recorded, failed>>

\* restart: the index is reset, and kept locked until the word is stored.
LockIndex ==
  /\ Moves("restart", "store")
  /\ tracking => lock = Free
  /\ failed' = (failed \/ chan # <<>>)
  /\ lock' = IF tracking THEN Service ELSE lock
  /\ index' = 0
  /\ UNCHANGED <<tracking, word, active, chan, sender, message, got, bank, recorded>>

StoreWord ==
  /\ Moves("store", "unlock")
  /\ word' = encoded_value(bank, Capacity)
  /\ UNCHANGED <<tracking, active, chan, lock, index, sender, message, got, bank, recorded, failed>>

UnlockIndex ==
  /\ Moves("unlock", "top")
  /\ message' = 0
  /\ lock' = Unlocked
  /\ UNCHANGED <<tracking, word, active, chan, index, sender, got, bank, recorded, failed>>

Receiving ==
  \/ TakeMessage \/ NoMessage \/ ShutEarly \/ OnlyHash \/ TryRecv \/ Pop \/ SeeEmpty
  \/ CheckActive \/ Empty \/ on_received_record \/ Record \/ CheckSafe \/ CheckEmpty
  \/ SetBank \/ LockIndex \/ StoreWord \/ UnlockIndex

Next ==
  \/ \E t \in Threads :
       \/ \E b \in 1..MaxBankId : Call(t, b)
       \/ Send(t)
  \/ Receiving

Spec == Init /\ [][Next]_vars

\* Every thread goes on with a send it has begun, and so does the service; it
\* hashes only once a tick without looking at the queue.
Fairness ==
  /\ \A t \in Threads : WF_vars(Send(t)) /\ SF_vars(Lock(t))
  /\ WF_vars(Receiving) /\ SF_vars(TryRecv)
  /\ SF_vars(LockIndex)

FairSpec == Spec /\ Fairness

---------------------------------------------------------------------------
(* Properties *)

\* The records whose place in the queue is reserved.
Reserved == {t \in Threads : pc[t] = "push"}
Held == [t \in Reserved |-> record[t]]

\* The number of batches of the records f[x], counted one by one.
Places(f) == {p \in (DOMAIN f) \X (1..Capacity) : p[2] <= f[p[1]].batches}
Batches(f) == Cardinality(Places(f))

\* The insertions still allowed and those under way make up the capacity, and
\* the carry of one part of the word never reaches the other.
BudgetIsExact ==
  LET underway == Batches(chan) + Batches(Held)
                    + (IF at = "add" THEN got.batches ELSE 0)
  IN IF bank_id(word) = DISABLED_BANK_ID
     THEN allowed_insertions(word) + underway <= Capacity
     ELSE bank_id(word) = bank /\ allowed_insertions(word) + underway = Capacity

\* Nothing that the code asserts or panics on happens: the queue is never full
\* for a reserved record, it is empty on a restart, and the PoH service records
\* what was sent for a bank while that is the working bank.  The budget the
\* senders share with the receiver is exact.
NeverFails == ~failed /\ BudgetIsExact

\* The batches for bank b among the records of s before the i-th.
Before(s, i, b) == Batches([j \in {j \in 1..(i - 1) : s[j].bank = b} |-> s[j]])

\* The index that try_send returns is the number of transactions recorded
\* before in the bank.
IndexesFollowOrder ==
  tracking =>
    \A g \in given, i \in 1..Len(recorded) :
      recorded[i] = g.record => g.index = Before(recorded, i, g.record.bank)

\* A new bank is set at last, whatever the senders do meanwhile.
MessagesAreHandled == (message # 0) ~> (message = 0)

\* The steps of senders and receiver together keep the channel's promise.
AllRecords ==
  UNION {{[thread |-> t, number |-> i, bank |-> b, batches |-> Plan[t][i]] :
            i \in 1..Len(Plan[t]), b \in 1..MaxBankId} : t \in Threads}
RecordBank(r) == r.bank

OpenBank == bank_id(word)
Accepted == Range(chan) \union Range(Held)
Received == Range(recorded) \union (IF got = NoRecord THEN {} ELSE {got})

Promise == INSTANCE RecordChannel WITH
  Records <- AllRecords, BankOf <- RecordBank,
  Banks <- 1..MaxBankId, NoBank <- DISABLED_BANK_ID,
  open <- OpenBank, accepted <- Accepted, received <- Received

KeepsPromise == Promise!ChannelSpec
============================================================================
