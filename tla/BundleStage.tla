---------------------------- MODULE BundleStage -----------------------------
(***************************************************************************)
(* The thread of the bundle stage (core/src/bundle_stage.rs) and its       *)
(* storage (core/src/bundle_stage/bundle_storage.rs): bundles arrive, wait *)
(* while the validator is not leader, are pre-locked in a window and       *)
(* processed in the slots it leads, and are tried again in a later slot    *)
(* when they fail for a reason that may go away.  What happens to the      *)
(* front bundle while it is processed is the subject of LeaderBank; here   *)
(* it has one of the three results of process_bundle.                      *)
(*                                                                         *)
(* Bundles are numbered in the order in which they arrive.                 *)
(***************************************************************************)
EXTENDS Naturals, Sequences, FiniteSetsExt

CONSTANTS Size,             \* Size[b] = packets of bundle b
          Capacity,         \* transaction_capacity of the storage
          Keys,             \* the container ids: keys of a slab, used again once vacant
          Window,           \* BUNDLE_WINDOW_SIZE
          Unlockable,       \* bundles that lock_bundle refuses
          MaxSlot           \* bound: the last slot of the model

Bundles == DOMAIN Size
Slots == 1..MaxSlot
Decisions == {"Consume", "Hold", "Forward"}
InsertResults == {"Ok", "Rejected", "PacketFilterError", "DuplicateTransaction"}

ASSUME BundleStageAssumption ==
    /\ IsFiniteSet(Bundles) /\ Bundles = 1..Cardinality(Bundles)
    /\ Size \in [Bundles -> Nat \ {0}]
    /\ Capacity \in Nat
    /\ Window \in Nat \ {0}
    /\ IsFiniteSet(Keys)

VARIABLES
    arrived,        \* bundles received so far are 1..arrived
    container,      \* transaction_view_state_container: container id -> entry
    container_ids,  \* the ids a bundle carries with it from queue to queue
    unprocessed,    \* unprocessed_bundles
    buffered,       \* cost_model_buffered_bundles
    last_slot,      \* slot of the last pop
    window,         \* `bundles`, the window of consume_bundles
    on,             \* slot of the bank consume_bundles works on; 0 outside of it
    leader,         \* what the decision maker answers, and for which slot
    complete,       \* is the bank of the leader's slot complete?
    tried           \* history: the last slot in which each bundle was processed

vars == <<arrived, container, container_ids, unprocessed, buffered, last_slot, window, on,
          leader, complete, tried>>
storage == <<container, container_ids, unprocessed, buffered, last_slot>>
world == <<leader, complete>>

Init ==
    /\ arrived = 0
    /\ container = <<>>
    /\ container_ids = [b \in Bundles |-> {}]
    /\ unprocessed = <<>> /\ buffered = <<>>
    /\ last_slot = 0
    /\ window = <<>>
    /\ on = 0
    /\ leader = [slot |-> 1, decision |-> "Hold"]
    /\ complete = FALSE
    /\ tried = [b \in Bundles |-> 0]

\* The entry of a packet of bundle b; its transaction may be taken for scheduling.
Entry(b, taken) == [bundle |-> b, taken |-> taken]

buffer_size == Cardinality(DOMAIN container)

\* remove_by_id for each of ids, and what it does to a bundle that is dropped.
Without(entries, ids) == Restrict(entries, DOMAIN entries \ ids)
IdsOf(bs) == UNION {container_ids[b] : b \in bs}
destroy(bs) ==
    /\ container' = Without(container, IdsOf(bs))
    /\ container_ids' = [b \in Bundles |-> IF b \in bs THEN {} ELSE container_ids[b]]

\* take_transaction_for_scheduling and retry_transaction on each entry of b.
Marked(b, taken) ==
    [id \in DOMAIN container |-> IF id \in container_ids[b] THEN Entry(b, taken)
                                                            ELSE container[id]]

-----------------------------------------------------------------------------
(***************************************************************************)
(* insert_bundle: how many packets of b are in the container when the      *)
(* result is known.  The checks before the first packet reject the bundle  *)
(* with none there; a packet is refused after those before it went in;     *)
(* duplicates are looked for when all are there.                           *)
(***************************************************************************)
Inserted(b, result) ==
    CASE result = "Rejected" -> {0}
      [] result = "PacketFilterError" -> 0..Size[b] - 1
      [] result = "DuplicateTransaction" -> {Size[b]} \ {1}
      [] result = "Ok" -> {Size[b]}

MutantKeepsInserted(entries, ids) == entries

\* An error takes out again what was put in.
Rollback(entries, ids) == Without(entries, ids)

insert_bundle(b, result, ids) ==
    LET filled == [id \in DOMAIN container \cup ids |->
                     IF id \in ids THEN Entry(b, FALSE) ELSE container[id]]
    IN  /\ result # "Rejected" => buffer_size + Size[b] <= Capacity
        /\ Cardinality(ids) \in Inserted(b, result)
        /\ IF result = "Ok"
           THEN /\ container' = filled
                /\ container_ids' = [container_ids EXCEPT ![b] = ids]
                /\ unprocessed' = Append(unprocessed, b)
           ELSE /\ container' = Rollback(filled, ids)
                /\ UNCHANGED <<container_ids, unprocessed>>

receive_and_buffer_bundles ==
    /\ on = 0 /\ arrived < Cardinality(Bundles)
    /\ arrived' = arrived + 1
    /\ \E result \in InsertResults, ids \in SUBSET (Keys \ DOMAIN container) :
         insert_bundle(arrived + 1, result, ids)
    /\ UNCHANGED <<buffered, last_slot, window, on, world, tried>>

(***************************************************************************)
(* process_buffered_bundles, called when there are unprocessed bundles and *)
(* in any case after SLOT_BOUNDARY_CHECK_PERIOD.                           *)
(***************************************************************************)
MutantNoPeriod ==
    /\ on = 0 /\ leader.decision = "Consume" /\ unprocessed # <<>>
    /\ on' = leader.slot
    /\ UNCHANGED <<arrived, storage, window, world, tried>>

BeginConsume ==
    /\ on = 0 /\ leader.decision = "Consume"
    /\ on' = leader.slot
    /\ UNCHANGED <<arrived, storage, window, world, tried>>

clear ==
    /\ on = 0 /\ leader.decision = "Forward"
    /\ destroy(Range(unprocessed) \cup Range(buffered))
    /\ unprocessed' = <<>> /\ buffered' = <<>>
    /\ UNCHANGED <<arrived, last_slot, window, on, world, tried>>

(***************************************************************************)
(* pop_bundle: in a new slot the buffered bundles come first again.        *)
(***************************************************************************)
MutantRefillsBehind == IF on # last_slot THEN unprocessed \o buffered ELSE unprocessed

Refilled == IF on # last_slot THEN buffered \o unprocessed ELSE unprocessed
StillBuffered == IF on # last_slot THEN <<>> ELSE buffered

(***************************************************************************)
(* Pop a bundle and pre-lock it; one that cannot be locked is destroyed.   *)
(***************************************************************************)
Fill ==
    /\ on # 0 /\ Len(window) < Window /\ Refilled # <<>>
    /\ LET b == Head(Refilled)
       IN  IF b \in Unlockable
           THEN /\ destroy({b})
                /\ UNCHANGED window
           ELSE /\ container' = Marked(b, TRUE)
                /\ window' = Append(window, b)
                /\ UNCHANGED container_ids
    /\ unprocessed' = Tail(Refilled)
    /\ buffered' = StillBuffered
    /\ last_slot' = on
    /\ UNCHANGED <<arrived, on, world, tried>>

(***************************************************************************)
(* With a full window, or nothing left to pop, the front is processed.  A  *)
(* complete bank makes every bundle retryable; nothing succeeds on a bank  *)
(* that is no longer the leader's.                                         *)
(***************************************************************************)
FrontIsDue == /\ on # 0
              /\ Len(window) = Window \/ Refilled = <<>>

OnLeaderBank == leader = [slot |-> on, decision |-> "Consume"]

Process(result) ==
    /\ FrontIsDue /\ window # <<>>
    /\ complete /\ OnLeaderBank => result = "ErrorRetryable"
    /\ result = "Ok" => OnLeaderBank
    /\ LET b == Head(window)
       IN  /\ tried' = [tried EXCEPT ![b] = on]
           /\ IF result = "ErrorRetryable"
              THEN /\ container' = Marked(b, FALSE)
                   /\ buffered' = Append(buffered, b)
                   /\ UNCHANGED container_ids
              ELSE /\ destroy({b})
                   /\ UNCHANGED buffered
    /\ window' = Tail(window)
    /\ UNCHANGED <<arrived, unprocessed, last_slot, on, world>>

EndConsume ==
    /\ FrontIsDue /\ window = <<>>
    /\ buffered' = StillBuffered
    /\ last_slot' = on
    /\ on' = 0
    /\ UNCHANGED <<arrived, container, container_ids, unprocessed, window, world, tried>>

-----------------------------------------------------------------------------
(***************************************************************************)
(* The rest of the validator: the leader's bank completes, and the slots   *)
(* go by.                                                                  *)
(***************************************************************************)
CompleteBank ==
    /\ leader.decision = "Consume" /\ ~ complete
    /\ complete' = TRUE
    /\ UNCHANGED <<arrived, storage, window, on, leader, tried>>

NextSlot(decision) ==
    /\ leader.slot < MaxSlot
    /\ leader' = [slot |-> leader.slot + 1, decision |-> decision]
    /\ complete' = FALSE
    /\ UNCHANGED <<arrived, storage, window, on, tried>>

StageRuns == \/ BeginConsume \/ clear \/ Fill \/ EndConsume
             \/ \E result \in {"Ok", "ErrorRetryable", "ErrorNonRetryable"} : Process(result)

Next == \/ StageRuns
        \/ receive_and_buffer_bundles
        \/ CompleteBank
        \/ \E decision \in Decisions : NextSlot(decision)

(***************************************************************************)
(* The stage's thread runs; nothing else need happen.                      *)
(***************************************************************************)
Spec == Init /\ [][Next]_vars /\ WF_vars(StageRuns)

-----------------------------------------------------------------------------
(***************************************************************************)
(* The ids of the container are those of the bundles in the two queues and *)
(* in the window, one for each packet; an entry is of the bundle that has  *)
(* its id, and its transaction is taken just while that is in the window.  *)
(***************************************************************************)
Stored == buffered \o window \o unprocessed

EntriesMatch ==
    /\ IsInjective(Stored)
    /\ DOMAIN container = IdsOf(Range(Stored))
    /\ \A b \in Range(Stored) :
         /\ Cardinality(container_ids[b]) = Size[b]
         /\ \A id \in container_ids[b] : container[id] = Entry(b, b \in Range(window))

(***************************************************************************)
(* No entry leaks through a bundle given up half way in insert_bundle, a   *)
(* clear, a refused lock or a retry; an id that is used again is not still *)
(* in the hands of another bundle; the unwraps of pop_bundle and           *)
(* retry_bundle find what they expect; and the container stays within its  *)
(* capacity.                                                               *)
(***************************************************************************)
NothingLeaks == EntriesMatch /\ buffer_size <= Capacity

(***************************************************************************)
(* A retry costs a bundle neither its place nor a second attempt in the    *)
(* slot: what was buffered for a later slot, what is in the window and     *)
(* what is unprocessed are, in this order, as they arrived, and nothing in *)
(* the window was tried in this slot, however often consume_bundles is     *)
(* called in it.                                                           *)
(***************************************************************************)
ArrivalOrder ==
    /\ \A i, j \in DOMAIN Stored : i < j => Stored[i] < Stored[j]
    /\ \A b \in Range(window) : tried[b] < on

(***************************************************************************)
(* A buffered bundle is taken up again in the next slot the validator      *)
(* leads, even if no new bundle arrives to wake the stage, unless that     *)
(* slot passes first.                                                      *)
(***************************************************************************)
BufferedComeBack ==
    \A b \in Bundles, s \in Slots :
      (b \in Range(buffered) /\ leader = [slot |-> s, decision |-> "Consume"] /\ last_slot < s)
        ~> (b \notin Range(buffered) \/ leader.slot > s)
=============================================================================
