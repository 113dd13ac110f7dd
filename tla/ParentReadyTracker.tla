------------------------ MODULE ParentReadyTracker ------------------------
(* votor's ParentReadyTracker (votor/src/consensus_pool/parent_ready_tracker.rs):
   which blocks are ready as parents of a block in each slot, kept up to date
   as certificates arrive in any order and old slots are pruned.

   The tracker is a value and its methods are operators on it, so that the
   consensus pool can apply several of them in one step.  Certificates for
   slots above LastSlot are left out, so nothing is ready after LastSlot + 1. *)
EXTENDS Integers, FiniteSets

CONSTANTS LastSlot,   \* the highest slot a certificate is about
          Hashes,     \* block ids, ordered as numbers
          Window      \* NUM_CONSECUTIVE_LEADER_SLOTS

ASSUME SlotsAreNumbers == LastSlot \in Nat
ASSUME HashesAreNumbers == Hashes \subseteq Nat /\ Hashes # {}
ASSUME WindowIsPositive == Window \in Nat \ {0}

Slots == 0..LastSlot
BlocksOf(s) == {s} \X Hashes
Blocks == Slots \X Hashes
SlotOf(b) == b[1]

---------------------------------------------------------------------------
(* The tracker: slot_statuses as one set of skipped slots, one set of
   certified blocks, and the parents ready for each slot.  A slot without an
   entry and a slot with a default entry behave alike. *)

new(root_block) ==
  [root |-> SlotOf(root_block),
   skip |-> {},
   notar_fallbacks |-> {root_block},
   parents_ready |-> [s \in 0..LastSlot + 1 |->
                        IF s = SlotOf(root_block) + 1 THEN {root_block} ELSE {}],
   highest_with_parent_ready |-> SlotOf(root_block) + 1]

\* The slots a loop from slot + 1 visits: up to the first that is not skipped.
Connected(skip, slot) ==
  {s \in slot + 1..LastSlot + 1 : \A x \in slot + 1..s - 1 : x \in skip}

\* Every slot of future gets the parents; what was ready before stays.
WithParents(T, future, parents) ==
  [T EXCEPT !.parents_ready = [s \in 0..LastSlot + 1 |->
                                 IF s \in future THEN @[s] \union parents ELSE @[s]],
            !.highest_with_parent_ready =
              CHOOSE m \in {@} \union future : \A s \in {@} \union future : s <= m]

add_new_notar_fallback_or_stronger(T, block) ==
  IF SlotOf(block) <= T.root \/ block \in T.notar_fallbacks
  THEN T
  ELSE WithParents([T EXCEPT !.notar_fallbacks = @ \union {block}],
                   Connected(T.skip, SlotOf(block)), {block})

\* Mutant: only certified blocks of the previous slot are passed on.
MutantForgetsOlderParents(T, slot) ==
  {b \in T.notar_fallbacks : SlotOf(b) = slot - 1}

\* The parents a new skip of slot carries over to the slots after it.
PotentialParents(T, slot) ==
  {b \in T.notar_fallbacks : SlotOf(b) = slot - 1}
    \union (IF slot - 1 \in T.skip THEN T.parents_ready[slot - 1] ELSE {})

add_new_skip(T, slot) ==
  LET T2 == [T EXCEPT !.skip = @ \union {slot}]
      parents == PotentialParents(T2, slot)
  IN IF slot <= T.root THEN T
     ELSE IF parents = {} THEN T2
     ELSE WithParents(T2, Connected(T2.skip, slot), parents)

\* Mutant: the entry of the new root is pruned with those before it.
MutantPrunesRoot(T, r) ==
  [T EXCEPT !.root = r,
            !.skip = {s \in @ : s > r},
            !.notar_fallbacks = {b \in @ : SlotOf(b) > r},
            !.parents_ready = [s \in 0..LastSlot + 1 |-> IF s > r THEN @[s] ELSE {}]]

set_root(T, r) ==
  [T EXCEPT !.root = r,
            !.skip = {s \in @ : s >= r},
            !.notar_fallbacks = {b \in @ : SlotOf(b) >= r},
            !.parents_ready = [s \in 0..LastSlot + 1 |-> IF s >= r THEN @[s] ELSE {}]]

\* block_production_parent: the least block ready for slot, by slot and hash.
Before(b, c) == b[1] < c[1] \/ (b[1] = c[1] /\ b[2] < c[2])
MissedWindow == [kind |-> "MissedWindow"]
ParentNotReady == [kind |-> "ParentNotReady"]
Parent(b) == [kind |-> "Parent", block |-> b]

block_production_parent(T, slot) ==
  IF T.highest_with_parent_ready > slot THEN MissedWindow
  ELSE IF T.parents_ready[slot] = {} THEN ParentNotReady
  ELSE Parent(CHOOSE b \in T.parents_ready[slot] :
                \A c \in T.parents_ready[slot] : b = c \/ Before(b, c))

\* The ParentReady events of a step from T to U: the pairs that became ready
\* for the first slot of a leader window.
ParentReadyEvents(T, U) ==
  {e \in (0..LastSlot + 1) \X Blocks :
     /\ e[1] % Window = 0
     /\ e[2] \in U.parents_ready[e[1]] \ T.parents_ready[e[1]]}
============================================================================
