--------------------------- MODULE LeaderWindows ---------------------------
(* Windows of consecutive leader slots, and the timeouts of a window
   (runtime/src/leader_schedule_utils.rs, votor/src/timer_manager). *)
EXTENDS Integers, Sequences

CONSTANTS LastSlot,   \* the highest slot that events and votes are about
          Window      \* NUM_CONSECUTIVE_LEADER_SLOTS

ASSUME WindowsFit == Window \in Nat \ {0} /\ LastSlot \in Nat /\ (LastSlot + 1) % Window = 0

Slots == 0..LastSlot

first_of_consecutive_leader_slots(s) == s - (s % Window)
last_of_consecutive_leader_slots(s) == s - (s % Window) + Window - 1

\* What a timer set at slot sends, in this order.
Timer(slot) ==
  << <<"TimeoutCrashedLeader", slot>> >>
    \o [i \in 1..last_of_consecutive_leader_slots(slot) - slot + 1 |-> <<"Timeout", slot + i - 1>>]
============================================================================
