---------------------------- MODULE VoteHistory ----------------------------
(* votor's VoteHistory (votor/src/vote_history.rs): the votes this validator
   has cast since its root, what it must not contradict after a restart.

   A history is a value and its methods are operators on it.  Its maps from
   slots to blocks are sets of blocks. *)
EXTENDS LeaderWindows, FiniteSets

CONSTANT Parent   \* the parent of every block but those of slot 0

ASSUME ParentsAreEarlier == \A b \in DOMAIN Parent : b[1] \in 1..LastSlot /\ Parent[b][1] < b[1]
ASSUME BlocksArePairs == \A b \in DOMAIN Parent : b = <<b[1], b[2]>>

SlotOf(b) == b[1]
Blocks == DOMAIN Parent
NoHash == 0

Vote(type, slot, hash) == [type |-> type, slot |-> slot, hash |-> hash]
Notarize(b) == Vote("Notarize", b[1], b[2])
NotarizeFallback(b) == Vote("NotarizeFallback", b[1], b[2])
Finalize(s) == Vote("Finalize", s, NoHash)
Skip(s) == Vote("Skip", s, NoHash)
SkipFallback(s) == Vote("SkipFallback", s, NoHash)

new(root) ==
  [voted |-> {}, voted_notar |-> {}, voted_notar_fallback |-> {}, voted_skip_fallback |-> {},
   skipped |-> {}, its_over |-> {}, votes_cast |-> {}, notarized_blocks |-> {},
   parent_ready_slots |-> {}, root |-> root]

bad_window(H, slot) ==
  \/ slot \in H.skipped
  \/ \E b \in H.voted_notar_fallback : SlotOf(b) = slot
  \/ slot \in H.voted_skip_fallback

\* The assertions of add_vote.
MayAdd(H, v) ==
  /\ v.slot >= H.root
  /\ v.type = "Notarize" =>
       v.slot \notin H.voted /\ \A b \in H.voted_notar : SlotOf(b) # v.slot
  /\ v.type = "Finalize" => v.slot \notin H.skipped
  /\ v.type \in {"NotarizeFallback", "SkipFallback"} => v.slot \in H.voted \ H.its_over

\* Mutant: fallback votes are not remembered as skips.
MutantFallbackIsNoSkip(H, v) ==
  LET b == <<v.slot, v.hash>>
      add(set, types, x) == IF v.type \in types THEN set \union {x} ELSE set
  IN [H EXCEPT !.voted = add(@, {"Notarize", "Skip"}, v.slot),
               !.voted_notar = add(@, {"Notarize"}, b),
               !.its_over = add(@, {"Finalize"}, v.slot),
               !.skipped = add(@, {"Skip"}, v.slot),
               !.votes_cast = @ \union {v}]

add_vote(H, v) ==
  LET b == <<v.slot, v.hash>>
      add(set, types, x) == IF v.type \in types THEN set \union {x} ELSE set
  IN [H EXCEPT !.voted = add(@, {"Notarize", "Skip"}, v.slot),
               !.voted_notar = add(@, {"Notarize"}, b),
               !.its_over = add(@, {"Finalize"}, v.slot),
               !.skipped = add(@, {"Skip", "NotarizeFallback", "SkipFallback"}, v.slot),
               !.voted_notar_fallback = add(@, {"NotarizeFallback"}, b),
               !.voted_skip_fallback = add(@, {"SkipFallback"}, v.slot),
               !.votes_cast = @ \union {v}]

add_block_notarized(H, b) ==
  IF SlotOf(b) < H.root THEN H ELSE [H EXCEPT !.notarized_blocks = @ \union {b}]

\* Whether add_parent_ready returns true: the first parent of the slot.
IsFirstParent(H, slot) ==
  slot >= H.root /\ \A pair \in H.parent_ready_slots : pair[1] # slot

add_parent_ready(H, slot, parent) ==
  IF slot < H.root THEN H ELSE [H EXCEPT !.parent_ready_slots = @ \union {<<slot, parent>>}]

set_root(H, root) ==
  LET slots(S) == {s \in S : s >= root}
      keyed(S) == {x \in S : x[1] >= root}
  IN [H EXCEPT !.root = root,
               !.voted = slots(@), !.voted_notar = keyed(@),
               !.voted_notar_fallback = keyed(@), !.voted_skip_fallback = slots(@),
               !.skipped = slots(@), !.its_over = slots(@),
               !.votes_cast = {v \in @ : v.slot >= root},
               !.notarized_blocks = keyed(@), !.parent_ready_slots = keyed(@)]

votes_cast_since(H, slot) == {v \in H.votes_cast : v.slot > slot}
============================================================================
