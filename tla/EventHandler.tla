--------------------------- MODULE EventHandler ---------------------------
(* votor's event loop (votor/src/event_handler.rs, root_utils.rs).  Events come
   from the consensus pool, the timers and replay in any order.  Set-identity
   and metrics are left out. *)
EXTENDS VoteHistory, FiniteSetsExt

CONSTANTS RootBlock,    \* the block the validator starts from
          MayFail,      \* whether generate_vote_tx may fail
          MaxBacklog    \* bound: an event is taken with at most so many votes queued

ASSUME RootIsABlock == SlotOf(RootBlock) \in Slots /\ RootBlock \notin Blocks
ASSUME ParentsAreKnown == \A b \in Blocks : Parent[b] \in Blocks \union {RootBlock}
ASSUME BacklogIsNumber == MaxBacklog \in Nat
ASSUME MayFailIsBoolean == MayFail \in BOOLEAN

VARIABLES node,       \* what the event loop holds in memory
          root,       \* the root of the bank forks and of the blockstore
          frozen,     \* blocks whose banks are frozen in the bank forks
          replayed,   \* votor_event_sender: frozen blocks whose event is still to be handled
          certs,      \* external: blocks the cluster notarized and finalized
          queue       \* bls_sender: votes with the history to save before each

loop == <<node, root, frozen, replayed, certs, queue>>

Known == Blocks \union {RootBlock}

\* The event loop at its start, with the history restored.
Start(H) ==
  [history |-> H, pending_blocks |-> [s \in Slots |-> <<>>], finalized_blocks |-> {}, received_shred |-> {},
   highest_parent_ready |-> 0, timers |-> [s \in Slots |-> <<>>],
   own_votes |-> {}, ops |-> <<>>, asserts |-> TRUE]

LoopInit ==
  /\ node = Start(new(0))
  /\ root = RootBlock
  /\ frozen = {RootBlock}
  /\ replayed = {}
  /\ certs = [notarized |-> {}, finalized |-> {}]
  /\ queue = <<>>

---------------------------------------------------------------------------
(* The steps of a handler, on the node's state N.  able: the slots for whose
   votes generate_vote_tx gives a message. *)

\* The queries of the history assert that the slot is not before its root.
Asserting(N, slot) == [N EXCEPT !.asserts = @ /\ slot >= N.history.root]

\* A new vote: recorded, then sent to the own pool, then queued.
generate_vote_message(N, v, able) ==
  LET H == add_vote(N.history, v)
      M == [N EXCEPT !.history = H, !.asserts = @ /\ MayAdd(N.history, v)]
  IN IF v.slot \in able
     THEN [M EXCEPT !.own_votes = @ \union {v},
                    !.ops = Append(@, [vote |-> v, saved |-> H])]
     ELSE M

\* Mutant: a fallback vote in the slot does not stop the finalization vote.
MutantIgnoresFallbacks(N, b, able) ==
  LET H == N.history
      slot == SlotOf(b)
  IN IF b \in H.notarized_blocks /\ slot \notin H.its_over /\ b \in H.voted_notar
     THEN generate_vote_message(Asserting(N, slot), Finalize(slot), able)
     ELSE Asserting(N, slot)

try_final(N, b, able) ==
  LET H == N.history
      slot == SlotOf(b)
  IN IF /\ b \in H.notarized_blocks
        /\ slot \notin H.its_over
        /\ ~bad_window(H, slot)
        /\ b \in H.voted_notar
     THEN generate_vote_message(Asserting(N, slot), Finalize(slot), able)
     ELSE Asserting(N, slot)

\* Mutant: a block in the middle of a window needs no vote for its parent.
MutantAnyParent(H, b) ==
  IF SlotOf(b) % Window = 0 \/ SlotOf(b) = 1 THEN <<SlotOf(b), Parent[b]>> \in H.parent_ready_slots
  ELSE SlotOf(Parent[b]) + 1 = SlotOf(b)

\* The parent of b allows a vote for it.
ParentAllows(H, b) ==
  IF SlotOf(b) % Window = 0 \/ SlotOf(b) = 1 THEN <<SlotOf(b), Parent[b]>> \in H.parent_ready_slots
  ELSE SlotOf(Parent[b]) + 1 = SlotOf(b) /\ Parent[b] \in H.voted_notar

try_notar(N, b, able) ==
  LET slot == SlotOf(b)
      asksParent == /\ slot \notin N.history.voted
                    /\ slot % Window # 0 /\ slot # 1
                    /\ SlotOf(Parent[b]) + 1 = slot
      Q == Asserting(N, IF asksParent THEN slot - 1 ELSE slot)
      cast == generate_vote_message(Q, Notarize(b), able)
  IN IF slot \in N.history.voted \/ ~ParentAllows(N.history, b) THEN Q
     ELSE try_final([cast EXCEPT !.pending_blocks[slot] = <<>>], b, able)

\* The blocks are tried one after the other, by arrival.
TryInOrder(N, blocks, able) ==
  LET after[i \in 0..Len(blocks)] ==
        IF i = 0 THEN N ELSE try_notar(after[i - 1], blocks[i], able)
  IN after[Len(blocks)]

\* The blocks that are pending at the start, by slot.
check_pending_blocks(N, able) ==
  LET after[s \in Slots] ==
        IF s = 0 THEN N ELSE TryInOrder(after[s - 1], N.pending_blocks[s], able)
  IN after[LastSlot]

SkipSlot(N, s, able) ==
  IF s \in N.history.voted THEN Asserting(N, s)
  ELSE generate_vote_message(Asserting(N, s), Skip(s), able)

try_skip_window(N, slot, able) ==
  LET start == Max({first_of_consecutive_leader_slots(slot), SlotOf(root), 1})
      last == last_of_consecutive_leader_slots(slot)
      after[s \in start - 1..last] == IF s < start THEN N ELSE SkipSlot(after[s - 1], s, able)
  IN after[last]

\* Mutant: blocks that wait for this parent go on waiting.
MutantLeavesPending(N, slot, parent, able) ==
  LET H == N.history
  IN [N EXCEPT !.history = add_parent_ready(H, slot, parent),
               !.timers[slot] = IF IsFirstParent(H, slot) /\ @ = <<>> THEN Timer(slot) ELSE @,
               !.highest_parent_ready = IF slot > @ THEN slot ELSE @]

\* handle_parent_ready_event
ParentIsReady(N, slot, parent, able) ==
  LET H == N.history
      M == check_pending_blocks([N EXCEPT !.history = add_parent_ready(H, slot, parent)], able)
  IN [M EXCEPT !.timers[slot] = IF IsFirstParent(H, slot) /\ @ = <<>> THEN Timer(slot) ELSE @,
               !.highest_parent_ready = IF slot > @ THEN slot ELSE @]

\* Mutant: the slot is compared and the block id is not.
MutantRootsSlot(N) ==
  {b \in frozen : /\ SlotOf(b) > SlotOf(root)
                  /\ SlotOf(b) \in N.history.voted
                  /\ SlotOf(b) \in {SlotOf(c) : c \in N.finalized_blocks}}

\* The new root that check_rootable_blocks finds, if there is one.
Rootable(N) ==
  {b \in N.finalized_blocks : /\ SlotOf(b) > SlotOf(root)
                              /\ SlotOf(b) \in N.history.voted
                              /\ b \in frozen}

NewRoot(N) ==
  IF Rootable(N) = {} THEN root
  ELSE CHOOSE b \in Rootable(N) : \A c \in Rootable(N) : SlotOf(c) <= SlotOf(b)

\* root_utils::set_root, on the event loop's part of the state.
RootAt(N, r) ==
  [N EXCEPT !.history = set_root(@, SlotOf(r)),
            !.pending_blocks = [s \in Slots |-> IF s >= SlotOf(r) THEN @[s] ELSE <<>>],
            !.finalized_blocks = {b \in @ : SlotOf(b) >= SlotOf(r)},
            !.received_shred = {s \in @ : s >= SlotOf(r)}]

check_rootable_blocks(N) ==
  IF Rootable(N) = {} THEN N ELSE RootAt(N, NewRoot(N))

\* The bank forks keep the root and its descendants.
Ancestors[b \in Known] == IF b = RootBlock THEN {b} ELSE {b} \union Ancestors[Parent[b]]
Pruned(banks, r) == {b \in banks : r \in Ancestors[b]}

\* add_missing_parent_ready: the parent to make ready, once the root is r.
MissingParent(N, b, banks, r) ==
  LET first == first_of_consecutive_leader_slots(SlotOf(b))
  IN IF /\ first # SlotOf(b) /\ first # 0
        /\ \A pair \in N.history.parent_ready_slots : pair[1] < first
        /\ b \in N.finalized_blocks
        /\ b \in banks /\ b # r
     THEN {Parent[b]} ELSE {}

AddMissingParent(N, b, banks, r, able) ==
  LET missing == MissingParent(N, b, banks, r)
  IN IF missing = {} THEN N
     ELSE ParentIsReady(N, SlotOf(b), CHOOSE p \in missing : TRUE, able)

---------------------------------------------------------------------------
(* Events.  An event of a slot not after the root is ignored. *)

Abilities == IF MayFail THEN SUBSET (1..LastSlot) ELSE {1..LastSlot}
IsHandled(slot) == slot > SlotOf(root) /\ Len(queue) <= MaxBacklog

\* The end of an event: its votes are queued, its root is everyone's.  Blocks
\* not after the root will be ignored.
Handled(N, r, blocks) ==
  /\ node' = [N EXCEPT !.ops = <<>>]
  /\ queue' = queue \o N.ops
  /\ root' = r
  /\ frozen' = Pruned(frozen, r)
  /\ replayed' = {b \in blocks : SlotOf(b) > SlotOf(r)}

\* Replay freezes a bank whose parent is frozen, and sends the event; a slot has
\* one bank.
BankFrozen(b) ==
  /\ Parent[b] \in frozen
  /\ \A c \in frozen : SlotOf(c) # SlotOf(b)
  /\ frozen' = frozen \union {b}
  /\ replayed' = replayed \union {b}
  /\ UNCHANGED <<node, root, certs, queue>>

\* The bank may have been pruned since.
Block(b, able) ==
  LET voting == try_notar(node, b, able)
      N == IF SlotOf(b) \in voting.history.voted \ node.history.voted
           THEN check_pending_blocks(voting, able)
           ELSE IF SlotOf(b) \notin voting.history.voted
           THEN [voting EXCEPT !.pending_blocks[SlotOf(b)] = Append(@, b)]
           ELSE voting
      r == NewRoot(N)
  IN /\ IsHandled(SlotOf(b))
     /\ b \in replayed
     /\ Handled(AddMissingParent(check_rootable_blocks(N), b, Pruned(frozen, r), r, able),
                r, replayed \ {b})
     /\ UNCHANGED certs

\* The pool has a notarization certificate, for one block of a slot.
BlockNotarized(b, able) ==
  /\ IsHandled(SlotOf(b))
  /\ \A c \in certs.notarized \union certs.finalized : SlotOf(c) = SlotOf(b) => c = b
  /\ certs' = [certs EXCEPT !.notarized = @ \union {b}]
  /\ Handled(try_final([node EXCEPT !.history = add_block_notarized(@, b)], b, able), root, replayed)

FirstShred(s) ==
  /\ IsHandled(s)
  /\ Handled([node EXCEPT !.received_shred = @ \union {s}], root, replayed)
  /\ UNCHANGED certs

\* The pool announces the first slots of windows and, once started, the slot
\* after the root.
ParentReady(s, parent, able) ==
  /\ IsHandled(s)
  /\ s % Window = 0 \/ (s = SlotOf(root) + 1 /\ parent = root)
  /\ SlotOf(parent) < s
  /\ Handled(ParentIsReady(node, s, parent, able), root, replayed)
  /\ UNCHANGED certs

\* Mutant: a shred of the slot stops the slot's own timeout too.
MutantWaitsForBlock(N, kind, slot) ==
  slot \notin N.history.voted \union N.received_shred

\* Whether a timeout makes the node skip the rest of the window.
SkipsAt(N, kind, slot) ==
  /\ slot \notin N.history.voted
  /\ kind = "TimeoutCrashedLeader" => slot \notin N.received_shred

\* The next event of a timer fires; an event of an old slot is ignored.
TimerFires(t, able) ==
  LET kind == Head(node.timers[t])[1]
      slot == Head(node.timers[t])[2]
      N == [node EXCEPT !.timers[t] = Tail(@)]
  IN /\ node.timers[t] # <<>>
     /\ Len(queue) <= MaxBacklog
     /\ IF slot > SlotOf(root) /\ SkipsAt(node, kind, slot)
        THEN Handled(try_skip_window(N, slot, able), root, replayed)
        ELSE Handled(N, root, replayed)
     /\ UNCHANGED certs

\* The pool calls a fallback vote safe only once it has this validator's
\* first vote in the slot, and that is for something else.
SafeToNotar(b, able) ==
  LET N == try_skip_window(node, SlotOf(b), able)
  IN /\ IsHandled(SlotOf(b))
     /\ \E v \in node.own_votes : v.slot = SlotOf(b) /\ v.type \in {"Notarize", "Skip"}
     /\ Notarize(b) \notin node.own_votes
     /\ Handled(IF SlotOf(b) \in N.history.its_over \/ b \in N.history.voted_notar_fallback THEN N
                ELSE generate_vote_message(N, NotarizeFallback(b), able), root, replayed)
     /\ UNCHANGED certs

SafeToSkip(s, able) ==
  LET N == try_skip_window(node, s, able)
  IN /\ IsHandled(s)
     /\ \E v \in node.own_votes : v.slot = s /\ v.type = "Notarize"
     /\ Handled(IF s \in N.history.its_over \union N.history.voted_skip_fallback THEN N
                ELSE generate_vote_message(N, SkipFallback(s), able), root, replayed)
     /\ UNCHANGED certs

\* The cluster finalizes the blocks of one chain.
Finalized(b, able) ==
  LET N == [node EXCEPT !.finalized_blocks = @ \union {b}]
      r == NewRoot(N)
  IN /\ IsHandled(SlotOf(b))
     /\ \A c \in certs.finalized : c \in Ancestors[b] \/ b \in Ancestors[c]
     /\ \A c \in certs.notarized : SlotOf(c) = SlotOf(b) => c = b
     /\ certs' = [certs EXCEPT !.finalized = @ \union {b}]
     /\ Handled(AddMissingParent(check_rootable_blocks(N), b, Pruned(frozen, r), r, able),
                r, replayed)

\* refresh_votes: every vote since the highest finalized slot is sent again,
\* in some order.
Standstill(s, able) ==
  LET votes == votes_cast_since(node.history, s)
      sent == {v \in votes : v.slot \in able}
      order == CHOOSE f \in [1..Cardinality(sent) -> sent] : IsInjective(f)
  IN /\ queue = <<>>
     /\ votes # {}
     /\ Handled([node EXCEPT !.own_votes = @ \union sent,
                             !.ops = [i \in DOMAIN order |->
                                        [vote |-> order[i], saved |-> node.history]]],
                root, replayed)
     /\ UNCHANGED certs

Event ==
  \/ \E able \in Abilities :
       \/ \E b \in Blocks : Block(b, able) \/ BlockNotarized(b, able)
                            \/ SafeToNotar(b, able) \/ Finalized(b, able)
       \/ \E s \in Slots : TimerFires(s, able) \/ SafeToSkip(s, able) \/ Standstill(s, able)
       \/ \E s \in Slots, b \in Known : ParentReady(s, b, able)
  \/ \E s \in Slots : FirstShred(s)
  \/ \E b \in Blocks : BankFrozen(b)

\* The voting service takes what is queued (composed in detail in Votor).
VotesTaken ==
  /\ queue # <<>>
  /\ queue' = <<>>
  /\ UNCHANGED <<node, root, frozen, replayed, certs>>

LoopSpec == LoopInit /\ [][Event \/ VotesTaken]_loop

\* The timer thread and the voting service keep running.  Fairness is strong for
\* the timers because the bound on the backlog, which the code does not have,
\* disables them now and then.
FairLoopSpec ==
  /\ LoopSpec
  /\ \A s \in Slots : SF_loop(\E able \in Abilities : TimerFires(s, able))
  /\ WF_loop(VotesTaken)

---------------------------------------------------------------------------
(* Properties *)

\* None of the assertions of VoteHistory fails, whatever the order of events,
\* roots and restarts.
AssertsHold == node.asserts

\* A validator that notarizes a block in the middle of a window has notarized
\* every block of the window before it, or has rooted past it.
WindowsAreChained ==
  \A b \in node.history.voted_notar :
    SlotOf(b) % Window # 0 /\ SlotOf(b) # 1 =>
      SlotOf(Parent[b]) = SlotOf(b) - 1
        /\ (Parent[b] \in node.history.voted_notar \/ SlotOf(Parent[b]) < node.history.root)

\* No vote is forgotten, in whatever order blocks, certificates and parents
\* become known: nothing pending is allowed by its parent in a slot without a
\* vote, and a block this validator notarized and knows to be notarized by the
\* cluster has its finalization vote, or a fallback vote.
NoVoteIsForgotten ==
  /\ \A s \in Slots : \A b \in Range(node.pending_blocks[s]) :
       s \in node.history.voted \/ ~ParentAllows(node.history, b)
  /\ \A b \in node.history.voted_notar \intersect node.history.notarized_blocks :
       SlotOf(b) \in node.history.its_over \/ bad_window(node.history, SlotOf(b))

\* The root moves only to a finalized descendant, and no vote at or after it is
\* forgotten (check_rootable_blocks, VoteHistory::set_root).
RootingIsSound ==
  [][/\ root' # root => root' \in certs'.finalized /\ root \in Ancestors[root']
     /\ {v \in node.history.votes_cast : v.slot >= SlotOf(root')}
          \subseteq node'.history.votes_cast]_loop

\* Once the parent of a window is ready, every slot of it gets a vote or is
\* rooted over: the timers see to it when no block comes.
EveryWindowIsVoted ==
  \A s \in SlotOf(RootBlock) + 1..LastSlot :
    (\E pair \in node.history.parent_ready_slots :
       pair[1] <= s /\ last_of_consecutive_leader_slots(pair[1]) >= s)
    ~> (s \in node.history.voted \/ SlotOf(root) >= s)
============================================================================
