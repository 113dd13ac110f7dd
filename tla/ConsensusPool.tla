--------------------------- MODULE ConsensusPool ---------------------------
(* votor's ConsensusPool (votor/src/consensus_pool.rs with vote_pool.rs and
   slot_stake_counters.rs): counts the votes of one validator's view, builds
   certificates, and says when fallback votes are safe.

   The pool is a value and its methods are operators on it.  Signatures,
   bitmaps and statistics are left out, and the ratios of stakes are exact
   fractions. *)
EXTENDS ParentReadyTracker, FiniteSetsExt, SequencesExt

CONSTANTS Validators,  \* the vote keys with a rank
          Me,          \* my_vote_pubkey
          Stake        \* Validators -> Nat \ {0}, the epoch's stakes

ASSUME StakesArePositive == Stake \in [Validators -> Nat \ {0}]
ASSUME MeIsKnown == Me \in Validators

StakeOf(vs) == MapThenSumSet(LAMBDA v : Stake[v], vs)
TotalStake == StakeOf(Validators)
AtLeast(stake, percent) == 100 * stake >= percent * TotalStake

NoHash == 0
BlockVotes == {"Notarize", "NotarizeFallback", "Genesis"}
VoteTypes == BlockVotes \union {"Finalize", "Skip", "SkipFallback"}
BlockCerts == BlockVotes \union {"FinalizeFast"}
CertTypes == BlockCerts \union {"Finalize", "Skip"}

Ballot(who, type, slot, hash) == [who |-> who, type |-> type, slot |-> slot, hash |-> hash]
Cert(type, slot, hash) == [type |-> type, slot |-> slot, hash |-> hash]
BlockOf(c) == <<c.slot, c.hash>>

---------------------------------------------------------------------------
(* Vote pools: the votes kept of each slot and type. *)

\* Mutant: a fallback vote for the block already notarized is not a conflict.
MutantFallbackMayRepeat(type) ==
  CASE type = "Finalize" -> {"NotarizeFallback", "Skip"}
    [] type = "Notarize" -> {"Skip"}
    [] type = "NotarizeFallback" -> {"Finalize"}
    [] type = "Skip" -> {"Finalize", "Notarize", "SkipFallback"}
    [] type = "SkipFallback" -> {"Skip"}
    [] type = "Genesis" -> VoteTypes \ {"Genesis"}

conflicting_types(type) ==
  CASE type = "Finalize" -> {"NotarizeFallback", "Skip"}
    [] type = "Notarize" -> {"Skip", "NotarizeFallback"}
    [] type = "NotarizeFallback" -> {"Finalize", "Notarize"}
    [] type = "Skip" -> {"Finalize", "Notarize", "SkipFallback"}
    [] type = "SkipFallback" -> {"Skip"}
    [] type = "Genesis" -> VoteTypes \ {"Genesis"}

\* The types whose pool is a DuplicateBlockVotePool, and its entries per key.
IsDuplicatePool(type) == type \in {"Notarize", "NotarizeFallback"}
MaxEntries(type) == IF type = "NotarizeFallback" THEN 3 ELSE 1

VotePool(votes, slot, type) == {v \in votes : v.slot = slot /\ v.type = type}

has_conflicting_vote(votes, vote) ==
  \E type \in conflicting_types(vote.type) :
    \E v \in VotePool(votes, vote.slot, type) :
      /\ v.who = vote.who
      /\ IsDuplicatePool(type) /\ vote.hash # NoHash => v.hash = vote.hash

\* Whether update_vote_pool takes the vote.
IsNewVote(votes, vote) ==
  LET mine == {v \in VotePool(votes, vote.slot, vote.type) : v.who = vote.who}
  IN vote \notin mine /\ Cardinality(mine) < MaxEntries(vote.type)

\* The stake of one pool, of one block in it if the pool is per block.
EntryStake(votes, slot, type, hash) ==
  StakeOf({v.who : v \in {x \in VotePool(votes, slot, type) :
                            IsDuplicatePool(type) => x.hash = hash}})

---------------------------------------------------------------------------
(* SlotStakeCounters *)

NoCounters ==
  [my_first_vote |-> <<>>, skip_total |-> 0, notarize_total |-> 0,
   notarize_entry_total |-> [h \in Hashes |-> 0], top_notarized_stake |-> 0,
   safe_to_notar_sent |-> {}, safe_to_skip_sent |-> FALSE]

is_safe_to_notar(C, h) ==
  /\ C.my_first_vote # <<"Notarize", h>>
  /\ \/ AtLeast(C.notarize_entry_total[h], 40)
     \/ /\ AtLeast(C.notarize_entry_total[h], 20)
        /\ AtLeast(C.notarize_entry_total[h] + C.skip_total, 60)

\* Mutant: the stake of the most voted block counts as well.
MutantCountsTop(C) ==
  C.my_first_vote # <<>> /\ C.my_first_vote[1] = "Notarize"
    /\ AtLeast(C.skip_total + C.notarize_total, 40)

is_safe_to_skip(C) ==
  /\ C.my_first_vote # <<>> /\ C.my_first_vote[1] = "Notarize"
  /\ AtLeast(C.skip_total + (C.notarize_total - C.top_notarized_stake), 40)

CountVote(C, vote, entry_stake) ==
  IF vote.type = "Skip" THEN [C EXCEPT !.skip_total = entry_stake]
  ELSE [C EXCEPT !.notarize_entry_total[vote.hash] = entry_stake,
                 !.notarize_total = @ - C.notarize_entry_total[vote.hash] + entry_stake,
                 !.top_notarized_stake = IF entry_stake > @ THEN entry_stake ELSE @]

counters_add_vote(C, vote, entry_stake) ==
  LET counted == CountVote(C, vote, entry_stake)
      D == [counted EXCEPT !.my_first_vote =
              IF @ = <<>> /\ vote.who = Me THEN <<vote.type, vote.hash>> ELSE @]
  IN IF vote.type \notin {"Skip", "Notarize"} THEN C
     ELSE IF D.my_first_vote = <<>> THEN D
     ELSE [D EXCEPT !.safe_to_notar_sent = @ \union {h \in Hashes : is_safe_to_notar(D, h)},
                    !.safe_to_skip_sent = @ \/ is_safe_to_skip(D)]

SafeEvents(slot, C, D) ==
  {<<"SafeToNotar", <<slot, h>>>> : h \in D.safe_to_notar_sent \ C.safe_to_notar_sent}
    \union (IF D.safe_to_skip_sent /\ ~C.safe_to_skip_sent
            THEN {<<"SafeToSkip", slot>>} ELSE {})

---------------------------------------------------------------------------
(* The pool.  highest_finalized_slot and the slot of
   highest_finalized_with_notarize are -1 where the code has None. *)

new_from_root_bank(root_block) ==
  [votes |-> {},
   completed_certificates |-> {},
   parent_ready_tracker |-> new(root_block),
   counters |-> [s \in Slots |-> NoCounters],
   highest_finalized_slot |-> -1,
   highest_finalized_with_notarize |-> <<-1, FALSE>>,
   events |-> {}]

is_finalized(P, slot) ==
  \E c \in P.completed_certificates : c.slot = slot /\ c.type \in {"Finalize", "FinalizeFast"}

get_notarized_block(P, slot) ==
  {BlockOf(c) : c \in {x \in P.completed_certificates : x.type = "Notarize" /\ x.slot = slot}}

\* The tracker learns of a certified block.
Certify(P, block) ==
  LET T == P.parent_ready_tracker
      U == add_new_notar_fallback_or_stronger(T, block)
  IN [P EXCEPT !.parent_ready_tracker = U,
               !.events = @ \union {<<"ParentReady", e>> : e \in ParentReadyEvents(T, U)}]

\* A slow finalization: the Finalize and the Notarize certificates have met.
FinalizeSlowly(P, block) ==
  [P EXCEPT !.events = @ \union {<<"Finalized", block>>},
            !.highest_finalized_with_notarize =
              IF @[1] < SlotOf(block) THEN <<SlotOf(block), FALSE>> ELSE @]

InsertNotarize(P, c) ==
  LET Q == Certify([P EXCEPT !.events = @ \union {<<"BlockNotarized", BlockOf(c)>>}], BlockOf(c))
  IN IF is_finalized(P, c.slot) THEN FinalizeSlowly(Q, BlockOf(c)) ELSE Q

\* get_notarized_block finds one of the notarized blocks, if there is any.
InsertFinalize(P, c) ==
  LET blocks == get_notarized_block(P, c.slot)
      Q == IF blocks = {} THEN P ELSE FinalizeSlowly(P, CHOOSE b \in blocks : TRUE)
  IN [Q EXCEPT !.highest_finalized_slot = IF @ < c.slot THEN c.slot ELSE @]

InsertFinalizeFast(P, c) ==
  LET Q == Certify([P EXCEPT !.events = @ \union {<<"Finalized", BlockOf(c)>>}], BlockOf(c))
  IN [Q EXCEPT !.highest_finalized_slot = IF @ < c.slot THEN c.slot ELSE @,
               !.highest_finalized_with_notarize = IF @[1] <= c.slot THEN <<c.slot, TRUE>> ELSE @]

InsertSkip(P, c) ==
  LET T == P.parent_ready_tracker
      U == add_new_skip(T, c.slot)
  IN [P EXCEPT !.parent_ready_tracker = U,
               !.events = @ \union {<<"ParentReady", e>> : e \in ParentReadyEvents(T, U)}]

insert_certificate(P, c) ==
  LET Q == [P EXCEPT !.completed_certificates = @ \union {c}]
  IN CASE c.type \in {"NotarizeFallback", "Genesis"} -> Certify(Q, BlockOf(c))
       [] c.type = "Skip" -> InsertSkip(Q, c)
       [] c.type = "Notarize" -> InsertNotarize(Q, c)
       [] c.type = "Finalize" -> InsertFinalize(Q, c)
       [] c.type = "FinalizeFast" -> InsertFinalizeFast(Q, c)

limits_and_vote_types(type) ==
  CASE type = "Notarize" -> <<60, {"Notarize"}>>
    [] type = "NotarizeFallback" -> <<60, {"Notarize", "NotarizeFallback"}>>
    [] type = "FinalizeFast" -> <<80, {"Notarize"}>>
    [] type = "Finalize" -> <<60, {"Finalize"}>>
    [] type = "Skip" -> <<60, {"Skip", "SkipFallback"}>>
    [] type = "Genesis" -> <<82, {"Genesis"}>>

vote_to_cert_types(vote) ==
  CASE vote.type = "Notarize" ->
         << Cert("Notarize", vote.slot, vote.hash),
            Cert("NotarizeFallback", vote.slot, vote.hash),
            Cert("FinalizeFast", vote.slot, vote.hash) >>
    [] vote.type \in {"Skip", "SkipFallback"} -> << Cert("Skip", vote.slot, NoHash) >>
    [] OTHER -> << Cert(vote.type, vote.slot, vote.hash) >>

\* The stake the pool adds up for a certificate, type by type.
AccumulatedStake(P, c) ==
  MapThenSumSet(LAMBDA type : EntryStake(P.votes, c.slot, type, c.hash),
                limits_and_vote_types(c.type)[2])

update_certificates(P, vote) ==
  FoldLeft(LAMBDA Q, c :
             IF c \notin Q.completed_certificates
                /\ AtLeast(AccumulatedStake(Q, c), limits_and_vote_types(c.type)[1])
             THEN insert_certificate(Q, c) ELSE Q,
           P, vote_to_cert_types(vote))

\* Whether add_vote returns an error: the pool is as before and the service
\* goes on to the next message.
IsRefused(P, root, vote) == vote.slot < root \/ has_conflicting_vote(P.votes, vote)

add_vote(P, root, vote) ==
  IF IsRefused(P, root, vote) \/ ~IsNewVote(P.votes, vote) THEN P
  ELSE LET votes == P.votes \union {vote}
           C == P.counters[vote.slot]
           D == counters_add_vote(C, vote, EntryStake(votes, vote.slot, vote.type, vote.hash))
       IN update_certificates([P EXCEPT !.votes = votes,
                                        !.counters[vote.slot] = D,
                                        !.events = @ \union SafeEvents(vote.slot, C, D)],
                              vote)

add_certificate(P, root, c) ==
  IF c.slot < root \/ c \in P.completed_certificates THEN P ELSE insert_certificate(P, c)

prune_old_state(P, root) ==
  [P EXCEPT !.votes = {v \in @ : v.slot >= root},
            !.completed_certificates = {c \in @ : c.slot >= root},
            !.counters = [s \in Slots |-> IF s >= root THEN @[s] ELSE NoCounters],
            !.parent_ready_tracker = set_root(@, root)]

\* Mutant: certificates of the highest finalized slot are not sent.
MutantOnlyLater(P) ==
  {c \in P.completed_certificates : c.slot > P.highest_finalized_with_notarize[1]}

get_certs_for_standstill(P) ==
  LET highest == IF P.highest_finalized_with_notarize[1] = -1 THEN <<0, FALSE>>
                 ELSE P.highest_finalized_with_notarize
  IN {c \in P.completed_certificates :
        \/ c.slot > highest[1]
        \/ /\ c.slot = highest[1]
           /\ IF highest[2] THEN c.type = "FinalizeFast"
              ELSE c.type \in {"Finalize", "Notarize"}}

\* The panic of get_certs_for_standstill.
StandstillPanics(P) ==
  \E c \in P.completed_certificates :
    /\ c.type = "FinalizeFast"
    /\ ~P.highest_finalized_with_notarize[2]
    /\ c.slot = (IF P.highest_finalized_with_notarize[1] = -1 THEN 0
                 ELSE P.highest_finalized_with_notarize[1])
============================================================================
