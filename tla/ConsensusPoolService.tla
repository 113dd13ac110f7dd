----------------------- MODULE ConsensusPoolService -----------------------
(* votor's consensus pool thread (votor/src/consensus_pool_service.rs): takes
   votes and certificates in any order, prunes at the root other threads move,
   and hands events, certificates and leader windows on. *)
EXTENDS ConsensusPool

CONSTANTS RootHash,      \* the block id of the root bank in slot 0
          Traffics,      \* sets of votes and certificates that may arrive
          MyWindows      \* first slots of the leader windows of this validator

ASSUME TrafficsAreMessages ==
  \A t \in Traffics :
    /\ t.ballots \subseteq
         [who : Validators, type : VoteTypes, slot : Slots, hash : Hashes \union {NoHash}]
    /\ t.certificates \subseteq
         [type : CertTypes, slot : Slots, hash : Hashes \union {NoHash}]
ASSUME RootIsABlock == RootHash \in Hashes
ASSUME WindowsStart == \A w \in MyWindows : w \in Nat /\ w % Window = 0

VARIABLES traffic,               \* what may arrive in this behaviour
          pool,                  \* consensus_pool, with the events of this batch
          root,                  \* the slot of sharable_banks.root()
          pruning,               \* a message was taken, prune_old_state is next
          highest_parent_ready,
          sent,                  \* history: events handed to the event handler
          tracked,               \* history: certificates the tracker took
          panicked

vars == <<traffic, pool, root, pruning, highest_parent_ready, sent, tracked, panicked>>

RootBlock == <<0, RootHash>>

\* The loop starts by announcing the slot after the root.
Init ==
  /\ traffic \in Traffics
  /\ pool = [new_from_root_bank(RootBlock) EXCEPT !.events = {<<"ParentReady", <<1, RootBlock>>>>}]
  /\ root = 0
  /\ pruning = FALSE
  /\ highest_parent_ready = 1
  /\ sent = {}
  /\ tracked = {}
  /\ panicked = FALSE

\* The certificates a message adds, as far as the tracker looks at them.
NoteTracked ==
  tracked' = tracked \union {c \in pool'.completed_certificates \ pool.completed_certificates :
                               c.slot > pool.parent_ready_tracker.root}

\* An error ends the message without pruning.
TakeVote(vote) ==
  /\ ~pruning
  /\ pool' = add_vote(pool, root, vote)
  /\ pruning' = ~IsRefused(pool, root, vote)
  /\ NoteTracked
  /\ UNCHANGED <<traffic, root, highest_parent_ready, sent, panicked>>

TakeCertificate(c) ==
  /\ ~pruning
  /\ pool' = add_certificate(pool, root, c)
  /\ pruning' = (c.slot >= root)
  /\ NoteTracked
  /\ UNCHANGED <<traffic, root, highest_parent_ready, sent, panicked>>

\* The root is read again, and may have moved since the message was taken.
Prune ==
  /\ pruning
  /\ pool' = prune_old_state(pool, root)
  /\ pruning' = FALSE
  /\ UNCHANGED <<traffic, root, highest_parent_ready, sent, tracked, panicked>>

ParentReadySlots(events) == {e[2][1] : e \in {x \in events : x[1] = "ParentReady"}}

\* add_produce_block_event for a new highest slot whose leader is this
\* validator, unless it already has shreds for the window.
ProduceEvents(start_slot) ==
  LET parent == block_production_parent(pool.parent_ready_tracker, start_slot)
  IN IF parent.kind = "Parent" THEN {<<"ProduceWindow", <<start_slot, parent.block>>>>} ELSE {}

NewHighest(slots) ==
  IF slots = {} THEN highest_parent_ready ELSE Max({highest_parent_ready} \union slots)

\* The top of the loop: a batch is over and its events are sent.
SendEvents(has_existing_shreds) ==
  LET highest == NewHighest(ParentReadySlots(pool.events))
      produces == highest > highest_parent_ready /\ highest \in MyWindows /\ ~has_existing_shreds
  IN /\ ~pruning
     /\ pool.events # {}
     /\ highest_parent_ready' = highest
     /\ sent' = sent \union pool.events \union (IF produces THEN ProduceEvents(highest) ELSE {})
     /\ panicked' = (produces /\ block_production_parent(pool.parent_ready_tracker, highest)
                                   = ParentNotReady)
     /\ pool' = [pool EXCEPT !.events = {}]
     /\ UNCHANGED <<traffic, root, pruning, tracked>>

\* The event handler roots a block it was told is finalized.
SetRoot(r) ==
  /\ r > root
  /\ \E h \in Hashes : <<"Finalized", <<r, h>>>> \in sent
  /\ root' = r
  /\ UNCHANGED <<traffic, pool, pruning, highest_parent_ready, sent, tracked, panicked>>

Next ==
  \/ \E v \in traffic.ballots : TakeVote(v)
  \/ \E c \in traffic.certificates : TakeCertificate(c)
  \/ Prune
  \/ \E has_existing_shreds \in BOOLEAN : SendEvents(has_existing_shreds)
  \/ \E r \in Slots : SetRoot(r)

Spec == Init /\ [][Next]_vars

---------------------------------------------------------------------------
(* Properties *)

Announced == sent \union pool.events

\* The validators whose votes a certificate aggregates.
Backers(c) ==
  {v.who : v \in {x \in pool.votes : /\ x.slot = c.slot
                                     /\ x.type \in limits_and_vote_types(c.type)[2]
                                     /\ x.hash \in {c.hash, NoHash}}}

Built(type) == {c \in pool.completed_certificates \ traffic.certificates : c.type = type}

\* A certificate the pool builds (update_certificates) has the stake of its
\* kind behind it, every validator counted once, although the pool adds up the
\* stakes of two vote types and a validator may cast both; and whatever the
\* order of the votes, a certificate they suffice for has been built.
CertificatesAreExact ==
  \A type \in CertTypes \ {"Genesis"}, s \in root..LastSlot :
    \A h \in IF type \in BlockCerts THEN Hashes ELSE {NoHash} :
      LET c == Cert(type, s, h)
          backed == AtLeast(StakeOf(Backers(c)), limits_and_vote_types(type)[1])
      IN /\ c \in Built(type) => backed
         /\ backed => c \in pool.completed_certificates

\* The stake of the votes of one type in slot s, for block h or for all blocks.
Voted(type, s, hs) ==
  StakeOf({v.who : v \in {x \in pool.votes : x.type = type /\ x.slot = s /\ x.hash \in hs}})

MyFirstVote(s) == {v \in pool.votes : v.who = Me /\ v.slot = s /\ v.type \in {"Skip", "Notarize"}}

\* SafeToNotar is announced exactly for the blocks with 40% of the notarization
\* votes, or 20% and 60% together with the skip votes, once this validator has
\* voted in the slot for something else; and SafeToSkip exactly when it has
\* notarized a block and the stake that skips the slot, or notarizes a block
\* other than the leading one, reaches 40%.
FallbacksAreExact ==
  \A s \in root..LastSlot :
    LET skip == Voted("Skip", s, {NoHash})
        notar(h) == Voted("Notarize", s, {h})
    IN /\ \A h \in Hashes :
            <<"SafeToNotar", <<s, h>>>> \in Announced <=>
              /\ MyFirstVote(s) # {}
              /\ \A v \in MyFirstVote(s) : v.hash # h
              /\ \/ AtLeast(notar(h), 40)
                 \/ AtLeast(notar(h), 20) /\ AtLeast(notar(h) + skip, 60)
       /\ <<"SafeToSkip", s>> \in Announced <=>
            /\ \E v \in MyFirstVote(s) : v.type = "Notarize"
            /\ AtLeast(skip + Voted("Notarize", s, Hashes)
                         - Max({notar(h) : h \in Hashes}), 40)

\* A finalization is announced whichever of its two certificates comes last.
FinalizationIsAnnounced ==
  \A s \in root..LastSlot, h \in Hashes :
    LET has(type, hash) == Cert(type, s, hash) \in pool.completed_certificates
    IN has("FinalizeFast", h) \/ (has("Finalize", NoHash) /\ has("Notarize", h))
         => <<"Finalized", <<s, h>>>> \in Announced

\* A peer that has missed everything since the genesis block, and is sent what
\* get_certs_for_standstill returns, knows the highest finalized block and has
\* a parent for the same slots as this pool; the panic of that function is not
\* reached, though certificates come in any order.
StandstillSuffices ==
  LET peer == FoldSet(LAMBDA c, P : add_certificate(P, 0, c), new_from_root_bank(RootBlock),
                      get_certs_for_standstill(pool))
      highest == pool.highest_finalized_with_notarize[1]
  IN /\ ~StandstillPanics(pool)
     /\ peer.highest_finalized_with_notarize[1] >= highest
     /\ peer.parent_ready_tracker.highest_with_parent_ready
          >= pool.parent_ready_tracker.highest_with_parent_ready

\* The condition the tracker is documented to track: b is certified and every
\* slot between b and s is skip-certified.
ParentReady(s, b) ==
  /\ \/ b = RootBlock
     \/ \E c \in tracked : c.type \in BlockCerts /\ BlockOf(c) = b
  /\ SlotOf(b) < s
  /\ \A x \in SlotOf(b) + 1..s - 1 : Cert("Skip", x, NoHash) \in tracked

\* From the root on, the parents kept for a slot are exactly the blocks for
\* which the condition holds, whatever the order in which certificates came
\* and however much was pruned in between.
TracksTheCondition ==
  \A s \in pool.parent_ready_tracker.root..LastSlot + 1 :
    pool.parent_ready_tracker.parents_ready[s] = {b \in Blocks : ParentReady(s, b)}

ParentReadyIsAnnounced ==
  \A s \in pool.parent_ready_tracker.root..LastSlot + 1, b \in Blocks :
    s % Window = 0 /\ ParentReady(s, b) => <<"ParentReady", <<s, b>>>> \in Announced

\* A leader window is produced at most once, and on a ready parent.
WindowsAreProducedOnce ==
  \A e \in {x \in sent : x[1] = "ProduceWindow"} :
    /\ ParentReady(e[2][1], e[2][2])
    /\ \A f \in {x \in sent : x[1] = "ProduceWindow"} : e[2][1] = f[2][1] => e = f

\* No ParentReady event is announced twice, and none is lost: a pair that is
\* ready for the first slot of a window has been announced.  Neither is a
\* finalization.  A window this validator leads is produced once, on a ready
\* parent, and the panic of add_produce_block_event is not reached, though the
\* root moves while events wait to be looked at.
EventsAreExact ==
  [][/\ \A e \in ParentReadyEvents(pool.parent_ready_tracker, pool'.parent_ready_tracker) :
          <<"ParentReady", e>> \notin Announced
     /\ ParentReadyIsAnnounced'
     /\ FinalizationIsAnnounced'
     /\ WindowsAreProducedOnce'
     /\ ~panicked']_vars
====================
