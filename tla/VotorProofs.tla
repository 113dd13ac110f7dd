---------------------------- MODULE VotorProofs ----------------------------
(* What is proved of one validator's votes: the event loop (EventHandler)
   keeps its history well-formed and forgets no vote, and with the voting
   service and crashes (Votor) what is broadcast is never contradicted. *)
EXTENDS Votor, FiniteSetTheorems, NaturalsInduction, WellFoundedInduction, TLAPS

---------------------------------------------------------------------------
(* Types. *)

VoteTypes == {"Notarize", "NotarizeFallback", "Finalize", "Skip", "SkipFallback"}
HashesOf == {b[2] : b \in Blocks} \union {NoHash}
Votes == [type : VoteTypes, slot : Nat, hash : HashesOf]

Histories ==
  [voted : SUBSET Nat, voted_notar : SUBSET Blocks, voted_notar_fallback : SUBSET Blocks,
   voted_skip_fallback : SUBSET Nat, skipped : SUBSET Nat, its_over : SUBSET Nat,
   votes_cast : SUBSET Votes, notarized_blocks : SUBSET Blocks,
   parent_ready_slots : SUBSET (Nat \X Known), root : Nat]

Ops == [vote : Votes, saved : Histories]

Timeouts == {"TimeoutCrashedLeader", "Timeout"} \X Nat

Nodes ==
  [history : Histories, pending_blocks : [Slots -> Seq(Blocks)],
   finalized_blocks : SUBSET Blocks, received_shred : SUBSET Nat,
   highest_parent_ready : Nat, timers : [Slots -> Seq(Timeouts)],
   own_votes : SUBSET Votes, ops : Seq(Ops), asserts : BOOLEAN]

---------------------------------------------------------------------------
(* The invariant of a vote history. *)

\* The indexes of a history know of every vote in it.
Indexed(H) ==
  /\ \A v \in H.votes_cast :
       /\ v.slot >= H.root
       /\ v.slot \in H.voted
       /\ v.type = "Finalize" => v.slot \in H.its_over
       /\ v.type \in {"Skip", "SkipFallback", "NotarizeFallback"} => v.slot \in H.skipped
  /\ \A b \in H.voted_notar : SlotOf(b) \in H.voted

MidWindow(b) == SlotOf(b) % Window # 0 /\ SlotOf(b) # 1

Chained(H) ==
  \A b \in H.voted_notar : MidWindow(b) =>
    /\ SlotOf(Parent[b]) = SlotOf(b) - 1
    /\ Parent[b] \in H.voted_notar \/ SlotOf(Parent[b]) < H.root

HistoryInv(H) ==
  /\ H \in Histories /\ IsFiniteSet(H.votes_cast)
  /\ Indexed(H) /\ Consistent(H.votes_cast) /\ Chained(H)

\* What was notarized here and by the cluster is voted final, or cannot be.
Settled(H, b) == SlotOf(b) \in H.its_over \/ bad_window(H, SlotOf(b))
FinalInv(H) == \A b \in H.voted_notar \intersect H.notarized_blocks : Settled(H, b)

\* G is the history H some votes and roots later.
Extends(H, G) ==
  /\ H.root <= G.root
  /\ \A v \in H.votes_cast : v.slot >= G.root => v \in G.votes_cast

---------------------------------------------------------------------------
(* The invariant of the event loop. *)

\* Every operation saves a history that has its vote, each history extends
\* the ones before it, and the last of them is H.
Saves(ops, H) ==
  /\ ops \in Seq(Ops)
  /\ \A i \in 1..Len(ops) :
       /\ HistoryInv(ops[i].saved)
       /\ ops[i].vote \in ops[i].saved.votes_cast
       /\ Extends(ops[i].saved, H)
       /\ \A j \in 1..i : Extends(ops[j].saved, ops[i].saved)

PendingInv(N, r) ==
  \A s \in Slots : \A i \in 1..Len(N.pending_blocks[s]) :
    /\ SlotOf(N.pending_blocks[s][i]) = s
    /\ s > r \/ (s = r /\ s \in N.history.voted)

\* r is the slot of the root.
NodeInv(N, r) ==
  /\ N \in Nodes
  /\ HistoryInv(N.history)
  /\ N.history.root <= r
  /\ PendingInv(N, r)
  /\ \A v \in N.own_votes : v.slot >= N.history.root => v \in N.history.votes_cast
  /\ N.asserts

\* N in the middle of an event that began with the history H.
Good(N, r, H) ==
  /\ NodeInv(N, r)
  /\ Extends(H, N.history)
  /\ Saves(N.ops, N.history)
  /\ \A i \in 1..Len(N.ops) : Extends(H, N.ops[i].saved)

\* Nothing pending could be voted for.
Exhausted(N) ==
  \A s \in Slots : \A i \in 1..Len(N.pending_blocks[s]) :
    s \in N.history.voted \/ ~ParentAllows(N.history, N.pending_blocks[s][i])

LoopInv ==
  /\ NodeInv(node, SlotOf(root)) /\ node.ops = <<>>
  /\ Saves(queue, node.history)
  /\ root \in Known /\ frozen \in SUBSET Known
  /\ \A b \in frozen : root \in Ancestors[b]
  /\ certs \in [notarized : SUBSET Blocks, finalized : SUBSET Blocks]
  /\ node.finalized_blocks \subseteq certs.finalized

ForgetsNothing == FinalInv(node.history) /\ Exhausted(node)

VotorInv ==
  /\ LoopInv
  /\ HistoryInv(stored)
  /\ Extends(stored, node.history)
  /\ \A i \in 1..Len(queue) : Extends(stored, queue[i].saved)
  /\ broadcast \union sending \in SUBSET Votes
  /\ \A v \in broadcast \union sending : v.slot >= stored.root => v \in stored.votes_cast
  /\ Consistent(broadcast \union sending)

---------------------------------------------------------------------------
(* Votes and histories. *)

\* A slot is a number and a block has one.
LEMMA SlotFacts ==
  /\ LastSlot \in Nat /\ Slots = 0..LastSlot
  /\ \A b \in Blocks : /\ SlotOf(b) \in Slots /\ SlotOf(b) \in Nat /\ SlotOf(b) >= 1
                       /\ b = <<SlotOf(b), b[2]>> /\ b # RootBlock
  /\ \A b \in Known : SlotOf(b) \in Slots /\ SlotOf(b) \in Nat
  /\ \A b \in Blocks : Parent[b] \in Known /\ SlotOf(Parent[b]) < SlotOf(b)
<1>1. LastSlot \in Nat /\ Slots = 0..LastSlot
  BY WindowsFit DEF Slots
<1>2. ASSUME NEW b \in Blocks
      PROVE  /\ SlotOf(b) \in Slots /\ SlotOf(b) \in Nat /\ SlotOf(b) >= 1
             /\ b = <<SlotOf(b), b[2]>> /\ b # RootBlock
             /\ Parent[b] \in Known /\ SlotOf(Parent[b]) < SlotOf(b)
  <2>1. SlotOf(b) \in 1..LastSlot /\ SlotOf(Parent[b]) < SlotOf(b)
    BY ParentsAreEarlier DEF SlotOf, Blocks
  <2>2. b = <<SlotOf(b), b[2]>>
    BY BlocksArePairs DEF SlotOf, Blocks
  <2>3. b # RootBlock
    BY RootIsABlock
  <2>4. Parent[b] \in Known
    BY ParentsAreKnown DEF Known
  <2> QED
    BY <1>1, <2>1, <2>2, <2>3, <2>4
<1>3. SlotOf(RootBlock) \in Slots /\ SlotOf(RootBlock) \in Nat
  BY <1>1, RootIsABlock
<1> QED
  BY <1>1, <1>2, <1>3 DEF Known

\* What a vote is about.
LEMMA VoteFields ==
  /\ \A b \in Blocks : /\ Notarize(b) \in Votes /\ NotarizeFallback(b) \in Votes
                       /\ Notarize(b).type = "Notarize" /\ Notarize(b).slot = SlotOf(b)
                       /\ Notarize(b).hash = b[2]
                       /\ NotarizeFallback(b).type = "NotarizeFallback"
                       /\ NotarizeFallback(b).slot = SlotOf(b) /\ NotarizeFallback(b).hash = b[2]
  /\ \A n \in Nat : /\ Finalize(n) \in Votes /\ Skip(n) \in Votes /\ SkipFallback(n) \in Votes
                    /\ Finalize(n).type = "Finalize" /\ Finalize(n).slot = n
                    /\ Skip(n).type = "Skip" /\ Skip(n).slot = n
                    /\ SkipFallback(n).type = "SkipFallback" /\ SkipFallback(n).slot = n
<1>1. ASSUME NEW b \in Blocks
      PROVE  SlotOf(b) \in Nat /\ b[1] = SlotOf(b) /\ b[2] \in HashesOf
  BY SlotFacts DEF HashesOf, SlotOf
<1>2. NoHash \in HashesOf
  BY DEF HashesOf
<1>3. {"Notarize", "NotarizeFallback", "Finalize", "Skip", "SkipFallback"} = VoteTypes
  BY DEF VoteTypes
<1> QED
  BY <1>1, <1>2, <1>3
     DEF Votes, Notarize, NotarizeFallback, Finalize, Skip, SkipFallback, Vote

\* The fields of a history after a vote.
LEMMA AddVoteFields ==
  ASSUME NEW H \in Histories, NEW v \in Votes,
         v.type \in {"Notarize", "NotarizeFallback"} => <<v.slot, v.hash>> \in Blocks
  PROVE  /\ add_vote(H, v) \in Histories
         /\ add_vote(H, v).voted =
              IF v.type \in {"Notarize", "Skip"} THEN H.voted \union {v.slot} ELSE H.voted
         /\ add_vote(H, v).voted_notar =
              IF v.type = "Notarize" THEN H.voted_notar \union {<<v.slot, v.hash>>}
                                     ELSE H.voted_notar
         /\ add_vote(H, v).its_over =
              IF v.type = "Finalize" THEN H.its_over \union {v.slot} ELSE H.its_over
         /\ add_vote(H, v).skipped =
              IF v.type \in {"Skip", "NotarizeFallback", "SkipFallback"}
              THEN H.skipped \union {v.slot} ELSE H.skipped
         /\ H.voted_notar_fallback \subseteq add_vote(H, v).voted_notar_fallback
         /\ H.voted_skip_fallback \subseteq add_vote(H, v).voted_skip_fallback
         /\ add_vote(H, v).votes_cast = H.votes_cast \union {v}
         /\ add_vote(H, v).notarized_blocks = H.notarized_blocks
         /\ add_vote(H, v).parent_ready_slots = H.parent_ready_slots
         /\ add_vote(H, v).root = H.root
<1>1. v.slot \in Nat
  BY Zenon DEF Votes
<1> DEFINE G == add_vote(H, v)
<1>2. /\ G.voted = IF v.type \in {"Notarize", "Skip"} THEN H.voted \union {v.slot} ELSE H.voted
      /\ G.voted_notar = IF v.type = "Notarize" THEN H.voted_notar \union {<<v.slot, v.hash>>}
                                                ELSE H.voted_notar
      /\ G.its_over = IF v.type = "Finalize" THEN H.its_over \union {v.slot} ELSE H.its_over
      /\ G.skipped = IF v.type \in {"Skip", "NotarizeFallback", "SkipFallback"}
                     THEN H.skipped \union {v.slot} ELSE H.skipped
  BY DEF add_vote, Histories
<1>3. /\ G.voted_notar_fallback = IF v.type = "NotarizeFallback"
                                  THEN H.voted_notar_fallback \union {<<v.slot, v.hash>>}
                                  ELSE H.voted_notar_fallback
      /\ G.voted_skip_fallback = IF v.type = "SkipFallback"
                                 THEN H.voted_skip_fallback \union {v.slot}
                                 ELSE H.voted_skip_fallback
      /\ G.votes_cast = H.votes_cast \union {v}
      /\ G.notarized_blocks = H.notarized_blocks
      /\ G.parent_ready_slots = H.parent_ready_slots
      /\ G.root = H.root
  BY DEF add_vote, Histories
<1>4. G \in Histories
  <2> DEFINE add(set, types, x) == IF v.type \in types THEN set \union {x} ELSE set
             a == add(H.voted, {"Notarize", "Skip"}, v.slot)
             b == add(H.voted_notar, {"Notarize"}, <<v.slot, v.hash>>)
             c == add(H.its_over, {"Finalize"}, v.slot)
             d == add(H.skipped, {"Skip", "NotarizeFallback", "SkipFallback"}, v.slot)
             e == add(H.voted_notar_fallback, {"NotarizeFallback"}, <<v.slot, v.hash>>)
             f == add(H.voted_skip_fallback, {"SkipFallback"}, v.slot)
             g == H.votes_cast \union {v}
  <2>1. a \in SUBSET Nat /\ c \in SUBSET Nat /\ d \in SUBSET Nat /\ f \in SUBSET Nat
    BY Zenon, <1>1 DEF Histories
  <2>2. b \in SUBSET Blocks /\ e \in SUBSET Blocks /\ g \in SUBSET Votes
    BY Zenon DEF Histories
  <2>3. G = [H EXCEPT !.voted = a, !.voted_notar = b, !.its_over = c, !.skipped = d,
                      !.voted_notar_fallback = e, !.voted_skip_fallback = f, !.votes_cast = g]
    BY Zenon DEF add_vote
  <2> HIDE DEF a, b, c, d, e, f, g, G
  <2> QED BY Zenon, <2>1, <2>2, <2>3 DEF Histories
<1> HIDE DEF G
<1> QED
  BY Zenon, <1>2, <1>3, <1>4 DEF G

\* The fields of a history after a root.
LEMMA SetRootFields ==
  ASSUME NEW H \in Histories, NEW r \in Nat
  PROVE  /\ set_root(H, r) \in Histories
         /\ set_root(H, r).root = r
         /\ set_root(H, r).voted = {s \in H.voted : s >= r}
         /\ set_root(H, r).voted_notar = {b \in H.voted_notar : SlotOf(b) >= r}
         /\ set_root(H, r).voted_notar_fallback = {b \in H.voted_notar_fallback : SlotOf(b) >= r}
         /\ set_root(H, r).voted_skip_fallback = {s \in H.voted_skip_fallback : s >= r}
         /\ set_root(H, r).skipped = {s \in H.skipped : s >= r}
         /\ set_root(H, r).its_over = {s \in H.its_over : s >= r}
         /\ set_root(H, r).votes_cast = {v \in H.votes_cast : v.slot >= r}
         /\ set_root(H, r).notarized_blocks = {b \in H.notarized_blocks : SlotOf(b) >= r}
         /\ set_root(H, r).parent_ready_slots = {p \in H.parent_ready_slots : p[1] >= r}
BY Zenon DEF set_root, Histories, SlotOf

\* A vote that the history allows: the guards of the handlers.
Allowed(H, v) ==
  /\ v.slot >= H.root
  /\ v.type \in {"Notarize", "Skip"} => v.slot \notin H.voted
  /\ v.type \in {"Finalize", "NotarizeFallback", "SkipFallback"} => v.slot \in H.voted
  /\ v.type = "Finalize" => v.slot \notin H.skipped
  /\ v.type \in {"NotarizeFallback", "SkipFallback"} => v.slot \notin H.its_over
  /\ v.type \in {"Notarize", "NotarizeFallback"} => <<v.slot, v.hash>> \in Blocks
  /\ v.type = "NotarizeFallback" =>
       \A w \in H.votes_cast : w.slot = v.slot /\ w.hash = v.hash => w.type # "Notarize"
  /\ v.type = "Notarize" /\ MidWindow(<<v.slot, v.hash>>) =>
       /\ SlotOf(Parent[<<v.slot, v.hash>>]) = v.slot - 1
       /\ Parent[<<v.slot, v.hash>>] \in H.voted_notar

\* The assertions of add_vote follow from the guards of the handlers.
LEMMA AllowedMayAdd ==
  ASSUME NEW H, HistoryInv(H), NEW v \in Votes, Allowed(H, v)
  PROVE  MayAdd(H, v)
BY DEF MayAdd, Allowed, HistoryInv, Indexed

\* An allowed vote contradicts none of the history's.
LEMMA AllowedConsistent ==
  ASSUME NEW H, HistoryInv(H), NEW v \in Votes, Allowed(H, v)
  PROVE  Consistent(H.votes_cast \union {v})
<1>1. /\ \A w \in H.votes_cast : /\ w.slot \in H.voted
                                 /\ w.type = "Finalize" => w.slot \in H.its_over
                                 /\ w.type \in {"Skip", "SkipFallback", "NotarizeFallback"} =>
                                      w.slot \in H.skipped
      /\ Consistent(H.votes_cast)
  BY Zenon DEF HistoryInv, Indexed
<1>2. ASSUME NEW w \in H.votes_cast, v.slot = w.slot
      PROVE  /\ ~(v.type = "Notarize" /\ w.type = "Notarize")
             /\ ~(v.type = "Notarize" /\ w.type = "Skip")
             /\ ~(v.type = "Finalize" /\ w.type \in {"Skip", "SkipFallback", "NotarizeFallback"})
             /\ ~(v.type = "Notarize" /\ w.type = "NotarizeFallback")
             /\ ~(w.type = "Notarize" /\ v.type = "Skip")
             /\ ~(w.type = "Finalize" /\ v.type \in {"Skip", "SkipFallback", "NotarizeFallback"})
             /\ ~(w.type = "Notarize" /\ v.type = "NotarizeFallback" /\ v.hash = w.hash)
  BY <1>1, <1>2 DEF Allowed
<1> QED
  BY <1>1, <1>2 DEF Consistent

\* An allowed vote keeps the history well-formed.
LEMMA AddVoteInv ==
  ASSUME NEW H, HistoryInv(H), NEW v \in Votes, Allowed(H, v)
  PROVE  HistoryInv(add_vote(H, v)) /\ Extends(H, add_vote(H, v))
<1> DEFINE G == add_vote(H, v)
<1>0. /\ H \in Histories
      /\ v.type \in {"Notarize", "NotarizeFallback"} => <<v.slot, v.hash>> \in Blocks
      /\ v.slot \in Nat
  BY DEF HistoryInv, Allowed, Votes
<1>1. /\ G \in Histories
      /\ G.voted = IF v.type \in {"Notarize", "Skip"} THEN H.voted \union {v.slot} ELSE H.voted
      /\ G.voted_notar = IF v.type = "Notarize" THEN H.voted_notar \union {<<v.slot, v.hash>>}
                                                ELSE H.voted_notar
      /\ G.its_over = IF v.type = "Finalize" THEN H.its_over \union {v.slot} ELSE H.its_over
      /\ G.skipped = IF v.type \in {"Skip", "NotarizeFallback", "SkipFallback"}
                     THEN H.skipped \union {v.slot} ELSE H.skipped
      /\ G.votes_cast = H.votes_cast \union {v}
      /\ G.root = H.root
  BY Zenon, <1>0, AddVoteFields
<1> HIDE DEF G
<1>2. IsFiniteSet(G.votes_cast)
  BY SMTT(20), <1>1, FS_AddElement DEF HistoryInv
<1>3. Indexed(G)
  <2>1. v.slot \in G.voted
    BY <1>1 DEF Allowed, Votes, VoteTypes
  <2>2. \A b \in G.voted_notar : SlotOf(b) \in G.voted
    BY <1>1 DEF HistoryInv, Indexed, SlotOf
  <2> QED
    BY <1>1, <2>1, <2>2 DEF HistoryInv, Indexed, Allowed
<1>4. Consistent(G.votes_cast)
  <2>1. Consistent(H.votes_cast \union {v})
    BY Zenon, AllowedConsistent
  <2> QED
    BY Zenon, <1>1, <2>1
<1>5. Chained(G)
  <2> SUFFICES ASSUME NEW b \in G.voted_notar, MidWindow(b)
               PROVE  /\ SlotOf(Parent[b]) = SlotOf(b) - 1
                      /\ Parent[b] \in G.voted_notar \/ SlotOf(Parent[b]) < G.root
    BY Zenon DEF Chained
  <2>1. H.voted_notar \subseteq G.voted_notar
    BY <1>1
  <2>2. CASE b \in H.voted_notar
    BY Zenon, <1>1, <2>1, <2>2 DEF HistoryInv, Chained
  <2>3. CASE b \notin H.voted_notar
    <3>1. v.type = "Notarize" /\ b = <<v.slot, v.hash>>
      BY <1>1, <2>3
    <3>2. SlotOf(b) = v.slot
      BY <3>1 DEF SlotOf
    <3> QED
      BY Zenon, <2>1, <3>1, <3>2 DEF Allowed
  <2> QED
    BY Zenon, <2>2, <2>3
<1>6. Extends(H, G)
  BY <1>0, <1>1 DEF Extends, Histories
<1> QED
  BY Zenon, <1>1, <1>2, <1>3, <1>4, <1>5, <1>6 DEF HistoryInv, G

\* Rooting keeps the history well-formed.
LEMMA SetRootInv ==
  ASSUME NEW H, HistoryInv(H), NEW r \in Nat, H.root <= r
  PROVE  /\ HistoryInv(set_root(H, r)) /\ Extends(H, set_root(H, r))
         /\ FinalInv(H) => FinalInv(set_root(H, r))
<1> DEFINE G == set_root(H, r)
<1>0. H \in Histories
  BY DEF HistoryInv
<1>1. /\ G \in Histories /\ G.root = r
      /\ G.voted = {s \in H.voted : s >= r}
      /\ G.voted_notar = {b \in H.voted_notar : SlotOf(b) >= r}
      /\ G.voted_notar_fallback = {b \in H.voted_notar_fallback : SlotOf(b) >= r}
      /\ G.voted_skip_fallback = {s \in H.voted_skip_fallback : s >= r}
      /\ G.skipped = {s \in H.skipped : s >= r}
      /\ G.its_over = {s \in H.its_over : s >= r}
      /\ G.votes_cast = {v \in H.votes_cast : v.slot >= r}
      /\ G.notarized_blocks = {b \in H.notarized_blocks : SlotOf(b) >= r}
  BY Zenon, <1>0, SetRootFields
<1> HIDE DEF G
<1>2. IsFiniteSet(G.votes_cast)
  <2>1. G.votes_cast \subseteq H.votes_cast
    BY Zenon, <1>1
  <2> QED
    BY Zenon, <2>1, FS_Subset DEF HistoryInv
<1>3. Indexed(G)
  BY <1>1 DEF HistoryInv, Indexed
<1>4. Consistent(G.votes_cast)
  BY Zenon, <1>1 DEF HistoryInv, Consistent
<1>5. Chained(G)
  <2> SUFFICES ASSUME NEW b \in H.voted_notar, MidWindow(b), SlotOf(b) >= r
               PROVE  /\ SlotOf(Parent[b]) = SlotOf(b) - 1
                      /\ Parent[b] \in G.voted_notar \/ SlotOf(Parent[b]) < r
    BY Zenon, <1>1 DEF Chained
  <2>1. /\ SlotOf(Parent[b]) = SlotOf(b) - 1
        /\ Parent[b] \in H.voted_notar \/ SlotOf(Parent[b]) < H.root
    BY Zenon DEF HistoryInv, Chained
  <2>2. b \in Blocks /\ H.root \in Nat
    BY <1>0 DEF Histories
  <2>3. SlotOf(Parent[b]) \in Nat
    BY Zenon, <2>2, SlotFacts
  <2>4. CASE SlotOf(Parent[b]) >= r
    BY <1>1, <2>1, <2>2, <2>3, <2>4
  <2>5. CASE ~(SlotOf(Parent[b]) >= r)
    BY <2>1, <2>3, <2>5
  <2> QED
    BY Zenon, <2>4, <2>5
<1>6. Extends(H, G)
  BY <1>0, <1>1 DEF Extends, Histories
<1>7. ASSUME FinalInv(H) PROVE FinalInv(G)
  BY <1>1, <1>7 DEF FinalInv, Settled, bad_window
<1> QED
  BY Zenon, <1>1, <1>2, <1>3, <1>4, <1>5, <1>6, <1>7 DEF HistoryInv, G

\* A history extends itself, and an extension's extension is one.
LEMMA ExtendsRefl ==
  ASSUME NEW H \in Histories
  PROVE  Extends(H, H)
BY DEF Extends, Histories

\* Extending is transitive.
LEMMA ExtendsTrans ==
  ASSUME NEW F \in Histories, NEW G \in Histories, NEW H \in Histories,
         Extends(F, G), Extends(G, H)
  PROVE  Extends(F, H)
<1>1. F.root \in Nat /\ G.root \in Nat /\ H.root \in Nat
  BY DEF Histories
<1>2. ASSUME NEW v \in F.votes_cast, v.slot >= H.root PROVE v \in H.votes_cast
  <2>1. v.slot \in Nat
    BY DEF Histories, Votes
  <2>2. v.slot >= G.root
    BY <1>1, <1>2, <2>1 DEF Extends
  <2> QED
    BY Zenon, <1>2, <2>2 DEF Extends
<1> QED
  BY <1>1, <1>2 DEF Extends

---------------------------------------------------------------------------
(* Steps of a handler. *)

\* A query at or after the history's root passes its assertion.
LEMMA AssertingSame ==
  ASSUME NEW N \in Nodes, N.asserts, NEW slot, slot >= N.history.root
  PROVE  Asserting(N, slot) = N
<1>1. N.asserts = TRUE
  BY DEF Nodes
<1> QED
  BY <1>1 DEF Asserting, Nodes

\* The fields of a node after a vote.
LEMMA GenerateFields ==
  ASSUME NEW N \in Nodes, NEW v \in Votes, NEW able,
         add_vote(N.history, v) \in Histories, MayAdd(N.history, v), N.asserts
  PROVE  LET M == generate_vote_message(N, v, able)
             H == add_vote(N.history, v)
         IN  /\ M \in Nodes /\ M.history = H
             /\ M.pending_blocks = N.pending_blocks
             /\ M.finalized_blocks = N.finalized_blocks
             /\ M.timers = N.timers
             /\ M.asserts
             /\ M.own_votes \subseteq N.own_votes \union {v}
             /\ M.ops = N.ops \/ M.ops = Append(N.ops, [vote |-> v, saved |-> H])
<1> DEFINE H == add_vote(N.history, v)
           M == [N EXCEPT !.history = H, !.asserts = @ /\ MayAdd(N.history, v)]
           L == [M EXCEPT !.own_votes = @ \union {v},
                          !.ops = Append(@, [vote |-> v, saved |-> H])]
<1>1. H \in Histories /\ [vote |-> v, saved |-> H] \in Ops
  BY DEF Ops
<1> HIDE DEF H
<1>2. N.asserts /\ MayAdd(N.history, v) = TRUE
  OBVIOUS
<1>3. /\ M \in Nodes /\ M.history = H
      /\ M.pending_blocks = N.pending_blocks /\ M.finalized_blocks = N.finalized_blocks
      /\ M.timers = N.timers /\ M.asserts
      /\ M.own_votes = N.own_votes /\ M.ops = N.ops
  BY Zenon, <1>1, <1>2 DEF Nodes
<1> HIDE DEF M
<1>4. Append(M.ops, [vote |-> v, saved |-> H]) \in Seq(Ops) /\ M.own_votes \union {v} \in SUBSET Votes
  <2>1. M.ops \in Seq(Ops) /\ M.own_votes \in SUBSET Votes
    BY <1>3 DEF Nodes
  <2> QED
    BY <1>1, <2>1
<1>5. /\ L \in Nodes /\ L.history = M.history
      /\ L.pending_blocks = M.pending_blocks /\ L.finalized_blocks = M.finalized_blocks
      /\ L.timers = M.timers /\ L.asserts = M.asserts
      /\ L.own_votes = M.own_votes \union {v}
      /\ L.ops = Append(M.ops, [vote |-> v, saved |-> H])
  BY Zenon, <1>3, <1>4 DEF Nodes
<1>6. generate_vote_message(N, v, able) = IF v.slot \in able THEN L ELSE M
  BY Zenon DEF generate_vote_message, H, M
<1> HIDE DEF L
<1>7. CASE v.slot \in able
  BY Zenon, <1>3, <1>5, <1>6, <1>7 DEF H
<1>8. CASE v.slot \notin able
  BY <1>3, <1>6, <1>8 DEF H
<1> QED
  BY Zenon, <1>7, <1>8

\* A queue of operations with one more that saves the latest history.
LEMMA SavesAppend ==
  ASSUME NEW ops, NEW H, NEW G, NEW v \in Votes,
         Saves(ops, H), HistoryInv(H), HistoryInv(G), Extends(H, G), v \in G.votes_cast
  PROVE  Saves(ops, G) /\ Saves(Append(ops, [vote |-> v, saved |-> G]), G)
<1> DEFINE op == [vote |-> v, saved |-> G]
           all == Append(ops, op)
<1>1. /\ ops \in Seq(Ops) /\ op \in Ops /\ H \in Histories /\ G \in Histories
      /\ op.vote = v /\ op.saved = G
  BY DEF Saves, Ops, HistoryInv
<1>2. /\ all \in Seq(Ops) /\ Len(all) = Len(ops) + 1 /\ Len(ops) \in Nat
      /\ \A i \in 1..Len(ops) : all[i] = ops[i] /\ ops[i] \in Ops
      /\ all[Len(ops) + 1] = op
  BY <1>1
<1> HIDE DEF op, all
<1>3. \A i \in 1..Len(ops) : /\ ops[i].saved \in Histories
                             /\ HistoryInv(ops[i].saved)
                             /\ ops[i].vote \in ops[i].saved.votes_cast
                             /\ Extends(ops[i].saved, H)
                             /\ \A j \in 1..i : Extends(ops[j].saved, ops[i].saved)
  BY Zenon DEF Saves, HistoryInv
<1>4. \A i \in 1..Len(ops) : Extends(ops[i].saved, G)
  BY Zenon, <1>1, <1>3, ExtendsTrans
<1>5. Saves(ops, G)
  BY Zenon, <1>1, <1>3, <1>4 DEF Saves
<1>6. Extends(G, G)
  BY Zenon, <1>1, ExtendsRefl
<1>7. ASSUME NEW i \in 1..Len(all)
      PROVE  /\ HistoryInv(all[i].saved)
             /\ all[i].vote \in all[i].saved.votes_cast
             /\ Extends(all[i].saved, G)
             /\ \A j \in 1..i : Extends(all[j].saved, all[i].saved)
  <2>1. CASE i \in 1..Len(ops)
    <3>1. \A j \in 1..i : j \in 1..Len(ops)
      BY <1>2, <2>1
    <3> QED
      BY Zenon, <1>2, <1>3, <1>4, <2>1, <3>1
  <2>2. CASE i = Len(ops) + 1
    <3>1. \A j \in 1..i : j \in 1..Len(ops) \/ j = i
      BY <1>2, <2>2
    <3>2. all[i].saved = G /\ all[i].vote = v
      BY Zenon, <1>1, <1>2, <2>2
    <3>3. \A j \in 1..i : Extends(all[j].saved, G)
      BY Zenon, <1>2, <1>4, <1>6, <3>1, <3>2
    <3> QED
      BY Zenon, <1>6, <3>2, <3>3
  <2> QED
    BY <1>2, <2>1, <2>2
<1> QED
  BY Zenon, <1>2, <1>5, <1>7 DEF Saves, all, op

\* M is N after the vote v.
AfterVote(N, M, v) ==
  /\ M.history = add_vote(N.history, v)
  /\ M.pending_blocks = N.pending_blocks
  /\ M.finalized_blocks = N.finalized_blocks
  /\ M.timers = N.timers

\* An allowed vote, in the middle of an event.
LEMMA GenerateGood ==
  ASSUME NEW N, NEW r \in Nat, NEW H, Good(N, r, H), HistoryInv(H), NEW able,
         NEW v \in Votes, Allowed(N.history, v)
  PROVE  LET M == generate_vote_message(N, v, able) IN Good(M, r, H) /\ AfterVote(N, M, v)
<1> DEFINE M == generate_vote_message(N, v, able)
           G == add_vote(N.history, v)
<1>1. /\ N \in Nodes /\ HistoryInv(N.history) /\ N.asserts /\ N.history \in Histories
      /\ H \in Histories
  BY Zenon DEF Good, NodeInv, HistoryInv
<1>2. HistoryInv(G) /\ Extends(N.history, G) /\ MayAdd(N.history, v)
  BY Zenon, <1>1, AddVoteInv, AllowedMayAdd
<1>3. G \in Histories
  BY Zenon, <1>2 DEF HistoryInv
<1>4. v.type \in {"Notarize", "NotarizeFallback"} => <<v.slot, v.hash>> \in Blocks
  BY Zenon DEF Allowed
<1>5. /\ G.votes_cast = N.history.votes_cast \union {v}
      /\ G.root = N.history.root
      /\ N.history.voted \subseteq G.voted
  <2>1. /\ G.votes_cast = N.history.votes_cast \union {v}
        /\ G.root = N.history.root
        /\ G.voted = IF v.type \in {"Notarize", "Skip"} THEN N.history.voted \union {v.slot}
                                                      ELSE N.history.voted
    BY Zenon, <1>1, <1>4, AddVoteFields
  <2> HIDE DEF G
  <2> QED
    BY <2>1
<1>6. /\ M \in Nodes /\ M.history = G
      /\ M.pending_blocks = N.pending_blocks
      /\ M.finalized_blocks = N.finalized_blocks
      /\ M.timers = N.timers
      /\ M.asserts
      /\ M.own_votes \subseteq N.own_votes \union {v}
      /\ M.ops = N.ops \/ M.ops = Append(N.ops, [vote |-> v, saved |-> G])
  BY Zenon, <1>1, <1>2, <1>3, GenerateFields
<1> HIDE DEF M, G
<1>7. PendingInv(M, r)
  BY Zenon, <1>5, <1>6 DEF Good, NodeInv, PendingInv
<1>8. \A w \in M.own_votes : w.slot >= M.history.root => w \in M.history.votes_cast
  BY <1>5, <1>6 DEF Good, NodeInv
<1>9. NodeInv(M, r)
  BY Zenon, <1>2, <1>5, <1>6, <1>7, <1>8 DEF Good, NodeInv
<1>10. Extends(H, G)
  BY Zenon, <1>1, <1>2, <1>3, ExtendsTrans DEF Good
<1>11. Saves(N.ops, G) /\ Saves(Append(N.ops, [vote |-> v, saved |-> G]), G)
  <2>1. v \in G.votes_cast
    BY <1>5
  <2> QED
    BY Zenon, <1>1, <1>2, <2>1, SavesAppend DEF Good
<1>12. \A i \in 1..Len(M.ops) : Extends(H, M.ops[i].saved)
  <2>1. CASE M.ops = N.ops
    BY Zenon, <2>1 DEF Good
  <2>2. CASE M.ops = Append(N.ops, [vote |-> v, saved |-> G])
    <3>1. N.ops \in Seq(Ops)
      BY <1>1 DEF Nodes
    <3>2. /\ Len(M.ops) = Len(N.ops) + 1 /\ Len(N.ops) \in Nat
          /\ \A i \in 1..Len(N.ops) : M.ops[i] = N.ops[i]
          /\ M.ops[Len(N.ops) + 1].saved = G
      BY <2>2, <3>1
    <3>3. \A i \in 1..Len(M.ops) : i \in 1..Len(N.ops) \/ i = Len(N.ops) + 1
      BY <3>2
    <3> QED
      BY Zenon, <1>10, <3>2, <3>3 DEF Good
  <2> QED
    BY Zenon, <1>6, <2>1, <2>2
<1>13. Good(M, r, H)
  BY Zenon, <1>6, <1>9, <1>10, <1>11, <1>12 DEF Good
<1> QED
  BY Zenon, <1>6, <1>13 DEF M, G, AfterVote

\* M is N some votes later.
Later(N, M) ==
  /\ M.history.root = N.history.root
  /\ N.history.voted \subseteq M.history.voted
  /\ N.history.voted_notar \subseteq M.history.voted_notar
  /\ M.history.notarized_blocks = N.history.notarized_blocks
  /\ M.history.parent_ready_slots = N.history.parent_ready_slots
  /\ M.finalized_blocks = N.finalized_blocks
  /\ M.timers = N.timers

\* A slot in which nothing can be voted final stays so.
LEMMA SettledStays ==
  ASSUME NEW H \in Histories, NEW v \in Votes,
         v.type \in {"Notarize", "NotarizeFallback"} => <<v.slot, v.hash>> \in Blocks,
         NEW b, Settled(H, b)
  PROVE  Settled(add_vote(H, v), b)
<1> DEFINE G == add_vote(H, v)
<1>1. /\ G.its_over = IF v.type = "Finalize" THEN H.its_over \union {v.slot} ELSE H.its_over
      /\ G.skipped = IF v.type \in {"Skip", "NotarizeFallback", "SkipFallback"}
                     THEN H.skipped \union {v.slot} ELSE H.skipped
      /\ H.voted_notar_fallback \subseteq G.voted_notar_fallback
      /\ H.voted_skip_fallback \subseteq G.voted_skip_fallback
  BY Zenon, AddVoteFields
<1> HIDE DEF G
<1>2. H.its_over \subseteq G.its_over /\ H.skipped \subseteq G.skipped
  BY <1>1
<1>3. Settled(G, b)
  BY Zenon, <1>1, <1>2 DEF Settled, bad_window
<1> QED
  BY Zenon, <1>3 DEF G

\* M is N after a finalization vote at most.
MayFinalize(N, M) ==
  /\ Later(N, M)
  /\ M.history.voted = N.history.voted
  /\ M.history.voted_notar = N.history.voted_notar
  /\ M.pending_blocks = N.pending_blocks

\* FinalInv, but for the block b.
FinalInvBut(H, b) ==
  \A c \in H.voted_notar \intersect H.notarized_blocks : c # b => Settled(H, c)

\* The finalization vote (try_final): only the votes change, and the block is
\* settled afterwards if it is notarized here and by the cluster.
LEMMA TryFinalGood ==
  ASSUME NEW N, NEW r \in Nat, NEW H, Good(N, r, H), HistoryInv(H), NEW able,
         NEW b \in Blocks, SlotOf(b) >= r
  PROVE  LET M == try_final(N, b, able)
         IN  /\ Good(M, r, H) /\ MayFinalize(N, M)
             /\ FinalInvBut(N.history, b) => FinalInv(M.history)
<1> DEFINE M == try_final(N, b, able)
           slot == SlotOf(b)
           v == Finalize(slot)
           G == add_vote(N.history, v)
           votes == /\ b \in N.history.notarized_blocks /\ slot \notin N.history.its_over
                    /\ ~bad_window(N.history, slot) /\ b \in N.history.voted_notar
<1>1. /\ N \in Nodes /\ N.asserts /\ HistoryInv(N.history) /\ N.history \in Histories
      /\ N.history.root <= r
  BY Zenon DEF Good, NodeInv, HistoryInv
<1>2. slot \in Nat /\ N.history.root \in Nat
  BY <1>1, SlotFacts DEF Histories
<1>3. slot >= N.history.root
  BY <1>1, <1>2
<1>4. Asserting(N, slot) = N
  BY Zenon, <1>1, <1>3, AssertingSame
<1>5. M = IF votes THEN generate_vote_message(N, v, able) ELSE N
  BY Zenon, <1>4 DEF try_final
<1>6. v \in Votes /\ v.type = "Finalize" /\ v.slot = slot
  BY Zenon, <1>2, VoteFields
<1> HIDE DEF v, M
<1>7. CASE votes
  <2>1. Allowed(N.history, v)
    <3>1. slot \in N.history.voted
      BY Zenon, <1>1, <1>7 DEF HistoryInv, Indexed
    <3>2. slot \notin N.history.skipped
      BY Zenon, <1>7 DEF bad_window
    <3> QED
      BY <1>3, <1>6, <3>1, <3>2 DEF Allowed
  <2>2. M = generate_vote_message(N, v, able)
    BY Zenon, <1>5, <1>7
  <2>3. /\ Good(M, r, H) /\ M.history = G
        /\ M.pending_blocks = N.pending_blocks
        /\ M.finalized_blocks = N.finalized_blocks /\ M.timers = N.timers
    <3>1. Good(M, r, H) /\ AfterVote(N, M, v)
      BY Zenon, <1>6, <2>1, <2>2, GenerateGood
    <3> QED
      BY Zenon, <3>1 DEF AfterVote
  <2>a. v.type \in {"Notarize", "NotarizeFallback"} => <<v.slot, v.hash>> \in Blocks
    BY <1>6
  <2>4. /\ G.voted = IF v.type \in {"Notarize", "Skip"} THEN N.history.voted \union {v.slot}
                                                       ELSE N.history.voted
        /\ G.voted_notar = IF v.type = "Notarize" THEN N.history.voted_notar \union {<<v.slot, v.hash>>}
                                                  ELSE N.history.voted_notar
        /\ G.its_over = IF v.type = "Finalize" THEN N.history.its_over \union {v.slot}
                                               ELSE N.history.its_over
        /\ G.notarized_blocks = N.history.notarized_blocks
        /\ G.parent_ready_slots = N.history.parent_ready_slots
        /\ G.root = N.history.root
    BY Zenon, <1>1, <1>6, <2>a, AddVoteFields
  <2>5. \A c : Settled(N.history, c) => Settled(G, c)
    BY Zenon, <1>1, <1>6, <2>a, SettledStays
  <2> HIDE DEF G
  <2>6. G.voted = N.history.voted /\ G.voted_notar = N.history.voted_notar /\ slot \in G.its_over
    BY <1>6, <2>4
  <2>7. Settled(G, b)
    BY Zenon, <2>6 DEF Settled
  <2>8. FinalInvBut(N.history, b) => FinalInv(G)
    BY Zenon, <2>4, <2>5, <2>6, <2>7 DEF FinalInv, FinalInvBut
  <2>9. Later(N, M)
    BY Zenon, <2>3, <2>4, <2>6 DEF Later
  <2> QED
    BY Zenon, <2>3, <2>6, <2>8, <2>9 DEF M, MayFinalize
<1>8. CASE ~votes
  <2>1. M = N
    BY Zenon, <1>5, <1>8
  <2>2. FinalInvBut(N.history, b) => FinalInv(N.history)
    BY Zenon, <1>8 DEF FinalInv, FinalInvBut, Settled
  <2>3. Later(N, N)
    BY Zenon DEF Later
  <2> QED
    BY Zenon, <2>1, <2>2, <2>3 DEF M, MayFinalize
<1> QED
  BY Zenon, <1>7, <1>8

\* A pending slot that is taken off the list.
LEMMA DropGood ==
  ASSUME NEW N, NEW r, NEW H, Good(N, r, H), NEW s \in Slots
  PROVE  LET M == [N EXCEPT !.pending_blocks[s] = <<>>]
         IN  /\ Good(M, r, H) /\ M.history = N.history
             /\ M.pending_blocks = [N.pending_blocks EXCEPT ![s] = <<>>]
             /\ M.finalized_blocks = N.finalized_blocks /\ M.timers = N.timers
<1> DEFINE M == [N EXCEPT !.pending_blocks[s] = <<>>]
<1>1. N \in Nodes
  BY Zenon DEF Good, NodeInv
<1>2. /\ M \in Nodes /\ M.history = N.history
      /\ M.pending_blocks = [N.pending_blocks EXCEPT ![s] = <<>>]
      /\ M.finalized_blocks = N.finalized_blocks /\ M.timers = N.timers
      /\ M.own_votes = N.own_votes /\ M.ops = N.ops /\ M.asserts = N.asserts
  <2> DEFINE P == [N.pending_blocks EXCEPT ![s] = <<>>]
  <2>1. N.pending_blocks \in [Slots -> Seq(Blocks)]
    BY <1>1 DEF Nodes
  <2>2. P \in [Slots -> Seq(Blocks)]
    BY <2>1
  <2>3. M = [N EXCEPT !.pending_blocks = P]
    BY Zenon
  <2> HIDE DEF P, M
  <2>4. /\ M \in Nodes /\ M.history = N.history /\ M.pending_blocks = P
        /\ M.finalized_blocks = N.finalized_blocks /\ M.timers = N.timers
        /\ M.own_votes = N.own_votes /\ M.ops = N.ops /\ M.asserts = N.asserts
    BY Zenon, <1>1, <2>2, <2>3 DEF Nodes
  <2> QED
    BY Zenon, <2>4 DEF P
<1> HIDE DEF M
<1>3. PendingInv(M, r)
  <2>1. N.pending_blocks \in [Slots -> Seq(Blocks)]
    BY <1>1 DEF Nodes
  <2>2. \A t \in Slots : M.pending_blocks[t] = IF t = s THEN <<>> ELSE N.pending_blocks[t]
    BY <1>2, <2>1
  <2>3. \A t \in Slots : t # s => M.pending_blocks[t] = N.pending_blocks[t]
    BY Zenon, <2>2
  <2>4. \A i \in 1..Len(M.pending_blocks[s]) : FALSE
    BY <2>2
  <2>5. PendingInv(N, r)
    BY Zenon DEF Good, NodeInv
  <2> SUFFICES ASSUME NEW t \in Slots, NEW i \in 1..Len(M.pending_blocks[t])
               PROVE  /\ SlotOf(M.pending_blocks[t][i]) = t
                      /\ t > r \/ (t = r /\ t \in M.history.voted)
    BY Zenon DEF PendingInv
  <2>6. t # s
    BY Zenon, <2>4
  <2>7. M.pending_blocks[t] = N.pending_blocks[t]
    BY Zenon, <2>3, <2>6
  <2>8. i \in 1..Len(N.pending_blocks[t])
    BY <2>7
  <2>9. SlotOf(N.pending_blocks[t][i]) = t /\ (t > r \/ (t = r /\ t \in N.history.voted))
    BY Zenon, <2>5, <2>8 DEF PendingInv
  <2> QED
    BY <1>2, <2>7, <2>9
<1>4. NodeInv(M, r)
  BY Zenon, <1>2, <1>3 DEF NodeInv, Good
<1>5. Good(M, r, H)
  BY Zenon, <1>2, <1>4 DEF Good
<1> QED
  BY Zenon, <1>2, <1>5 DEF M

\* M is N after the block b was tried: it is notarized if nothing speaks
\* against it.
TriedBlock(N, M, b) ==
  /\ SlotOf(b) \in N.history.voted \/ ~ParentAllows(N.history, b) => M = N
  /\ ~(SlotOf(b) \in N.history.voted \/ ~ParentAllows(N.history, b)) =>
       /\ M.history.voted = N.history.voted \union {SlotOf(b)}
       /\ M.history.voted_notar = N.history.voted_notar \union {b}
       /\ M.pending_blocks = [N.pending_blocks EXCEPT ![SlotOf(b)] = <<>>]

\* The notarization vote (try_notar).
LEMMA TryNotarGood ==
  ASSUME NEW N, NEW r \in Nat, NEW H, Good(N, r, H), HistoryInv(H), NEW able,
         NEW b \in Blocks, SlotOf(b) > r \/ (SlotOf(b) = r /\ SlotOf(b) \in N.history.voted)
  PROVE  LET M == try_notar(N, b, able)
         IN  /\ Good(M, r, H) /\ Later(N, M)
             /\ FinalInv(N.history) => FinalInv(M.history)
             /\ TriedBlock(N, M, b)
<1> DEFINE slot == SlotOf(b)
           no == slot \in N.history.voted \/ ~ParentAllows(N.history, b)
           v == Notarize(b)
           cast == generate_vote_message(N, v, able)
           dropped == [cast EXCEPT !.pending_blocks[slot] = <<>>]
           M == try_notar(N, b, able)
           asksParent == /\ slot \notin N.history.voted
                         /\ slot % Window # 0 /\ slot # 1
                         /\ SlotOf(Parent[b]) + 1 = slot
           asked == IF asksParent THEN slot - 1 ELSE slot
<1>1. /\ N \in Nodes /\ N.asserts /\ HistoryInv(N.history) /\ N.history \in Histories
      /\ N.history.root <= r
  BY Zenon DEF Good, NodeInv, HistoryInv
<1>2. slot \in Nat /\ N.history.root \in Nat /\ slot \in Slots /\ b = <<slot, b[2]>>
  BY <1>1, SlotFacts DEF Histories
<1>3. asked >= N.history.root /\ slot >= N.history.root /\ slot >= r
  <2>1. CASE asksParent
    <3>1. slot > r
      BY <2>1
    <3> QED
      BY SMTT(20), <1>1, <1>2, <2>1, <3>1
  <2>2. CASE ~asksParent
    BY <1>1, <1>2, <2>2
  <2> QED
    BY Zenon, <2>1, <2>2
<1>4. Asserting(N, asked) = N
  BY Zenon, <1>1, <1>3, AssertingSame
<1>5. M = IF no THEN N ELSE try_final(dropped, b, able)
  BY Zenon, <1>4 DEF try_notar
<1>6. CASE no
  <2>1. Later(N, N)
    BY Zenon DEF Later
  <2> QED
    BY Zenon, <1>5, <1>6, <2>1 DEF TriedBlock
<1>7. CASE ~no
  <2>1. v \in Votes /\ v.type = "Notarize" /\ v.slot = slot /\ v.hash = b[2]
    BY Zenon, VoteFields
  <2> HIDE DEF v
  <2>2. <<v.slot, v.hash>> = b
    BY Zenon, <1>2, <2>1
  <2>3. Allowed(N.history, v)
    <3>1. MidWindow(b) => SlotOf(Parent[b]) = slot - 1 /\ Parent[b] \in N.history.voted_notar
      <4>1. ASSUME MidWindow(b) PROVE SlotOf(Parent[b]) + 1 = slot /\ Parent[b] \in N.history.voted_notar
        BY Zenon, <1>7, <4>1 DEF ParentAllows, MidWindow
      <4>2. SlotOf(Parent[b]) \in Nat
        BY Zenon, SlotFacts
      <4> QED
        BY <1>2, <4>1, <4>2
    <3> QED
      BY SMTT(20), <1>3, <1>7, <2>1, <2>2, <3>1 DEF Allowed
  <2>4. /\ Good(cast, r, H) /\ cast.history = add_vote(N.history, v)
        /\ cast.pending_blocks = N.pending_blocks
        /\ cast.finalized_blocks = N.finalized_blocks /\ cast.timers = N.timers
    <3>1. Good(cast, r, H) /\ AfterVote(N, cast, v)
      BY Zenon, <2>1, <2>3, GenerateGood
    <3> QED
      BY Zenon, <3>1 DEF AfterVote
  <2> HIDE DEF cast
  <2>5. /\ Good(dropped, r, H) /\ dropped.history = cast.history
        /\ dropped.pending_blocks = [cast.pending_blocks EXCEPT ![slot] = <<>>]
        /\ dropped.finalized_blocks = cast.finalized_blocks /\ dropped.timers = cast.timers
    BY Zenon, <1>2, <2>4, DropGood
  <2> HIDE DEF dropped
  <2>6. /\ Good(M, r, H) /\ Later(dropped, M)
        /\ M.history.voted = dropped.history.voted
        /\ M.history.voted_notar = dropped.history.voted_notar
        /\ M.pending_blocks = dropped.pending_blocks
        /\ FinalInvBut(dropped.history, b) => FinalInv(M.history)
    <3>1. M = try_final(dropped, b, able)
      BY Zenon, <1>5, <1>7
    <3> DEFINE R == try_final(dropped, b, able)
    <3>2. /\ Good(R, r, H) /\ MayFinalize(dropped, R)
          /\ FinalInvBut(dropped.history, b) => FinalInv(R.history)
      BY Zenon, <1>3, <2>5, TryFinalGood
    <3> HIDE DEF M, R
    <3>3. M = R
      BY Zenon, <3>1 DEF R
    <3> QED
      BY Zenon, <3>2, <3>3 DEF MayFinalize
  <2> HIDE DEF M
  <2>7. v.type \in {"Notarize", "NotarizeFallback"} => <<v.slot, v.hash>> \in Blocks
    BY Zenon, <2>2
  <2>8. /\ dropped.history.voted = IF v.type \in {"Notarize", "Skip"} THEN N.history.voted \union {v.slot}
                                                                      ELSE N.history.voted
        /\ dropped.history.voted_notar = IF v.type = "Notarize"
                                         THEN N.history.voted_notar \union {<<v.slot, v.hash>>}
                                         ELSE N.history.voted_notar
        /\ dropped.history.notarized_blocks = N.history.notarized_blocks
        /\ dropped.history.parent_ready_slots = N.history.parent_ready_slots
        /\ dropped.history.root = N.history.root
    <3> DEFINE G == add_vote(N.history, v)
    <3>1. /\ G.voted = IF v.type \in {"Notarize", "Skip"} THEN N.history.voted \union {v.slot}
                                                         ELSE N.history.voted
          /\ G.voted_notar = IF v.type = "Notarize"
                             THEN N.history.voted_notar \union {<<v.slot, v.hash>>}
                             ELSE N.history.voted_notar
          /\ G.notarized_blocks = N.history.notarized_blocks
          /\ G.parent_ready_slots = N.history.parent_ready_slots
          /\ G.root = N.history.root
      BY Zenon, <1>1, <2>1, <2>7, AddVoteFields
    <3>2. dropped.history = G
      BY Zenon, <2>4, <2>5
    <3> HIDE DEF G
    <3> QED
      BY Zenon, <3>1, <3>2
  <2>9. \A c : Settled(N.history, c) => Settled(dropped.history, c)
    BY Zenon, <1>1, <2>1, <2>4, <2>5, <2>7, SettledStays
  <2>10. /\ dropped.history.voted = N.history.voted \union {slot}
         /\ dropped.history.voted_notar = N.history.voted_notar \union {b}
    BY <2>1, <2>2, <2>8
  <2>11. FinalInv(N.history) => FinalInv(M.history)
    <3> SUFFICES ASSUME FinalInv(N.history)
                 PROVE  FinalInvBut(dropped.history, b)
      BY Zenon, <2>6
    <3> QED
      BY Zenon, <2>8, <2>9, <2>10 DEF FinalInv, FinalInvBut
  <2>12. Later(N, M)
    <3>1. /\ N.history.voted \subseteq M.history.voted
          /\ N.history.voted_notar \subseteq M.history.voted_notar
      BY Zenon, <2>6, <2>10
    <3> QED
      BY Zenon, <2>4, <2>5, <2>6, <2>8, <3>1 DEF Later
  <2>13. M.pending_blocks = [N.pending_blocks EXCEPT ![slot] = <<>>]
    BY Zenon, <2>4, <2>5, <2>6
  <2> QED
    BY Zenon, <1>7, <2>6, <2>10, <2>11, <2>12, <2>13 DEF M, TriedBlock
<1> QED
  BY Zenon, <1>6, <1>7

---------------------------------------------------------------------------
(* Recursion over an interval. *)

\* A set of numbers has a least one.
LEMMA LeastNumber ==
  ASSUME NEW S \in SUBSET Nat, S # {}
  PROVE  \E m \in S : \A n \in S : m <= n
<1>1. PICK m \in S : \A n \in S : ~(<<n, m>> \in OpToRel(<, Nat))
  BY Zenon, NatLessThanWellFounded, WFMin
<1>2. \A n \in S : n \in Nat /\ m \in Nat
  OBVIOUS
<1>3. \A n \in S : ~(n < m)
  BY Zenon, <1>1, <1>2 DEF OpToRel
<1> QED
  BY <1>2, <1>3

\* Induction over an interval.
LEMMA IntervalInduction ==
  ASSUME NEW m \in Nat, NEW n \in Nat, NEW P, m \in P,
         \A i \in m + 1..n : i - 1 \in P => i \in P
  PROVE  \A i \in m..n : i \in P
<1> DEFINE S == {i \in m..n : i \notin P}
<1> SUFFICES ASSUME S # {} PROVE FALSE
  BY Zenon
<1>1. S \in SUBSET Nat
  OBVIOUS
<1>2. PICK k \in S : \A i \in S : k <= i
  BY Zenon, <1>1, LeastNumber
<1>3. k \in m + 1..n /\ k - 1 \in m..n
  OBVIOUS
<1>4. k - 1 \notin S
  BY <1>2, <1>3
<1> QED
  BY Zenon, <1>3, <1>4

\* f starts with x and goes on with F, and each value is in its set.
Computes(f, m, n, x, F) == f = [i \in m..n |-> IF i = m THEN x ELSE F[i][f[i - 1]]]
Within(f, m, n, X) == \A i \in m..n : f[i] \in X[i]

\* A recursive function over an interval exists, when every step leads from
\* one set to the next.
LEMMA Recursion ==
  ASSUME NEW m \in Nat, NEW n \in Nat, m <= n, NEW X, NEW F, NEW x \in X[m],
         \A i \in m + 1..n : F[i] \in [X[i - 1] -> X[i]]
  PROVE  \E f : Computes(f, m, n, x, F) /\ Within(f, m, n, X)
<1> DEFINE Is(f, k) == /\ f = [i \in m..k |-> IF i = m THEN x ELSE F[i][f[i - 1]]]
                       /\ \A i \in m..k : f[i] \in X[i]
           P == {k \in m..n : \E f : Is(f, k)}
<1>1. m \in P
  <2>1. Is([i \in m..m |-> x], m)
    OBVIOUS
  <2>2. m \in m..n
    OBVIOUS
  <2> QED
    BY Zenon, <2>1, <2>2
<1>2. ASSUME NEW k \in m + 1..n, k - 1 \in P PROVE k \in P
  <2>1. PICK g : Is(g, k - 1)
    BY Zenon, <1>2
  <2> DEFINE f == [i \in m..k |-> IF i = k THEN F[k][g[k - 1]] ELSE g[i]]
  <2>2. /\ \A i \in m..k - 1 : f[i] = g[i] /\ f[i] \in X[i]
        /\ f[k] = F[k][g[k - 1]] /\ k - 1 \in m..k - 1
    <3>1. /\ k \in m..k /\ k - 1 \in m..k - 1
          /\ \A i \in m..k - 1 : i \in m..k /\ i # k
      OBVIOUS
    <3> QED
      BY Zenon, <2>1, <3>1
  <2>3. f[k] \in X[k]
    <3>1. F[k] \in [X[k - 1] -> X[k]] /\ g[k - 1] \in X[k - 1]
      BY Zenon, <2>1, <2>2
    <3> QED
      BY Zenon, <2>2, <3>1
  <2>4. \A i \in m..k : i \in m..k - 1 \/ i = k
    BY SMTT(20)
  <2>5. \A i \in m..k : f[i] \in X[i]
    BY Zenon, <2>2, <2>3, <2>4
  <2>6. ASSUME NEW i \in m..k PROVE f[i] = IF i = m THEN x ELSE F[i][f[i - 1]]
    <3>1. CASE i = k
      <4>1. i # m
        BY <3>1
      <4> QED
        BY Zenon, <2>2, <3>1, <4>1
    <3>2. CASE i # k /\ i = m
      <4>1. i \in m..k - 1
        BY <3>2
      <4>2. g[i] = x
        BY <2>1, <3>2, <4>1
      <4> QED
        BY Zenon, <2>2, <3>2, <4>1, <4>2
    <3>3. CASE i # k /\ i # m
      <4>1. i \in m..k - 1 /\ i - 1 \in m..k - 1
        BY SMTT(20), <3>3
      <4>2. g[i] = F[i][g[i - 1]]
        BY <2>1, <3>3, <4>1
      <4> QED
        BY Zenon, <2>2, <3>3, <4>1, <4>2
    <3> QED
      BY Zenon, <3>1, <3>2, <3>3
  <2>7. f = [i \in m..k |-> f[i]]
    BY Zenon
  <2> HIDE DEF f
  <2>8. f = [i \in m..k |-> IF i = m THEN x ELSE F[i][f[i - 1]]]
    BY Zenon, <2>6, <2>7
  <2>9. Is(f, k)
    BY Zenon, <2>5, <2>8
  <2>10. k \in m..n
    OBVIOUS
  <2> QED
    BY Zenon, <2>9, <2>10
<1> HIDE DEF P
<1>3. n \in P
  <2>1. \A i \in m..n : i \in P
    BY Zenon, <1>1, <1>2, IntervalInduction
  <2> QED
    BY <2>1
<1>4. PICK f : Is(f, n)
  BY Zenon, <1>3 DEF P
<1> QED
  BY Zenon, <1>4 DEF Computes, Within

---------------------------------------------------------------------------
(* The loops of the handlers. *)

\* M is N after blocks of the slot s were tried.
Tried(N, M, s) ==
  /\ Later(N, M)
  /\ FinalInv(N.history) => FinalInv(M.history)
  /\ M.history.voted \subseteq N.history.voted \union {s}
  /\ \A b \in M.history.voted_notar : b \in N.history.voted_notar \/ SlotOf(b) = s
  /\ \A t \in Slots : M.pending_blocks[t] = N.pending_blocks[t] \/ M.pending_blocks[t] = <<>>

\* Blocks of one slot, tried in order: afterwards the slot has a vote, or no
\* parent of theirs allows one.
LEMMA TryInOrderGood ==
  ASSUME NEW N, NEW r \in Nat, NEW H, Good(N, r, H), HistoryInv(H), NEW able,
         NEW s \in Slots, NEW blocks \in Seq(Blocks),
         \A i \in 1..Len(blocks) : /\ SlotOf(blocks[i]) = s
                                   /\ s > r \/ (s = r /\ s \in N.history.voted)
  PROVE  LET M == TryInOrder(N, blocks, able)
         IN  /\ Good(M, r, H) /\ Tried(N, M, s)
             /\ \A i \in 1..Len(blocks) :
                  s \in M.history.voted \/ ~ParentAllows(M.history, blocks[i])
<1> DEFINE n == Len(blocks)
           In(M, i) == /\ Good(M, r, H) /\ Tried(N, M, s)
                       /\ \A j \in 1..i : s \in M.history.voted \/ ~ParentAllows(M.history, blocks[j])
           X == [i \in 0..n |-> {M \in Nodes : In(M, i)}]
           F == [i \in 1..n |-> [M \in X[i - 1] |-> try_notar(M, blocks[i], able)]]
           Eq(f) == f = [i \in 0..n |-> IF i = 0 THEN N ELSE try_notar(f[i - 1], blocks[i], able)]
<1>1. n \in Nat /\ N \in Nodes /\ N.pending_blocks \in [Slots -> Seq(Blocks)]
  BY DEF Good, NodeInv, Nodes
<1>2. \A i \in 0..n : \A M : M \in X[i] <=> M \in Nodes /\ In(M, i)
  BY Zenon
<1>3. ASSUME NEW i \in 1..n, NEW M, In(M, i - 1)
      PROVE  LET L == try_notar(M, blocks[i], able) IN L \in Nodes /\ In(L, i)
  <2> DEFINE b == blocks[i]
             L == try_notar(M, b, able)
  <2>1. b \in Blocks /\ SlotOf(b) = s
    BY <1>1
  <2>2. Good(M, r, H) /\ Tried(N, M, s)
    BY Zenon, <1>3
  <2> HIDE DEF b
  <2>3. s > r \/ (s = r /\ s \in M.history.voted)
    BY <1>1, <2>2 DEF Tried, Later
  <2>4. /\ Good(L, r, H) /\ Later(M, L)
        /\ FinalInv(M.history) => FinalInv(L.history)
        /\ s \in M.history.voted \/ ~ParentAllows(M.history, b) => L = M
        /\ ~(s \in M.history.voted \/ ~ParentAllows(M.history, b)) =>
             /\ L.history.voted = M.history.voted \union {s}
             /\ L.history.voted_notar = M.history.voted_notar \union {b}
             /\ L.pending_blocks = [M.pending_blocks EXCEPT ![s] = <<>>]
    <3>1. SlotOf(b) > r \/ (SlotOf(b) = r /\ SlotOf(b) \in M.history.voted)
      BY Zenon, <2>1, <2>3
    <3>2. /\ Good(L, r, H) /\ Later(M, L)
          /\ FinalInv(M.history) => FinalInv(L.history)
          /\ TriedBlock(M, L, b)
      BY Zenon, <2>1, <2>2, <3>1, TryNotarGood
    <3> HIDE DEF L
    <3> QED
      BY Zenon, <2>1, <3>2 DEF TriedBlock
  <2> HIDE DEF L
  <2>5. L \in Nodes
    BY Zenon, <2>4 DEF Good, NodeInv
  <2>6. \A j \in 1..i : j \in 1..i - 1 \/ j = i
    BY <1>1
  <2>7. CASE s \in M.history.voted \/ ~ParentAllows(M.history, b)
    <3>1. L = M
      BY Zenon, <2>4, <2>7
    <3>2. In(M, i)
      BY Zenon, <1>3, <2>6, <2>7 DEF b
    <3> QED
      BY Zenon, <2>5, <3>1, <3>2 DEF L, b
  <2>8. CASE ~(s \in M.history.voted \/ ~ParentAllows(M.history, b))
    <3>1. s \in L.history.voted
      BY Zenon, <2>4, <2>8
    <3>2. Later(N, L)
      BY Zenon, <2>2, <2>4 DEF Tried, Later
    <3>3. /\ L.history.voted \subseteq N.history.voted \union {s}
          /\ \A c \in L.history.voted_notar : c \in N.history.voted_notar \/ SlotOf(c) = s
      BY Zenon, <2>1, <2>2, <2>4, <2>8 DEF Tried
    <3>4. M.pending_blocks \in [Slots -> Seq(Blocks)]
      BY <2>2 DEF Good, NodeInv, Nodes
    <3>5. \A t \in Slots : L.pending_blocks[t] = M.pending_blocks[t] \/ L.pending_blocks[t] = <<>>
      BY Zenon, <2>4, <2>8, <3>4
    <3>6. Tried(N, L, s)
      BY Zenon, <2>2, <2>4, <3>2, <3>3, <3>5 DEF Tried
    <3>7. In(L, i)
      BY Zenon, <2>4, <3>1, <3>6
    <3> QED
      BY Zenon, <2>5, <3>7 DEF L, b
  <2> QED
    BY Zenon, <2>7, <2>8
<1>4. N \in X[0]
  <2>1. Tried(N, N, s)
    BY Zenon DEF Tried, Later
  <2>2. \A j \in 1..0 : FALSE
    OBVIOUS
  <2>3. In(N, 0)
    BY Zenon, <2>1, <2>2
  <2>4. 0 \in 0..n
    BY <1>1
  <2> QED
    BY Zenon, <1>1, <1>2, <2>3, <2>4
<1>5. \A i \in 0 + 1..n : /\ i \in 1..n /\ i \in 0..n /\ i - 1 \in 0..n /\ i # 0
  BY <1>1
<1>6. \A i \in 0 + 1..n : \A M \in X[i - 1] : try_notar(M, blocks[i], able) \in X[i]
  BY Zenon, <1>2, <1>3, <1>5
<1> HIDE DEF X
<1>7. \A i \in 0 + 1..n : /\ F[i] \in [X[i - 1] -> X[i]]
                          /\ \A M \in X[i - 1] : F[i][M] = try_notar(M, blocks[i], able)
  BY Zenon, <1>5, <1>6
<1> HIDE DEF F
<1>8. \E f : Eq(f)
  <2>a. PICK f : Computes(f, 0, n, N, F) /\ Within(f, 0, n, X)
    <3>1. 0 <= n
      BY <1>1
    <3>2. \A i \in 0 + 1..n : F[i] \in [X[i - 1] -> X[i]]
      BY Zenon, <1>7
    <3> HIDE DEF n
    <3> QED
      BY Zenon, <1>1, <1>4, <3>1, <3>2, Recursion
  <2>1. /\ f = [i \in 0..n |-> IF i = 0 THEN N ELSE F[i][f[i - 1]]]
        /\ \A i \in 0..n : f[i] \in X[i]
    BY Zenon, <2>a DEF Computes, Within
  <2>2. ASSUME NEW i \in 0..n
        PROVE  (IF i = 0 THEN N ELSE F[i][f[i - 1]])
                 = IF i = 0 THEN N ELSE try_notar(f[i - 1], blocks[i], able)
    <3>1. CASE i = 0
      BY Zenon, <3>1
    <3>2. CASE i # 0
      <4>1. i \in 0 + 1..n
        BY <1>1, <3>2
      <4> QED
        BY Zenon, <1>5, <1>7, <2>1, <3>2, <4>1
    <3> QED
      BY Zenon, <3>1, <3>2
  <2>3. Eq(f)
    BY Zenon, <2>1, <2>2
  <2> QED
    BY Zenon, <2>3
<1>9. PICK f : Eq(f) /\ TryInOrder(N, blocks, able) = f[n]
  BY Zenon, <1>8 DEF TryInOrder
<1>10. \A i \in 0..n : f[i] \in X[i]
  <2> DEFINE P == {i \in 0..n : f[i] \in X[i]}
  <2>1. 0 \in P
    <3>1. 0 \in 0..n
      BY <1>1
    <3>2. f[0] = N
      BY Zenon, <1>9, <3>1
    <3> QED
      BY Zenon, <1>4, <3>1, <3>2
  <2>2. ASSUME NEW i \in 0 + 1..n, i - 1 \in P PROVE i \in P
    <3>1. f[i] = try_notar(f[i - 1], blocks[i], able)
      BY Zenon, <1>5, <1>9
    <3> QED
      BY Zenon, <1>5, <1>6, <2>2, <3>1
  <2> HIDE DEF P
  <2>3. \A i \in 0..n : i \in P
    BY Zenon, <1>1, <2>1, <2>2, IntervalInduction
  <2> QED
    BY Zenon, <2>3 DEF P
<1>11. n \in 0..n
  BY <1>1
<1> QED
  BY Zenon, <1>2, <1>9, <1>10, <1>11

\* M is N after the blocks pending up to the slot s were tried.
TriedUpTo(N, M, s) ==
  /\ Later(N, M)
  /\ FinalInv(N.history) => FinalInv(M.history)
  /\ \A t \in Slots : M.pending_blocks[t] = N.pending_blocks[t] \/ M.pending_blocks[t] = <<>>
  /\ \A t \in 0..s : \A i \in 1..Len(N.pending_blocks[t]) :
       t \in M.history.voted \/ ~ParentAllows(M.history, N.pending_blocks[t][i])

\* What is tried in a slot gives no earlier block a reason to be voted for.
LEMMA TriedStays ==
  ASSUME NEW N, NEW M, NEW s \in Slots, NEW b \in Blocks, SlotOf(b) < s, Tried(N, M, s),
         ~ParentAllows(N.history, b)
  PROVE  ~ParentAllows(M.history, b)
<1>1. SlotOf(b) \in Nat /\ SlotOf(Parent[b]) \in Nat /\ SlotOf(Parent[b]) < SlotOf(b) /\ s \in Nat
  BY SMTT(20), SlotFacts
<1>2. SlotOf(Parent[b]) # s
  BY <1>1
<1>3. Parent[b] \in M.history.voted_notar => Parent[b] \in N.history.voted_notar
  BY Zenon, <1>2 DEF Tried
<1>4. M.history.parent_ready_slots = N.history.parent_ready_slots
  BY Zenon DEF Tried, Later
<1> QED
  BY Zenon, <1>3, <1>4 DEF ParentAllows

\* The pending blocks, tried slot by slot: afterwards none could be voted for.
LEMMA CheckPendingGood ==
  ASSUME NEW N, NEW r \in Nat, NEW H, Good(N, r, H), HistoryInv(H), NEW able
  PROVE  LET M == check_pending_blocks(N, able)
         IN  /\ Good(M, r, H) /\ Later(N, M)
             /\ FinalInv(N.history) => FinalInv(M.history)
             /\ Exhausted(M)
<1> DEFINE n == LastSlot
           B(s) == N.pending_blocks[s]
           In(M, s) == Good(M, r, H) /\ TriedUpTo(N, M, s)
           X == [s \in 0..n |-> {M \in Nodes : In(M, s)}]
           F == [s \in 1..n |-> [M \in X[s - 1] |-> TryInOrder(M, B(s), able)]]
           Eq(f) == f = [s \in Slots |-> IF s = 0 THEN N ELSE TryInOrder(f[s - 1], B(s), able)]
<1>1. /\ n \in Nat /\ Slots = 0..n /\ N \in Nodes /\ N.pending_blocks \in [Slots -> Seq(Blocks)]
      /\ PendingInv(N, r)
  BY SlotFacts DEF Good, NodeInv, Nodes
<1>2. \A i \in 0..n : \A M : M \in X[i] <=> M \in Nodes /\ In(M, i)
  BY Zenon
<1>a. \A s \in Slots : /\ B(s) \in Seq(Blocks) /\ Len(B(s)) \in Nat
                       /\ \A i \in 1..Len(B(s)) : B(s)[i] \in Blocks
  BY SMTT(20), <1>1
<1>b. \A s \in Slots : \A i \in 1..Len(B(s)) :
        SlotOf(B(s)[i]) = s /\ (s > r \/ (s = r /\ s \in N.history.voted))
  BY Zenon, <1>1 DEF PendingInv
<1>3. ASSUME NEW s \in 1..n, NEW M, In(M, s - 1)
      PROVE  LET L == TryInOrder(M, B(s), able) IN L \in Nodes /\ In(L, s)
  <2> DEFINE L == TryInOrder(M, B(s), able)
  <2>1. s \in Slots /\ s \in Nat
    BY <1>1
  <2>2. Good(M, r, H) /\ TriedUpTo(N, M, s - 1)
    BY Zenon, <1>3
  <2>3. N.history.voted \subseteq M.history.voted
    BY Zenon, <2>2 DEF TriedUpTo, Later
  <2>4. \A i \in 1..Len(B(s)) :
          SlotOf(B(s)[i]) = s /\ (s > r \/ (s = r /\ s \in M.history.voted))
    BY Zenon, <1>b, <2>1, <2>3
  <2>5. B(s) \in Seq(Blocks)
    BY Zenon, <1>a, <2>1
  <2>6. /\ Good(L, r, H) /\ Tried(M, L, s)
        /\ \A i \in 1..Len(B(s)) : s \in L.history.voted \/ ~ParentAllows(L.history, B(s)[i])
    BY Zenon, <2>1, <2>2, <2>4, <2>5, TryInOrderGood
  <2> HIDE DEF L
  <2>7. L \in Nodes
    BY Zenon, <2>6 DEF Good, NodeInv
  <2>8. Later(N, L)
    BY Zenon, <2>2, <2>6 DEF Tried, TriedUpTo, Later
  <2>9. \A t \in Slots : L.pending_blocks[t] = N.pending_blocks[t] \/ L.pending_blocks[t] = <<>>
    BY Zenon, <2>2, <2>6 DEF Tried, TriedUpTo
  <2>10. FinalInv(N.history) => FinalInv(L.history)
    BY Zenon, <2>2, <2>6 DEF Tried, TriedUpTo
  <2>11. ASSUME NEW t \in 0..s, NEW i \in 1..Len(B(t))
         PROVE  t \in L.history.voted \/ ~ParentAllows(L.history, B(t)[i])
    <3>1. CASE t = s
      BY Zenon, <2>6, <3>1
    <3>2. CASE t # s
      <4>1. t \in 0..s - 1 /\ t < s /\ t \in Slots
        BY <1>1, <2>1, <3>2
      <4>2. t \in M.history.voted \/ ~ParentAllows(M.history, B(t)[i])
        BY Zenon, <2>2, <4>1 DEF TriedUpTo
      <4>3. M.history.voted \subseteq L.history.voted
        BY Zenon, <2>6 DEF Tried, Later
      <4>4. B(t)[i] \in Blocks /\ SlotOf(B(t)[i]) = t
        BY Zenon, <1>a, <1>b, <4>1
      <4>5. SlotOf(B(t)[i]) < s
        BY Zenon, <4>1, <4>4
      <4>6. ~ParentAllows(M.history, B(t)[i]) => ~ParentAllows(L.history, B(t)[i])
        BY Zenon, <2>1, <2>6, <4>4, <4>5, TriedStays
      <4> QED
        BY Zenon, <4>2, <4>3, <4>6
    <3> QED
      BY Zenon, <3>1, <3>2
  <2>12. In(L, s)
    BY Zenon, <2>6, <2>8, <2>9, <2>10, <2>11 DEF TriedUpTo
  <2> QED
    BY Zenon, <2>7, <2>12 DEF L
<1>4. N \in X[0]
  <2>1. Later(N, N)
    BY Zenon DEF Later
  <2>2. 0 \in 0..n /\ 0 \in Slots /\ \A t \in 0..0 : t = 0
    BY <1>1
  <2>3. \A i \in 1..Len(B(0)) : FALSE
    <3>1. \A b \in Blocks : SlotOf(b) >= 1
      BY Zenon, SlotFacts
    <3>2. \A b \in Blocks : SlotOf(b) # 0
      BY <3>1
    <3> QED
      BY Zenon, <1>a, <1>b, <2>2, <3>2
  <2>4. In(N, 0)
    BY Zenon, <2>1, <2>2, <2>3 DEF TriedUpTo
  <2> QED
    BY Zenon, <1>1, <1>2, <2>2, <2>4
<1>5. \A i \in 0 + 1..n : /\ i \in 1..n /\ i \in 0..n /\ i - 1 \in 0..n /\ i # 0
  BY <1>1
<1>6. \A i \in 0 + 1..n : \A M \in X[i - 1] : TryInOrder(M, B(i), able) \in X[i]
  BY Zenon, <1>2, <1>3, <1>5
<1> HIDE DEF X
<1>7. \A i \in 0 + 1..n : /\ F[i] \in [X[i - 1] -> X[i]]
                          /\ \A M \in X[i - 1] : F[i][M] = TryInOrder(M, B(i), able)
  BY Zenon, <1>5, <1>6
<1> HIDE DEF F
<1>8. \E f : Eq(f)
  <2>1. PICK f : Computes(f, 0, n, N, F) /\ Within(f, 0, n, X)
    <3>1. 0 <= n
      BY <1>1
    <3>2. \A i \in 0 + 1..n : F[i] \in [X[i - 1] -> X[i]]
      BY Zenon, <1>7
    <3> QED
      BY Zenon, <1>1, <1>4, <3>1, <3>2, Recursion
  <2>2. /\ f = [i \in 0..n |-> IF i = 0 THEN N ELSE F[i][f[i - 1]]]
        /\ \A i \in 0..n : f[i] \in X[i]
    BY Zenon, <2>1 DEF Computes, Within
  <2>3. ASSUME NEW i \in 0..n
        PROVE  (IF i = 0 THEN N ELSE F[i][f[i - 1]])
                 = IF i = 0 THEN N ELSE TryInOrder(f[i - 1], B(i), able)
    <3>1. CASE i = 0
      BY Zenon, <3>1
    <3>2. CASE i # 0
      <4>1. i \in 0 + 1..n
        BY SMTT(20), <1>1, <3>2
      <4> QED
        BY Zenon, <1>5, <1>7, <2>2, <3>2, <4>1
    <3> QED
      BY Zenon, <3>1, <3>2
  <2>4. Eq(f)
    BY Zenon, <1>1, <2>2, <2>3
  <2> QED
    BY Zenon, <2>4
<1>9. PICK f : Eq(f) /\ check_pending_blocks(N, able) = f[n]
  BY Zenon, <1>8 DEF check_pending_blocks
<1>10. \A i \in 0..n : f[i] \in X[i]
  <2> DEFINE P == {i \in 0..n : f[i] \in X[i]}
  <2>1. 0 \in P
    <3>1. 0 \in 0..n
      BY <1>1
    <3>2. f[0] = N
      BY Zenon, <1>1, <1>9, <3>1
    <3> QED
      BY Zenon, <1>4, <3>1, <3>2
  <2>2. ASSUME NEW i \in 0 + 1..n, i - 1 \in P PROVE i \in P
    <3>1. f[i] = TryInOrder(f[i - 1], B(i), able)
      BY Zenon, <1>1, <1>5, <1>9
    <3> QED
      BY Zenon, <1>5, <1>6, <2>2, <3>1
  <2> HIDE DEF P
  <2>3. \A i \in 0..n : i \in P
    BY Zenon, <1>1, <2>1, <2>2, IntervalInduction
  <2> QED
    BY Zenon, <2>3 DEF P
<1>11. n \in 0..n
  BY <1>1
<1>12. In(f[n], n)
  BY Zenon, <1>2, <1>10, <1>11
<1>13. Exhausted(f[n])
  <2> DEFINE M == f[n]
  <2> HIDE DEF M
  <2>0. TriedUpTo(N, M, n)
    BY Zenon, <1>12 DEF M
  <2> SUFFICES ASSUME NEW s \in Slots, NEW i \in 1..Len(M.pending_blocks[s])
               PROVE  s \in M.history.voted \/ ~ParentAllows(M.history, M.pending_blocks[s][i])
    BY Zenon DEF Exhausted, M
  <2>1. CASE M.pending_blocks[s] = <<>>
    <3>1. i \in 1..0
      BY <2>1
    <3> QED
      BY <3>1
  <2>2. CASE M.pending_blocks[s] = N.pending_blocks[s]
    <3>1. \A t \in 0..n : \A j \in 1..Len(N.pending_blocks[t]) :
            t \in M.history.voted \/ ~ParentAllows(M.history, N.pending_blocks[t][j])
      BY Zenon, <2>0 DEF TriedUpTo
    <3> QED
      BY Zenon, <1>1, <2>2, <3>1
  <2> QED
    BY Zenon, <2>0, <2>1, <2>2 DEF TriedUpTo
<1> QED
  BY Zenon, <1>9, <1>12, <1>13 DEF TriedUpTo

\* M is N after votes to skip.
SkippedSome(N, M) ==
  /\ Later(N, M)
  /\ FinalInv(N.history) => FinalInv(M.history)
  /\ M.history.voted_notar = N.history.voted_notar
  /\ M.pending_blocks = N.pending_blocks
  /\ \A v \in M.history.votes_cast : v \in N.history.votes_cast \/ v.type = "Skip"

\* A vote to skip a slot at or after the root (SkipSlot).
LEMMA SkipSlotGood ==
  ASSUME NEW N, NEW r \in Nat, NEW H, Good(N, r, H), HistoryInv(H), NEW able,
         NEW s \in Nat, s >= r
  PROVE  LET M == SkipSlot(N, s, able) IN Good(M, r, H) /\ SkippedSome(N, M)
<1> DEFINE v == Skip(s)
           M == SkipSlot(N, s, able)
           R == generate_vote_message(N, v, able)
<1>1. /\ N \in Nodes /\ N.asserts /\ HistoryInv(N.history) /\ N.history \in Histories
      /\ N.history.root <= r
  BY Zenon DEF Good, NodeInv, HistoryInv
<1>2. s >= N.history.root
  BY <1>1 DEF Histories
<1>3. Asserting(N, s) = N
  BY Zenon, <1>1, <1>2, AssertingSame
<1>4. M = IF s \in N.history.voted THEN N ELSE R
  BY Zenon, <1>3 DEF SkipSlot
<1>5. v \in Votes /\ v.type = "Skip" /\ v.slot = s
  BY Zenon, VoteFields
<1> HIDE DEF v, M
<1>6. CASE s \in N.history.voted
  <2>1. SkippedSome(N, N)
    BY Zenon DEF SkippedSome, Later
  <2> QED
    BY Zenon, <1>4, <1>6, <2>1 DEF M
<1>7. CASE s \notin N.history.voted
  <2>1. Allowed(N.history, v)
    BY <1>2, <1>5, <1>7 DEF Allowed
  <2>2. /\ Good(R, r, H) /\ R.history = add_vote(N.history, v)
        /\ R.pending_blocks = N.pending_blocks
        /\ R.finalized_blocks = N.finalized_blocks /\ R.timers = N.timers
    <3>1. Good(R, r, H) /\ AfterVote(N, R, v)
      BY Zenon, <1>5, <2>1, GenerateGood
    <3> QED
      BY Zenon, <3>1 DEF AfterVote
  <2>3. v.type \in {"Notarize", "NotarizeFallback"} => <<v.slot, v.hash>> \in Blocks
    BY <1>5
  <2> DEFINE G == add_vote(N.history, v)
  <2>4. /\ G.voted = IF v.type \in {"Notarize", "Skip"} THEN N.history.voted \union {v.slot}
                                                       ELSE N.history.voted
        /\ G.voted_notar = IF v.type = "Notarize"
                           THEN N.history.voted_notar \union {<<v.slot, v.hash>>}
                           ELSE N.history.voted_notar
        /\ G.votes_cast = N.history.votes_cast \union {v}
        /\ G.notarized_blocks = N.history.notarized_blocks
        /\ G.parent_ready_slots = N.history.parent_ready_slots
        /\ G.root = N.history.root
    BY Zenon, <1>1, <1>5, <2>3, AddVoteFields
  <2>5. \A c : Settled(N.history, c) => Settled(G, c)
    BY Zenon, <1>1, <1>5, <2>3, SettledStays
  <2> HIDE DEF G, R
  <2>6. /\ N.history.voted \subseteq G.voted /\ G.voted_notar = N.history.voted_notar
        /\ \A w \in G.votes_cast : w \in N.history.votes_cast \/ w.type = "Skip"
    BY <1>5, <2>4
  <2>7. R.history = G
    BY Zenon, <2>2 DEF G
  <2>8. FinalInv(N.history) => FinalInv(G)
    BY Zenon, <2>4, <2>5, <2>6 DEF FinalInv
  <2>9. Later(N, R)
    BY Zenon, <2>2, <2>4, <2>6, <2>7 DEF Later
  <2>10. SkippedSome(N, R)
    BY Zenon, <2>2, <2>6, <2>7, <2>8, <2>9 DEF SkippedSome
  <2> QED
    BY Zenon, <1>4, <1>7, <2>2, <2>10 DEF M
<1> QED
  BY Zenon, <1>6, <1>7

\* The greatest of three numbers.
LEMMA MaxOfThree ==
  ASSUME NEW a \in Nat, NEW b \in Nat, NEW c \in Nat
  PROVE  LET m == Max({a, b, c}) IN m \in {a, b, c} /\ m >= a /\ m >= b /\ m >= c
<1>1. \E m \in {a, b, c} : \A y \in {a, b, c} : m >= y
  <2>1. CASE a >= b /\ a >= c
    BY <2>1
  <2>2. CASE b >= a /\ b >= c
    BY <2>2
  <2>3. CASE c >= a /\ c >= b
    BY <2>3
  <2> QED
    BY SMTT(20), <2>1, <2>2, <2>3
<1>2. Max({a, b, c}) \in {a, b, c} /\ \A y \in {a, b, c} : Max({a, b, c}) >= y
  BY Zenon, <1>1 DEF Max
<1> QED
  BY Zenon, <1>2

\* The window of a slot.
LEMMA WindowBounds ==
  ASSUME NEW s \in Nat
  PROVE  /\ first_of_consecutive_leader_slots(s) \in Nat
         /\ first_of_consecutive_leader_slots(s) <= s
         /\ last_of_consecutive_leader_slots(s) \in Nat
         /\ last_of_consecutive_leader_slots(s) >= s
<1>1. Window \in Nat \ {0}
  BY WindowsFit
<1>2. s % Window \in 0..Window - 1
  BY <1>1
<1>3. s % Window <= s
  BY <1>1
<1> QED
  BY SMTT(20), <1>1, <1>2, <1>3 DEF first_of_consecutive_leader_slots, last_of_consecutive_leader_slots

\* A window that is skipped from the root or its first slot on (try_skip_window).
LEMMA SkipWindowGood ==
  ASSUME NEW N, root \in Known, NEW H, Good(N, SlotOf(root), H), HistoryInv(H),
         NEW able, NEW slot \in Nat, slot > SlotOf(root)
  PROVE  LET M == try_skip_window(N, slot, able)
         IN  Good(M, SlotOf(root), H) /\ SkippedSome(N, M)
<1> DEFINE r == SlotOf(root)
           start == Max({first_of_consecutive_leader_slots(slot), r, 1})
           m == start - 1
           n == last_of_consecutive_leader_slots(slot)
           In(M) == Good(M, r, H) /\ SkippedSome(N, M)
           X == [s \in m..n |-> {M \in Nodes : In(M)}]
           F == [s \in m + 1..n |-> [M \in X[s - 1] |-> SkipSlot(M, s, able)]]
           Eq(f) == f = [s \in m..n |-> IF s < start THEN N ELSE SkipSlot(f[s - 1], s, able)]
<1>1. /\ n \in Nat /\ r \in Nat /\ N \in Nodes
      /\ first_of_consecutive_leader_slots(slot) \in Nat
      /\ first_of_consecutive_leader_slots(slot) <= slot /\ slot <= n
  BY SMTT(20), SlotFacts, WindowBounds DEF Good, NodeInv
<1>2. start \in Nat /\ start >= 1 /\ start >= r /\ start <= slot
  <2>1. /\ start \in {first_of_consecutive_leader_slots(slot), r, 1}
        /\ start >= r /\ start >= 1
    BY SMTT(20), <1>1, MaxOfThree
  <2> HIDE DEF start
  <2> QED
    BY SMTT(20), <1>1, <2>1
<1> HIDE DEF n, start, r
<1>3. /\ m \in Nat /\ m <= n /\ m \in m..n /\ n \in m..n
      /\ \A i \in m + 1..n : /\ i \in m..n /\ i - 1 \in m..n /\ i # m /\ ~(i < start)
                             /\ i \in Nat /\ i >= r
      /\ \A i \in m..n : i # m => i \in m + 1..n
      /\ \A i \in m..n : i < start <=> i = m
  BY <1>1, <1>2
<1> HIDE DEF m
<1>4. \A i \in m..n : \A M : M \in X[i] <=> M \in Nodes /\ In(M)
  BY Zenon
<1>5. ASSUME NEW i \in m + 1..n, NEW M, In(M)
      PROVE  LET L == SkipSlot(M, i, able) IN L \in Nodes /\ In(L)
  <2> DEFINE L == SkipSlot(M, i, able)
  <2>1. Good(L, r, H) /\ SkippedSome(M, L)
    BY Zenon, <1>1, <1>3, <1>5, SkipSlotGood
  <2> HIDE DEF L
  <2>2. L \in Nodes
    BY Zenon, <2>1 DEF Good, NodeInv
  <2>3. Later(N, L)
    BY Zenon, <1>5, <2>1 DEF SkippedSome, Later
  <2>4. SkippedSome(N, L)
    BY Zenon, <1>5, <2>1, <2>3 DEF SkippedSome
  <2> QED
    BY Zenon, <2>1, <2>2, <2>4 DEF L
<1>6. N \in X[m]
  <2>1. SkippedSome(N, N)
    BY Zenon DEF SkippedSome, Later
  <2> QED
    BY Zenon, <1>1, <1>3, <1>4, <2>1 DEF r
<1>7. \A i \in m + 1..n : \A M \in X[i - 1] : SkipSlot(M, i, able) \in X[i]
  BY Zenon, <1>3, <1>4, <1>5
<1> HIDE DEF X
<1>8. \A i \in m + 1..n : /\ F[i] \in [X[i - 1] -> X[i]]
                          /\ \A M \in X[i - 1] : F[i][M] = SkipSlot(M, i, able)
  BY Zenon, <1>7
<1> HIDE DEF F
<1>9. \E f : Eq(f)
  <2>1. PICK f : Computes(f, m, n, N, F) /\ Within(f, m, n, X)
    <3>1. \A i \in m + 1..n : F[i] \in [X[i - 1] -> X[i]]
      BY Zenon, <1>8
    <3> QED
      BY Zenon, <1>1, <1>3, <1>6, <3>1, Recursion
  <2>2. /\ f = [i \in m..n |-> IF i = m THEN N ELSE F[i][f[i - 1]]]
        /\ \A i \in m..n : f[i] \in X[i]
    BY Zenon, <2>1 DEF Computes, Within
  <2>3. ASSUME NEW i \in m..n
        PROVE  (IF i = m THEN N ELSE F[i][f[i - 1]])
                 = IF i < start THEN N ELSE SkipSlot(f[i - 1], i, able)
    <3>1. CASE i = m
      BY Zenon, <1>3, <3>1
    <3>2. CASE i # m
      BY Zenon, <1>3, <1>8, <2>2, <3>2
    <3> QED
      BY Zenon, <3>1, <3>2
  <2>4. Eq(f)
    BY Zenon, <2>2, <2>3
  <2> QED
    BY Zenon, <2>4
<1>10. PICK f : Eq(f) /\ try_skip_window(N, slot, able) = f[n]
  BY Zenon, <1>9 DEF try_skip_window, m, n, start, r
<1>11. \A i \in m..n : f[i] \in X[i]
  <2> DEFINE P == {i \in m..n : f[i] \in X[i]}
  <2>1. m \in P
    <3>1. f[m] = N
      BY Zenon, <1>3, <1>10
    <3> QED
      BY Zenon, <1>3, <1>6, <3>1
  <2>2. ASSUME NEW i \in m + 1..n, i - 1 \in P PROVE i \in P
    <3>1. f[i] = SkipSlot(f[i - 1], i, able)
      BY Zenon, <1>3, <1>10
    <3> QED
      BY Zenon, <1>3, <1>7, <2>2, <3>1
  <2> HIDE DEF P
  <2>3. \A i \in m..n : i \in P
    BY Zenon, <1>1, <1>3, <2>1, <2>2, IntervalInduction
  <2> QED
    BY Zenon, <2>3 DEF P
<1>12. In(f[n])
  BY Zenon, <1>3, <1>4, <1>11
<1> QED
  BY Zenon, <1>10, <1>12 DEF r

---------------------------------------------------------------------------
(* Parents, roots and restarts. *)

\* The events of a timer.
LEMMA TimerType ==
  ASSUME NEW s \in Slots
  PROVE  Timer(s) \in Seq(Timeouts)
<1>1. s \in Nat /\ last_of_consecutive_leader_slots(s) \in Nat
      /\ last_of_consecutive_leader_slots(s) >= s
  <2>1. s \in Nat
    BY SlotFacts
  <2> QED
    BY Zenon, <2>1, WindowBounds
<1> DEFINE k == last_of_consecutive_leader_slots(s) - s + 1
           ticks == [i \in 1..k |-> <<"Timeout", s + i - 1>>]
<1>2. k \in Nat
  BY <1>1
<1> HIDE DEF k
<1>3. ticks \in Seq(Timeouts)
  <2>1. \A i \in 1..k : <<"Timeout", s + i - 1>> \in Timeouts
    BY <1>1, <1>2 DEF Timeouts
  <2> QED
    BY <1>2, <2>1
<1> HIDE DEF ticks
<1>4. << <<"TimeoutCrashedLeader", s>> >> \in Seq(Timeouts)
  BY <1>1 DEF Timeouts
<1>5. << <<"TimeoutCrashedLeader", s>> >> \o ticks \in Seq(Timeouts)
  BY <1>3, <1>4
<1> QED
  BY Zenon, <1>5 DEF Timer, ticks, k

\* The history N has is exchanged for G, which adds no vote.
LEMMA ExchangeGood ==
  ASSUME NEW N, NEW r \in Nat, NEW H, Good(N, r, H), HistoryInv(H), NEW G, HistoryInv(G),
         G.votes_cast = N.history.votes_cast, G.root = N.history.root,
         G.voted = N.history.voted
  PROVE  LET M == [N EXCEPT !.history = G]
         IN  /\ Good(M, r, H) /\ M.history = G
             /\ M.pending_blocks = N.pending_blocks /\ M.finalized_blocks = N.finalized_blocks
             /\ M.timers = N.timers
<1> DEFINE M == [N EXCEPT !.history = G]
<1>1. N \in Nodes /\ G \in Histories /\ N.history \in Histories /\ H \in Histories
  BY Zenon DEF Good, NodeInv, HistoryInv
<1>2. /\ M \in Nodes /\ M.history = G
      /\ M.pending_blocks = N.pending_blocks /\ M.finalized_blocks = N.finalized_blocks
      /\ M.timers = N.timers /\ M.own_votes = N.own_votes /\ M.ops = N.ops
      /\ M.asserts = N.asserts
  BY Zenon, <1>1 DEF Nodes
<1> HIDE DEF M
<1>3. PendingInv(M, r)
  BY Zenon, <1>2 DEF Good, NodeInv, PendingInv
<1>4. NodeInv(M, r)
  BY Zenon, <1>2, <1>3 DEF Good, NodeInv
<1>5. Extends(N.history, G)
  BY <1>1 DEF Extends, Histories
<1>6. Extends(H, G)
  BY Zenon, <1>1, <1>5, ExtendsTrans DEF Good
<1>7. Saves(N.ops, G)
  <2>1. Saves(N.ops, N.history)
    BY Zenon DEF Good
  <2>2. \A i \in 1..Len(N.ops) : N.ops[i].saved \in Histories /\ Extends(N.ops[i].saved, N.history)
    BY Zenon, <2>1 DEF Saves, HistoryInv
  <2>3. \A i \in 1..Len(N.ops) : Extends(N.ops[i].saved, G)
    BY Zenon, <1>1, <1>5, <2>2, ExtendsTrans
  <2> QED
    BY Zenon, <2>1, <2>3 DEF Saves
<1>8. Good(M, r, H)
  BY Zenon, <1>2, <1>4, <1>6, <1>7 DEF Good
<1> QED
  BY Zenon, <1>2, <1>8 DEF M

\* A parent that becomes ready changes nothing else of a history.
LEMMA AddParentReady ==
  ASSUME NEW H, HistoryInv(H), NEW s \in Slots, NEW p \in Known
  PROVE  LET G == add_parent_ready(H, s, p)
         IN  /\ HistoryInv(G) /\ (FinalInv(H) => FinalInv(G))
             /\ G.votes_cast = H.votes_cast /\ G.root = H.root /\ G.voted = H.voted
<1> DEFINE G == [H EXCEPT !.parent_ready_slots = @ \union {<<s, p>>}]
<1>1. H \in Histories /\ s \in Nat
  BY SlotFacts DEF HistoryInv
<1>2. H.parent_ready_slots \union {<<s, p>>} \in SUBSET (Nat \X Known)
  BY <1>1 DEF Histories
<1>3. /\ G \in Histories /\ G.voted = H.voted /\ G.voted_notar = H.voted_notar
      /\ G.voted_notar_fallback = H.voted_notar_fallback
      /\ G.voted_skip_fallback = H.voted_skip_fallback /\ G.skipped = H.skipped
      /\ G.its_over = H.its_over /\ G.votes_cast = H.votes_cast
      /\ G.notarized_blocks = H.notarized_blocks /\ G.root = H.root
  BY <1>1, <1>2 DEF Histories
<1> HIDE DEF G
<1>4. HistoryInv(G)
  BY Zenon, <1>3 DEF HistoryInv, Indexed, Chained
<1>5. FinalInv(H) => FinalInv(G)
  BY Zenon, <1>3 DEF FinalInv, Settled, bad_window
<1>6. add_parent_ready(H, s, p) = H \/ add_parent_ready(H, s, p) = G
  BY Zenon DEF add_parent_ready, G
<1> QED
  BY Zenon, <1>3, <1>4, <1>5, <1>6

\* A block that becomes notarized: all others stay settled.
LEMMA AddBlockNotarized ==
  ASSUME NEW H, HistoryInv(H), NEW b \in Blocks
  PROVE  LET G == add_block_notarized(H, b)
         IN  /\ HistoryInv(G) /\ (FinalInv(H) => FinalInvBut(G, b))
             /\ G.votes_cast = H.votes_cast /\ G.root = H.root /\ G.voted = H.voted
             /\ G.voted_notar = H.voted_notar /\ G.parent_ready_slots = H.parent_ready_slots
<1> DEFINE G == [H EXCEPT !.notarized_blocks = @ \union {b}]
<1>1. H \in Histories
  BY DEF HistoryInv
<1>2. H.notarized_blocks \union {b} \in SUBSET Blocks
  BY <1>1 DEF Histories
<1>3. /\ G \in Histories /\ G.voted = H.voted /\ G.voted_notar = H.voted_notar
      /\ G.voted_notar_fallback = H.voted_notar_fallback
      /\ G.voted_skip_fallback = H.voted_skip_fallback /\ G.skipped = H.skipped
      /\ G.its_over = H.its_over /\ G.votes_cast = H.votes_cast
      /\ G.notarized_blocks = H.notarized_blocks \union {b} /\ G.root = H.root
      /\ G.parent_ready_slots = H.parent_ready_slots
  BY <1>1, <1>2 DEF Histories
<1> HIDE DEF G
<1>4. HistoryInv(G)
  BY Zenon, <1>3 DEF HistoryInv, Indexed, Chained
<1>5. FinalInv(H) => FinalInvBut(G, b)
  BY Zenon, <1>3 DEF FinalInv, FinalInvBut, Settled, bad_window
<1>6. FinalInv(H) => FinalInvBut(H, b)
  BY Zenon DEF FinalInv, FinalInvBut
<1>7. add_block_notarized(H, b) = H \/ add_block_notarized(H, b) = G
  BY Zenon DEF add_block_notarized, G
<1> QED
  BY Zenon, <1>3, <1>4, <1>5, <1>6, <1>7

\* What the handler of a ready parent leaves behind, besides the votes.
Outcome(N, M, r, H) ==
  /\ Good(M, r, H)
  /\ M.finalized_blocks = N.finalized_blocks
  /\ M.history.root = N.history.root
  /\ FinalInv(N.history) => FinalInv(M.history)

\* A parent becomes ready (ParentIsReady).
LEMMA ParentIsReadyGood ==
  ASSUME NEW N, NEW r \in Nat, NEW H, Good(N, r, H), HistoryInv(H), NEW able,
         NEW s \in Slots, NEW p \in Known
  PROVE  LET M == ParentIsReady(N, s, p, able) IN Outcome(N, M, r, H) /\ Exhausted(M)
<1> DEFINE G == add_parent_ready(N.history, s, p)
           A == [N EXCEPT !.history = G]
           C == check_pending_blocks(A, able)
           T == IF IsFirstParent(N.history, s) /\ C.timers[s] = <<>> THEN Timer(s) ELSE C.timers[s]
           h == IF s > C.highest_parent_ready THEN s ELSE C.highest_parent_ready
           D == [C.timers EXCEPT ![s] = T]
           M == [C EXCEPT !.timers = D, !.highest_parent_ready = h]
<1>1. HistoryInv(N.history) /\ N \in Nodes
  BY Zenon DEF Good, NodeInv
<1>2. /\ HistoryInv(G) /\ (FinalInv(N.history) => FinalInv(G))
      /\ G.votes_cast = N.history.votes_cast /\ G.root = N.history.root
      /\ G.voted = N.history.voted
  BY Zenon, <1>1, AddParentReady
<1> HIDE DEF G
<1>3. /\ Good(A, r, H) /\ A.history = G /\ A.finalized_blocks = N.finalized_blocks
  BY <1>2, ExchangeGood
<1> HIDE DEF A
<1>4. /\ Good(C, r, H) /\ Later(A, C) /\ (FinalInv(A.history) => FinalInv(C.history))
      /\ Exhausted(C)
  BY Zenon, <1>3, CheckPendingGood
<1>5. ParentIsReady(N, s, p, able) = [C EXCEPT !.timers[s] = T, !.highest_parent_ready = h]
  BY DEF ParentIsReady, A, G
<1> HIDE DEF C
<1>6. C \in Nodes
  BY Zenon, <1>4 DEF Good, NodeInv
<1>7. C.timers \in [Slots -> Seq(Timeouts)] /\ C.highest_parent_ready \in Nat /\ s \in Nat
  BY SMTT(20), <1>6, SlotFacts DEF Nodes
<1>8. T \in Seq(Timeouts) /\ h \in Nat
  BY <1>7, TimerType
<1>9. ParentIsReady(N, s, p, able) = M
  BY Zenon, <1>5
<1> HIDE DEF T, h
<1>10. D \in [Slots -> Seq(Timeouts)]
  BY <1>7, <1>8
<1> HIDE DEF D
<1>11. /\ M \in Nodes /\ M.history = C.history /\ M.pending_blocks = C.pending_blocks
       /\ M.finalized_blocks = C.finalized_blocks /\ M.own_votes = C.own_votes
       /\ M.ops = C.ops /\ M.asserts = C.asserts
  BY Zenon, <1>6, <1>8, <1>10 DEF Nodes
<1> HIDE DEF M
<1>12. Good(M, r, H)
  BY Zenon, <1>4, <1>11 DEF Good, NodeInv, PendingInv
<1>13. Exhausted(M)
  BY Zenon, <1>4, <1>11 DEF Exhausted
<1>14. Outcome(N, M, r, H)
  BY Zenon, <1>2, <1>3, <1>4, <1>11, <1>12 DEF Outcome, Later
<1> QED
  BY Zenon, <1>9, <1>13, <1>14

\* The root moves (root_utils::set_root, RootAt).
LEMMA RootAtGood ==
  ASSUME NEW N, NEW r \in Nat, NEW H, Good(N, r, H), HistoryInv(H),
         NEW b \in Blocks, SlotOf(b) > r, SlotOf(b) \in N.history.voted
  PROVE  LET M == RootAt(N, b)
         IN  /\ Good(M, SlotOf(b), H)
             /\ M.finalized_blocks \subseteq N.finalized_blocks
             /\ FinalInv(N.history) => FinalInv(M.history)
             /\ Exhausted(N) => Exhausted(M)
<1> DEFINE q == SlotOf(b)
           G == set_root(N.history, q)
           B == [s \in Slots |-> IF s >= q THEN N.pending_blocks[s] ELSE <<>>]
           fin == {c \in N.finalized_blocks : SlotOf(c) >= q}
           shreds == {s \in N.received_shred : s >= q}
           M == [N EXCEPT !.history = G, !.pending_blocks = B, !.finalized_blocks = fin,
                          !.received_shred = shreds]
<1>1. /\ HistoryInv(N.history) /\ N \in Nodes /\ N.history.root <= r /\ N.asserts
      /\ N.history \in Histories /\ H \in Histories
  BY Zenon DEF Good, NodeInv, HistoryInv
<1>2. q \in Nat /\ N.history.root \in Nat /\ q \in Slots
  BY <1>1, SlotFacts DEF Histories
<1>a. q > r /\ q \in N.history.voted
  BY Zenon
<1> HIDE DEF q
<1>3. N.history.root <= q
  BY SMTT(20), <1>1, <1>2, <1>a
<1>4. /\ HistoryInv(G) /\ Extends(N.history, G) /\ (FinalInv(N.history) => FinalInv(G))
  BY Zenon, <1>1, <1>2, <1>3, SetRootInv
<1>5. /\ G \in Histories /\ G.root = q /\ G.voted = {s \in N.history.voted : s >= q}
      /\ G.voted_notar = {c \in N.history.voted_notar : SlotOf(c) >= q}
      /\ G.votes_cast = {v \in N.history.votes_cast : v.slot >= q}
      /\ G.parent_ready_slots = {p \in N.history.parent_ready_slots : p[1] >= q}
  BY Zenon, <1>1, <1>2, SetRootFields
<1>6. /\ B \in [Slots -> Seq(Blocks)] /\ fin \in SUBSET Blocks /\ shreds \in SUBSET Nat
  BY <1>1 DEF Nodes
<1>7. RootAt(N, b) = M
  BY Zenon DEF RootAt, q
<1> HIDE DEF G
<1>8. \A s \in Slots : B[s] = IF s >= q THEN N.pending_blocks[s] ELSE <<>>
  BY Zenon
<1>9. fin \subseteq N.finalized_blocks
  BY Zenon
<1> HIDE DEF B, fin, shreds
<1>10. /\ M \in Nodes /\ M.history = G /\ M.pending_blocks = B /\ M.finalized_blocks = fin
       /\ M.own_votes = N.own_votes /\ M.ops = N.ops /\ M.asserts = N.asserts
  BY Zenon, <1>1, <1>5, <1>6 DEF Nodes
<1> HIDE DEF M
<1>11. ASSUME NEW s \in Slots, NEW i \in 1..Len(B[s])
       PROVE  s >= q /\ B[s] = N.pending_blocks[s] /\ i \in 1..Len(N.pending_blocks[s])
  <2>1. CASE s >= q
    BY Zenon, <1>8, <2>1
  <2>2. CASE ~(s >= q)
    <3>1. B[s] = <<>>
      BY Zenon, <1>8, <2>2
    <3>2. i \in 1..0
      BY SMTT(20), <3>1
    <3> QED
      BY <3>2
  <2> QED
    BY Zenon, <2>1, <2>2
<1>12. PendingInv(M, q)
  <2> SUFFICES ASSUME NEW s \in Slots, NEW i \in 1..Len(B[s])
               PROVE  SlotOf(B[s][i]) = s /\ (s > q \/ (s = q /\ s \in G.voted))
    BY Zenon, <1>10 DEF PendingInv
  <2>1. s \in Nat
    BY SlotFacts
  <2>2. SlotOf(N.pending_blocks[s][i]) = s
    BY Zenon, <1>11 DEF Good, NodeInv, PendingInv
  <2>3. SlotOf(B[s][i]) = s
    BY Zenon, <1>11, <2>2
  <2>4. s >= q
    BY Zenon, <1>11
  <2> QED
    BY SMTT(20), <1>2, <1>5, <1>a, <2>1, <2>3, <2>4
<1>13. \A v \in N.own_votes : v.slot >= q => v \in G.votes_cast
  <2> SUFFICES ASSUME NEW v \in N.own_votes, v.slot >= q PROVE v \in G.votes_cast
    BY Zenon
  <2>1. v.slot \in Nat
    BY <1>1 DEF Nodes, Votes
  <2>2. v.slot >= N.history.root
    BY SMTT(20), <1>2, <1>3, <2>1
  <2>3. v \in N.history.votes_cast
    BY Zenon, <2>2 DEF Good, NodeInv
  <2> QED
    BY Zenon, <1>5, <2>3
<1>14. NodeInv(M, q)
  <2>1. G.root <= q
    BY <1>2, <1>5
  <2> QED
    BY Zenon, <1>1, <1>4, <1>5, <1>10, <1>12, <1>13, <2>1 DEF NodeInv
<1>15. Saves(N.ops, G)
  <2>1. Saves(N.ops, N.history)
    BY Zenon DEF Good
  <2>2. \A i \in 1..Len(N.ops) : N.ops[i].saved \in Histories /\ Extends(N.ops[i].saved, N.history)
    BY Zenon, <2>1 DEF Saves, HistoryInv
  <2>3. \A i \in 1..Len(N.ops) : Extends(N.ops[i].saved, G)
    BY Zenon, <1>1, <1>4, <1>5, <2>2, ExtendsTrans
  <2> QED
    BY Zenon, <2>1, <2>3 DEF Saves
<1>16. Extends(H, G)
  BY Zenon, <1>1, <1>4, <1>5, ExtendsTrans DEF Good
<1>17. Good(M, q, H)
  BY Zenon, <1>10, <1>14, <1>15, <1>16 DEF Good
<1>18. ASSUME Exhausted(N) PROVE Exhausted(M)
  <2> SUFFICES ASSUME NEW s \in Slots, NEW i \in 1..Len(B[s])
               PROVE  s \in G.voted \/ ~ParentAllows(G, B[s][i])
    BY Zenon, <1>10 DEF Exhausted
  <2>1. s >= q /\ B[s] = N.pending_blocks[s] /\ i \in 1..Len(N.pending_blocks[s])
    BY Zenon, <1>11
  <2>2. s \in N.history.voted \/ ~ParentAllows(N.history, B[s][i])
    BY Zenon, <1>18, <2>1 DEF Exhausted
  <2>3. ParentAllows(G, B[s][i]) => ParentAllows(N.history, B[s][i])
    BY Zenon, <1>5 DEF ParentAllows
  <2> QED
    BY Zenon, <1>5, <2>1, <2>2, <2>3
<1> QED
  BY Zenon, <1>4, <1>7, <1>9, <1>10, <1>17, <1>18 DEF q

\* A set of blocks has one in its last slot.
LEMMA LastBlock ==
  ASSUME NEW S \in SUBSET Blocks, S # {}
  PROVE  \E b \in S : \A c \in S : SlotOf(c) <= SlotOf(b)
<1> DEFINE D == {LastSlot - SlotOf(b) : b \in S}
<1>1. LastSlot \in Nat /\ \A b \in S : SlotOf(b) \in Nat /\ SlotOf(b) <= LastSlot
  BY SlotFacts
<1>2. D \in SUBSET Nat /\ D # {}
  BY <1>1
<1>3. PICK d \in D : \A e \in D : d <= e
  BY Zenon, <1>2, LeastNumber
<1>4. PICK b \in S : d = LastSlot - SlotOf(b)
  BY Zenon
<1>5. ASSUME NEW c \in S PROVE SlotOf(c) <= SlotOf(b)
  <2>1. LastSlot - SlotOf(c) \in D
    BY Zenon
  <2>2. d <= LastSlot - SlotOf(c)
    BY Zenon, <1>3, <2>1
  <2> QED
    BY SMTT(20), <1>1, <1>4, <2>2
<1> QED
  BY Zenon, <1>5

\* The new root is the old one or a finalized and frozen block after it.
LEMMA NewRootFacts ==
  ASSUME NEW N, N.finalized_blocks \in SUBSET Blocks
  PROVE  IF Rootable(N) = {} THEN NewRoot(N) = root
         ELSE LET b == NewRoot(N)
              IN  /\ b \in N.finalized_blocks /\ SlotOf(b) > SlotOf(root)
                  /\ SlotOf(b) \in N.history.voted /\ b \in frozen
<1>1. CASE Rootable(N) = {}
  BY Zenon, <1>1 DEF NewRoot
<1>2. CASE Rootable(N) # {}
  <2>1. Rootable(N) \in SUBSET Blocks
    BY Zenon DEF Rootable
  <2>2. \E b \in Rootable(N) : \A c \in Rootable(N) : SlotOf(c) <= SlotOf(b)
    BY Zenon, <1>2, <2>1, LastBlock
  <2>3. NewRoot(N) \in Rootable(N)
    BY Zenon, <1>2, <2>2 DEF NewRoot
  <2> QED
    BY Zenon, <1>2, <2>3 DEF Rootable
<1> QED
  BY Zenon, <1>1, <1>2

\* The blocks a root finds and the root they make (check_rootable_blocks).
LEMMA CheckRootableGood ==
  ASSUME NEW N, root \in Known, NEW H, Good(N, SlotOf(root), H), HistoryInv(H)
  PROVE  LET M == check_rootable_blocks(N)
             b == NewRoot(N)
         IN  /\ Good(M, SlotOf(b), H)
             /\ M.finalized_blocks \subseteq N.finalized_blocks
             /\ FinalInv(N.history) => FinalInv(M.history)
             /\ Exhausted(N) => Exhausted(M)
             /\ b = root \/ (b \in N.finalized_blocks /\ b \in frozen)
<1> DEFINE M == check_rootable_blocks(N)
           b == NewRoot(N)
<1>1. SlotOf(root) \in Nat /\ N.finalized_blocks \in SUBSET Blocks
  BY SlotFacts DEF Good, NodeInv, Nodes
<1>2. IF Rootable(N) = {} THEN b = root
      ELSE /\ b \in N.finalized_blocks /\ SlotOf(b) > SlotOf(root)
           /\ SlotOf(b) \in N.history.voted /\ b \in frozen
  BY Zenon, <1>1, NewRootFacts
<1>3. M = IF Rootable(N) = {} THEN N ELSE RootAt(N, b)
  BY Zenon DEF check_rootable_blocks
<1> HIDE DEF b, M
<1>4. CASE Rootable(N) = {}
  <2>1. M = N /\ b = root
    BY Zenon, <1>2, <1>3, <1>4
  <2> QED
    BY Zenon, <2>1 DEF b, M
<1>5. CASE Rootable(N) # {}
  <2>1. /\ b \in N.finalized_blocks /\ SlotOf(b) > SlotOf(root)
        /\ SlotOf(b) \in N.history.voted /\ b \in frozen /\ b \in Blocks
    BY Zenon, <1>1, <1>2, <1>5
  <2> DEFINE R == RootAt(N, b)
  <2>2. /\ Good(R, SlotOf(b), H)
        /\ R.finalized_blocks \subseteq N.finalized_blocks
        /\ FinalInv(N.history) => FinalInv(R.history)
        /\ Exhausted(N) => Exhausted(R)
    BY Zenon, <1>1, <2>1, RootAtGood
  <2>3. M = R
    BY Zenon, <1>3, <1>5
  <2> HIDE DEF R
  <2> QED
    BY Zenon, <2>1, <2>2, <2>3 DEF b, M
<1> QED
  BY Zenon, <1>4, <1>5

\* The parent a finalized block may lack (add_missing_parent_ready).
LEMMA AddMissingGood ==
  ASSUME NEW N, NEW r \in Nat, NEW H, Good(N, r, H), HistoryInv(H), NEW able,
         NEW b \in Blocks, NEW banks, NEW q
  PROVE  LET M == AddMissingParent(N, b, banks, q, able)
         IN  Outcome(N, M, r, H) /\ (Exhausted(N) => Exhausted(M))
<1> DEFINE missing == MissingParent(N, b, banks, q)
           p == CHOOSE x \in missing : TRUE
           M == AddMissingParent(N, b, banks, q, able)
           R == ParentIsReady(N, SlotOf(b), p, able)
<1>1. missing = {} \/ missing = {Parent[b]}
  BY Zenon DEF MissingParent
<1>2. M = IF missing = {} THEN N ELSE R
  BY Zenon DEF AddMissingParent
<1>3. CASE missing = {}
  <2>1. M = N
    BY Zenon, <1>2, <1>3
  <2>2. Outcome(N, N, r, H)
    BY Zenon DEF Outcome
  <2> HIDE DEF M
  <2>3. Outcome(N, M, r, H) /\ (Exhausted(N) => Exhausted(M))
    BY Zenon, <2>1, <2>2
  <2> QED
    BY Zenon, <2>3 DEF M
<1>4. CASE missing # {}
  <2>1. p \in missing
    BY Zenon, <1>4
  <2>2. p = Parent[b]
    BY Zenon, <1>1, <1>4, <2>1
  <2>3. p \in Known /\ SlotOf(b) \in Slots
    BY Zenon, <2>2, SlotFacts
  <2> HIDE DEF p, missing
  <2>4. Outcome(N, R, r, H) /\ Exhausted(R)
    BY Zenon, <2>3, ParentIsReadyGood
  <2>5. M = R
    BY Zenon, <1>2, <1>4
  <2> HIDE DEF R
  <2> QED
    BY Zenon, <2>4, <2>5
<1> QED
  BY Zenon, <1>3, <1>4

\* The ancestors of a block are itself and its parent's.
LEMMA AncestorsFacts ==
  /\ \A b \in Known : b \in Ancestors[b]
  /\ \A b \in Blocks : Ancestors[Parent[b]] \subseteq Ancestors[b]
<1> DEFINE K(i) == {b \in Known : b = RootBlock \/ SlotOf(b) <= i}
           Is(g, S) == g = [b \in S |-> IF b = RootBlock THEN {b} ELSE {b} \union g[Parent[b]]]
           P == {i \in 0..LastSlot : \E g : Is(g, K(i))}
<1>1. /\ LastSlot \in Nat /\ RootBlock \in Known
      /\ \A b \in Known : SlotOf(b) \in Nat /\ SlotOf(b) <= LastSlot
      /\ \A b \in Known : b # RootBlock =>
           /\ b \in Blocks /\ Parent[b] \in Known /\ SlotOf(Parent[b]) \in Nat
           /\ SlotOf(Parent[b]) < SlotOf(b) /\ SlotOf(b) >= 1
  <2>1. RootBlock \in Known /\ \A b \in Known : b # RootBlock => b \in Blocks
    BY DEF Known
  <2>2. /\ LastSlot \in Nat /\ Slots = 0..LastSlot
        /\ \A b \in Blocks : SlotOf(b) >= 1 /\ Parent[b] \in Known /\ SlotOf(Parent[b]) < SlotOf(b)
        /\ \A b \in Known : SlotOf(b) \in Slots /\ SlotOf(b) \in Nat
    BY Zenon, SlotFacts
  <2>3. \A b \in Known : SlotOf(b) <= LastSlot
    BY <2>2
  <2> QED
    BY Zenon, <2>1, <2>2, <2>3
<1>2. 0 \in P
  <2>1. \A b \in K(0) : b = RootBlock
    BY <1>1
  <2>2. Is([b \in K(0) |-> {b}], K(0))
    BY Zenon, <2>1
  <2>3. 0 \in 0..LastSlot
    BY <1>1
  <2> QED
    BY Zenon, <2>2, <2>3
<1>3. ASSUME NEW i \in 0 + 1..LastSlot, i - 1 \in P PROVE i \in P
  <2>1. PICK g : Is(g, K(i - 1))
    BY Zenon, <1>3
  <2> DEFINE f == [b \in K(i) |-> IF b = RootBlock THEN {b} ELSE {b} \union g[Parent[b]]]
  <2>2. K(i - 1) \subseteq K(i)
    BY SMTT(20), <1>1
  <2>3. \A b \in K(i) : b # RootBlock => Parent[b] \in K(i - 1)
    BY <1>1
  <2> HIDE DEF K
  <2>4. \A b \in K(i - 1) : f[b] = g[b]
    BY Zenon, <2>1, <2>2
  <2>5. \A b \in K(i) : (IF b = RootBlock THEN {b} ELSE {b} \union g[Parent[b]])
                          = IF b = RootBlock THEN {b} ELSE {b} \union f[Parent[b]]
    BY Zenon, <2>3, <2>4
  <2>6. Is(f, K(i))
    BY Zenon, <2>5
  <2>7. i \in 0..LastSlot
    BY <1>1
  <2> QED
    BY Zenon, <2>6, <2>7 DEF K
<1>4. \E g : Is(g, Known)
  <2>1. K(LastSlot) = Known
    BY <1>1
  <2>2. LastSlot \in 0..LastSlot /\ 0 \in Nat
    BY <1>1
  <2> HIDE DEF P, K
  <2>3. \A i \in 0..LastSlot : i \in P
    BY Zenon, <1>1, <1>2, <1>3, <2>2, IntervalInduction
  <2>4. LastSlot \in P
    BY Zenon, <2>2, <2>3
  <2> QED
    BY Zenon, <2>1, <2>4 DEF P
<1>5. Ancestors = [b \in Known |-> IF b = RootBlock THEN {b} ELSE {b} \union Ancestors[Parent[b]]]
  BY Zenon, <1>4 DEF Ancestors
<1>6. \A b \in Known : Ancestors[b] = IF b = RootBlock THEN {b} ELSE {b} \union Ancestors[Parent[b]]
  BY Zenon, <1>5
<1>7. \A b \in Blocks : b \in Known /\ b # RootBlock
  BY Zenon, SlotFacts DEF Known
<1>8. \A b \in Known : b \in Ancestors[b]
  BY Zenon, <1>6
<1>9. ASSUME NEW b \in Blocks PROVE Ancestors[Parent[b]] \subseteq Ancestors[b]
  <2>1. Ancestors[b] = {b} \union Ancestors[Parent[b]]
    BY Zenon, <1>6, <1>7
  <2> QED
    BY Zenon, <2>1
<1> QED
  BY Zenon, <1>8, <1>9

---------------------------------------------------------------------------
(* Events. *)

\* The operations of an event follow what is queued already.
LEMMA SavesConcat ==
  ASSUME NEW q, NEW F, NEW ops, NEW G, Saves(q, F), HistoryInv(F), Saves(ops, G), HistoryInv(G),
         Extends(F, G), \A i \in 1..Len(ops) : Extends(F, ops[i].saved)
  PROVE  LET all == q \o ops
         IN  /\ Saves(all, G)
             /\ \A i \in 1..Len(all) : \/ i \in 1..Len(q) /\ all[i] = q[i]
                                       \/ Extends(F, all[i].saved)
<1> DEFINE all == q \o ops
           old(i) == i \in 1..Len(q) /\ all[i] = q[i]
           added(i) == i - Len(q) \in 1..Len(ops) /\ all[i] = ops[i - Len(q)]
<1>1. q \in Seq(Ops) /\ ops \in Seq(Ops)
  BY Zenon DEF Saves
<1>2. /\ all \in Seq(Ops) /\ Len(q) \in Nat /\ Len(ops) \in Nat /\ Len(all) = Len(q) + Len(ops)
      /\ \A i \in 1..Len(all) : old(i) \/ added(i)
  BY <1>1
<1> HIDE DEF all
<1>3. F \in Histories /\ G \in Histories
  BY Zenon DEF HistoryInv
<1>4. \A i \in 1..Len(q) : /\ HistoryInv(q[i].saved) /\ q[i].saved \in Histories
                           /\ q[i].vote \in q[i].saved.votes_cast
                           /\ Extends(q[i].saved, F)
                           /\ \A j \in 1..i : Extends(q[j].saved, q[i].saved)
  BY Zenon DEF Saves, HistoryInv
<1>5. \A i \in 1..Len(ops) : /\ HistoryInv(ops[i].saved) /\ ops[i].saved \in Histories
                             /\ ops[i].vote \in ops[i].saved.votes_cast
                             /\ Extends(ops[i].saved, G)
                             /\ \A j \in 1..i : Extends(ops[j].saved, ops[i].saved)
  BY Zenon DEF Saves, HistoryInv
<1>6. \A i \in 1..Len(q) : Extends(q[i].saved, G)
  BY Zenon, <1>3, <1>4, ExtendsTrans
<1>7. \A i \in 1..Len(q) : \A j \in 1..Len(ops) : Extends(q[i].saved, ops[j].saved)
  BY Zenon, <1>3, <1>4, <1>5, ExtendsTrans
<1>8. ASSUME NEW i \in 1..Len(all)
      PROVE  /\ HistoryInv(all[i].saved)
             /\ all[i].vote \in all[i].saved.votes_cast
             /\ Extends(all[i].saved, G)
             /\ \A j \in 1..i : Extends(all[j].saved, all[i].saved)
  <2>1. HistoryInv(all[i].saved) /\ all[i].vote \in all[i].saved.votes_cast /\ Extends(all[i].saved, G)
    BY Zenon, <1>2, <1>4, <1>5, <1>6
  <2>2. ASSUME NEW j \in 1..i PROVE Extends(all[j].saved, all[i].saved)
    <3>1. /\ j \in 1..Len(all)
          /\ i \in 1..Len(q) => j \in 1..Len(q)
          /\ i - Len(q) \in 1..Len(ops) /\ j - Len(q) \in 1..Len(ops) =>
               j - Len(q) \in 1..(i - Len(q))
      BY <1>2
    <3>2. CASE old(i)
      <4>1. j \in 1..Len(q)
        BY Zenon, <3>1, <3>2
      <4>2. all[j] = q[j]
        <5>1. ~(j - Len(q) \in 1..Len(ops))
          BY <1>2, <4>1
        <5> QED
          BY Zenon, <1>2, <3>1, <5>1
      <4> QED
        BY Zenon, <1>4, <3>2, <4>2
    <3>3. CASE added(i) /\ old(j)
      BY Zenon, <1>7, <3>3
    <3>4. CASE added(i) /\ added(j)
      BY Zenon, <1>5, <3>1, <3>4
    <3> QED
      BY Zenon, <1>2, <3>1, <3>2, <3>3, <3>4
  <2> QED
    BY Zenon, <2>1, <2>2
<1>9. Saves(all, G)
  BY Zenon, <1>2, <1>8 DEF Saves
<1>10. \A i \in 1..Len(all) : (i \in 1..Len(q) /\ all[i] = q[i]) \/ Extends(F, all[i].saved)
  BY Zenon, <1>2
<1> QED
  BY Zenon, <1>9, <1>10 DEF all

Certs == [notarized : SUBSET Blocks, finalized : SUBSET Blocks]

\* What every step of the event loop keeps, and what it promises.
EndsWell ==
  /\ LoopInv'
  /\ Extends(node.history, node'.history)
  /\ \A i \in 1..Len(queue') : \/ i \in 1..Len(queue) /\ queue'[i] = queue[i]
                               \/ Extends(node.history, queue'[i].saved)
  /\ ForgetsNothing => ForgetsNothing'
  /\ root' # root => root' \in certs'.finalized /\ root \in Ancestors[root']

\* An event is about to end with the node N and the root r.
Ending(N, r) ==
  /\ Good(N, SlotOf(r), node.history)
  /\ N.finalized_blocks \subseteq certs'.finalized
  /\ ForgetsNothing => FinalInv(N.history) /\ Exhausted(N)
  /\ r \in Known
  /\ r # root => r \in certs'.finalized /\ root \in Ancestors[r]

\* The end of an event (Handled).
LEMMA HandledWell ==
  ASSUME LoopInv, NEW N, NEW r, Ending(N, r), certs' \in Certs,
         NEW blocks, Handled(N, r, blocks)
  PROVE  EndsWell
<1> DEFINE M == [N EXCEPT !.ops = <<>>]
<1>1. /\ node' = M /\ queue' = queue \o N.ops /\ root' = r /\ frozen' = Pruned(frozen, r)
  BY Zenon DEF Handled
<1>2. /\ Good(N, SlotOf(r), node.history) /\ N \in Nodes /\ NodeInv(N, SlotOf(r))
      /\ Saves(N.ops, N.history) /\ Extends(node.history, N.history)
      /\ \A i \in 1..Len(N.ops) : Extends(node.history, N.ops[i].saved)
      /\ HistoryInv(N.history)
  BY Zenon DEF Ending, Good, NodeInv
<1>3. /\ M \in Nodes /\ M.history = N.history /\ M.pending_blocks = N.pending_blocks
      /\ M.finalized_blocks = N.finalized_blocks /\ M.own_votes = N.own_votes
      /\ M.ops = <<>> /\ M.asserts = N.asserts
  <2>1. <<>> \in Seq(Ops)
    OBVIOUS
  <2> QED
    BY Zenon, <1>2, <2>1 DEF Nodes
<1> HIDE DEF M
<1>4. NodeInv(M, SlotOf(r))
  BY Zenon, <1>2, <1>3 DEF NodeInv, PendingInv
<1>5. /\ Saves(queue', N.history)
      /\ \A i \in 1..Len(queue') : \/ i \in 1..Len(queue) /\ queue'[i] = queue[i]
                                   \/ Extends(node.history, queue'[i].saved)
  <2> DEFINE all == queue \o N.ops
  <2>1. HistoryInv(node.history) /\ Saves(queue, node.history)
    BY Zenon DEF LoopInv, NodeInv
  <2>2. /\ Saves(all, N.history)
        /\ \A i \in 1..Len(all) : \/ i \in 1..Len(queue) /\ all[i] = queue[i]
                                  \/ Extends(node.history, all[i].saved)
    BY Zenon, <1>2, <2>1, SavesConcat
  <2> HIDE DEF all
  <2>3. queue' = all
    BY Zenon, <1>1 DEF all
  <2> QED
    BY Zenon, <2>2, <2>3
<1>6. frozen' \in SUBSET Known /\ \A b \in frozen' : root' \in Ancestors[b]
  <2>1. frozen \in SUBSET Known
    BY Zenon DEF LoopInv
  <2> QED
    BY Zenon, <1>1, <2>1 DEF Pruned
<1>7. LoopInv'
  <2>1. NodeInv(node', SlotOf(root')) /\ node'.ops = <<>>
    BY Zenon, <1>1, <1>3, <1>4
  <2>2. Saves(queue', node'.history)
    BY Zenon, <1>1, <1>3, <1>5
  <2>3. root' \in Known
    BY Zenon, <1>1 DEF Ending
  <2>4. node'.finalized_blocks \subseteq certs'.finalized
    BY Zenon, <1>1, <1>3 DEF Ending
  <2> QED
    BY Zenon, <1>6, <2>1, <2>2, <2>3, <2>4 DEF LoopInv, Certs
<1>8. Extends(node.history, node'.history)
  BY Zenon, <1>1, <1>2, <1>3
<1>9. ASSUME ForgetsNothing PROVE ForgetsNothing'
  <2>1. FinalInv(N.history) /\ Exhausted(N)
    BY Zenon, <1>9 DEF Ending
  <2>2. FinalInv(node'.history)
    BY Zenon, <1>1, <1>3, <2>1
  <2>3. Exhausted(node')
    BY Zenon, <1>1, <1>3, <2>1 DEF Exhausted
  <2> QED
    BY Zenon, <2>2, <2>3 DEF ForgetsNothing
<1>10. root' # root => root' \in certs'.finalized /\ root \in Ancestors[root']
  BY Zenon, <1>1 DEF Ending
<1> QED
  BY Zenon, <1>5, <1>7, <1>8, <1>9, <1>10 DEF EndsWell

\* The node at the start of an event.
LEMMA Begins ==
  ASSUME LoopInv
  PROVE  /\ Good(node, SlotOf(root), node.history) /\ HistoryInv(node.history)
         /\ root \in Known /\ SlotOf(root) \in Nat /\ frozen \in SUBSET Known
         /\ node \in Nodes /\ node.finalized_blocks \subseteq certs.finalized /\ certs \in Certs
<1>1. /\ NodeInv(node, SlotOf(root)) /\ node.ops = <<>> /\ root \in Known
      /\ frozen \in SUBSET Known /\ node.finalized_blocks \subseteq certs.finalized
      /\ certs \in Certs
  BY Zenon DEF LoopInv, Certs
<1>2. HistoryInv(node.history) /\ node.history \in Histories /\ node \in Nodes
  BY Zenon, <1>1 DEF NodeInv, HistoryInv
<1>3. Extends(node.history, node.history)
  BY Zenon, <1>2, ExtendsRefl
<1>4. Len(node.ops) = 0 /\ \A i \in 1..Len(node.ops) : FALSE
  BY <1>1
<1>5. Saves(node.ops, node.history)
  <2>1. node.ops \in Seq(Ops)
    BY <1>2 DEF Nodes
  <2> QED
    BY Zenon, <1>4, <2>1 DEF Saves
<1>6. Good(node, SlotOf(root), node.history)
  BY Zenon, <1>1, <1>3, <1>4, <1>5 DEF Good
<1>7. SlotOf(root) \in Nat
  BY Zenon, <1>1, SlotFacts
<1> QED
  BY Zenon, <1>1, <1>2, <1>6, <1>7

\* Nothing that matters here changes from N to M.
LEMMA FrameGood ==
  ASSUME NEW N, NEW r, NEW H, Good(N, r, H), NEW M \in Nodes, M.history = N.history,
         M.pending_blocks = N.pending_blocks, M.own_votes = N.own_votes, M.ops = N.ops,
         M.asserts = N.asserts
  PROVE  Good(M, r, H) /\ (Exhausted(N) => Exhausted(M))
<1>1. NodeInv(M, r)
  BY Zenon DEF Good, NodeInv, PendingInv
<1>2. Good(M, r, H)
  BY Zenon, <1>1 DEF Good
<1>3. Exhausted(N) => Exhausted(M)
  BY Zenon DEF Exhausted
<1> QED
  BY Zenon, <1>2, <1>3

\* What was pending in vain stays so when no block is notarized and no parent
\* becomes ready.
LEMMA ExhaustedStays ==
  ASSUME NEW N, NEW M, Exhausted(N), M.pending_blocks = N.pending_blocks,
         N.history.voted \subseteq M.history.voted,
         M.history.voted_notar = N.history.voted_notar,
         M.history.parent_ready_slots = N.history.parent_ready_slots
  PROVE  Exhausted(M)
<1>1. \A b : ParentAllows(M.history, b) => ParentAllows(N.history, b)
  BY Zenon DEF ParentAllows
<1> QED
  BY Zenon, <1>1 DEF Exhausted

\* An event that leaves the root.
LEMMA EndingHere ==
  ASSUME LoopInv, NEW N, Good(N, SlotOf(root), node.history),
         N.finalized_blocks \subseteq certs'.finalized,
         ForgetsNothing => FinalInv(N.history) /\ Exhausted(N)
  PROVE  Ending(N, root)
<1>1. root \in Known
  BY Zenon, Begins
<1> QED
  BY Zenon, <1>1 DEF Ending

\* A first shred of a block arrives (FirstShred).
LEMMA FirstShredWell ==
  ASSUME LoopInv, NEW s \in Slots, FirstShred(s)
  PROVE  EndsWell
<1> DEFINE N == [node EXCEPT !.received_shred = @ \union {s}]
<1>1. /\ Good(node, SlotOf(root), node.history) /\ node \in Nodes
      /\ frozen \in SUBSET Known /\ certs \in Certs
      /\ node.finalized_blocks \subseteq certs.finalized
  BY Zenon, Begins
<1>2. Handled(N, root, replayed) /\ certs' = certs
  BY Zenon DEF FirstShred
<1>3. /\ N \in Nodes /\ N.history = node.history /\ N.pending_blocks = node.pending_blocks
      /\ N.own_votes = node.own_votes /\ N.ops = node.ops /\ N.asserts = node.asserts
      /\ N.finalized_blocks = node.finalized_blocks
  <2>1. node.received_shred \union {s} \in SUBSET Nat
    BY <1>1, SlotFacts DEF Nodes
  <2> QED
    BY Zenon, <1>1, <2>1 DEF Nodes
<1> HIDE DEF N
<1>4. Good(N, SlotOf(root), node.history) /\ (Exhausted(node) => Exhausted(N))
  BY Zenon, <1>1, <1>3, FrameGood
<1>5. ForgetsNothing => FinalInv(N.history) /\ Exhausted(N)
  BY Zenon, <1>3, <1>4 DEF ForgetsNothing
<1>6. N.finalized_blocks \subseteq certs'.finalized /\ certs' \in Certs
  BY Zenon, <1>1, <1>2, <1>3
<1>7. Ending(N, root)
  BY Zenon, <1>4, <1>5, <1>6, EndingHere
<1> QED
  BY Zenon, <1>1, <1>2, <1>6, <1>7, HandledWell

\* A certificate notarizes a block (BlockNotarized).
LEMMA BlockNotarizedWell ==
  ASSUME LoopInv, NEW b \in Blocks, NEW able, BlockNotarized(b, able)
  PROVE  EndsWell
<1> DEFINE G == add_block_notarized(node.history, b)
           N == [node EXCEPT !.history = G]
           M == try_final(N, b, able)
<1>1. /\ Good(node, SlotOf(root), node.history) /\ HistoryInv(node.history) /\ node \in Nodes
      /\ SlotOf(root) \in Nat /\ frozen \in SUBSET Known /\ certs \in Certs
      /\ node.finalized_blocks \subseteq certs.finalized
  BY Zenon, Begins
<1>2. /\ Handled(M, root, replayed) /\ SlotOf(b) > SlotOf(root)
      /\ certs' = [certs EXCEPT !.notarized = @ \union {b}]
  BY Zenon DEF BlockNotarized, IsHandled
<1>3. certs' \in Certs /\ certs'.finalized = certs.finalized
  BY SMTT(20), <1>1, <1>2 DEF Certs
<1>4. /\ HistoryInv(G) /\ (FinalInv(node.history) => FinalInvBut(G, b))
      /\ G.votes_cast = node.history.votes_cast /\ G.root = node.history.root
      /\ G.voted = node.history.voted /\ G.voted_notar = node.history.voted_notar
      /\ G.parent_ready_slots = node.history.parent_ready_slots
  BY Zenon, <1>1, AddBlockNotarized
<1> HIDE DEF G
<1>5. /\ Good(N, SlotOf(root), node.history) /\ N.history = G
      /\ N.pending_blocks = node.pending_blocks
      /\ N.finalized_blocks = node.finalized_blocks
  BY SMTT(20), <1>1, <1>4, ExchangeGood
<1> HIDE DEF N
<1>6. SlotOf(b) >= SlotOf(root)
  BY SMTT(20), <1>1, <1>2, SlotFacts
<1>7. /\ Good(M, SlotOf(root), node.history) /\ MayFinalize(N, M)
      /\ FinalInvBut(N.history, b) => FinalInv(M.history)
  BY Zenon, <1>1, <1>5, <1>6, TryFinalGood
<1> HIDE DEF M
<1>8. M.finalized_blocks \subseteq certs'.finalized
  BY Zenon, <1>1, <1>3, <1>5, <1>7 DEF MayFinalize, Later
<1>9. /\ M.pending_blocks = node.pending_blocks
      /\ node.history.voted \subseteq M.history.voted
      /\ M.history.voted_notar = node.history.voted_notar
      /\ M.history.parent_ready_slots = node.history.parent_ready_slots
  BY Zenon, <1>4, <1>5, <1>7 DEF MayFinalize, Later
<1>10. Exhausted(node) => Exhausted(M)
  BY Zenon, <1>9, ExhaustedStays
<1>11. FinalInv(node.history) => FinalInv(M.history)
  BY Zenon, <1>4, <1>5, <1>7
<1>12. Ending(M, root)
  BY Zenon, <1>7, <1>8, <1>10, <1>11, EndingHere DEF ForgetsNothing
<1> QED
  BY Zenon, <1>1, <1>2, <1>3, <1>12, HandledWell

\* The pool announces a parent (ParentReady).
LEMMA ParentReadyWell ==
  ASSUME LoopInv, NEW s \in Slots, NEW p \in Known, NEW able, ParentReady(s, p, able)
  PROVE  EndsWell
<1> DEFINE M == ParentIsReady(node, s, p, able)
<1>1. /\ Good(node, SlotOf(root), node.history) /\ HistoryInv(node.history)
      /\ SlotOf(root) \in Nat /\ frozen \in SUBSET Known /\ certs \in Certs
      /\ node.finalized_blocks \subseteq certs.finalized
  BY Zenon, Begins
<1>2. Handled(M, root, replayed) /\ certs' = certs
  BY Zenon DEF ParentReady
<1>3. Outcome(node, M, SlotOf(root), node.history) /\ Exhausted(M)
  BY Zenon, <1>1, ParentIsReadyGood
<1> HIDE DEF M
<1>4. /\ Good(M, SlotOf(root), node.history) /\ M.finalized_blocks \subseteq certs'.finalized
      /\ (FinalInv(node.history) => FinalInv(M.history)) /\ certs' \in Certs
  BY Zenon, <1>1, <1>2, <1>3 DEF Outcome
<1>5. Ending(M, root)
  BY Zenon, <1>3, <1>4, EndingHere DEF ForgetsNothing
<1> QED
  BY Zenon, <1>1, <1>2, <1>4, <1>5, HandledWell

\* A timer fires (TimerFires).
LEMMA TimerFiresWell ==
  ASSUME LoopInv, NEW t \in Slots, NEW able, TimerFires(t, able)
  PROVE  EndsWell
<1> DEFINE kind == Head(node.timers[t])[1]
           slot == Head(node.timers[t])[2]
           N == [node EXCEPT !.timers[t] = Tail(@)]
           D == [node.timers EXCEPT ![t] = Tail(node.timers[t])]
           M == try_skip_window(N, slot, able)
<1>1. /\ Good(node, SlotOf(root), node.history) /\ HistoryInv(node.history) /\ node \in Nodes
      /\ root \in Known /\ SlotOf(root) \in Nat /\ frozen \in SUBSET Known /\ certs \in Certs
      /\ node.finalized_blocks \subseteq certs.finalized
  BY Zenon, Begins
<1>2. /\ node.timers[t] # <<>> /\ certs' = certs
      /\ IF slot > SlotOf(root) /\ SkipsAt(node, kind, slot)
         THEN Handled(M, root, replayed) ELSE Handled(N, root, replayed)
  BY Zenon DEF TimerFires
<1>3. node.timers \in [Slots -> Seq(Timeouts)]
  BY SMTT(20), <1>1 DEF Nodes
<1>4. Head(node.timers[t]) \in Timeouts /\ D \in [Slots -> Seq(Timeouts)]
  <2>1. node.timers[t] \in Seq(Timeouts)
    BY Zenon, <1>3
  <2>2. Tail(node.timers[t]) \in Seq(Timeouts) /\ Head(node.timers[t]) \in Timeouts
    BY SMTT(20), <1>2, <2>1
  <2> QED
    BY <1>3, <2>2
<1>5. slot \in Nat
  BY <1>4 DEF Timeouts
<1>6. N = [node EXCEPT !.timers = D]
  BY Zenon
<1> HIDE DEF kind, slot, N, D
<1>7. /\ N \in Nodes /\ N.history = node.history /\ N.pending_blocks = node.pending_blocks
      /\ N.own_votes = node.own_votes /\ N.ops = node.ops /\ N.asserts = node.asserts
      /\ N.finalized_blocks = node.finalized_blocks
  BY Zenon, <1>1, <1>4, <1>6 DEF Nodes
<1>8. Good(N, SlotOf(root), node.history) /\ (Exhausted(node) => Exhausted(N))
  BY Zenon, <1>1, <1>7, FrameGood
<1>9. certs' \in Certs /\ N.finalized_blocks \subseteq certs'.finalized
  BY Zenon, <1>1, <1>2, <1>7
<1>10. ForgetsNothing => FinalInv(N.history) /\ Exhausted(N)
  BY Zenon, <1>7, <1>8 DEF ForgetsNothing
<1>11. CASE slot > SlotOf(root) /\ SkipsAt(node, kind, slot)
  <2>1. Good(M, SlotOf(root), node.history) /\ SkippedSome(N, M)
    BY Zenon, <1>1, <1>5, <1>8, <1>11, SkipWindowGood
  <2>2. Handled(M, root, replayed)
    BY Zenon, <1>2, <1>11
  <2> HIDE DEF M
  <2>3. M.finalized_blocks \subseteq certs'.finalized
    BY Zenon, <1>9, <2>1 DEF SkippedSome, Later
  <2>4. Exhausted(N) => Exhausted(M)
    BY Zenon, <2>1, ExhaustedStays DEF SkippedSome, Later
  <2>5. ForgetsNothing => FinalInv(M.history) /\ Exhausted(M)
    BY Zenon, <1>10, <2>1, <2>4 DEF SkippedSome
  <2>6. Ending(M, root)
    BY Zenon, <2>1, <2>3, <2>5, EndingHere
  <2> QED
    BY Zenon, <1>1, <1>9, <2>2, <2>6, HandledWell
<1>12. CASE ~(slot > SlotOf(root) /\ SkipsAt(node, kind, slot))
  <2>1. Handled(N, root, replayed)
    BY Zenon, <1>2, <1>12
  <2>2. Ending(N, root)
    BY Zenon, <1>8, <1>9, <1>10, EndingHere
  <2> QED
    BY Zenon, <1>1, <1>9, <2>1, <2>2, HandledWell
<1> QED
  BY Zenon, <1>11, <1>12

\* A fallback vote, in the middle of an event.
LEMMA FallbackGood ==
  ASSUME NEW N, NEW r \in Nat, NEW H, Good(N, r, H), HistoryInv(H), NEW able,
         NEW v \in Votes, v.type \in {"NotarizeFallback", "SkipFallback"}, Allowed(N.history, v)
  PROVE  LET M == generate_vote_message(N, v, able)
         IN  /\ Good(M, r, H) /\ M.finalized_blocks = N.finalized_blocks
             /\ FinalInv(N.history) => FinalInv(M.history)
             /\ Exhausted(N) => Exhausted(M)
<1> DEFINE M == generate_vote_message(N, v, able)
           G == add_vote(N.history, v)
<1>1. Good(M, r, H) /\ AfterVote(N, M, v)
  BY Zenon, GenerateGood
<1> HIDE DEF M
<1>2. /\ M.history = G /\ M.pending_blocks = N.pending_blocks
      /\ M.finalized_blocks = N.finalized_blocks
  BY Zenon, <1>1 DEF AfterVote
<1>3. N.history \in Histories /\ (v.type \in {"Notarize", "NotarizeFallback"} => <<v.slot, v.hash>> \in Blocks)
  BY Zenon DEF Good, NodeInv, HistoryInv, Allowed
<1>4. /\ G.voted = N.history.voted /\ G.voted_notar = N.history.voted_notar
      /\ G.notarized_blocks = N.history.notarized_blocks
      /\ G.parent_ready_slots = N.history.parent_ready_slots
  <2>1. /\ G.voted = IF v.type \in {"Notarize", "Skip"}
                     THEN N.history.voted \union {v.slot} ELSE N.history.voted
        /\ G.voted_notar = IF v.type = "Notarize"
                           THEN N.history.voted_notar \union {<<v.slot, v.hash>>}
                           ELSE N.history.voted_notar
    BY Zenon, <1>3, AddVoteFields
  <2>2. /\ G.notarized_blocks = N.history.notarized_blocks
        /\ G.parent_ready_slots = N.history.parent_ready_slots
    BY Zenon, <1>3, AddVoteFields
  <2> QED BY Zenon, <2>1, <2>2
<1> HIDE DEF G
<1>5. \A b : Settled(N.history, b) => Settled(G, b)
  BY Zenon, <1>3, SettledStays DEF G
<1>6. FinalInv(N.history) => FinalInv(M.history)
  BY Zenon, <1>2, <1>4, <1>5 DEF FinalInv
<1>7. Exhausted(N) => Exhausted(M)
  BY Zenon, <1>2, <1>4, ExhaustedStays
<1> QED
  BY Zenon, <1>1, <1>2, <1>6, <1>7 DEF M

\* The window of a slot is skipped before a fallback vote.
LEMMA SkippedFirst ==
  ASSUME LoopInv, NEW s \in Nat, s > SlotOf(root), NEW able,
         \E v \in node.own_votes : v.slot = s /\ v.type \in {"Notarize", "Skip"}
  PROVE  LET N == try_skip_window(node, s, able)
         IN  /\ Good(N, SlotOf(root), node.history) /\ N.finalized_blocks = node.finalized_blocks
             /\ ForgetsNothing => FinalInv(N.history) /\ Exhausted(N)
             /\ s >= N.history.root /\ s \in N.history.voted
             /\ \E v \in node.own_votes : /\ v \in node.history.votes_cast /\ v.slot = s
                                          /\ v.type \in {"Notarize", "Skip"}
             /\ \A w \in N.history.votes_cast : w \in node.history.votes_cast \/ w.type = "Skip"
<1> DEFINE N == try_skip_window(node, s, able)
<1>1. /\ Good(node, SlotOf(root), node.history) /\ HistoryInv(node.history) /\ node \in Nodes
      /\ root \in Known /\ SlotOf(root) \in Nat
  BY Zenon, Begins
<1>2. Good(N, SlotOf(root), node.history) /\ SkippedSome(node, N)
  BY Zenon, <1>1, SkipWindowGood
<1> HIDE DEF N
<1>3. /\ N.finalized_blocks = node.finalized_blocks /\ N.history.voted_notar = node.history.voted_notar
      /\ N.pending_blocks = node.pending_blocks /\ node.history.voted \subseteq N.history.voted
      /\ N.history.parent_ready_slots = node.history.parent_ready_slots
      /\ (FinalInv(node.history) => FinalInv(N.history))
      /\ \A w \in N.history.votes_cast : w \in node.history.votes_cast \/ w.type = "Skip"
  BY Zenon, <1>2 DEF SkippedSome, Later
<1>4. ForgetsNothing => FinalInv(N.history) /\ Exhausted(N)
  BY Zenon, <1>3, ExhaustedStays DEF ForgetsNothing
<1>5. /\ N.history.root <= SlotOf(root) /\ node.history.root <= SlotOf(root)
      /\ N.history \in Histories /\ node.history \in Histories
      /\ \A v \in node.own_votes : v.slot >= node.history.root => v \in node.history.votes_cast
      /\ \A v \in node.history.votes_cast : v.slot \in node.history.voted
  BY Zenon, <1>1, <1>2 DEF Good, NodeInv, HistoryInv, Indexed
<1>6. s >= N.history.root /\ s >= node.history.root
  <2>1. N.history.root \in Nat /\ node.history.root \in Nat
    BY <1>5 DEF Histories
  <2> QED
    BY SMTT(20), <1>1, <1>5, <2>1
<1>7. PICK v \in node.own_votes : v.slot = s /\ v.type \in {"Notarize", "Skip"}
  OBVIOUS
<1>8. v \in node.history.votes_cast /\ s \in N.history.voted
  BY Zenon, <1>3, <1>5, <1>6, <1>7
<1>9. \E w \in node.own_votes : /\ w \in node.history.votes_cast /\ w.slot = s
                                /\ w.type \in {"Notarize", "Skip"}
  BY Zenon, <1>7, <1>8
<1> QED
  BY Zenon, <1>2, <1>3, <1>4, <1>6, <1>8, <1>9 DEF N

\* The pool calls the fallback vote for a block safe (SafeToNotar).
LEMMA SafeToNotarWell ==
  ASSUME LoopInv, NEW b \in Blocks, NEW able, SafeToNotar(b, able)
  PROVE  EndsWell
<1> DEFINE s == SlotOf(b)
           N == try_skip_window(node, s, able)
           v == NotarizeFallback(b)
           R == generate_vote_message(N, v, able)
           over == s \in N.history.its_over \/ b \in N.history.voted_notar_fallback
<1>1. /\ HistoryInv(node.history) /\ SlotOf(root) \in Nat /\ frozen \in SUBSET Known
      /\ certs \in Certs /\ node.finalized_blocks \subseteq certs.finalized
  BY Zenon, Begins
<1>2. /\ s > SlotOf(root) /\ certs' = certs /\ Notarize(b) \notin node.own_votes
      /\ \E w \in node.own_votes : w.slot = s /\ w.type \in {"Notarize", "Skip"}
      /\ Handled(IF over THEN N ELSE R, root, replayed)
  BY Zenon DEF SafeToNotar, IsHandled
<1>3. s \in Nat /\ b = <<s, b[2]>>
  BY Zenon, SlotFacts
<1>4. /\ Good(N, SlotOf(root), node.history) /\ N.finalized_blocks = node.finalized_blocks
      /\ ForgetsNothing => FinalInv(N.history) /\ Exhausted(N)
      /\ s >= N.history.root /\ s \in N.history.voted
      /\ \E w \in node.own_votes : /\ w \in node.history.votes_cast /\ w.slot = s
                                   /\ w.type \in {"Notarize", "Skip"}
      /\ \A w \in N.history.votes_cast : w \in node.history.votes_cast \/ w.type = "Skip"
  BY Zenon, <1>2, <1>3, SkippedFirst
<1> HIDE DEF N
<1>5. /\ N.finalized_blocks \subseteq certs'.finalized /\ certs' \in Certs
  BY Zenon, <1>1, <1>2, <1>4
<1>6. CASE over
  <2>1. Handled(N, root, replayed)
    BY Zenon, <1>2, <1>6
  <2>2. Ending(N, root)
    BY Zenon, <1>4, <1>5, EndingHere
  <2> QED
    BY Zenon, <1>1, <1>5, <2>1, <2>2, HandledWell
<1>7. CASE ~over
  <2>1. Handled(R, root, replayed)
    BY Zenon, <1>2, <1>7
  <2>2. /\ v \in Votes /\ v.type = "NotarizeFallback" /\ v.slot = s /\ v.hash = b[2]
        /\ Notarize(b).type = "Notarize" /\ Notarize(b).slot = s /\ Notarize(b).hash = b[2]
        /\ Notarize(b) \in Votes
    BY Zenon, VoteFields
  <2>3. ASSUME NEW w \in N.history.votes_cast, w.slot = s, w.hash = b[2], w.type = "Notarize"
        PROVE  FALSE
    <3>1. w \in node.history.votes_cast
      <4>1. "Notarize" # "Skip"
        OBVIOUS
      <4> QED
        BY Zenon, <1>4, <2>3, <4>1
    <3>2. PICK u \in node.own_votes : /\ u \in node.history.votes_cast /\ u.slot = s
                                      /\ u.type \in {"Notarize", "Skip"}
      BY Zenon, <1>4
    <3>3. Consistent(node.history.votes_cast) /\ w \in Votes
      BY SMTT(20), <1>1, <3>1 DEF HistoryInv, Histories
    <3>4. u.type = "Notarize" /\ u = w
      BY Zenon, <2>3, <3>1, <3>2, <3>3 DEF Consistent
    <3>5. w = Notarize(b)
      BY SMTT(20), <2>2, <2>3, <3>3 DEF Votes
    <3> QED
      BY Zenon, <1>2, <3>2, <3>4, <3>5
  <2>4. Allowed(N.history, v)
    <3>1. s \notin N.history.its_over
      BY Zenon, <1>7
    <3> HIDE DEF v, s
    <3>2. /\ v.type \notin {"Notarize", "Skip", "Finalize"}
      BY <2>2
    <3> QED
      BY SMTT(20), <1>3, <1>4, <2>2, <2>3, <3>1, <3>2 DEF Allowed
  <2>5. v.type \in {"NotarizeFallback", "SkipFallback"}
    BY Zenon, <2>2
  <2> HIDE DEF v, s
  <2>6. /\ Good(R, SlotOf(root), node.history) /\ R.finalized_blocks = N.finalized_blocks
        /\ FinalInv(N.history) => FinalInv(R.history)
        /\ Exhausted(N) => Exhausted(R)
    BY Zenon, <1>1, <1>4, <2>2, <2>4, <2>5, FallbackGood
  <2> HIDE DEF R
  <2>7. Ending(R, root)
    BY Zenon, <1>4, <1>5, <2>6, EndingHere
  <2> QED
    BY Zenon, <1>1, <1>5, <2>1, <2>7, HandledWell
<1> QED
  BY Zenon, <1>6, <1>7

\* The pool calls the fallback vote to skip a slot safe (SafeToSkip).
LEMMA SafeToSkipWell ==
  ASSUME LoopInv, NEW s \in Slots, NEW able, SafeToSkip(s, able)
  PROVE  EndsWell
<1> DEFINE N == try_skip_window(node, s, able)
           v == SkipFallback(s)
           R == generate_vote_message(N, v, able)
           over == s \in N.history.its_over \union N.history.voted_skip_fallback
<1>1. /\ HistoryInv(node.history) /\ SlotOf(root) \in Nat /\ frozen \in SUBSET Known
      /\ certs \in Certs /\ node.finalized_blocks \subseteq certs.finalized
  BY Zenon, Begins
<1>2. /\ s > SlotOf(root) /\ certs' = certs
      /\ \E w \in node.own_votes : w.slot = s /\ w.type \in {"Notarize", "Skip"}
      /\ Handled(IF over THEN N ELSE R, root, replayed)
  BY Zenon DEF SafeToSkip, IsHandled
<1>3. s \in Nat
  BY SlotFacts
<1>4. /\ Good(N, SlotOf(root), node.history) /\ N.finalized_blocks = node.finalized_blocks
      /\ ForgetsNothing => FinalInv(N.history) /\ Exhausted(N)
      /\ s >= N.history.root /\ s \in N.history.voted
  BY Zenon, <1>2, <1>3, SkippedFirst
<1> HIDE DEF N
<1>5. N.finalized_blocks \subseteq certs'.finalized /\ certs' \in Certs
  BY Zenon, <1>1, <1>2, <1>4
<1>6. CASE over
  <2>1. Handled(N, root, replayed)
    BY Zenon, <1>2, <1>6
  <2>2. Ending(N, root)
    BY Zenon, <1>4, <1>5, EndingHere
  <2> QED
    BY Zenon, <1>1, <1>5, <2>1, <2>2, HandledWell
<1>7. CASE ~over
  <2>1. Handled(R, root, replayed)
    BY Zenon, <1>2, <1>7
  <2>2. v \in Votes /\ v.type = "SkipFallback" /\ v.slot = s
    BY Zenon, <1>3, VoteFields
  <2>3. s \notin N.history.its_over
    BY Zenon, <1>7
  <2> HIDE DEF v
  <2>4. Allowed(N.history, v)
    BY SMTT(20), <1>4, <2>2, <2>3 DEF Allowed
  <2>5. v.type \in {"NotarizeFallback", "SkipFallback"}
    BY Zenon, <2>2
  <2>6. /\ Good(R, SlotOf(root), node.history) /\ R.finalized_blocks = N.finalized_blocks
        /\ FinalInv(N.history) => FinalInv(R.history)
        /\ Exhausted(N) => Exhausted(R)
    BY ZenonT(30), <1>1, <1>4, <2>2, <2>4, <2>5, FallbackGood
  <2> HIDE DEF R
  <2>7. Ending(R, root)
    BY Zenon, <1>4, <1>5, <2>6, EndingHere
  <2> QED
    BY Zenon, <1>1, <1>5, <2>1, <2>7, HandledWell
<1> QED
  BY Zenon, <1>6, <1>7

\* The end of an event that may root and may make a parent ready
\* (check_rootable_blocks, add_missing_parent_ready).
LEMMA RootedWell ==
  ASSUME LoopInv, NEW N, Good(N, SlotOf(root), node.history),
         N.finalized_blocks \subseteq certs'.finalized, certs' \in Certs,
         ForgetsNothing => FinalInv(N.history) /\ Exhausted(N),
         NEW b \in Blocks, NEW able, NEW blocks, NEW r, r = NewRoot(N),
         Handled(AddMissingParent(check_rootable_blocks(N), b, Pruned(frozen, r), r, able),
                 r, blocks)
  PROVE  EndsWell
<1> DEFINE C == check_rootable_blocks(N)
           M == AddMissingParent(C, b, Pruned(frozen, r), r, able)
<1>1. /\ HistoryInv(node.history) /\ root \in Known /\ frozen \in SUBSET Known
      /\ \A c \in frozen : root \in Ancestors[c]
  BY Zenon, Begins DEF LoopInv
<1>2. /\ Good(C, SlotOf(r), node.history) /\ C.finalized_blocks \subseteq N.finalized_blocks
      /\ FinalInv(N.history) => FinalInv(C.history)
      /\ Exhausted(N) => Exhausted(C)
      /\ r = root \/ (r \in N.finalized_blocks /\ r \in frozen)
  BY Zenon, <1>1, CheckRootableGood
<1>3. r \in Known
  BY Zenon, <1>1, <1>2
<1>4. SlotOf(r) \in Nat
  BY Zenon, <1>3, SlotFacts
<1>5. Handled(M, r, blocks)
  BY Zenon
<1> HIDE DEF C
<1>6. Outcome(C, M, SlotOf(r), node.history) /\ (Exhausted(C) => Exhausted(M))
  BY Zenon, <1>1, <1>2, <1>4, AddMissingGood
<1> HIDE DEF M
<1>7. /\ Good(M, SlotOf(r), node.history) /\ M.finalized_blocks = C.finalized_blocks
      /\ FinalInv(C.history) => FinalInv(M.history)
  BY Zenon, <1>6 DEF Outcome
<1>8. M.finalized_blocks \subseteq certs'.finalized
  BY Zenon, <1>2, <1>7
<1>9. ForgetsNothing => FinalInv(M.history) /\ Exhausted(M)
  BY Zenon, <1>2, <1>6, <1>7
<1>10. r # root => r \in certs'.finalized /\ root \in Ancestors[r]
  BY Zenon, <1>1, <1>2
<1>11. Ending(M, r)
  BY Zenon, <1>3, <1>7, <1>8, <1>9, <1>10 DEF Ending
<1> QED
  BY Zenon, <1>5, <1>11, HandledWell

\* The cluster finalizes a block (Finalized).
LEMMA FinalizedWell ==
  ASSUME LoopInv, NEW b \in Blocks, NEW able, Finalized(b, able)
  PROVE  EndsWell
<1> DEFINE N == [node EXCEPT !.finalized_blocks = @ \union {b}]
           r == NewRoot(N)
<1>1. /\ Good(node, SlotOf(root), node.history) /\ node \in Nodes
      /\ frozen \in SUBSET Known /\ certs \in Certs
      /\ node.finalized_blocks \subseteq certs.finalized
  BY Zenon, Begins
<1>2. /\ certs' = [certs EXCEPT !.finalized = @ \union {b}]
      /\ Handled(AddMissingParent(check_rootable_blocks(N), b, Pruned(frozen, r), r, able),
                 r, replayed)
  BY Zenon DEF Finalized
<1>3. certs' \in Certs /\ certs'.finalized = certs.finalized \union {b}
  BY SMTT(20), <1>1, <1>2 DEF Certs
<1>4. /\ N \in Nodes /\ N.history = node.history /\ N.pending_blocks = node.pending_blocks
      /\ N.own_votes = node.own_votes /\ N.ops = node.ops /\ N.asserts = node.asserts
      /\ N.finalized_blocks = node.finalized_blocks \union {b}
  BY Zenon, <1>1 DEF Nodes
<1> HIDE DEF N
<1>5. Good(N, SlotOf(root), node.history) /\ (Exhausted(node) => Exhausted(N))
  BY Zenon, <1>1, <1>4, FrameGood
<1>6. ForgetsNothing => FinalInv(N.history) /\ Exhausted(N)
  BY Zenon, <1>4, <1>5 DEF ForgetsNothing
<1>7. N.finalized_blocks \subseteq certs'.finalized
  BY Zenon, <1>1, <1>3, <1>4
<1> QED
  BY Zenon, <1>2, <1>3, <1>5, <1>6, <1>7, RootedWell

\* A block is left pending: its slot has no vote and its parent allows none.
LEMMA AppendGood ==
  ASSUME NEW N, NEW r \in Nat, NEW H, Good(N, r, H), NEW b \in Blocks, SlotOf(b) > r,
         ~ParentAllows(N.history, b)
  PROVE  LET M == [N EXCEPT !.pending_blocks[SlotOf(b)] = Append(@, b)]
         IN  /\ Good(M, r, H) /\ M.history = N.history
             /\ M.finalized_blocks = N.finalized_blocks
             /\ Exhausted(N) => Exhausted(M)
<1> DEFINE s == SlotOf(b)
           B == Append(N.pending_blocks[s], b)
           D == [N.pending_blocks EXCEPT ![s] = B]
           M == [N EXCEPT !.pending_blocks = D]
           blocks(x) == N.pending_blocks[x]
<1>1. [N EXCEPT !.pending_blocks[SlotOf(b)] = Append(@, b)] = M
  BY Zenon
<1>2. s \in Slots /\ s > r /\ SlotOf(b) = s /\ N \in Nodes /\ PendingInv(N, r)
  BY Zenon, SlotFacts DEF Good, NodeInv
<1>3. N.pending_blocks \in [Slots -> Seq(Blocks)]
  BY <1>2 DEF Nodes
<1>4. blocks(s) \in Seq(Blocks)
  BY Zenon, <1>2, <1>3
<1> HIDE DEF s
<1>5. /\ B \in Seq(Blocks) /\ Len(B) = Len(blocks(s)) + 1 /\ Len(blocks(s)) \in Nat
      /\ B[Len(blocks(s)) + 1] = b /\ \A i \in 1..Len(blocks(s)) : B[i] = blocks(s)[i]
  BY <1>4
<1>6. \A i \in 1..Len(B) : B[i] = b \/ (i \in 1..Len(blocks(s)) /\ B[i] = blocks(s)[i])
  <2> TAKE i \in 1..Len(B)
  <2>1. i = Len(blocks(s)) + 1 \/ i \in 1..Len(blocks(s))
    BY <1>5
  <2> QED
    BY Zenon, <1>5, <2>1
<1> HIDE DEF B
<1>7. /\ D \in [Slots -> Seq(Blocks)] /\ D[s] = B
      /\ \A x \in Slots : x # s => D[x] = blocks(x)
  BY Zenon, <1>2, <1>3, <1>5
<1> HIDE DEF D
<1>8. /\ M \in Nodes /\ M.history = N.history /\ M.pending_blocks = D
      /\ M.finalized_blocks = N.finalized_blocks /\ M.own_votes = N.own_votes
      /\ M.ops = N.ops /\ M.asserts = N.asserts
  BY Zenon, <1>2, <1>7 DEF Nodes
<1> HIDE DEF M
<1>9. \A x \in Slots : \A i \in 1..Len(D[x]) :
        \/ x = s /\ D[x][i] = b
        \/ i \in 1..Len(N.pending_blocks[x]) /\ D[x][i] = N.pending_blocks[x][i]
  BY Zenon, <1>6, <1>7
<1>10. PendingInv(M, r)
  <2> SUFFICES ASSUME NEW x \in Slots, NEW i \in 1..Len(M.pending_blocks[x])
               PROVE  /\ SlotOf(M.pending_blocks[x][i]) = x
                      /\ x > r \/ (x = r /\ x \in M.history.voted)
    BY Zenon DEF PendingInv
  <2>1. CASE x = s /\ D[x][i] = b
    BY Zenon, <1>2, <1>8, <2>1
  <2>2. CASE i \in 1..Len(N.pending_blocks[x]) /\ D[x][i] = N.pending_blocks[x][i]
    BY Zenon, <1>2, <1>8, <2>2 DEF PendingInv
  <2> QED
    BY Zenon, <1>8, <1>9, <2>1, <2>2
<1>11. Exhausted(N) => Exhausted(M)
  BY Zenon, <1>8, <1>9 DEF Exhausted
<1>12. Good(M, r, H)
  BY Zenon, <1>8, <1>10 DEF Good, NodeInv
<1> QED
  BY Zenon, <1>1, <1>8, <1>11, <1>12

\* The event of a frozen bank (Block).
LEMMA BlockWell ==
  ASSUME LoopInv, NEW b \in Blocks, NEW able, Block(b, able)
  PROVE  EndsWell
<1> DEFINE s == SlotOf(b)
           V == try_notar(node, b, able)
           C == check_pending_blocks(V, able)
           A == [V EXCEPT !.pending_blocks[s] = Append(@, b)]
           N == IF s \in V.history.voted \ node.history.voted THEN C
                ELSE IF s \notin V.history.voted THEN A ELSE V
           r == NewRoot(N)
           Right(M) == /\ Good(M, SlotOf(root), node.history)
                       /\ M.finalized_blocks = node.finalized_blocks
                       /\ ForgetsNothing => FinalInv(M.history) /\ Exhausted(M)
<1>1. /\ Good(node, SlotOf(root), node.history) /\ HistoryInv(node.history)
      /\ SlotOf(root) \in Nat /\ frozen \in SUBSET Known /\ certs \in Certs
      /\ node.finalized_blocks \subseteq certs.finalized
  BY Zenon, Begins
<1>2. /\ s > SlotOf(root) /\ certs' = certs
      /\ Handled(AddMissingParent(check_rootable_blocks(N), b, Pruned(frozen, r), r, able),
                 r, replayed \ {b})
  BY Zenon DEF Block, IsHandled
<1>3. /\ Good(V, SlotOf(root), node.history) /\ Later(node, V)
      /\ FinalInv(node.history) => FinalInv(V.history)
      /\ TriedBlock(node, V, b)
  BY Zenon, <1>1, <1>2, TryNotarGood
<1> HIDE DEF V
<1>4. s \in V.history.voted \ node.history.voted => Right(C)
  <2>1. /\ Good(C, SlotOf(root), node.history) /\ Later(V, C)
        /\ FinalInv(V.history) => FinalInv(C.history)
        /\ Exhausted(C)
    BY Zenon, <1>1, <1>3, CheckPendingGood
  <2> QED
    BY Zenon, <1>3, <2>1 DEF Later, ForgetsNothing
<1>5. s \notin V.history.voted => Right(A)
  <2> HAVE s \notin V.history.voted
  <2>1. V = node /\ ~ParentAllows(node.history, b)
    BY Zenon, <1>3 DEF TriedBlock
  <2>2. /\ Good(A, SlotOf(root), node.history) /\ A.history = node.history
        /\ A.finalized_blocks = node.finalized_blocks
        /\ Exhausted(node) => Exhausted(A)
    <3> DEFINE B == [node EXCEPT !.pending_blocks[s] = Append(@, b)]
    <3>1. /\ Good(B, SlotOf(root), node.history) /\ B.history = node.history
          /\ B.finalized_blocks = node.finalized_blocks
          /\ Exhausted(node) => Exhausted(B)
      BY Zenon, <1>1, <1>2, <2>1, AppendGood
    <3>2. A = B
      BY Zenon, <2>1
    <3> HIDE DEF A, B
    <3> QED BY Zenon, <3>1, <3>2
  <2> QED
    BY Zenon, <2>2 DEF ForgetsNothing
<1>6. s \in V.history.voted /\ s \in node.history.voted => Right(V)
  BY Zenon, <1>1, <1>3 DEF TriedBlock, ForgetsNothing
<1> HIDE DEF C, A
<1>7. Right(N)
  BY Zenon, <1>4, <1>5, <1>6
<1>8. N.finalized_blocks \subseteq certs'.finalized /\ certs' \in Certs
  BY Zenon, <1>1, <1>2, <1>7
<1> QED
  BY Zenon, <1>2, <1>7, <1>8, RootedWell

\* A bank is frozen (BankFrozen).
LEMMA BankFrozenWell ==
  ASSUME LoopInv, NEW b \in Blocks, BankFrozen(b)
  PROVE  EndsWell
<1>1. /\ Parent[b] \in frozen /\ frozen' = frozen \union {b}
      /\ node' = node /\ root' = root /\ certs' = certs /\ queue' = queue
  BY Zenon DEF BankFrozen
<1>2. frozen' \in SUBSET Known /\ \A c \in frozen' : root \in Ancestors[c]
  BY Zenon, <1>1, AncestorsFacts DEF LoopInv, Known
<1>3. LoopInv'
  BY Zenon, <1>1, <1>2 DEF LoopInv
<1>4. Extends(node.history, node.history)
  BY Zenon, ExtendsRefl DEF LoopInv, NodeInv, HistoryInv
<1> QED
  BY Zenon, <1>1, <1>3, <1>4 DEF EndsWell, ForgetsNothing

\* Every vote since a slot is sent again (Standstill).
LEMMA StandstillWell ==
  ASSUME LoopInv, NEW s \in Slots, NEW able, Standstill(s, able)
  PROVE  EndsWell
<1> DEFINE votes == votes_cast_since(node.history, s)
           sent == {v \in votes : v.slot \in able}
           n == Cardinality(sent)
           order == CHOOSE f \in [1..n -> sent] : IsInjective(f)
           own == node.own_votes \union sent
           ops == [i \in DOMAIN order |-> [vote |-> order[i], saved |-> node.history]]
           N == [node EXCEPT !.own_votes = own, !.ops = ops]
<1>1. /\ Good(node, SlotOf(root), node.history) /\ HistoryInv(node.history) /\ node \in Nodes
      /\ frozen \in SUBSET Known /\ certs \in Certs
      /\ node.finalized_blocks \subseteq certs.finalized
  BY Zenon, Begins
<1>2. certs' = certs /\ Handled(N, root, replayed)
  BY Zenon DEF Standstill
<1>3. /\ node.history \in Histories /\ node.history.votes_cast \subseteq Votes
      /\ IsFiniteSet(node.history.votes_cast)
  BY <1>1 DEF HistoryInv, Histories
<1>4. sent \subseteq node.history.votes_cast
  BY DEF votes_cast_since
<1> HIDE DEF sent
<1>5. n \in Nat /\ ExistsBijection(1..n, sent)
  BY SMTT(20), <1>3, <1>4, FS_Subset, FS_CardinalityType
<1> HIDE DEF n
<1>6. \E f \in [1..n -> sent] : IsInjective(f)
  BY Zenon, <1>5 DEF ExistsBijection, Bijection, Injection
<1>7. order \in [1..n -> sent]
  BY Zenon, <1>6
<1> HIDE DEF order
<1>8. /\ \A i \in 1..n : order[i] \in sent
      /\ DOMAIN order = 1..n
  BY Zenon, <1>7
<1>9. \A i \in 1..n : ops[i] = [vote |-> order[i], saved |-> node.history]
  BY Zenon, <1>8
<1>10. ops \in [1..n -> Ops]
  <2>1. \A i \in 1..n : [vote |-> order[i], saved |-> node.history] \in Ops
    BY SMTT(20), <1>3, <1>4, <1>8 DEF Ops
  <2> QED
    BY Zenon, <1>8, <2>1
<1>11. \A i \in 1..n : ops[i].vote \in node.history.votes_cast /\ ops[i].saved = node.history
  BY SMTT(20), <1>4, <1>8, <1>9
<1> HIDE DEF ops
<1>12. ops \in Seq(Ops) /\ Len(ops) = n
  BY SMTT(20), <1>5, <1>10
<1>13. Extends(node.history, node.history)
  BY Zenon, <1>3, ExtendsRefl
<1>14. Saves(ops, node.history)
  <2>1. ASSUME NEW i \in 1..n
        PROVE  /\ HistoryInv(ops[i].saved) /\ ops[i].vote \in ops[i].saved.votes_cast
               /\ Extends(ops[i].saved, node.history)
               /\ \A j \in 1..i : Extends(ops[j].saved, ops[i].saved)
    <3>1. \A j \in 1..i : j \in 1..n
      BY <1>5
    <3> QED
      BY Zenon, <1>1, <1>11, <1>13, <3>1
  <2> QED
    BY Zenon, <1>12, <2>1 DEF Saves
<1>15. /\ N \in Nodes /\ N.history = node.history /\ N.pending_blocks = node.pending_blocks
       /\ N.own_votes = own /\ N.ops = ops /\ N.asserts = node.asserts
       /\ N.finalized_blocks = node.finalized_blocks
  <2>1. own \in SUBSET Votes
    BY SMTT(20), <1>1, <1>3, <1>4 DEF Nodes
  <2> HIDE DEF own
  <2> QED
    BY Zenon, <1>1, <1>12, <2>1 DEF Nodes
<1>16. NodeInv(N, SlotOf(root))
  <2>1. NodeInv(node, SlotOf(root))
    BY Zenon, <1>1 DEF Good
  <2>2. PendingInv(N, SlotOf(root))
    BY Zenon, <1>15, <2>1 DEF NodeInv, PendingInv
  <2>3. \A v \in N.own_votes : v.slot >= N.history.root => v \in N.history.votes_cast
    BY Zenon, <1>4, <1>15, <2>1 DEF NodeInv
  <2> HIDE DEF N
  <2> QED
    BY Zenon, <1>15, <2>1, <2>2, <2>3 DEF NodeInv
<1> HIDE DEF N
<1>17. \A i \in 1..Len(N.ops) : Extends(node.history, N.ops[i].saved)
  BY Zenon, <1>11, <1>12, <1>13, <1>15
<1>18. Good(N, SlotOf(root), node.history)
  BY Zenon, <1>13, <1>14, <1>15, <1>16, <1>17 DEF Good
<1>19. ForgetsNothing => FinalInv(N.history) /\ Exhausted(N)
  BY Zenon, <1>15 DEF ForgetsNothing, Exhausted
<1>20. Ending(N, root)
  BY Zenon, <1>1, <1>2, <1>15, <1>18, <1>19, EndingHere
<1> QED
  BY Zenon, <1>1, <1>2, <1>20, HandledWell

\* Every event keeps the invariant of the event loop.
LEMMA EventWell ==
  ASSUME LoopInv, Event
  PROVE  EndsWell
<1>1. CASE \E s \in Slots : FirstShred(s)
  BY Zenon, <1>1, FirstShredWell
<1>2. CASE \E b \in Blocks : BankFrozen(b)
  BY Zenon, <1>2, BankFrozenWell
<1>3. ASSUME NEW able \in Abilities, NEW b \in Blocks,
             Block(b, able) \/ BlockNotarized(b, able) \/ SafeToNotar(b, able) \/ Finalized(b, able)
      PROVE  EndsWell
  BY Zenon, <1>3, BlockWell, BlockNotarizedWell, SafeToNotarWell, FinalizedWell
<1>4. ASSUME NEW able \in Abilities, NEW s \in Slots,
             TimerFires(s, able) \/ SafeToSkip(s, able) \/ Standstill(s, able)
      PROVE  EndsWell
  BY Zenon, <1>4, TimerFiresWell, SafeToSkipWell, StandstillWell
<1>5. ASSUME NEW able \in Abilities, NEW s \in Slots, NEW p \in Known, ParentReady(s, p, able)
      PROVE  EndsWell
  BY Zenon, <1>5, ParentReadyWell
<1> QED
  BY Zenon, <1>1, <1>2, <1>3, <1>4, <1>5 DEF Event

\* So do the voting service's taking the votes and a step of something else.
LEMMA StepWell ==
  ASSUME LoopInv, [Event \/ VotesTaken]_loop
  PROVE  EndsWell
<1>1. Extends(node.history, node.history)
  BY Zenon, ExtendsRefl DEF LoopInv, NodeInv, HistoryInv
<1>2. CASE Event
  BY Zenon, <1>2, EventWell
<1>3. CASE VotesTaken
  <2>1. /\ node' = node /\ root' = root /\ frozen' = frozen /\ certs' = certs
        /\ queue' = <<>>
    BY Zenon, <1>3 DEF VotesTaken
  <2>2. Saves(queue', node.history) /\ \A i \in 1..Len(queue') : FALSE
    BY <2>1 DEF Saves
  <2>3. LoopInv'
    BY Zenon, <2>1, <2>2 DEF LoopInv
  <2> QED
    BY Zenon, <1>1, <2>1, <2>2, <2>3 DEF EndsWell, ForgetsNothing
<1>4. CASE UNCHANGED loop
  <2>1. /\ node' = node /\ root' = root /\ frozen' = frozen /\ certs' = certs
        /\ queue' = queue
    BY Zenon, <1>4 DEF loop
  <2>2. LoopInv'
    BY Zenon, <2>1 DEF LoopInv
  <2> QED
    BY Zenon, <1>1, <2>1, <2>2 DEF EndsWell, ForgetsNothing
<1> QED
  BY Zenon, <1>2, <1>3, <1>4

\* The event loop at a start with a history that is well-formed.
LEMMA StartWell ==
  ASSUME NEW H, HistoryInv(H), NEW r, H.root <= r
  PROVE  /\ NodeInv(Start(H), r) /\ Start(H).ops = <<>> /\ Start(H).history = H
         /\ Start(H).finalized_blocks = {} /\ Exhausted(Start(H))
<1> DEFINE N == Start(H)
<1>1. H \in Histories
  BY Zenon DEF HistoryInv
<1>2. /\ N \in Nodes /\ N.history = H /\ N.ops = <<>> /\ N.finalized_blocks = {}
      /\ N.own_votes = {} /\ N.asserts /\ \A s \in Slots : N.pending_blocks[s] = <<>>
  <2>1. /\ N.history = H /\ N.ops = <<>> /\ N.finalized_blocks = {}
        /\ N.own_votes = {} /\ N.asserts /\ \A s \in Slots : N.pending_blocks[s] = <<>>
    BY Zenon DEF Start
  <2>2. /\ [s \in Slots |-> <<>>] \in [Slots -> Seq(Blocks)]
        /\ [s \in Slots |-> <<>>] \in [Slots -> Seq(Timeouts)]
        /\ <<>> \in Seq(Ops) /\ 0 \in Nat
    OBVIOUS
  <2>3. N \in Nodes
    BY Zenon, <1>1, <2>2 DEF Start, Nodes
  <2> QED BY Zenon, <2>1, <2>3
<1> HIDE DEF N
<1>3. \A s \in Slots : \A i \in 1..Len(N.pending_blocks[s]) : FALSE
  BY <1>2
<1>4. PendingInv(N, r) /\ Exhausted(N)
  BY Zenon, <1>3 DEF PendingInv, Exhausted
<1>5. NodeInv(N, r)
  BY Zenon, <1>2, <1>4 DEF NodeInv
<1> QED
  BY Zenon, <1>2, <1>4, <1>5 DEF N

\* A new history is well-formed.
LEMMA NewWell == HistoryInv(new(0)) /\ FinalInv(new(0)) /\ new(0).root = 0
<1>1. /\ new(0) \in Histories /\ new(0).votes_cast = {} /\ new(0).voted_notar = {}
      /\ new(0).root = 0
  BY DEF new, Histories
<1>2. IsFiniteSet(new(0).votes_cast)
  BY SMTT(20), <1>1, FS_EmptySet
<1> HIDE DEF new
<1> QED
  BY Zenon, <1>1, <1>2 DEF HistoryInv, Indexed, Consistent, Chained, FinalInv

\* Nothing is queued.
LEMMA NothingSaved ==
  ASSUME NEW H
  PROVE  Saves(<<>>, H)
BY DEF Saves

\* The event loop starts in its invariant.
LEMMA LoopBegins ==
  ASSUME LoopInit
  PROVE  LoopInv /\ ForgetsNothing
<1>1. /\ node = Start(new(0)) /\ root = RootBlock /\ frozen = {RootBlock}
      /\ certs = [notarized |-> {}, finalized |-> {}] /\ queue = <<>>
  BY Zenon DEF LoopInit
<1>2. root \in Known /\ SlotOf(root) \in Nat
  BY Zenon, <1>1, SlotFacts DEF Known
<1>3. new(0).root <= SlotOf(root)
  BY <1>2, NewWell
<1>4. /\ NodeInv(node, SlotOf(root)) /\ node.ops = <<>> /\ node.history = new(0)
      /\ node.finalized_blocks = {} /\ Exhausted(node)
  BY Zenon, <1>1, <1>3, StartWell, NewWell
<1>5. frozen \in SUBSET Known /\ \A b \in frozen : root \in Ancestors[b]
  BY Zenon, <1>1, <1>2, AncestorsFacts
<1>6. certs \in [notarized : SUBSET Blocks, finalized : SUBSET Blocks]
  BY <1>1
<1>7. Saves(queue, node.history)
  BY Zenon, <1>1, NothingSaved
<1> QED
  BY Zenon, <1>2, <1>4, <1>5, <1>6, <1>7, NewWell DEF LoopInv, ForgetsNothing

---------------------------------------------------------------------------
(* The event loop, whatever the order of its events. *)

\* The event loop keeps its history well-formed, the blocks it holds back and
\* the queued histories in order, and owes no vote.
THEOREM LoopInvariant == LoopSpec => [](LoopInv /\ ForgetsNothing)
<1>1. LoopInit => LoopInv /\ ForgetsNothing
  BY Zenon, LoopBegins
<1>2. LoopInv /\ ForgetsNothing /\ [Event \/ VotesTaken]_loop => (LoopInv /\ ForgetsNothing)'
  BY Zenon, StepWell DEF EndsWell
<1> QED
  BY <1>1, <1>2, PTL DEF LoopSpec

\* None of the assertions of VoteHistory fails in the event loop (AssertsHold).
THEOREM LoopAssertsHold == LoopSpec => []AssertsHold
<1>1. LoopInv => AssertsHold
  BY Zenon DEF LoopInv, NodeInv, AssertsHold
<1> QED
  BY <1>1, LoopInvariant, PTL

\* The invariant says that notarization votes are chained in a window.
LEMMA InvariantChains == LoopInv => WindowsAreChained
<1>1. LoopInv => Chained(node.history)
  BY Zenon DEF LoopInv, NodeInv, HistoryInv
<1>2. Chained(node.history) => WindowsAreChained
  BY Zenon DEF Chained, WindowsAreChained, MidWindow
<1> QED
  BY Zenon, <1>1, <1>2

\* A validator that notarizes a block in the middle of a window has notarized
\* the blocks of the window before it, or rooted past them (WindowsAreChained).
THEOREM LoopChainsWindows == LoopSpec => []WindowsAreChained
BY InvariantChains, LoopInvariant, PTL

\* No block that could be voted for waits, and no finalization vote that is
\* due is missing (NoVoteIsForgotten).
THEOREM LoopForgetsNoVote == LoopSpec => []NoVoteIsForgotten
<1>1. LoopInv /\ ForgetsNothing => NoVoteIsForgotten
  <2> SUFFICES ASSUME LoopInv, ForgetsNothing PROVE NoVoteIsForgotten
    BY SMTT(20)
  <2>1. node.pending_blocks \in [Slots -> Seq(Blocks)]
    BY DEF LoopInv, NodeInv, Nodes
  <2>2. ASSUME NEW s \in Slots, NEW b \in Range(node.pending_blocks[s])
        PROVE  s \in node.history.voted \/ ~ParentAllows(node.history, b)
    <3>1. node.pending_blocks[s] \in Seq(Blocks)
      BY Zenon, <2>1
    <3>2. DOMAIN node.pending_blocks[s] = 1..Len(node.pending_blocks[s])
      BY <3>1
    <3>3. PICK i \in 1..Len(node.pending_blocks[s]) : b = node.pending_blocks[s][i]
      BY Zenon, <3>2 DEF Range
    <3> QED
      BY Zenon, <3>3 DEF ForgetsNothing, Exhausted
  <2> QED
    BY Zenon, <2>2 DEF NoVoteIsForgotten, ForgetsNothing, FinalInv, Settled
<1> QED
  BY <1>1, LoopInvariant, PTL

\* The root moves only to a finalized descendant, and no vote at or after it
\* is forgotten (RootingIsSound).
THEOREM LoopRootsSoundly == LoopSpec => RootingIsSound
<1> DEFINE Sound == /\ root' # root => root' \in certs'.finalized /\ root \in Ancestors[root']
                    /\ {v \in node.history.votes_cast : v.slot >= SlotOf(root')}
                         \subseteq node'.history.votes_cast
<1>1. LoopInv /\ [Event \/ VotesTaken]_loop => [Sound]_loop
  <2> SUFFICES ASSUME LoopInv, [Event \/ VotesTaken]_loop PROVE Sound
    BY Zenon
  <2>1. EndsWell
    BY Zenon, StepWell
  <2>2. root' # root => root' \in certs'.finalized /\ root \in Ancestors[root']
    BY Zenon, <2>1 DEF EndsWell
  <2>3. /\ node'.history \in Histories /\ node'.history.root <= SlotOf(root') /\ root' \in Known
        /\ node.history \in Histories /\ Extends(node.history, node'.history)
    BY Zenon, <2>1 DEF EndsWell, LoopInv, NodeInv, HistoryInv
  <2>4. ASSUME NEW v \in node.history.votes_cast, v.slot >= SlotOf(root')
        PROVE  v \in node'.history.votes_cast
    <3>1. v.slot \in Nat /\ node'.history.root \in Nat /\ SlotOf(root') \in Nat
      BY SMTT(20), <2>3, SlotFacts DEF Histories, Votes
    <3>2. v.slot >= node'.history.root
      BY SMTT(20), <2>3, <2>4, <3>1
    <3> QED
      BY Zenon, <2>3, <3>2 DEF Extends
  <2> QED
    BY Zenon, <2>2, <2>4
<1> QED
  BY <1>1, LoopInvariant, PTL DEF LoopSpec, RootingIsSound

---------------------------------------------------------------------------
(* With the voting service and crashes. *)

\* The rest of the queue, once its head is saved.
LEMMA SavesTail ==
  ASSUME NEW q, NEW H, Saves(q, H), q # <<>>
  PROVE  /\ Saves(Tail(q), H)
         /\ Head(q) \in Ops /\ HistoryInv(Head(q).saved)
         /\ Head(q).vote \in Head(q).saved.votes_cast /\ Extends(Head(q).saved, H)
         /\ \A i \in 1..Len(Tail(q)) : Extends(Head(q).saved, Tail(q)[i].saved)
<1> DEFINE t == Tail(q)
<1>1. q \in Seq(Ops)
  BY Zenon DEF Saves
<1>2. /\ t \in Seq(Ops) /\ Len(q) \in Nat /\ Len(t) = Len(q) - 1
      /\ 1 \in 1..Len(q) /\ Head(q) = q[1] /\ q[1] \in Ops
      /\ \A i \in 1..Len(t) : t[i] = q[i + 1]
  BY SMTT(20), <1>1
<1> HIDE DEF t
<1>3. \A i \in 1..Len(t) : /\ i + 1 \in 1..Len(q) /\ 1 \in 1..i + 1
                           /\ \A j \in 1..i : j + 1 \in 1..i + 1 /\ j \in 1..Len(t)
  BY <1>2
<1>4. ASSUME NEW i \in 1..Len(t)
      PROVE  /\ HistoryInv(t[i].saved) /\ t[i].vote \in t[i].saved.votes_cast
             /\ Extends(t[i].saved, H) /\ Extends(q[1].saved, t[i].saved)
             /\ \A j \in 1..i : Extends(t[j].saved, t[i].saved)
  <2>1. t[i] = q[i + 1] /\ i + 1 \in 1..Len(q) /\ 1 \in 1..i + 1
    BY Zenon, <1>2, <1>3
  <2>2. \A j \in 1..i : t[j] = q[j + 1] /\ j + 1 \in 1..i + 1
    BY Zenon, <1>2, <1>3
  <2> QED
    BY Zenon, <2>1, <2>2 DEF Saves
<1>5. Saves(t, H)
  BY Zenon, <1>2, <1>4 DEF Saves
<1>6. HistoryInv(q[1].saved) /\ q[1].vote \in q[1].saved.votes_cast /\ Extends(q[1].saved, H)
  BY Zenon, <1>2 DEF Saves
<1> QED
  BY Zenon, <1>2, <1>4, <1>5, <1>6 DEF t

\* A vote of the saved history joins those that were sent before it.
LEMMA SendsConsistently ==
  ASSUME NEW sent \in SUBSET Votes, NEW F, HistoryInv(F), NEW G, HistoryInv(G), Extends(F, G),
         Consistent(sent), \A v \in sent : v.slot >= F.root => v \in F.votes_cast,
         NEW w \in G.votes_cast
  PROVE  /\ \A v \in sent \union {w} : v.slot >= G.root => v \in G.votes_cast
         /\ Consistent(sent \union {w})
<1>1. F.root \in Nat /\ G.root \in Nat /\ F.root <= G.root /\ w \in Votes
  BY DEF HistoryInv, Histories, Extends
<1>2. ASSUME NEW v \in sent, v.slot >= G.root PROVE v \in G.votes_cast
  <2>1. v.slot \in Nat
    BY SMTT(20) DEF Votes
  <2>2. v.slot >= F.root
    BY SMTT(20), <1>1, <1>2, <2>1
  <2> QED
    BY Zenon, <1>2, <2>2 DEF Extends
<1>3. w.slot >= G.root /\ Consistent(G.votes_cast)
  BY Zenon DEF HistoryInv, Indexed
<1>4. \A v \in sent : v.slot = w.slot => v \in G.votes_cast
  BY Zenon, <1>2, <1>3
<1>5. Consistent(sent \union {w})
  <2> DEFINE all == sent \union {w}
  <2>1. ASSUME NEW u \in all, NEW v \in all, u.slot = v.slot
        PROVE  (u \in sent /\ v \in sent) \/ (u \in G.votes_cast /\ v \in G.votes_cast)
    BY Zenon, <1>4, <2>1
  <2> HIDE DEF all
  <2>2. Consistent(all)
    BY Zenon, <1>3, <2>1 DEF Consistent
  <2> QED
    BY Zenon, <2>2 DEF all
<1> QED
  BY Zenon, <1>2, <1>5

\* An event keeps the invariant: what it queues extends what is stored.
LEMMA EventKeeps ==
  ASSUME VotorInv, [Event \/ VotesTaken]_loop, UNCHANGED service
  PROVE  VotorInv'
<1>1. LoopInv /\ HistoryInv(stored) /\ stored \in Histories
  BY Zenon DEF VotorInv, HistoryInv
<1>2. EndsWell
  BY Zenon, <1>1, StepWell
<1>3. /\ stored' = stored /\ sending' = sending /\ broadcast' = broadcast
  BY Zenon DEF service
<1>4. /\ LoopInv' /\ Extends(node.history, node'.history)
      /\ node.history \in Histories /\ node'.history \in Histories /\ Saves(queue', node'.history)
  BY Zenon, <1>1, <1>2 DEF EndsWell, LoopInv, NodeInv, HistoryInv
<1>5. Extends(stored', node'.history)
  BY Zenon, <1>1, <1>3, <1>4, ExtendsTrans DEF VotorInv
<1>6. ASSUME NEW i \in 1..Len(queue') PROVE Extends(stored', queue'[i].saved)
  <2>1. queue'[i].saved \in Histories
    BY Zenon, <1>4 DEF Saves, HistoryInv
  <2>2. CASE i \in 1..Len(queue) /\ queue'[i] = queue[i]
    BY Zenon, <1>3, <2>2 DEF VotorInv
  <2>3. CASE Extends(node.history, queue'[i].saved)
    BY Zenon, <1>1, <1>3, <1>4, <2>1, <2>3, ExtendsTrans DEF VotorInv
  <2> QED
    BY Zenon, <1>2, <2>2, <2>3 DEF EndsWell
<1> QED
  BY Zenon, <1>1, <1>3, <1>4, <1>5, <1>6 DEF VotorInv

\* Saving a history keeps the invariant.
LEMMA SaveHistoryKeeps ==
  ASSUME VotorInv, SaveHistory
  PROVE  VotorInv'
<1> DEFINE G == Head(queue).saved
           w == Head(queue).vote
<1>1. /\ queue # <<>> /\ sending = {} /\ stored' = G /\ sending' = {w} /\ queue' = Tail(queue)
      /\ node' = node /\ root' = root /\ frozen' = frozen /\ certs' = certs
      /\ broadcast' = broadcast
  BY Zenon DEF SaveHistory
<1>2. LoopInv /\ HistoryInv(stored) /\ Saves(queue, node.history)
  BY Zenon DEF VotorInv, LoopInv
<1>3. /\ Saves(queue', node.history) /\ Head(queue) \in Ops /\ HistoryInv(G)
      /\ w \in G.votes_cast /\ Extends(G, node.history)
      /\ \A i \in 1..Len(queue') : Extends(G, queue'[i].saved)
  BY Zenon, <1>1, <1>2, SavesTail
<1>4. LoopInv'
  BY Zenon, <1>1, <1>2, <1>3 DEF LoopInv
<1>5. w \in Votes
  BY <1>3 DEF Ops
<1>6. Extends(stored, G)
  <2>1. 1 \in 1..Len(queue) /\ Head(queue) = queue[1]
    BY SMTT(20), <1>1, <1>2 DEF Saves
  <2> QED
    BY Zenon, <2>1 DEF VotorInv
<1>7. /\ broadcast \in SUBSET Votes /\ Consistent(broadcast)
      /\ \A v \in broadcast : v.slot >= stored.root => v \in stored.votes_cast
  <2>1. broadcast \union sending = broadcast
    BY Zenon, <1>1
  <2> QED
    BY Zenon, <2>1 DEF VotorInv
<1> HIDE DEF G, w
<1>8. /\ \A v \in broadcast \union {w} : v.slot >= G.root => v \in G.votes_cast
      /\ Consistent(broadcast \union {w})
  BY Zenon, <1>2, <1>3, <1>6, <1>7, SendsConsistently
<1>9. broadcast' \union sending' \in SUBSET Votes
  BY Zenon, <1>1, <1>5, <1>7
<1>10. broadcast' \union sending' = broadcast \union {w}
  BY Zenon, <1>1
<1>11. /\ \A v \in broadcast' \union sending' : v.slot >= stored'.root => v \in stored'.votes_cast
       /\ Consistent(broadcast' \union sending')
  BY Zenon, <1>1, <1>8, <1>10
<1>12. /\ HistoryInv(stored') /\ Extends(stored', node'.history)
       /\ \A i \in 1..Len(queue') : Extends(stored', queue'[i].saved)
  BY Zenon, <1>1, <1>3
<1> QED
  BY Zenon, <1>4, <1>9, <1>11, <1>12 DEF VotorInv

\* A broadcast keeps the invariant.
LEMMA BroadcastVoteKeeps ==
  ASSUME VotorInv, BroadcastVote
  PROVE  VotorInv'
<1>1. /\ broadcast' = broadcast \union sending /\ sending' = {} /\ queue' = queue
      /\ node' = node /\ root' = root /\ frozen' = frozen /\ certs' = certs /\ stored' = stored
  BY Zenon DEF BroadcastVote
<1>2. broadcast' \union sending' = broadcast \union sending
  BY Zenon, <1>1
<1>3. LoopInv'
  BY Zenon, <1>1 DEF VotorInv, LoopInv
<1> QED
  BY Zenon, <1>1, <1>2, <1>3 DEF VotorInv

\* A restart from the stored history keeps the invariant.
LEMMA CrashKeeps ==
  ASSUME VotorInv, Crash
  PROVE  VotorInv'
<1>1. /\ node' = Start(stored) /\ frozen' = {root} /\ queue' = <<>> /\ sending' = {}
      /\ root' = root /\ certs' = certs /\ stored' = stored /\ broadcast' = broadcast
  BY Zenon DEF Crash
<1>2. /\ HistoryInv(stored) /\ stored \in Histories /\ Extends(stored, node.history)
      /\ node.history \in Histories /\ node.history.root <= SlotOf(root) /\ root \in Known
      /\ certs \in [notarized : SUBSET Blocks, finalized : SUBSET Blocks]
  BY Zenon DEF VotorInv, LoopInv, NodeInv, HistoryInv
<1>3. stored.root <= SlotOf(root)
  <2>1. stored.root <= node.history.root
    BY Zenon, <1>2 DEF Extends
  <2>2. SlotOf(root) \in Nat
    BY Zenon, <1>2, SlotFacts
  <2> QED
    BY SMTT(20), <1>2, <2>1, <2>2 DEF Histories
<1>4. /\ NodeInv(node', SlotOf(root)) /\ node'.ops = <<>> /\ node'.history = stored
      /\ node'.finalized_blocks = {}
  BY Zenon, <1>1, <1>2, <1>3, StartWell
<1>5. Saves(queue', node'.history) /\ \A i \in 1..Len(queue') : FALSE
  BY SMTT(20), <1>1, NothingSaved
<1>6. frozen' \in SUBSET Known /\ \A b \in frozen' : root' \in Ancestors[b]
  BY Zenon, <1>1, <1>2, AncestorsFacts
<1>7. LoopInv'
  BY Zenon, <1>1, <1>2, <1>4, <1>5, <1>6 DEF LoopInv
<1>8. Extends(stored', node'.history)
  BY Zenon, <1>1, <1>2, <1>4, ExtendsRefl
<1>9. /\ broadcast' \union sending' \in SUBSET Votes
      /\ \A v \in broadcast' \union sending' : v.slot >= stored'.root => v \in stored'.votes_cast
      /\ Consistent(broadcast' \union sending')
  <2>1. broadcast' \union sending' = broadcast
    BY Zenon, <1>1
  <2>2. /\ broadcast \in SUBSET Votes
        /\ \A v \in broadcast : v.slot >= stored.root => v \in stored.votes_cast
        /\ Consistent(broadcast)
    BY Zenon DEF VotorInv, Consistent
  <2> QED
    BY Zenon, <1>1, <2>1, <2>2
<1> QED
  BY Zenon, <1>1, <1>2, <1>5, <1>7, <1>8, <1>9 DEF VotorInv

\* Every history in memory, in the queue and on disk is well-formed, each
\* extends the ones before it, and the stored one has every vote sent since its
\* root: across events, saves, broadcasts and crashes.
THEOREM VotorInvariant == Spec => []VotorInv
<1>1. Init => VotorInv
  <2> SUFFICES ASSUME Init PROVE VotorInv
    OBVIOUS
  <2>1. LoopInv /\ node.history = new(0) /\ queue = <<>>
    <3>1. LoopInit
      BY Zenon DEF Init
    <3>2. Start(new(0)).history = new(0)
      BY DEF Start
    <3> QED
      BY Zenon, <3>1, <3>2, LoopBegins DEF LoopInit
  <2>2. stored = new(0) /\ sending = {} /\ broadcast = {}
    BY Zenon DEF Init
  <2>3. HistoryInv(stored) /\ Extends(stored, node.history)
    BY Zenon, <2>1, <2>2, NewWell, ExtendsRefl DEF HistoryInv
  <2>4. \A i \in 1..Len(queue) : FALSE
    BY <2>1
  <2> QED
    BY Zenon, <2>1, <2>2, <2>3, <2>4 DEF VotorInv, Consistent
<1>2. VotorInv /\ [Next]_vars => VotorInv'
  <2> SUFFICES ASSUME VotorInv, [Next]_vars PROVE VotorInv'
    OBVIOUS
  <2>1. CASE Event /\ UNCHANGED service
    BY Zenon, <2>1, EventKeeps
  <2>2. CASE UNCHANGED vars
    <3>1. UNCHANGED loop /\ UNCHANGED service
      BY Zenon, <2>2 DEF vars
    <3> QED
      BY Zenon, <3>1, EventKeeps
  <2> QED
    BY Zenon, <2>1, <2>2, SaveHistoryKeeps, BroadcastVoteKeeps, CrashKeeps DEF Next
<1> QED
  BY <1>1, <1>2, PTL DEF Spec

\* The votes a validator broadcasts never contradict each other, however often
\* and wherever the process crashes (NoEquivocation).
THEOREM NeverEquivocates == Spec => []NoEquivocation
<1>1. VotorInv => NoEquivocation
  BY Zenon DEF VotorInv, NoEquivocation, Consistent
<1> QED
  BY <1>1, VotorInvariant, PTL

\* The assertions of VoteHistory and the chain of a window's votes survive
\* crashes (AssertsHold, WindowsAreChained).
THEOREM RestartsAreSound == Spec => [](AssertsHold /\ WindowsAreChained)
<1>1. VotorInv => AssertsHold /\ WindowsAreChained
  BY Zenon, InvariantChains DEF VotorInv, LoopInv, NodeInv, AssertsHold
<1> QED
  BY <1>1, VotorInvariant, PTL

============================================================================
