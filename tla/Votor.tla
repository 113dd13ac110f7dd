------------------------------- MODULE Votor -------------------------------
(* The event loop composed with the voting service, which saves the vote
   history and broadcasts votes (votor/src/voting_service.rs), and with crashes
   of the process at any point between their steps. *)
EXTENDS EventHandler

CONSTANT MaxCrashes   \* bound: how often the process crashes

ASSUME CrashesAreNumber == MaxCrashes \in Nat

VARIABLES sending,    \* the vote whose history was saved last, to be broadcast
          stored,     \* the vote history on disk
          broadcast,  \* history: votes sent to other validators
          crashes

service == <<sending, stored, broadcast, crashes>>
vars == <<loop, service>>

Init ==
  /\ LoopInit
  /\ sending = {}
  /\ stored = new(0)
  /\ broadcast = {}
  /\ crashes = 0

---------------------------------------------------------------------------
(* The voting service and crashes. *)

\* handle_bls_op: the history is saved, then the vote is broadcast.
SaveHistory ==
  /\ queue # <<>> /\ sending = {}
  /\ stored' = Head(queue).saved
  /\ sending' = {Head(queue).vote}
  /\ queue' = Tail(queue)
  /\ UNCHANGED <<node, root, frozen, replayed, certs, broadcast, crashes>>

BroadcastVote ==
  /\ sending # {}
  /\ broadcast' = broadcast \union sending
  /\ sending' = {}
  /\ UNCHANGED <<node, root, frozen, replayed, certs, queue, stored, crashes>>

\* The process restarts from the stored history and the rooted blocks.
Crash ==
  /\ crashes < MaxCrashes
  /\ crashes' = crashes + 1
  /\ node' = Start(stored)
  /\ frozen' = {root}
  /\ replayed' = {}
  /\ queue' = <<>>
  /\ sending' = {}
  /\ UNCHANGED <<root, certs, stored, broadcast>>

Next ==
  \/ Event /\ UNCHANGED service
  \/ SaveHistory
  \/ BroadcastVote
  \/ Crash

Spec == Init /\ [][Next]_vars

---------------------------------------------------------------------------
(* Properties *)

\* What the safety of the protocol asks of one validator's votes in a slot:
\* one first vote, no finalization beside a skip or a fallback, and no
\* fallback for the block that was notarized.
Consistent(votes) ==
  \A v, w \in votes : v.slot = w.slot =>
    /\ v.type = "Notarize" /\ w.type = "Notarize" => v = w
    /\ ~(v.type = "Notarize" /\ w.type = "Skip")
    /\ ~(v.type = "Finalize" /\ w.type \in {"Skip", "SkipFallback", "NotarizeFallback"})
    /\ ~(v.type = "Notarize" /\ w.type = "NotarizeFallback" /\ v.hash = w.hash)

\* Across crashes, the votes a validator broadcasts never contradict each
\* other: the history each of them was checked against is saved first.
NoEquivocation == Consistent(broadcast)
============================================================================
