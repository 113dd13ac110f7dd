------------------------- MODULE VotorCertificates -------------------------
(* The votes of one validator that reach others inside certificates: its own
   consensus pool counts a vote as soon as the event loop has sent it there
   (own_vote_sender), and the certificates of the pool are broadcast. *)
EXTENDS Votor

VARIABLE certified   \* history: own votes in certificates sent to others

\* The own pool builds a certificate with a vote it was sent, and the voting
\* service broadcasts it.  Votes and certificates share one queue; the pool may
\* queue the certificate before the event loop has queued the event's first vote.
BroadcastCertificate(v) ==
  /\ v \in node.own_votes
  /\ sending = {}
  /\ v \in {op.vote : op \in Range(queue)} => v = Head(queue).vote
  /\ certified' = certified \union {v}
  /\ UNCHANGED vars

CertificatesInit == Init /\ certified = {}

CertificatesNext ==
  \/ Next /\ UNCHANGED certified
  \/ \E v \in node.own_votes : BroadcastCertificate(v)

CertificatesSpec == CertificatesInit /\ [][CertificatesNext]_<<vars, certified>>

\* A vote handed to the own pool is in a saved vote history, so that a
\* certificate with it is not contradicted after a restart ("Update and save
\* the vote history", insert_vote_and_create_bls_message).
CertifiedVotesStand == Consistent(broadcast \union certified)

============================================================================
