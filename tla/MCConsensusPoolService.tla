---------------------- MODULE MCConsensusPoolService ----------------------
EXTENDS ConsensusPoolService

CONSTANTS v1, v2, v3

TwoTwoOne == (v1 :> 2) @@ (v2 :> 2) @@ (v3 :> 1)

\* Every vote the two large validators can cast for slot 1, and the first votes
\* of the small one.
VotesForOne ==
  [ballots |->
     {Ballot(v, type, 1, h) : v \in {v1, v2}, type \in {"Notarize", "NotarizeFallback"}, h \in Hashes}
       \union {Ballot(v, type, 1, NoHash) : v \in {v1, v2}, type \in VoteTypes \ BlockVotes}
       \union {Ballot(v3, "Notarize", 1, h) : h \in Hashes}
       \union {Ballot(v3, "Skip", 1, NoHash)},
   certificates |-> {}]

\* Certificates of a chain that skips slots 1 and 3, and of a block beside it.
Chain ==
  [ballots |-> {},
   certificates |->
     { Cert("Skip", 1, NoHash), Cert("NotarizeFallback", 1, 2),
       Cert("Notarize", 2, 1), Cert("Finalize", 2, NoHash), Cert("FinalizeFast", 2, 1),
       Cert("Skip", 3, NoHash),
       Cert("Notarize", 4, 2), Cert("Finalize", 4, NoHash) }]

\* Every skip certificate, and block certificates for every slot.
Forks ==
  [ballots |-> {},
   certificates |->
     {Cert("Skip", s, NoHash) : s \in 1..LastSlot}
       \union {Cert("NotarizeFallback", s, 1) : s \in 1..LastSlot}
       \union {Cert("NotarizeFallback", 2, 2)}]

\* The votes for one block, and the certificates that others built from them.
Race ==
  [ballots |->
     {Ballot(v, "Notarize", 1, 1) : v \in Validators}
       \union {Ballot(v, "Finalize", 1, NoHash) : v \in Validators}
       \union {Ballot(v3, "NotarizeFallback", 1, 1)},
   certificates |->
     { Cert("NotarizeFallback", 1, 1), Cert("Notarize", 1, 1), Cert("FinalizeFast", 1, 1),
       Cert("Finalize", 1, NoHash) }]

VotesAndCertificates == {VotesForOne, Chain, Forks, Race}
============================================================================
