------------------------ MODULE MCVotorCertificates ------------------------
EXTENDS VotorCertificates, TLC

Genesis == <<0, 1>>

\* Two versions of one block.
OneSlot == (<<1, 1>> :> Genesis) @@ (<<1, 2>> :> Genesis)
============================================================================
