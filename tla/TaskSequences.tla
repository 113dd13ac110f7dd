-------------------------- MODULE TaskSequences --------------------------
(* Sequences of numbered tasks (or bundles): the queues of the unified scheduler,
   and the orders in which a walk may meet the members of a set. *)
EXTENDS Integers, FiniteSets, Sequences

Elements(s) == {s[i] : i \in 1..Len(s)}
Distinct(s) == \A i, j \in 1..Len(s) : s[i] = s[j] => i = j
Increasing(s) == \A i, j \in 1..Len(s) : i < j => s[i] < s[j]
IndexIn(s, x) == CHOOSE i \in DOMAIN s : s[i] = x

\* Every order of the members of S.
Listings(S) ==
  {s \in [1..Cardinality(S) -> S] :
     /\ \A i, j \in 1..Cardinality(S) : s[i] = s[j] => i = j
     /\ \A x \in S : \E i \in 1..Cardinality(S) : s[i] = x}
==========================================================================
