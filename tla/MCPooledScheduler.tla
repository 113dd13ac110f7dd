-------------------------- MODULE MCPooledScheduler -------------------------
EXTENDS PooledScheduler

CONSTANT a1

\* A block of two conflicting transactions and a block of one.
TwoAndOne == [x \in Transactions |-> IF x = 3 THEN 2 ELSE 1]
OneAccount == [x \in Transactions |-> [a \in {a1} |-> IF x = 3 THEN "none" ELSE "Writable"]]
============================================================================
