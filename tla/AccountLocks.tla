---------------------------- MODULE AccountLocks ----------------------------
(***************************************************************************)
(* The read and write locks a bank keeps on accounts                       *)
(* (accounts-db/src/account_locks.rs), and the pre-locks of bundles        *)
(* (core/src/bundle_stage/bundle_account_locker.rs), which count in the    *)
(* same way but refuse nobody.  A transaction is a name; Access gives the  *)
(* accounts it writes and the accounts it only reads.  Both kinds of locks *)
(* are values, and their methods are operators on them.                    *)
(***************************************************************************)
EXTENDS Integers, Sequences, FiniteSets, Functions

CONSTANTS Accounts,     \* the accounts of the bank
          Access        \* Access[tx] = [write |-> .., read |-> ..], sets of accounts

ASSUME AccessAssumption ==
    \A tx \in DOMAIN Access : /\ Access[tx].write \subseteq Accounts
                              /\ Access[tx].read \subseteq Accounts \ Access[tx].write

(***************************************************************************)
(* An absent entry of the code's maps is a count of 0.                     *)
(***************************************************************************)
Locks == [write : [Accounts -> Nat], read : [Accounts -> Nat]]

NoLocks == [write |-> [a \in Accounts |-> 0], read |-> [a \in Accounts |-> 0]]

Touched(tx) == Access[tx].write \cup Access[tx].read

Conflict(x, y) == \/ Access[x].write \cap Touched(y) # {}
                  \/ Access[y].write \cap Touched(x) # {}

(***************************************************************************)
(* A writer needs an account nobody has locked, a reader one nobody has    *)
(* write-locked.  The schedulers and the consumer ask the same question of *)
(* the pre-locks.                                                          *)
(***************************************************************************)
MutantIgnoresReaders(locks, tx) == \A a \in Touched(tx) : locks.write[a] = 0

can_lock_accounts(locks, tx) ==
    /\ \A a \in Touched(tx) : locks.write[a] = 0
    /\ \A a \in Access[tx].write : locks.read[a] = 0

(***************************************************************************)
(* A batch is a sequence of transactions.  An account is counted once for  *)
(* every transaction of the batch that asks for it; no count goes below 0. *)
(***************************************************************************)
Users(batch, idxs, mode, a) == {i \in idxs : a \in Access[batch[i]][mode]}

Raise(counts, batch, idxs, mode) ==
    [a \in Accounts |-> counts[a] + Cardinality(Users(batch, idxs, mode, a))]

Lower(counts, batch, idxs, mode) ==
    [a \in Accounts |-> LET n == Cardinality(Users(batch, idxs, mode, a))
                        IN  IF counts[a] > n THEN counts[a] - n ELSE 0]

(***************************************************************************)
(* With relaxed locking inside a batch, every transaction is compared with *)
(* the locks that were there before the batch; those that pass are all     *)
(* locked, the others are not.                                             *)
(***************************************************************************)
Lockable(locks, batch) == {i \in DOMAIN batch : can_lock_accounts(locks, batch[i])}

LockAll(locks, batch, idxs) == [write |-> Raise(locks.write, batch, idxs, "write"),
                                read |-> Raise(locks.read, batch, idxs, "read")]

UnlockAll(locks, batch, idxs) == [write |-> Lower(locks.write, batch, idxs, "write"),
                                  read |-> Lower(locks.read, batch, idxs, "read")]

lock_accounts(locks, tx) == LockAll(locks, <<tx>>, {1})

unlock_accounts(locks, tx) == UnlockAll(locks, <<tx>>, {1})
=============================================================================
