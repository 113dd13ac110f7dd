-------------------------- MODULE LeaderBankProofs --------------------------
(***************************************************************************)
(* For any accounts, transactions, bundles, workers and slots: the locks   *)
(* counted are the locks held, transactions that hold locks do not         *)
(* conflict, what blocks a pre-locked bundle only drains, and replaying    *)
(* the block gives every transaction what it saw.                          *)
(***************************************************************************)
EXTENDS LeaderBank, FiniteSetTheorems, TLAPS

Statuses == {"queued", "sent", "locked", "executed", "recorded", "committed", "retryable",
             "removable", "done"}
Places == {"fill", "front", "try", "asleep", "locked", "executed", "recorded", "committed",
           "failed", "done"}
HoldsAll == {"locked", "executed", "recorded", "committed"}

TypeOK ==
    /\ tips \in Seq(Bundles) /\ stored \in Seq(Bundles) /\ window \in Seq(Bundles)
    /\ at \in Places
    /\ status \in [Txs -> Statuses]
    /\ DOMAIN saw = Units
    /\ log \in Seq(Units)

\* No bundle is in two places, but a tip bundle in work is both the window
\* and the first of the tips.
QueuesInv ==
    /\ IsInjective(tips) /\ IsInjective(stored) /\ IsInjective(window)
    /\ Range(stored) \cap (Range(tips) \cup Range(window)) = {}
    /\ at # "fill" => window # <<>>
    /\ tips # <<>> => window = IF at = "fill" THEN <<>> ELSE <<Head(tips)>>

\* The stage holds locks of the front bundle only, all of them from the
\* moment it has locked the batch until the batch is dropped.
HeldInv ==
    /\ held \subseteq (IF window = <<>> THEN {} ELSE All)
    /\ at \in HoldsAll => held = All
    /\ at \notin HoldsAll \cup {"asleep"} => held = {}

Exclusive ==
    /\ \A x, y \in Holders : x # y => ~ Conflict(x, y)
    /\ \A x \in Holders : \A i \in held : ~ Conflict(x, Bundle[Current][i])

SentInv == \A x \in Txs : status[x] \in {"sent", "retryable", "removable"} => x \notin Votes

ControlInv == TypeOK /\ QueuesInv /\ HeldInv /\ SentInv

Modes == {"write", "read"}

FiniteInv == \A mode \in Modes, a \in Accounts : IsFiniteSet(PreLockers(Range(window), mode, a))

CountInv == LocksAreHeld /\ FiniteInv /\ Exclusive

LockInv == ControlInv /\ CountInv

Using(mode, a) == {x \in Holders : a \in Access[x][mode]}

-----------------------------------------------------------------------------
\* The elements of a sequence.
LEMMA RangeOfSequence ==
  ASSUME NEW T, NEW s \in Seq(T)
  PROVE  /\ Len(s) \in Nat /\ DOMAIN s = 1..Len(s)
         /\ \A i \in 1..Len(s) : s[i] \in T /\ s[i] \in Range(s)
         /\ \A e \in Range(s) : e \in T /\ \E i \in 1..Len(s) : s[i] = e
BY DEF Range

\* A bundle appended to a queue that does not hold it.
LEMMA AppendDistinct ==
  ASSUME NEW T, NEW s \in Seq(T), NEW e \in T, IsInjective(s), e \notin Range(s)
  PROVE  /\ Append(s, e) \in Seq(T) /\ IsInjective(Append(s, e))
         /\ Range(Append(s, e)) = Range(s) \cup {e}
<1> DEFINE q == Append(s, e)
           n == Len(s)
<1>1. n \in Nat /\ DOMAIN s = 1..n
  OBVIOUS
<1>2. /\ q \in Seq(T) /\ DOMAIN q = 1..(n + 1) /\ q[n + 1] = e
      /\ \A i \in 1..n : q[i] = s[i] /\ i \in 1..(n + 1)
  OBVIOUS
<1>3. \A i \in 1..(n + 1) : i \in 1..n \/ i = n + 1
  BY <1>1
<1>4. n + 1 \in 1..(n + 1)
  BY <1>1
<1>5. \A i \in 1..n : s[i] \in Range(s)
  BY <1>1 DEF Range
<1> HIDE DEF q, n
<1>6. IsInjective(q)
  BY <1>1, <1>2, <1>3, <1>5 DEF IsInjective
<1>7. \A x \in Range(q) : x \in Range(s) \cup {e}
  BY <1>2, <1>3, <1>5 DEF Range
<1>8. \A x \in Range(s) \cup {e} : x \in Range(q)
  BY <1>1, <1>2, <1>4 DEF Range
<1> QED
  BY <1>2, <1>6, <1>7, <1>8 DEF q

\* The head of a queue without duplicates is not in the rest of it.
LEMMA TailDistinct ==
  ASSUME NEW T, NEW s \in Seq(T), s # <<>>, IsInjective(s)
  PROVE  /\ Head(s) \in T /\ Tail(s) \in Seq(T) /\ IsInjective(Tail(s))
         /\ Range(s) = Range(Tail(s)) \cup {Head(s)}
         /\ Head(s) \notin Range(Tail(s))
<1> DEFINE q == Tail(s)
           n == Len(s)
<1>1. n \in Nat /\ n >= 1 /\ DOMAIN s = 1..n /\ Head(s) = s[1] /\ s[1] \in T
  OBVIOUS
<1>2. /\ q \in Seq(T) /\ DOMAIN q = 1..(n - 1)
      /\ \A i \in 1..(n - 1) : q[i] = s[i + 1]
  OBVIOUS
<1> HIDE DEF q, n
<1>3. \A i \in 1..(n - 1) : i + 1 \in 1..n /\ i + 1 # 1
  BY <1>1
<1>4. \A i \in 1..n : i = 1 \/ (i - 1 \in 1..(n - 1) /\ (i - 1) + 1 = i)
  BY <1>1
<1>5. 1 \in 1..n
  BY <1>1
<1>6. IsInjective(q)
  <2> SUFFICES ASSUME NEW i \in 1..(n - 1), NEW j \in 1..(n - 1), q[i] = q[j]
               PROVE  i = j
    BY <1>2 DEF IsInjective
  <2>1. i + 1 = j + 1
    BY Zenon, <1>1, <1>2, <1>3 DEF IsInjective
  <2> QED
    BY <1>1, <2>1
<1>7. \A i \in 1..(n - 1) : q[i] # s[1] /\ q[i] \in Range(s)
  <2>1. \A i \in 1..n : s[i] \in Range(s)
    BY <1>1 DEF Range
  <2>2. \A i \in 1..n : i # 1 => s[i] # s[1]
    BY <1>1, <1>5 DEF IsInjective
  <2> QED
    BY <1>2, <1>3, <2>1, <2>2
<1>8. \A i \in 1..n : s[i] = s[1] \/ s[i] \in Range(q)
  <2>1. \A j \in 1..(n - 1) : q[j] \in Range(q)
    BY <1>2 DEF Range
  <2> QED
    BY <1>2, <1>4, <2>1
<1>9. s[1] \in Range(s)
  BY <1>1, <1>5 DEF Range
<1> QED
  BY <1>1, <1>2, <1>6, <1>7, <1>8, <1>9 DEF q, Range

\* A queue of one bundle, and the empty one.
LEMMA OneDistinct ==
  ASSUME NEW T, NEW e \in T
  PROVE  /\ <<e>> \in Seq(T) /\ <<e>> # <<>> /\ IsInjective(<<e>>) /\ Range(<<e>>) = {e}
         /\ Head(<<e>>) = e /\ Tail(<<e>>) = <<>>
         /\ <<>> \in Seq(T) /\ IsInjective(<<>>) /\ Range(<<>>) = {}
<1>1. DOMAIN <<e>> = {1} /\ <<e>>[1] = e /\ DOMAIN <<>> = {}
  OBVIOUS
<1>2. Range(<<e>>) = {e} /\ Range(<<>>) = {}
  BY <1>1 DEF Range
<1> QED
  BY <1>1, <1>2 DEF IsInjective

-----------------------------------------------------------------------------
\* What LockAll and UnlockAll do to one count.
LEMMA OneCount ==
  ASSUME NEW l, NEW batch, NEW idxs, NEW mode \in Modes, NEW a \in Accounts
  PROVE  LET n == Cardinality(Users(batch, idxs, mode, a))
         IN  /\ LockAll(l, batch, idxs)[mode][a] = l[mode][a] + n
             /\ UnlockAll(l, batch, idxs)[mode][a] =
                  IF l[mode][a] > n THEN l[mode][a] - n ELSE 0
<1>1. CASE mode = "write"
  BY <1>1 DEF LockAll, UnlockAll, Raise, Lower
<1>2. CASE mode = "read"
  BY <1>2 DEF LockAll, UnlockAll, Raise, Lower
<1> QED
  BY <1>1, <1>2 DEF Modes

\* A batch has finitely many transactions that use an account.
LEMMA UsersAreFinite ==
  ASSUME NEW T, NEW batch \in Seq(T), NEW idxs \in SUBSET DOMAIN batch, NEW mode, NEW a
  PROVE  /\ IsFiniteSet(Users(batch, idxs, mode, a))
         /\ Cardinality(Users(batch, idxs, mode, a)) \in Nat
<1>1. DOMAIN batch = 1..Len(batch) /\ Len(batch) \in Int /\ 1 \in Int
  OBVIOUS
<1>2. IsFiniteSet(DOMAIN batch)
  BY <1>1, FS_Interval
<1>3. Users(batch, idxs, mode, a) \in SUBSET DOMAIN batch
  BY DEF Users
<1> QED
  BY <1>2, <1>3, FS_Subset, FS_CardinalityType

\* A single transaction counts once, if it uses the account.
LEMMA UsersOfOne ==
  ASSUME NEW x, NEW mode, NEW a
  PROVE  Cardinality(Users(<<x>>, {1}, mode, a)) = IF a \in Access[x][mode] THEN 1 ELSE 0
<1>1. <<x>>[1] = x
  OBVIOUS
<1>2. CASE a \in Access[x][mode]
  <2>1. Users(<<x>>, {1}, mode, a) = {1}
    BY <1>1, <1>2 DEF Users
  <2> QED
    BY Zenon, <1>2, <2>1, FS_Singleton
<1>3. CASE a \notin Access[x][mode]
  <2>1. Users(<<x>>, {1}, mode, a) = {}
    BY <1>1, <1>3 DEF Users
  <2> QED
    BY <1>3, <2>1, FS_EmptySet
<1> QED
  BY <1>2, <1>3

\* One more bundle in the window: its transactions are counted too.
LEMMA OneMoreBundle ==
  ASSUME NEW bs \in SUBSET Bundles, NEW b \in Bundles, b \notin bs,
         NEW mode, NEW a, IsFiniteSet(PreLockers(bs, mode, a))
  PROVE  LET all == PreLockers(bs \cup {b}, mode, a)
         IN  /\ IsFiniteSet(all)
             /\ Cardinality(all) = Cardinality(PreLockers(bs, mode, a))
                                     + Cardinality(Users(Bundle[b], DOMAIN Bundle[b], mode, a))
<1> DEFINE U == Users(Bundle[b], DOMAIN Bundle[b], mode, a)
           P == {<<b, i>> : i \in U}
           Q == PreLockers(bs, mode, a)
           f == [i \in U |-> <<b, i>>]
<1>1. IsFiniteSet(U) /\ Cardinality(U) \in Nat
  BY UsersAreFinite, LeaderBankAssumption
<1>2. f \in Bijection(U, P)
  <2>1. f \in [U -> P] /\ \A i \in U : f[i] = <<b, i>>
    OBVIOUS
  <2>2. \A p \in P : \E i \in U : p = <<b, i>>
    OBVIOUS
  <2>3. \A i, j \in U : <<b, i>> = <<b, j>> => i = j
    OBVIOUS
  <2> HIDE DEF f, P, U
  <2>4. IsInjective(f)
    BY <2>1, <2>3 DEF IsInjective
  <2> QED
    BY <2>1, <2>2, <2>4 DEF Bijection, Injection, Surjection
<1>3. IsFiniteSet(P) /\ Cardinality(P) = Cardinality(U)
  <2> HIDE DEF f, P, U
  <2> QED
    BY <1>1, <1>2, FS_Bijection DEF ExistsBijection
<1>4. PreLockers(bs \cup {b}, mode, a) = Q \cup P
  BY DEF PreLockers
<1>5. Q \cap P = {}
  BY DEF PreLockers
<1> HIDE DEF P, Q, U, f
<1>6. IsFiniteSet(Q) /\ Cardinality(Q) \in Nat
  BY FS_CardinalityType DEF Q
<1>7. /\ IsFiniteSet(Q \cup P)
      /\ Cardinality(Q \cup P) = Cardinality(Q) + Cardinality(P) - Cardinality(Q \cap P)
  BY <1>3, <1>6, FS_Union
<1>8. Cardinality(Q \cap P) = 0
  BY <1>5, FS_EmptySet
<1>9. Cardinality(Q \cup P) = Cardinality(Q) + Cardinality(U)
  BY <1>1, <1>3, <1>6, <1>7, <1>8
<1> QED
  BY Zenon, <1>4, <1>7, <1>9 DEF Q, U

\* A set that counts 0 is empty.
LEMMA ZeroIsEmpty ==
  ASSUME NEW S, IsFiniteSet(S), Cardinality(S) = 0
  PROVE  S = {}
BY FS_EmptySet

\* can_lock_accounts: what passes conflicts with nothing that is counted.
LEMMA FreeOfConflict ==
  ASSUME NEW l, NEW x \in DOMAIN Access, NEW y \in DOMAIN Access,
         can_lock_accounts(l, x),
         \A mode \in Modes, a \in Accounts : l[mode][a] = 0 => a \notin Access[y][mode]
  PROVE  ~ Conflict(x, y)
<1>1. \A a \in Touched(x) \cup Touched(y) : a \in Accounts
  BY AccessAssumption DEF Touched
<1>2. \A a \in Touched(x) : a \notin Access[y].write
  BY <1>1 DEF can_lock_accounts, Modes
<1>3. \A a \in Access[x].write : a \notin Access[y].write /\ a \notin Access[y].read
  BY <1>1 DEF can_lock_accounts, Modes, Touched
<1> QED
  BY <1>2, <1>3 DEF Conflict, Touched

-----------------------------------------------------------------------------
\* The banking transactions that hold a lock are finitely many.
LEMMA UsingIsFinite ==
  ASSUME NEW mode, NEW a
  PROVE  IsFiniteSet(Using(mode, a)) /\ Cardinality(Using(mode, a)) \in Nat
<1>1. Using(mode, a) \in SUBSET Txs
  BY DEF Using, Holders
<1> QED
  BY <1>1, FS_Subset, FS_CardinalityType, LeaderBankAssumption

\* So are the transactions of the front bundle.
LEMMA HeldIsFinite ==
  ASSUME ControlInv, NEW mode, NEW a
  PROVE  /\ IsFiniteSet(Users(Bundle[Current], held, mode, a))
         /\ Cardinality(Users(Bundle[Current], held, mode, a)) \in Nat
<1>1. CASE window = <<>>
  <2>1. Users(Bundle[Current], held, mode, a) = {}
    BY <1>1 DEF ControlInv, HeldInv, Users
  <2> QED
    BY <2>1, FS_EmptySet
<1>2. CASE window # <<>>
  <2>1. Current \in Bundles
    BY <1>2 DEF ControlInv, TypeOK, Current
  <2>2. Bundle[Current] \in Seq(DOMAIN Access)
    BY <2>1, LeaderBankAssumption
  <2>3. held \in SUBSET DOMAIN Bundle[Current]
    BY <1>2 DEF ControlInv, HeldInv, All
  <2> QED
    BY <2>2, <2>3, UsersAreFinite
<1> QED
  BY <1>1, <1>2

\* The transactions of the front bundle are known to Access.
LEMMA FrontTransactions ==
  ASSUME ControlInv, NEW i \in held
  PROVE  Bundle[Current][i] \in DOMAIN Access
<1>1. window # <<>> /\ i \in DOMAIN Bundle[Current]
  BY DEF ControlInv, HeldInv, All
<1>2. Current \in Bundles
  BY <1>1 DEF ControlInv, TypeOK, Current
<1> QED
  BY <1>1, <1>2, LeaderBankAssumption

\* The two counts of an account.
LEMMA LockCount ==
  ASSUME LockInv, NEW mode \in Modes, NEW a \in Accounts
  PROVE  /\ locks[mode][a] = Cardinality(Using(mode, a))
                               + Cardinality(Users(Bundle[Current], held, mode, a))
         /\ prelocks[mode][a] = Cardinality(PreLockers(Range(window), mode, a))
         /\ IsFiniteSet(PreLockers(Range(window), mode, a))
BY Zenon DEF LockInv, CountInv, LocksAreHeld, Using, Modes, FiniteInv

\* An account that is not locked has no holder.
LEMMA UnlockedIsFree ==
  ASSUME LockInv, NEW mode \in Modes, NEW a \in Accounts, locks[mode][a] = 0
  PROVE  /\ \A y \in Holders : a \notin Access[y][mode]
         /\ \A i \in held : a \notin Access[Bundle[Current][i]][mode]
<1> DEFINE U == Users(Bundle[Current], held, mode, a)
<1>1. IsFiniteSet(Using(mode, a)) /\ Cardinality(Using(mode, a)) \in Nat
  BY UsingIsFinite
<1>2. IsFiniteSet(U) /\ Cardinality(U) \in Nat
  BY HeldIsFinite DEF LockInv
<1>3. Cardinality(Using(mode, a)) = 0 /\ Cardinality(U) = 0
  BY <1>1, <1>2, LockCount
<1>4. Using(mode, a) = {} /\ U = {}
  BY <1>1, <1>2, <1>3, ZeroIsEmpty
<1> QED
  BY <1>4 DEF Using, Users

\* An account that is not pre-locked is used by no bundle in the window.
LEMMA NotPrelockedIsFree ==
  ASSUME LockInv, NEW mode \in Modes, NEW a \in Accounts, prelocks[mode][a] = 0
  PROVE  \A b \in Range(window) : \A i \in DOMAIN Bundle[b] : a \notin Access[Bundle[b][i]][mode]
<1>1. PreLockers(Range(window), mode, a) = {}
  BY LockCount, ZeroIsEmpty
<1>2. ASSUME NEW b \in Range(window), NEW i \in DOMAIN Bundle[b],
             a \in Access[Bundle[b][i]][mode]
      PROVE  FALSE
  <2>1. i \in Users(Bundle[b], DOMAIN Bundle[b], mode, a)
    BY <1>2 DEF Users
  <2>2. <<b, i>> \in PreLockers(Range(window), mode, a)
    BY <2>1 DEF PreLockers
  <2> QED
    BY <1>1, <2>2
<1> QED
  BY <1>2

\* What can be locked conflicts with no holder.
LEMMA LockableIsFree ==
  ASSUME LockInv, NEW x \in DOMAIN Access, can_lock_accounts(locks, x)
  PROVE  /\ \A y \in Holders : ~ Conflict(x, y)
         /\ \A i \in held : ~ Conflict(x, Bundle[Current][i])
<1>1. ASSUME NEW y \in Holders PROVE ~ Conflict(x, y)
  <2>1. y \in DOMAIN Access
    BY LeaderBankAssumption DEF Holders
  <2>2. \A mode \in Modes, a \in Accounts : locks[mode][a] = 0 => a \notin Access[y][mode]
    BY UnlockedIsFree
  <2> QED
    BY <2>1, <2>2, FreeOfConflict
<1>2. ASSUME NEW i \in held PROVE ~ Conflict(x, Bundle[Current][i])
  <2>1. Bundle[Current][i] \in DOMAIN Access
    BY FrontTransactions DEF LockInv
  <2>2. \A mode \in Modes, a \in Accounts :
          locks[mode][a] = 0 => a \notin Access[Bundle[Current][i]][mode]
    BY UnlockedIsFree
  <2> QED
    BY <2>1, <2>2, FreeOfConflict
<1> QED
  BY <1>1, <1>2

\* What passes the pre-locks conflicts with no bundle in the window.
LEMMA PrelockableIsFree ==
  ASSUME LockInv, NEW x \in DOMAIN Access, can_lock_accounts(prelocks, x),
         NEW b \in Range(window)
  PROVE  \A tx \in Range(Bundle[b]) : ~ Conflict(x, tx)
<1> SUFFICES ASSUME NEW i \in DOMAIN Bundle[b] PROVE ~ Conflict(x, Bundle[b][i])
  BY DEF Range
<1>1. b \in Bundles
  BY RangeOfSequence DEF LockInv, ControlInv, TypeOK
<1>2. Bundle[b][i] \in DOMAIN Access
  BY <1>1, LeaderBankAssumption
<1>3. \A mode \in Modes, a \in Accounts :
        prelocks[mode][a] = 0 => a \notin Access[Bundle[b][i]][mode]
  BY NotPrelockedIsFree
<1> QED
  BY <1>2, <1>3, FreeOfConflict

-----------------------------------------------------------------------------
\* Nothing changes who holds a lock.
LEMMA HoldersKept ==
  ASSUME LockInv, Holders' = Holders, UNCHANGED <<locks, prelocks, held, window>>
  PROVE  CountInv'
<1>1. LocksAreHeld'
  BY Zenon DEF LockInv, CountInv, LocksAreHeld, Current
<1>2. FiniteInv' /\ Exclusive'
  BY DEF LockInv, CountInv, FiniteInv, Exclusive, Current
<1> QED
  BY <1>1, <1>2 DEF CountInv

\* A worker or the vote worker locks the accounts of a transaction.
LEMMA HolderAdded ==
  ASSUME LockInv, NEW x \in Txs, x \notin Holders, can_lock_accounts(locks, x),
         locks' = lock_accounts(locks, x), Holders' = Holders \cup {x},
         UNCHANGED <<prelocks, held, window>>
  PROVE  CountInv'
<1>1. ASSUME NEW mode \in Modes, NEW a \in Accounts
      PROVE  locks'[mode][a] = Cardinality({y \in Holders' : a \in Access[y][mode]})
                                 + Cardinality(Users(Bundle[Current'], held', mode, a))
  <2> DEFINE S == Using(mode, a)
             n == IF a \in Access[x][mode] THEN 1 ELSE 0
             U == Users(Bundle[Current], held, mode, a)
  <2>1. locks'[mode][a] = locks[mode][a] + n
    BY OneCount, UsersOfOne DEF lock_accounts
  <2>2. {y \in Holders' : a \in Access[y][mode]} = IF a \in Access[x][mode] THEN S \cup {x} ELSE S
    BY DEF Using
  <2>3. IsFiniteSet(S) /\ Cardinality(S) \in Nat /\ x \notin S
    BY Zenon, UsingIsFinite DEF Using
  <2>4. Cardinality({y \in Holders' : a \in Access[y][mode]}) = Cardinality(S) + n
    <3>1. Cardinality(S \cup {x}) = IF x \in S THEN Cardinality(S) ELSE Cardinality(S) + 1
      BY Zenon, <2>3, FS_AddElement
    <3>2. CASE a \in Access[x][mode]
      BY Zenon, <2>2, <2>3, <3>1, <3>2
    <3>3. CASE a \notin Access[x][mode]
      <4>1. {y \in Holders' : a \in Access[y][mode]} = S
        BY Zenon, <2>2, <3>3
      <4>2. n = 0
        BY <3>3
      <4> HIDE DEF S, n
      <4>3. Cardinality(S) = Cardinality(S) + n
        BY <2>3, <4>2
      <4> QED
        BY Zenon, <4>1, <4>3
    <3> QED
      BY <3>2, <3>3
  <2>5. locks[mode][a] = Cardinality(S) + Cardinality(U) /\ Cardinality(U) \in Nat
    BY LockCount, HeldIsFinite DEF LockInv
  <2>6. U = Users(Bundle[Current'], held', mode, a)
    BY DEF Current
  <2>7. n \in Nat
    OBVIOUS
  <2> HIDE DEF S, n, U
  <2> QED
    BY <2>1, <2>3, <2>4, <2>5, <2>6, <2>7
<1>2. LocksAreHeld'
  <2>1. \A mode \in Modes, a \in Accounts :
          prelocks'[mode][a] = Cardinality(PreLockers(Range(window'), mode, a))
    BY LockCount
  <2> QED
    BY <1>1, <2>1 DEF LocksAreHeld, Modes
<1>3. FiniteInv'
  BY DEF LockInv, CountInv, FiniteInv
<1>4. Exclusive'
  <2>1. x \in DOMAIN Access
    BY LeaderBankAssumption
  <2>2. /\ \A y \in Holders : ~ Conflict(x, y) /\ ~ Conflict(y, x)
        /\ \A i \in held : ~ Conflict(x, Bundle[Current][i])
    BY <2>1, LockableIsFree DEF Conflict
  <2> QED
    BY <2>2 DEF LockInv, CountInv, Exclusive, Current
<1> QED
  BY <1>2, <1>3, <1>4 DEF CountInv

\* The batch of a banking transaction is dropped.
LEMMA HolderGone ==
  ASSUME LockInv, NEW x \in Holders,
         locks' = unlock_accounts(locks, x), Holders' = Holders \ {x},
         UNCHANGED <<prelocks, held, window>>
  PROVE  CountInv'
<1>1. ASSUME NEW mode \in Modes, NEW a \in Accounts
      PROVE  locks'[mode][a] = Cardinality({y \in Holders' : a \in Access[y][mode]})
                                 + Cardinality(Users(Bundle[Current'], held', mode, a))
  <2> DEFINE S == Using(mode, a)
             n == IF a \in Access[x][mode] THEN 1 ELSE 0
             U == Users(Bundle[Current], held, mode, a)
  <2>1. locks'[mode][a] = IF locks[mode][a] > n THEN locks[mode][a] - n ELSE 0
    BY OneCount, UsersOfOne DEF unlock_accounts
  <2>2. {y \in Holders' : a \in Access[y][mode]} = IF a \in Access[x][mode] THEN S \ {x} ELSE S
    BY DEF Using
  <2>3. IsFiniteSet(S) /\ Cardinality(S) \in Nat /\ (a \in Access[x][mode] => x \in S)
    BY UsingIsFinite DEF Using
  <2>4. Cardinality({y \in Holders' : a \in Access[y][mode]}) = Cardinality(S) - n
    <3>1. Cardinality(S \ {x}) = IF x \in S THEN Cardinality(S) - 1 ELSE Cardinality(S)
      BY Zenon, <2>3, FS_RemoveElement
    <3>2. CASE a \in Access[x][mode]
      BY Zenon, <2>2, <2>3, <3>1, <3>2
    <3>3. CASE a \notin Access[x][mode]
      <4>1. {y \in Holders' : a \in Access[y][mode]} = S
        BY Zenon, <2>2, <3>3
      <4>2. n = 0
        BY <3>3
      <4> HIDE DEF S, n
      <4>3. Cardinality(S) = Cardinality(S) - n
        BY <2>3, <4>2
      <4> QED
        BY Zenon, <4>1, <4>3
    <3> QED
      BY <3>2, <3>3
  <2>5. locks[mode][a] = Cardinality(S) + Cardinality(U) /\ Cardinality(U) \in Nat
    BY LockCount, HeldIsFinite DEF LockInv
  <2>6. U = Users(Bundle[Current'], held', mode, a)
    BY DEF Current
  <2>7. n \in Nat /\ n <= Cardinality(S)
    <3>1. a \in Access[x][mode] => Cardinality(S) # 0
      BY <2>3, ZeroIsEmpty
    <3> HIDE DEF S
    <3> QED
      BY <2>3, <3>1
  <2> HIDE DEF S, n, U
  <2> QED
    BY <2>1, <2>3, <2>4, <2>5, <2>6, <2>7
<1>2. LocksAreHeld'
  <2>1. \A mode \in Modes, a \in Accounts :
          prelocks'[mode][a] = Cardinality(PreLockers(Range(window'), mode, a))
    BY LockCount
  <2> QED
    BY <1>1, <2>1 DEF LocksAreHeld, Modes
<1>3. FiniteInv' /\ Exclusive'
  BY DEF LockInv, CountInv, FiniteInv, Exclusive, Current
<1> QED
  BY <1>2, <1>3 DEF CountInv

\* try_lock_batch locks what it can of the front bundle, which held
\* nothing before.
LEMMA BatchLocked ==
  ASSUME LockInv, window # <<>>, held = {}, held' = Lockable(locks, Bundle[Current]),
         locks' = LockAll(locks, Bundle[Current], held'),
         Holders' = Holders, UNCHANGED <<prelocks, window>>
  PROVE  CountInv'
<1>0. Current' = Current
  BY DEF Current
<1>1. ASSUME NEW mode \in Modes, NEW a \in Accounts
      PROVE  locks'[mode][a] = Cardinality({y \in Holders' : a \in Access[y][mode]})
                                 + Cardinality(Users(Bundle[Current'], held', mode, a))
  <2>1. \A h : LockAll(locks, Bundle[Current], h)[mode][a] =
                 locks[mode][a] + Cardinality(Users(Bundle[Current], h, mode, a))
    BY OneCount
  <2>2. Cardinality(Users(Bundle[Current], held, mode, a)) = 0
    <3>1. Users(Bundle[Current], held, mode, a) = {}
      BY DEF Users
    <3> QED
      BY Zenon, <3>1, FS_EmptySet
  <2>3. locks[mode][a] = Cardinality(Using(mode, a))
    BY <2>2, LockCount, UsingIsFinite
  <2> QED
    BY <1>0, <2>1, <2>3 DEF Using
<1>2. LocksAreHeld'
  <2>1. \A mode \in Modes, a \in Accounts :
          prelocks'[mode][a] = Cardinality(PreLockers(Range(window'), mode, a))
    BY LockCount
  <2> QED
    BY <1>1, <2>1 DEF LocksAreHeld, Modes
<1>3. FiniteInv'
  BY DEF LockInv, CountInv, FiniteInv
<1>4. Exclusive'
  <2>1. Current \in Bundles
    BY DEF LockInv, ControlInv, TypeOK, Current
  <2>2. \A i \in held' : /\ Bundle[Current][i] \in DOMAIN Access
                         /\ can_lock_accounts(locks, Bundle[Current][i])
    BY <2>1, LeaderBankAssumption DEF Lockable
  <2>3. \A y \in Holders : \A i \in held' : ~ Conflict(y, Bundle[Current][i])
    BY <2>2, LockableIsFree DEF Conflict
  <2> QED
    BY <1>0, <2>3 DEF LockInv, CountInv, Exclusive
<1> QED
  BY <1>2, <1>3, <1>4 DEF CountInv

\* The batch of the front bundle is dropped.
LEMMA BatchDropped ==
  ASSUME LockInv, DropBatch, Holders' = Holders, UNCHANGED <<prelocks, window>>
  PROVE  CountInv'
<1>1. ASSUME NEW mode \in Modes, NEW a \in Accounts
      PROVE  locks'[mode][a] = Cardinality({y \in Holders' : a \in Access[y][mode]})
                                 + Cardinality(Users(Bundle[Current'], held', mode, a))
  <2> DEFINE S == Using(mode, a)
             U == Users(Bundle[Current], held, mode, a)
             n == Cardinality(U)
  <2>1. locks'[mode][a] = IF locks[mode][a] > n THEN locks[mode][a] - n ELSE 0
    BY SMTT(20), OneCount DEF DropBatch
  <2>2. locks[mode][a] = Cardinality(S) + n /\ Cardinality(S) \in Nat /\ n \in Nat
    BY LockCount, UsingIsFinite, HeldIsFinite DEF LockInv
  <2>3. Cardinality(Users(Bundle[Current'], held', mode, a)) = 0
    <3>1. Users(Bundle[Current'], held', mode, a) = {}
      BY DEF Users, DropBatch
    <3> QED
      BY <3>1, FS_EmptySet
  <2>4. {y \in Holders' : a \in Access[y][mode]} = S
    BY DEF Using
  <2> HIDE DEF S, U, n
  <2>5. locks'[mode][a] = Cardinality(S) + 0
    BY <2>1, <2>2
  <2> QED
    BY Zenon, <2>3, <2>4, <2>5
<1>2. LocksAreHeld'
  <2>1. \A mode \in Modes, a \in Accounts :
          prelocks'[mode][a] = Cardinality(PreLockers(Range(window'), mode, a))
    BY LockCount
  <2> QED
    BY <1>1, <2>1 DEF LocksAreHeld, Modes
<1>3. FiniteInv' /\ Exclusive'
  BY DEF LockInv, CountInv, FiniteInv, Exclusive, DropBatch
<1> QED
  BY <1>2, <1>3 DEF CountInv

\* A bundle is pre-locked when it enters the window.
LEMMA BundlePrelocked ==
  ASSUME LockInv, NEW b \in Bundles, b \notin Range(window), lock_bundle(b),
         Range(window') = Range(window) \cup {b}, held = {},
         Holders' = Holders, UNCHANGED <<locks, held>>
  PROVE  CountInv'
<1>0. Range(window) \in SUBSET Bundles
  BY SMTT(20), RangeOfSequence DEF LockInv, ControlInv, TypeOK
<1>1. ASSUME NEW mode \in Modes, NEW a \in Accounts
      PROVE  /\ IsFiniteSet(PreLockers(Range(window'), mode, a))
             /\ prelocks'[mode][a] = Cardinality(PreLockers(Range(window'), mode, a))
             /\ locks'[mode][a] = Cardinality({y \in Holders' : a \in Access[y][mode]})
                                    + Cardinality(Users(Bundle[Current'], held', mode, a))
  <2> DEFINE P == PreLockers(Range(window), mode, a)
             n == Cardinality(Users(Bundle[b], DOMAIN Bundle[b], mode, a))
  <2>1. prelocks'[mode][a] = prelocks[mode][a] + n
    BY OneCount DEF lock_bundle
  <2>2. prelocks[mode][a] = Cardinality(P) /\ IsFiniteSet(P)
    BY LockCount
  <2>3. /\ IsFiniteSet(PreLockers(Range(window) \cup {b}, mode, a))
        /\ Cardinality(PreLockers(Range(window) \cup {b}, mode, a)) = Cardinality(P) + n
    BY <1>0, <2>2, OneMoreBundle
  <2>4. Users(Bundle[Current'], held', mode, a) = Users(Bundle[Current], held, mode, a)
    BY DEF Users
  <2>5. locks[mode][a] = Cardinality(Using(mode, a))
                           + Cardinality(Users(Bundle[Current], held, mode, a))
    BY LockCount
  <2> QED
    BY SMTT(20), <2>1, <2>2, <2>3, <2>4, <2>5 DEF Using
<1>2. LocksAreHeld' /\ FiniteInv'
  BY Zenon, <1>1 DEF LocksAreHeld, FiniteInv, Modes
<1>3. Exclusive'
  BY DEF LockInv, CountInv, Exclusive
<1> QED
  BY <1>2, <1>3 DEF CountInv

\* unlock_bundle takes back what lock_bundle counted.
LEMMA BundleReleased ==
  ASSUME LockInv, NEW b \in Bundles, NEW bs \in SUBSET Bundles, b \notin bs, unlock_bundle(b),
         Range(window) = bs \cup {b}, Range(window') = bs, held = {},
         Holders' = Holders, UNCHANGED <<locks, held>>
  PROVE  CountInv'
<1>1. ASSUME NEW mode \in Modes, NEW a \in Accounts
      PROVE  /\ IsFiniteSet(PreLockers(Range(window'), mode, a))
             /\ prelocks'[mode][a] = Cardinality(PreLockers(Range(window'), mode, a))
             /\ locks'[mode][a] = Cardinality({y \in Holders' : a \in Access[y][mode]})
                                    + Cardinality(Users(Bundle[Current'], held', mode, a))
  <2> DEFINE P == PreLockers(bs, mode, a)
             U == Users(Bundle[b], DOMAIN Bundle[b], mode, a)
             n == Cardinality(U)
  <2>1. prelocks'[mode][a] = IF prelocks[mode][a] > n THEN prelocks[mode][a] - n ELSE 0
    BY OneCount DEF unlock_bundle
  <2>2. /\ prelocks[mode][a] = Cardinality(PreLockers(bs \cup {b}, mode, a))
        /\ IsFiniteSet(PreLockers(bs \cup {b}, mode, a))
    BY Zenon, LockCount
  <2>3. IsFiniteSet(P) /\ Cardinality(P) \in Nat
    <3>1. P \in SUBSET PreLockers(bs \cup {b}, mode, a)
      BY DEF PreLockers
    <3> QED
      BY Zenon, <2>2, <3>1, FS_Subset, FS_CardinalityType
  <2>4. Cardinality(PreLockers(bs \cup {b}, mode, a)) = Cardinality(P) + n
    BY <2>3, OneMoreBundle
  <2>5. n \in Nat
    BY UsersAreFinite, LeaderBankAssumption
  <2>6. Users(Bundle[Current'], held', mode, a) = Users(Bundle[Current], held, mode, a)
    BY DEF Users
  <2>7. locks[mode][a] = Cardinality(Using(mode, a))
                           + Cardinality(Users(Bundle[Current], held, mode, a))
    BY LockCount
  <2>8. prelocks'[mode][a] = Cardinality(P)
    <3> HIDE DEF P, n
    <3> QED
      BY <2>1, <2>2, <2>3, <2>4, <2>5
  <2> QED
    BY <2>3, <2>6, <2>7, <2>8 DEF Using
<1>2. LocksAreHeld' /\ FiniteInv'
  BY Zenon, <1>1 DEF LocksAreHeld, FiniteInv, Modes
<1>3. Exclusive'
  BY DEF LockInv, CountInv, Exclusive
<1> QED
  BY <1>2, <1>3 DEF CountInv

-----------------------------------------------------------------------------
\* One transaction of the banking stage changes its status.
LEMMA StatusChange ==
  ASSUME ControlInv, NEW x \in Txs, NEW s \in Statuses, status' = [status EXCEPT ![x] = s]
  PROVE  /\ status' \in [Txs -> Statuses]
         /\ status'[x] = s /\ \A y \in Txs : y # x => status'[y] = status[y]
         /\ s \in HoldsAll => Holders' = Holders \cup {x}
         /\ s \notin HoldsAll => Holders' = Holders \ {x}
<1>1. status \in [Txs -> Statuses]
  BY DEF ControlInv, TypeOK
<1>2. /\ status' \in [Txs -> Statuses]
      /\ status'[x] = s /\ \A y \in Txs : y # x => status'[y] = status[y]
  BY <1>1
<1> QED
  BY <1>2 DEF Holders, HoldsAll

\* The banking stage touches nothing of the bundle stage.
LEMMA BankingControl ==
  ASSUME ControlInv, UNCHANGED <<tips, stored, window, at, held>>,
         status' \in [Txs -> Statuses], DOMAIN saw' = Units, log' \in Seq(Units), SentInv'
  PROVE  ControlInv'
<1>1. TypeOK'
  BY DEF ControlInv, TypeOK
<1>2. QueuesInv' /\ HeldInv'
  BY DEF ControlInv, QueuesInv, HeldInv, All, Current
<1> QED
  BY <1>1, <1>2 DEF ControlInv

\* So when one transaction changes its status, only that is to be checked.
LEMMA OneStatusControl ==
  ASSUME ControlInv, NEW x \in Txs, NEW s \in Statuses, status' = [status EXCEPT ![x] = s],
         s \in {"sent", "retryable", "removable"} => x \notin Votes,
         UNCHANGED stage, DOMAIN saw' = Units, log' \in Seq(Units)
  PROVE  ControlInv'
<1>1. UNCHANGED <<tips, stored, window, at, held>>
  BY DEF stage
<1>2. status' \in [Txs -> Statuses]
  BY Zenon, StatusChange
<1>3. SentInv'
  BY StatusChange DEF ControlInv, SentInv
<1> QED
  BY <1>1, <1>2, <1>3, BankingControl

\* Sending a transaction to a worker takes no lock.
LEMMA ScheduleKeepsLocks ==
  ASSUME LockInv, NEW x \in Txs, NEW t, try_schedule_transaction(x, t)
  PROVE  LockInv'
<1>1. /\ status[x] = "queued" /\ x \notin Votes
      /\ status' = [status EXCEPT ![x] = "sent"]
      /\ UNCHANGED <<locks, prelocks, stage, saw, log>>
  BY DEF try_schedule_transaction
<1>2. ControlInv
  BY DEF LockInv
<1>3. "sent" \in Statuses /\ "sent" \notin HoldsAll
  BY DEF Statuses, HoldsAll
<1>4. ControlInv'
  BY Zenon, <1>1, <1>2, <1>3, OneStatusControl DEF ControlInv, TypeOK
<1>5. Holders' = Holders
  <2>1. Holders' = Holders \ {x}
    BY Zenon, <1>1, <1>2, <1>3, StatusChange
  <2> QED
    BY <1>1, <2>1 DEF Holders
<1>6. CountInv'
  BY <1>1, <1>5, HoldersKept DEF stage
<1> QED
  BY <1>4, <1>6 DEF LockInv

\* A worker, or the vote worker, locks a transaction that conflicts with no
\* holder: prepare_sanitized_batch.
LEMMA LockKeepsLocks ==
  ASSUME LockInv, NEW x \in Txs, LockWork(x) \/ LockVote(x)
  PROVE  LockInv'
<1>1. /\ status[x] \in {"sent", "queued"} /\ can_lock_accounts(locks, x)
      /\ locks' = lock_accounts(locks, x)
      /\ status' = [status EXCEPT ![x] = "locked"]
      /\ UNCHANGED <<prelocks, stage, saw, log>>
  BY DEF LockWork, LockVote
<1>2. ControlInv
  BY DEF LockInv
<1>3. "locked" \in Statuses /\ "locked" \in HoldsAll
  BY DEF Statuses, HoldsAll
<1>4. ControlInv'
  BY Zenon, <1>1, <1>2, <1>3, OneStatusControl DEF ControlInv, TypeOK
<1>5. Holders' = Holders \cup {x} /\ x \notin Holders
  BY Zenon, <1>1, <1>2, <1>3, StatusChange DEF Holders
<1>6. CountInv'
  BY <1>1, <1>5, HolderAdded DEF stage
<1> QED
  BY <1>4, <1>6 DEF LockInv

\* What comes back to the scheduler holds nothing.
LEMMA ReturnKeepsLocks ==
  ASSUME LockInv, NEW x \in Txs, ReturnWork(x) \/ try_receive_completed(x)
  PROVE  LockInv'
<1>1. PICK s \in {"retryable", "queued", "done"} :
        /\ status[x] \in {"sent", "retryable", "removable"}
        /\ status' = [status EXCEPT ![x] = s]
        /\ UNCHANGED <<locks, prelocks, stage, saw, log>>
  <2>1. CASE ReturnWork(x)
    BY <2>1 DEF ReturnWork
  <2>2. CASE try_receive_completed(x)
    BY Zenon, <2>2 DEF try_receive_completed
  <2> QED
    BY <2>1, <2>2
<1>2. ControlInv
  BY DEF LockInv
<1>3. s \in Statuses /\ s \notin HoldsAll
  BY DEF Statuses, HoldsAll
<1>4. x \notin Votes
  BY <1>1, <1>2 DEF ControlInv, SentInv
<1>5. ControlInv'
  BY Zenon, <1>1, <1>2, <1>3, <1>4, OneStatusControl DEF ControlInv, TypeOK
<1>6. Holders' = Holders
  <2>1. Holders' = Holders \ {x}
    BY Zenon, <1>1, <1>2, <1>3, StatusChange
  <2> QED
    BY <1>1, <2>1 DEF Holders
<1>7. CountInv'
  BY <1>1, <1>6, HoldersKept DEF stage
<1> QED
  BY <1>5, <1>7 DEF LockInv

\* A transaction keeps its locks while it is executed, recorded and committed.
LEMMA WorkKeepsLocks ==
  ASSUME LockInv, NEW x \in Txs, Execute(x) \/ Record(x) \/ Commit(x)
  PROVE  LockInv'
<1>1. PICK s \in HoldsAll : /\ status[x] \in HoldsAll
                            /\ status' = [status EXCEPT ![x] = s]
                            /\ UNCHANGED <<locks, prelocks, stage>>
  BY DEF Execute, Record, Commit, HoldsAll
<1>2. ControlInv
  BY DEF LockInv
<1>3. s \in Statuses /\ s \notin {"sent", "retryable", "removable"}
  BY DEF Statuses, HoldsAll
<1>4. DOMAIN saw' = Units /\ log' \in Seq(Units)
  <2>1. x \in Units /\ DOMAIN saw = Units /\ log \in Seq(Units)
    BY <1>2 DEF Units, ControlInv, TypeOK
  <2>2. DOMAIN saw' = DOMAIN saw
    BY DEF Execute, Record, Commit
  <2>3. log' = log \/ log' = Append(log, x)
    BY DEF Execute, Record, Commit
  <2> QED
    BY <2>1, <2>2, <2>3
<1>5. ControlInv'
  BY Zenon, <1>1, <1>2, <1>3, <1>4, OneStatusControl
<1>6. Holders' = Holders
  <2>1. Holders' = Holders \cup {x}
    BY Zenon, <1>1, <1>2, <1>3, StatusChange
  <2> QED
    BY <1>1, <2>1 DEF Holders, HoldsAll
<1>7. CountInv'
  BY <1>1, <1>6, HoldersKept DEF stage
<1> QED
  BY <1>5, <1>7 DEF LockInv

\* Dropping a batch unlocks what the transaction held, no more and no less.
LEMMA DropKeepsLocks ==
  ASSUME LockInv, NEW x \in Txs, Abandon(x) \/ DropWork(x)
  PROVE  LockInv'
<1>1. PICK result \in {"retryable", "removable"} :
        /\ Finish(x, result) /\ status[x] \in HoldsAll
        /\ DOMAIN saw' = DOMAIN saw
  BY DEF Abandon, DropWork, HoldsAll
<1>2. PICK s \in {"retryable", "removable", "queued", "done"} :
        /\ status' = [status EXCEPT ![x] = s]
        /\ s \in {"retryable", "removable"} => x \notin Votes
  BY <1>1 DEF Finish
<1>3. locks' = unlock_accounts(locks, x) /\ UNCHANGED <<prelocks, stage, log>>
  BY <1>1 DEF Finish
<1>4. ControlInv
  BY DEF LockInv
<1>5. s \in Statuses /\ s \notin HoldsAll /\ s # "sent"
  BY DEF Statuses, HoldsAll
<1>6. ControlInv'
  BY Zenon, <1>1, <1>2, <1>3, <1>4, <1>5, OneStatusControl DEF ControlInv, TypeOK
<1>7. Holders' = Holders \ {x} /\ x \in Holders
  BY Zenon, <1>1, <1>2, <1>4, <1>5, StatusChange DEF Holders, HoldsAll
<1>8. CountInv'
  BY <1>3, <1>7, HolderGone DEF stage
<1> QED
  BY <1>6, <1>8 DEF LockInv

\* The end of the slot leaves the locks alone.
LEMMA SlotKeepsLocks ==
  ASSUME LockInv, CloseRecords \/ Freeze \/ UNCHANGED vars
  PROVE  LockInv'
<1>1. UNCHANGED <<locks, prelocks, tips, stored, window, at, held, status, saw, log>>
  BY DEF CloseRecords, Freeze, vars, stage, banking
<1>2. ControlInv'
  BY <1>1, BankingControl DEF LockInv, ControlInv, TypeOK, SentInv
<1>3. Holders' = Holders
  BY <1>1 DEF Holders
<1> QED
  BY <1>1, <1>2, <1>3, HoldersKept DEF LockInv

-----------------------------------------------------------------------------
\* A step of the stage within the processing of the front bundle.
LEMMA FrontControl ==
  ASSUME ControlInv, at # "fill", at' # "fill", at' \in Places,
         UNCHANGED <<tips, stored, window, status>>,
         DOMAIN saw' = Units, log' \in Seq(Units), HeldInv'
  PROVE  ControlInv' /\ Holders' = Holders
<1>1. TypeOK'
  BY DEF ControlInv, TypeOK
<1>2. QueuesInv'
  BY DEF ControlInv, QueuesInv
<1>3. SentInv' /\ Holders' = Holders
  BY DEF ControlInv, SentInv, Holders
<1> QED
  BY <1>1, <1>2, <1>3 DEF ControlInv

\* Whenever the stage is at work there is a front bundle.
LEMMA FrontExists ==
  ASSUME ControlInv, at # "fill"
  PROVE  window # <<>> /\ Current \in Bundles /\ Current \in Units
BY DEF ControlInv, QueuesInv, TypeOK, Current, Units

\* The stage holds nothing while it checks the front bundle.
LEMMA CheckKeepsLocks ==
  ASSUME LockInv, CheckBundle
  PROVE  LockInv'
<1>1. /\ at = "front" /\ at' \in {"try", "failed"}
      /\ UNCHANGED <<locks, prelocks, tips, stored, window, held, status, saw, log>>
  BY DEF CheckBundle, banking
<1>2. ControlInv /\ held = {}
  BY <1>1 DEF LockInv, ControlInv, HeldInv, HoldsAll
<1>3. HeldInv'
  BY <1>1, <1>2 DEF HeldInv, HoldsAll
<1>4. ControlInv' /\ Holders' = Holders
  BY <1>1, <1>2, <1>3, FrontControl DEF ControlInv, TypeOK, Places
<1> QED
  BY <1>1, <1>4, HoldersKept DEF LockInv

\* The bundle's batch locks the transactions that conflict with no holder.
LEMMA TryLockKeepsLocks ==
  ASSUME LockInv, TryLockBatch
  PROVE  LockInv'
<1> DEFINE ok == Lockable(locks, Bundle[Current])
<1>1. /\ at = "try" /\ held' = ok /\ locks' = LockAll(locks, Bundle[Current], ok)
      /\ at' = IF ok = All THEN "locked" ELSE "asleep"
      /\ UNCHANGED <<prelocks, tips, stored, window, status, saw, log>>
  BY DEF TryLockBatch, banking
<1>2. ControlInv /\ held = {} /\ window # <<>>
  BY <1>1 DEF LockInv, ControlInv, HeldInv, QueuesInv, HoldsAll
<1>3. ok \subseteq All /\ All' = All
  BY <1>1 DEF Lockable, All, Current
<1> HIDE DEF ok
<1>4. HeldInv'
  BY <1>1, <1>2, <1>3 DEF HeldInv, HoldsAll
<1>5. at' \in Places /\ at' # "fill"
  BY <1>1 DEF Places
<1>6. ControlInv' /\ Holders' = Holders
  BY <1>1, <1>2, <1>4, <1>5, FrontControl DEF ControlInv, TypeOK
<1>7. CountInv'
  BY <1>1, <1>2, <1>6, BatchLocked DEF ok
<1> QED
  BY <1>6, <1>7 DEF LockInv

\* Dropping the batch of the bundle unlocks what it had locked, all of it or
\* only a part.
LEMMA DropBatchKeepsLocks ==
  ASSUME LockInv, WakeUp \/ GiveUp \/ AbandonBundle \/ DropBundleBatch
  PROVE  LockInv'
<1>1. /\ at \in {"asleep", "executed", "committed"} /\ at' \in {"try", "failed", "done"}
      /\ DropBatch
      /\ UNCHANGED <<prelocks, tips, stored, window, status, log>>
      /\ DOMAIN saw' = DOMAIN saw
  BY DEF WakeUp, GiveUp, AbandonBundle, DropBundleBatch, banking
<1>2. ControlInv
  BY DEF LockInv
<1>3. HeldInv'
  BY <1>1 DEF DropBatch, HeldInv, HoldsAll
<1>4. ControlInv' /\ Holders' = Holders
  BY <1>1, <1>2, <1>3, FrontControl DEF ControlInv, TypeOK, Places
<1> QED
  BY <1>1, <1>4, BatchDropped DEF LockInv

\* The bundle keeps its locks while it is executed, recorded and committed.
LEMMA FrontKeepsLocks ==
  ASSUME LockInv, ExecuteBundle \/ RecordBundle \/ CommitBundle
  PROVE  LockInv'
<1>1. /\ at \in HoldsAll /\ at' \in HoldsAll
      /\ UNCHANGED <<locks, prelocks, tips, stored, window, held, status>>
      /\ DOMAIN saw' = DOMAIN saw /\ (log' = log \/ log' = Append(log, Current))
  BY DEF ExecuteBundle, RecordBundle, CommitBundle, banking, HoldsAll
<1>2. ControlInv /\ at # "fill" /\ at' # "fill" /\ at' \in Places
  BY <1>1 DEF LockInv, HoldsAll, Places
<1>3. Current \in Units
  BY <1>2, FrontExists
<1>4. log' \in Seq(Units) /\ DOMAIN saw' = Units
  <2>1. log \in Seq(Units) /\ DOMAIN saw = Units
    BY <1>2 DEF ControlInv, TypeOK
  <2>2. Append(log, Current) \in Seq(Units)
    BY <1>3, <2>1
  <2> QED
    BY <1>1, <2>1, <2>2
<1>5. HeldInv'
  BY <1>1, <1>2 DEF ControlInv, HeldInv, HoldsAll, All, Current
<1>6. ControlInv' /\ Holders' = Holders
  BY <1>1, <1>2, <1>4, <1>5, FrontControl
<1> QED
  BY SMTT(20), <1>1, <1>6, HoldersKept DEF LockInv

\* Taking the front bundle of the window takes no lock.
LEMMA TakeFrontKeepsLocks ==
  ASSUME LockInv, TakeFront
  PROVE  LockInv'
<1>1. /\ at = "fill" /\ tips = <<>> /\ window # <<>> /\ at' = "front"
      /\ UNCHANGED <<locks, prelocks, tips, stored, window, held, status, saw, log>>
  BY DEF TakeFront, banking
<1>2. TypeOK' /\ QueuesInv' /\ SentInv'
  BY <1>1 DEF LockInv, ControlInv, TypeOK, Places, QueuesInv, SentInv
<1>3. HeldInv'
  BY <1>1 DEF LockInv, ControlInv, HeldInv, HoldsAll
<1>4. Holders' = Holders
  BY <1>1 DEF Holders
<1> QED
  BY <1>1, <1>2, <1>3, <1>4, HoldersKept DEF LockInv, ControlInv

\* A tip bundle is pre-locked alone.
LEMMA TipsKeepLocks ==
  ASSUME LockInv, TakeTips
  PROVE  LockInv'
<1> DEFINE b == Head(tips)
<1>1. /\ at = "fill" /\ window = <<>> /\ tips # <<>>
      /\ lock_bundle(b) /\ window' = <<b>> /\ at' = "front"
      /\ UNCHANGED <<locks, tips, stored, held, status, saw, log>>
  BY DEF TakeTips, banking
<1>2. ControlInv /\ held = {} /\ tips \in Seq(Bundles) /\ IsInjective(tips)
  BY <1>1 DEF LockInv, ControlInv, HeldInv, TypeOK, HoldsAll, QueuesInv
<1>3. b \in Bundles /\ b \in Range(tips)
  BY <1>1, <1>2, TailDistinct
<1> HIDE DEF b
<1>4. /\ window' \in Seq(Bundles) /\ window' # <<>> /\ IsInjective(window')
      /\ Range(window') = {b} /\ Range(window) = {}
  BY <1>1, <1>3, OneDistinct
<1>5. TypeOK' /\ SentInv'
  BY <1>1, <1>2, <1>4 DEF ControlInv, TypeOK, Places, SentInv
<1>6. QueuesInv'
  BY <1>1, <1>2, <1>3, <1>4 DEF ControlInv, QueuesInv, b
<1>7. HeldInv'
  BY <1>1, <1>2 DEF HeldInv, HoldsAll
<1>8. Holders' = Holders
  BY <1>1 DEF Holders
<1>9. CountInv'
  BY <1>1, <1>2, <1>3, <1>4, <1>8, BundlePrelocked
<1> QED
  BY <1>5, <1>6, <1>7, <1>9 DEF LockInv, ControlInv

\* A bundle is pre-locked as it enters the window.
LEMMA FillKeepsLocks ==
  ASSUME LockInv, Fill
  PROVE  LockInv'
<1> DEFINE b == Head(stored)
<1>1. /\ at = "fill" /\ tips = <<>> /\ stored # <<>>
      /\ lock_bundle(b) /\ window' = Append(window, b) /\ stored' = Tail(stored)
      /\ UNCHANGED <<locks, tips, at, held, status, saw, log>>
  BY DEF Fill, banking
<1>2. /\ ControlInv /\ held = {}
      /\ stored \in Seq(Bundles) /\ IsInjective(stored)
      /\ window \in Seq(Bundles) /\ IsInjective(window)
      /\ Range(stored) \cap (Range(tips) \cup Range(window)) = {}
  BY <1>1 DEF LockInv, ControlInv, HeldInv, TypeOK, HoldsAll, QueuesInv
<1>3. /\ b \in Bundles /\ Tail(stored) \in Seq(Bundles) /\ IsInjective(Tail(stored))
      /\ Range(stored) = Range(Tail(stored)) \cup {b} /\ b \notin Range(Tail(stored))
  BY <1>1, <1>2, TailDistinct
<1> HIDE DEF b
<1>4. b \notin Range(window)
  BY <1>2, <1>3
<1>5. /\ window' \in Seq(Bundles) /\ IsInjective(window')
      /\ Range(window') = Range(window) \cup {b}
  BY <1>1, <1>2, <1>3, <1>4, AppendDistinct
<1>6. TypeOK' /\ SentInv'
  BY <1>1, <1>2, <1>3, <1>5 DEF ControlInv, TypeOK, SentInv
<1>7. QueuesInv'
  BY <1>1, <1>2, <1>3, <1>5 DEF ControlInv, QueuesInv
<1>8. HeldInv'
  BY <1>1, <1>2 DEF HeldInv, HoldsAll
<1>9. Holders' = Holders
  BY <1>1 DEF Holders
<1>10. CountInv'
  BY <1>1, <1>2, <1>3, <1>4, <1>5, <1>9, BundlePrelocked
<1> QED
  BY <1>6, <1>7, <1>8, <1>10 DEF LockInv, ControlInv

\* A bundle that leaves the window gives its pre-locks back.
LEMMA ReleaseKeepsLocks ==
  ASSUME LockInv, ReleaseBundle
  PROVE  LockInv'
<1>1. /\ at \in {"failed", "done"} /\ unlock_bundle(Current) /\ window' = Tail(window)
      /\ tips' = IF tips # <<>> /\ at = "done" THEN Tail(tips) ELSE <<>>
      /\ at' = "fill"
      /\ UNCHANGED <<locks, stored, held, status, saw, log>>
  BY DEF ReleaseBundle, banking
<1>2. /\ ControlInv /\ held = {} /\ window # <<>>
      /\ window \in Seq(Bundles) /\ IsInjective(window)
      /\ tips \in Seq(Bundles) /\ IsInjective(tips)
      /\ Range(stored) \cap (Range(tips) \cup Range(window)) = {}
      /\ tips # <<>> => window = <<Head(tips)>>
  BY <1>1 DEF LockInv, ControlInv, HeldInv, TypeOK, HoldsAll, QueuesInv
<1>3. /\ Current \in Bundles /\ window' \in Seq(Bundles) /\ IsInjective(window')
      /\ Range(window) = Range(window') \cup {Current} /\ Current \notin Range(window')
  BY <1>1, <1>2, TailDistinct DEF Current
<1>4. tips # <<>> => /\ Head(tips) \in Bundles /\ Tail(tips) \in Seq(Bundles)
                     /\ IsInjective(Tail(tips)) /\ Range(tips) = Range(Tail(tips)) \cup {Head(tips)}
  BY <1>2, TailDistinct
<1>5. <<>> \in Seq(Bundles) /\ IsInjective(<<>>) /\ Range(<<>>) = {}
  BY Zenon, <1>3, OneDistinct
<1>6. /\ tips' \in Seq(Bundles) /\ IsInjective(tips') /\ Range(tips') \in SUBSET Range(tips)
      /\ tips' # <<>> => window' = <<>>
  <2>1. tips # <<>> => window' = <<>>
    BY <1>1, <1>2, <1>4, OneDistinct
  <2> QED
    BY <1>1, <1>4, <1>5, <2>1
<1>7. TypeOK' /\ SentInv'
  BY <1>1, <1>2, <1>3, <1>6 DEF ControlInv, TypeOK, Places, SentInv
<1>8. QueuesInv'
  <2>1. IsInjective(stored')
    BY <1>1, <1>2 DEF ControlInv, QueuesInv
  <2> QED
    BY <1>1, <1>2, <1>3, <1>6, <2>1 DEF QueuesInv
<1>9. HeldInv'
  BY <1>1, <1>2 DEF HeldInv, HoldsAll
<1>10. Holders' = Holders
  BY <1>1 DEF Holders
<1>11. Range(window') \in SUBSET Bundles
  BY <1>3, RangeOfSequence
<1>12. CountInv'
  <2>1. PICK bs : bs = Range(window')
    OBVIOUS
  <2> QED
    BY <1>1, <1>2, <1>3, <1>10, <1>11, <2>1, BundleReleased
<1> QED
  BY <1>7, <1>8, <1>9, <1>12 DEF LockInv, ControlInv

\* Every step keeps the invariant.
LEMMA NextKeepsLocks ==
  ASSUME LockInv, [Next]_vars
  PROVE  LockInv'
<1>1. CASE StageStep
  BY <1>1, TipsKeepLocks, FillKeepsLocks, TakeFrontKeepsLocks, CheckKeepsLocks,
     TryLockKeepsLocks, DropBatchKeepsLocks, FrontKeepsLocks, ReleaseKeepsLocks DEF StageStep
<1>2. ASSUME NEW x \in Txs, LockVote(x) \/ WorkStep(x) PROVE LockInv'
  BY <1>2, LockKeepsLocks, ReturnKeepsLocks, WorkKeepsLocks, DropKeepsLocks DEF WorkStep
<1>3. ASSUME NEW x \in Txs, NEW t, try_schedule_transaction(x, t) PROVE LockInv'
  BY <1>3, ScheduleKeepsLocks
<1> QED
  BY <1>1, <1>2, <1>3, SlotKeepsLocks DEF Next

\* At the start of a slot nothing is locked.
LEMMA InitLocks == Init => LockInv
<1> SUFFICES ASSUME Init PROVE LockInv
  OBVIOUS
<1>1. PICK slot \in Slots :
        /\ locks = NoLocks /\ prelocks = NoLocks /\ tips = slot.tips /\ stored = slot.stored
        /\ window = <<>> /\ at = "fill" /\ held = {}
        /\ status = [x \in Txs |-> IF x \in slot.queued THEN "queued" ELSE "done"]
        /\ saw = [u \in Units |-> <<>>] /\ log = <<>>
  BY DEF Init
<1>2. /\ tips \in Seq(Bundles) /\ stored \in Seq(Bundles) /\ IsInjective(tips \o stored)
  BY <1>1, LeaderBankAssumption
<1>3. /\ IsInjective(tips) /\ IsInjective(stored) /\ Range(stored) \cap Range(tips) = {}
  <2> DEFINE m == Len(tips)
             n == Len(stored)
             q == tips \o stored
  <2>1. m \in Nat /\ n \in Nat /\ DOMAIN tips = 1..m /\ DOMAIN stored = 1..n
    BY <1>2
  <2>2. /\ DOMAIN q = 1..(m + n)
        /\ \A i \in 1..(m + n) : q[i] = IF i <= m THEN tips[i] ELSE stored[i - m]
    BY <1>2
  <2> HIDE DEF m, n, q
  <2>3. \A i \in 1..m : i \in 1..(m + n) /\ q[i] = tips[i]
    BY <2>1, <2>2
  <2>4. \A i \in 1..n : m + i \in 1..(m + n) /\ ~ (m + i <= m) /\ (m + i) - m = i
    BY <2>1
  <2>5. \A i \in 1..n : q[m + i] = stored[i]
    BY <2>2, <2>4
  <2>6. \A i \in 1..m, j \in 1..n : i # m + j
    BY <2>1
  <2>7. \A i, j \in 1..n : m + i = m + j => i = j
    BY <2>1
  <2>8. IsInjective(q)
    BY <1>2 DEF q
  <2>9. IsInjective(tips)
    BY <2>1, <2>2, <2>3, <2>8 DEF IsInjective
  <2>10. IsInjective(stored)
    BY <2>1, <2>2, <2>4, <2>5, <2>7, <2>8 DEF IsInjective
  <2>11. \A i \in 1..m, j \in 1..n : tips[i] # stored[j]
    BY <2>2, <2>3, <2>4, <2>5, <2>6, <2>8 DEF IsInjective
  <2> QED
    BY <2>1, <2>9, <2>10, <2>11 DEF Range
<1>4. <<>> \in Seq(Bundles) /\ <<>> \in Seq(Units) /\ IsInjective(<<>>) /\ Range(<<>>) = {}
  BY DEF IsInjective, Range
<1>5. status \in [Txs -> Statuses] /\ Holders = {}
  BY <1>1 DEF Statuses, Holders
<1>6. ControlInv
  <2>1. TypeOK
    BY <1>1, <1>2, <1>4, <1>5 DEF TypeOK, Places
  <2>2. QueuesInv
    BY <1>1, <1>3, <1>4 DEF QueuesInv
  <2>3. HeldInv /\ SentInv
    BY SMTT(20), <1>1 DEF HeldInv, SentInv, HoldsAll
  <2> QED
    BY <2>1, <2>2, <2>3 DEF ControlInv
<1>7. ASSUME NEW mode \in Modes, NEW a \in Accounts
      PROVE  /\ locks[mode][a] = 0 /\ prelocks[mode][a] = 0
             /\ {x \in Holders : a \in Access[x][mode]} = {}
             /\ Users(Bundle[Current], held, mode, a) = {}
             /\ PreLockers(Range(window), mode, a) = {}
  <2>1. locks[mode][a] = 0 /\ prelocks[mode][a] = 0
    BY <1>1 DEF NoLocks, Modes
  <2> QED
    BY <1>1, <1>4, <1>5, <2>1 DEF Users, PreLockers
<1>8. IsFiniteSet({}) /\ Cardinality({}) = 0 /\ 0 = 0 + 0
  BY FS_EmptySet
<1>9. LocksAreHeld
  BY Zenon, <1>7, <1>8 DEF LocksAreHeld, Modes
<1>10. FiniteInv
  BY Zenon, <1>7, <1>8 DEF FiniteInv
<1>11. Exclusive
  BY <1>5 DEF Exclusive
<1> QED
  BY <1>6, <1>9, <1>10, <1>11 DEF LockInv, CountInv

\* In every behaviour, for any batches, bundles and workers: every lock
\* counted in the bank's table and in the pre-locks is held by a batch in
\* work and a bundle in the window.
THEOREM LocksNeverLeak == Spec => []LocksAreHeld
<1>1. LockInv => LocksAreHeld
  BY DEF LockInv, CountInv
<1> QED
  BY <1>1, InitLocks, NextKeepsLocks, PTL DEF Spec

\* Two transactions that hold locks of the bank at the same time do not
\* conflict, whichever stages they come from.
THEOREM HoldersNeverConflict == Spec => []Exclusive
<1>1. LockInv => Exclusive
  BY DEF LockInv, CountInv
<1> QED
  BY <1>1, InitLocks, NextKeepsLocks, PTL DEF Spec

-----------------------------------------------------------------------------
\* The banking transactions that may block a bundle.
Engaged == (InFlight \ Votes) \cup Holders

\* No step but scheduling and locking a vote engages a transaction.
LEMMA EngagedDrains ==
  ASSUME LockInv, [Next]_vars,
         ~ \E x \in Txs : LockVote(x) \/ \E t \in Threads : try_schedule_transaction(x, t)
  PROVE  Engaged' \subseteq Engaged
<1>1. ASSUME UNCHANGED status PROVE Engaged' \subseteq Engaged
  BY SMTT(20), <1>1 DEF Engaged, InFlight, Holders
<1>2. CASE StageStep \/ CloseRecords \/ Freeze \/ UNCHANGED vars
  BY Zenon, <1>1, <1>2 DEF StageStep, TakeTips, Fill, TakeFront, CheckBundle, TryLockBatch, WakeUp,
     GiveUp, ExecuteBundle, RecordBundle, AbandonBundle, CommitBundle, DropBundleBatch,
     ReleaseBundle, CloseRecords, Freeze, banking, vars
<1>3. ASSUME NEW x \in Txs, WorkStep(x) PROVE Engaged' \subseteq Engaged
  <2>1. /\ x \in Engaged \/ status[x] \in {"retryable", "removable"}
        /\ \E s \in Statuses : status' = [status EXCEPT ![x] = s]
    <3>1. CASE LockWork(x) \/ ReturnWork(x)
      <4>1. status[x] = "sent" /\ x \in Engaged
        BY <3>1 DEF LockWork, ReturnWork, Engaged, InFlight, LockInv, ControlInv, SentInv
      <4> QED
        BY <3>1, <4>1 DEF LockWork, ReturnWork, Statuses
    <3>2. CASE try_receive_completed(x)
      BY Zenon, <3>2 DEF try_receive_completed, Statuses
    <3>3. CASE Execute(x) \/ Record(x) \/ Commit(x)
      BY <3>3 DEF Execute, Record, Commit, Engaged, Holders, Statuses
    <3>4. CASE Abandon(x) \/ DropWork(x)
      BY <3>4 DEF Abandon, DropWork, Finish, Engaged, Holders, Statuses
    <3> QED
      BY <1>3, <3>1, <3>2, <3>3, <3>4 DEF WorkStep
  <2>2. x \in Engaged
    BY <2>1 DEF Engaged, InFlight, LockInv, ControlInv, SentInv
  <2>3. \A y \in Txs : y # x => status'[y] = status[y]
    BY <2>1, StatusChange DEF LockInv
  <2> QED
    BY <2>2, <2>3 DEF Engaged, InFlight, Holders
<1> QED
  BY <1>2, <1>3 DEF Next

\* What is scheduled, and a vote that is locked, passed the pre-locks.
LEMMA EngagedIsFree ==
  ASSUME LockInv, NEW x \in Txs, NEW t, LockVote(x) \/ try_schedule_transaction(x, t),
         NEW b \in Range(window), NEW y \in Engaged', \E tx \in Range(Bundle[b]) : Conflict(y, tx)
  PROVE  y \in Engaged
<1>1. /\ can_lock_accounts(prelocks, x)
      /\ \E s \in Statuses : status' = [status EXCEPT ![x] = s]
  BY SMTT(20) DEF LockVote, try_schedule_transaction, Statuses
<1>2. y # x
  BY <1>1, PrelockableIsFree, LeaderBankAssumption
<1>3. \A z \in Txs : z # x => status'[z] = status[z]
  BY <1>1, StatusChange DEF LockInv
<1> QED
  BY <1>2, <1>3 DEF Engaged, InFlight, Holders

\* Once a bundle is pre-locked, what blocks it only drains, in every
\* behaviour and for any number of workers, votes and bundles.
THEOREM PrelocksKeepOthersOut == Spec => OnlyDrains
<1>1. ASSUME LockInv, [Next]_vars, NEW b \in Range(window) \cap Range(window')
      PROVE  Blocking(b)' \subseteq Blocking(b)
  <2>1. \A y : y \in Blocking(b) <=> y \in Engaged /\ \E tx \in Range(Bundle[b]) : Conflict(y, tx)
    BY DEF Blocking, Engaged
  <2>2. \A y : y \in Blocking(b)' <=> y \in Engaged' /\ \E tx \in Range(Bundle[b]) : Conflict(y, tx)
    BY DEF Blocking, Engaged
  <2>3. CASE \E x \in Txs : LockVote(x) \/ \E t \in Threads : try_schedule_transaction(x, t)
    BY <1>1, <2>1, <2>2, <2>3, EngagedIsFree
  <2>4. CASE ~ \E x \in Txs : LockVote(x) \/ \E t \in Threads : try_schedule_transaction(x, t)
    BY <1>1, <2>1, <2>2, <2>4, EngagedDrains
  <2> QED
    BY <2>3, <2>4
<1>2. LockInv /\ [Next]_vars =>
        [\A b \in Range(window) \cap Range(window') : Blocking(b)' \subseteq Blocking(b)]_vars
  BY <1>1
<1> QED
  BY <1>2, InitLocks, NextKeepsLocks, PTL DEF Spec, OnlyDrains

-----------------------------------------------------------------------------
\* Where a unit is: a transaction of the banking stage in its status, the
\* front bundle where the stage is.
Phase(u) == IF u \in Txs THEN status[u] ELSE IF window # <<>> /\ u = Current THEN at ELSE "none"

\* What has been recorded is not executed again.
LogInv ==
    /\ \A x \in Txs \cap Range(log) :
         status[x] \in {"recorded", "committed", "removable", "done"}
    /\ \A b \in Bundles \cap Range(log) :
         /\ b \notin Range(stored)
         /\ b \in Range(tips) \cup Range(window) =>
              window # <<>> /\ b = Current /\ at \in {"recorded", "committed", "done"}

LastOf(a) == LastWriter(log, Len(log), a)

\* What a unit loaded is still what the block would give it, until it is
\* recorded; between record and commit it is the last writer in the block
\* of what it writes, and the state of every other account is the block's.
LoggedAgree ==
    \A n \in DOMAIN log : \A a \in LoadsOf(log[n]) : saw[log[n]][a] = LastWriter(log, n - 1, a)
ExecutedAgree ==
    \A u \in Units : Phase(u) = "executed" => \A a \in LoadsOf(u) : saw[u][a] = LastOf(a)
RecordedLast ==
    \A u \in Units : Phase(u) = "recorded" => \A a \in WritesOf(u) : LastOf(a) = u
StateAgrees ==
    \A a \in Accounts :
      (\A u \in Units : Phase(u) = "recorded" => a \notin WritesOf(u)) => state[a] = LastOf(a)
FrozenIsDone == bank = "frozen" => \A u \in Units : Phase(u) # "recorded"

ReplayInv == LoggedAgree /\ ExecutedAgree /\ RecordedLast /\ StateAgrees /\ FrozenIsDone

\* A set of numbers that is not empty has a least element.
LEMMA LeastNumber ==
  ASSUME NEW S \in SUBSET Nat, S # {}
  PROVE  \E m \in S : \A n \in S : m <= n
<1>1. PICK m \in S : \A n \in S : ~(<<n, m>> \in OpToRel(<, Nat))
  BY Zenon, NatLessThanWellFounded, WFMin
<1>2. \A n \in S : n \in Nat /\ m \in Nat
  OBVIOUS
<1>3. \A n \in S : ~(n < m)
  BY Zenon, <1>1, <1>2 DEF OpToRel
<1> QED
  BY <1>2, <1>3

\* A set of positions that is not empty has a greatest element.
LEMMA GreatestNumber ==
  ASSUME NEW n \in Nat, NEW S \in SUBSET (1..n), S # {}
  PROVE  \E m \in S : \A i \in S : i <= m
<1> DEFINE C == {n - i : i \in S}
<1>1. C \in SUBSET Nat /\ C # {}
  <2>1. \A i \in S : n - i \in Nat
    OBVIOUS
  <2>2. PICK i \in S : TRUE
    BY Zenon
  <2>3. n - i \in C
    BY <2>2
  <2> QED
    BY <2>1, <2>3
<1>2. PICK c \in C : \A d \in C : c <= d
  BY Zenon, <1>1, LeastNumber
<1>3. PICK m \in S : c = n - m
  BY <1>2
<1>4. \A i \in S : n - m <= n - i
  BY Zenon, <1>2, <1>3
<1> QED
  BY <1>3, <1>4

\* A unit appended to a block is the last writer of what it writes, and
\* changes nothing else.
LEMMA LastWriterAppend ==
  ASSUME NEW block \in Seq(Units), NEW u \in Units, NEW a
  PROVE  /\ \A n \in 0..Len(block) :
              LastWriter(Append(block, u), n, a) = LastWriter(block, n, a)
         /\ LastWriter(Append(block, u), Len(block) + 1, a) =
              IF a \in WritesOf(u) THEN u ELSE LastWriter(block, Len(block), a)
<1> DEFINE q == Append(block, u)
           k == Len(block)
           W(b, n) == {i \in 1..n : a \in WritesOf(b[i])}
<1>1. /\ k \in Nat /\ q[k + 1] = u
      /\ \A i \in 1..k : q[i] = block[i]
  OBVIOUS
<1> HIDE DEF q, k
<1>2. ASSUME NEW n \in 0..k, NEW S, S = W(block, n), S # {}
      PROVE  Max(S) \in 1..k
  <2>1. n \in Nat /\ S \in SUBSET (1..n) /\ S \in SUBSET Nat
    BY <1>1, <1>2
  <2>2. PICK m \in S : \A i \in S : i <= m
    BY Zenon, <1>2, <2>1, GreatestNumber
  <2>3. \A i \in S : m >= i
    BY <2>1, <2>2
  <2>4. Max(S) \in S
    BY <2>2, <2>3 DEF Max
  <2>5. \A i \in 1..n : i \in 1..k
    BY <1>1
  <2> QED
    BY Zenon, <2>1, <2>4, <2>5
<1>3. ASSUME NEW n \in 0..k
      PROVE  LastWriter(q, n, a) = LastWriter(block, n, a)
  <2>1. W(q, n) = W(block, n)
    BY <1>1
  <2>2. PICK S : S = W(block, n)
    BY Zenon
  <2>3. /\ LastWriter(q, n, a) = IF S = {} THEN None ELSE q[Max(S)]
        /\ LastWriter(block, n, a) = IF S = {} THEN None ELSE block[Max(S)]
    BY Zenon, <2>1, <2>2 DEF LastWriter
  <2>4. S # {} => Max(S) \in 1..k
    BY SMTT(20), <1>2, <2>2
  <2> QED
    BY <1>1, <2>3, <2>4
<1>4. CASE a \in WritesOf(u)
  <2>1. PICK S : S = W(q, k + 1)
    BY Zenon
  <2>2. k + 1 \in S /\ S \in SUBSET (1..(k + 1))
    BY <1>1, <1>4, <2>1
  <2>3. \A i \in S : i \in Nat /\ k + 1 >= i
    BY <1>1, <2>2
  <2>4. Max(S) \in S /\ \A i \in S : Max(S) >= i
    BY Zenon, <2>2, <2>3 DEF Max
  <2>5. Max(S) = k + 1
    <3>1. \A m \in S : m >= k + 1 => m = k + 1
      BY <1>1, <2>3
    <3> QED
      BY Zenon, <2>2, <2>4, <3>1
  <2>6. LastWriter(q, k + 1, a) = q[Max(S)]
    BY <2>1, <2>2 DEF LastWriter
  <2> QED
    BY <1>1, <1>3, <1>4, <2>5, <2>6 DEF q, k
<1>5. CASE a \notin WritesOf(u)
  <2>1. W(q, k + 1) = W(q, k)
    <3>1. \A i \in 1..(k + 1) : i \in 1..k \/ i = k + 1
      BY <1>1
    <3>2. \A i \in 1..k : i \in 1..(k + 1)
      BY <1>1
    <3> QED
      BY <1>1, <1>5, <3>1, <3>2
  <2>2. LastWriter(q, k + 1, a) = LastWriter(q, k, a)
    BY Zenon, <2>1 DEF LastWriter
  <2>3. LastWriter(q, k, a) = LastWriter(block, k, a)
    BY <1>1, <1>3
  <2> QED
    BY <1>3, <1>5, <2>2, <2>3 DEF q, k
<1> QED
  BY <1>4, <1>5

\* What a unit writes it also loads.
LEMMA WritesAreLoaded ==
  ASSUME NEW u \in Units
  PROVE  WritesOf(u) \subseteq LoadsOf(u) /\ LoadsOf(u) \subseteq Accounts
<1>1. \A tx \in Range(Batch(u)) : tx \in DOMAIN Access
  <2>1. CASE u \in Bundles
    BY Zenon, <2>1, LeaderBankAssumption, RangeOfSequence DEF Batch
  <2>2. CASE u \notin Bundles
    <3>1. u \in Txs /\ Range(<<u>>) = {u}
      BY <2>2, OneDistinct DEF Units
    <3> QED
      BY <2>2, <3>1, LeaderBankAssumption DEF Batch
  <2> QED
    BY <2>1, <2>2
<1> QED
  BY <1>1, AccessAssumption DEF WritesOf, LoadsOf, Touched

\* Two units that hold their locks: neither writes what the other loads.
LEMMA UnitsExclude ==
  ASSUME LockInv, NEW u \in Units, NEW v \in Units, u # v,
         Phase(u) \in HoldsAll, Phase(v) \in HoldsAll
  PROVE  \A a \in WritesOf(u) : a \notin LoadsOf(v)
<1> USE DEF LockInv, CountInv
<1>1. ASSUME NEW x \in Txs
      PROVE  WritesOf(x) = Access[x].write /\ LoadsOf(x) = Touched(x)
  <2>1. Batch(x) = <<x>> /\ Range(<<x>>) = {x}
    BY LeaderBankAssumption, OneDistinct DEF Batch
  <2> QED
    BY <2>1 DEF WritesOf, LoadsOf
<1>2. ASSUME NEW x \in Txs, Phase(x) \in HoldsAll PROVE x \in Holders
  BY <1>2 DEF Phase, Holders, HoldsAll
<1>3. ASSUME NEW b \in Units, b \notin Txs, Phase(b) \in HoldsAll
      PROVE  /\ b = Current /\ b \in Bundles /\ held = DOMAIN Bundle[b]
             /\ Range(Batch(b)) = {Bundle[Current][i] : i \in held}
  <2>1. window # <<>> /\ b = Current /\ at \in HoldsAll
    BY <1>3 DEF Phase, HoldsAll
  <2>2. b \in Bundles /\ held = DOMAIN Bundle[b]
    BY SMTT(20), <1>3, <2>1 DEF Units, ControlInv, HeldInv, All
  <2> QED
    BY <2>1, <2>2 DEF Batch, Range
<1>4. CASE u \in Txs /\ v \in Txs
  BY <1>1, <1>2, <1>4 DEF Exclusive, Conflict
<1>5. CASE u \in Txs /\ v \notin Txs
  <2>1. \A i \in held : ~ Conflict(u, Bundle[Current][i])
    BY SMTT(20), <1>2, <1>5 DEF Exclusive
  <2> QED
    BY <1>1, <1>3, <1>5, <2>1 DEF Conflict, LoadsOf
<1>6. CASE u \notin Txs /\ v \in Txs
  <2>1. \A i \in held : ~ Conflict(v, Bundle[Current][i])
    BY <1>2, <1>6 DEF Exclusive
  <2> QED
    BY <1>1, <1>3, <1>6, <2>1 DEF Conflict, WritesOf
<1>7. CASE u \notin Txs /\ v \notin Txs
  BY <1>3, <1>7
<1> QED
  BY <1>4, <1>5, <1>6, <1>7

\* A unit that is about to execute or record is not in the block.
LEMMA NotYetLogged ==
  ASSUME ControlInv, LogInv, NEW u \in Units, Phase(u) \in {"locked", "executed"}
  PROVE  u \notin Range(log)
<1>1. CASE u \in Txs
  BY <1>1 DEF Phase, LogInv
<1>2. CASE u \notin Txs
  <2>1. u \in Bundles /\ window # <<>> /\ u = Current /\ at \in {"locked", "executed"}
    BY <1>2 DEF Phase, Units
  <2>2. u \in Range(window)
    BY <2>1, TailDistinct DEF ControlInv, TypeOK, QueuesInv, Current
  <2> QED
    BY <2>1, <2>2 DEF LogInv
<1> QED
  BY <1>1, <1>2

-----------------------------------------------------------------------------
\* What the steps do to the units, whichever stage they belong to.
PhaseChange(u, s) == Phase(u)' = s /\ \A v \in Units : v # u => Phase(v)' = Phase(v)

QuietStep ==
    /\ UNCHANGED <<state, log>>
    /\ \A u \in Units : Phase(u)' = "executed" => Phase(u) = "executed" /\ saw'[u] = saw[u]
    /\ \A u \in Units : Phase(u)' = "recorded" <=> Phase(u) = "recorded"
    /\ \A u \in Range(log) : saw'[u] = saw[u]
    /\ bank' = "frozen" => bank = "frozen" \/ \A u \in Units : Phase(u) # "recorded"

ExecuteStep(u) ==
    /\ Phase(u) = "locked" /\ PhaseChange(u, "executed")
    /\ saw' = [saw EXCEPT ![u] = Loaded(u)]
    /\ UNCHANGED <<state, log, bank>>

RecordStep(u) ==
    /\ Phase(u) = "executed" /\ PhaseChange(u, "recorded")
    /\ log' = Append(log, u) /\ bank = "open"
    /\ UNCHANGED <<state, saw, bank>>

CommitStep(u) ==
    /\ Phase(u) = "recorded" /\ PhaseChange(u, "committed")
    /\ state' = Written(u)
    /\ UNCHANGED <<saw, log, bank>>

\* Most steps only lock, unlock, queue or abandon.
LEMMA QuietKeepsReplay ==
  ASSUME ControlInv, ReplayInv, QuietStep
  PROVE  ReplayInv'
<1>1. \A a : LastOf(a)' = LastOf(a)
  BY SMTT(20) DEF LastOf, QuietStep
<1>2. LoggedAgree'
  <2>1. \A n \in DOMAIN log : log[n] \in Range(log)
    BY DEF Range
  <2> QED
    BY <2>1 DEF ReplayInv, LoggedAgree, QuietStep
<1>3. ExecutedAgree'
  BY <1>1 DEF ReplayInv, ExecutedAgree, QuietStep
<1>4. RecordedLast'
  BY <1>1 DEF ReplayInv, RecordedLast, QuietStep
<1>5. StateAgrees'
  BY <1>1 DEF ReplayInv, StateAgrees, QuietStep
<1>6. FrozenIsDone'
  BY DEF ReplayInv, FrozenIsDone, QuietStep
<1> QED
  BY SMTT(20), <1>2, <1>3, <1>4, <1>5, <1>6 DEF ReplayInv

\* A unit that holds its locks loads what the block would give it: no unit
\* between record and commit writes it.
LEMMA ExecuteKeepsReplay ==
  ASSUME LockInv, LogInv, ReplayInv, NEW u \in Units, ExecuteStep(u)
  PROVE  ReplayInv'
<1>1. \A a : LastOf(a)' = LastOf(a)
  BY DEF LastOf, ExecuteStep
<1>2. /\ u \notin Range(log) /\ DOMAIN saw = Units /\ log \in Seq(Units)
      /\ Phase(u) \in HoldsAll
  BY NotYetLogged DEF LockInv, ControlInv, TypeOK, ExecuteStep, HoldsAll
<1>3. saw'[u] = Loaded(u) /\ \A v \in Units : v # u => saw'[v] = saw[v]
  BY <1>2 DEF ExecuteStep
<1>4. \A v \in Units : Phase(v)' = "recorded" <=> Phase(v) = "recorded"
  BY DEF ExecuteStep, PhaseChange
<1>5. LoggedAgree'
  <2>1. \A n \in DOMAIN log : log[n] \in Units /\ log[n] # u
    BY <1>2 DEF Range
  <2>2. log' = log
    BY DEF ExecuteStep
  <2> QED
    BY <1>3, <2>1, <2>2 DEF ReplayInv, LoggedAgree
<1>6. ExecutedAgree'
  <2>1. ASSUME NEW v \in Units, Phase(v)' = "executed", NEW a \in LoadsOf(v)
        PROVE  saw'[v][a] = LastOf(a)
    <3>1. CASE v # u
      <4>1. Phase(v) = "executed" /\ saw'[v] = saw[v]
        BY SMTT(20), <1>3, <2>1, <3>1 DEF ExecuteStep, PhaseChange
      <4> QED
        BY <4>1, <2>1 DEF ReplayInv, ExecutedAgree
    <3>2. CASE v = u
      <4>1. saw'[u][a] = state[a] /\ a \in Accounts
        BY <1>3, <2>1, <3>2, WritesAreLoaded DEF Loaded
      <4>2. ASSUME NEW w \in Units, Phase(w) = "recorded" PROVE a \notin WritesOf(w)
        <5>1. w # u /\ Phase(w) \in HoldsAll
          BY <4>2 DEF ExecuteStep, HoldsAll
        <5> QED
          BY <1>2, <2>1, <3>2, <5>1, UnitsExclude
      <4> QED
        BY <3>2, <4>1, <4>2 DEF ReplayInv, StateAgrees
    <3> QED
      BY <3>1, <3>2
  <2> QED
    BY <1>1, <2>1 DEF ExecutedAgree
<1>7. RecordedLast' /\ StateAgrees' /\ FrozenIsDone'
  <2>1. UNCHANGED <<state, bank>>
    BY DEF ExecuteStep
  <2> QED
    BY <1>1, <1>4, <2>1 DEF ReplayInv, RecordedLast, StateAgrees, FrozenIsDone
<1> QED
  BY <1>5, <1>6, <1>7 DEF ReplayInv

\* The unit recorded agrees with the block it is appended to, and no other
\* unit that has executed loads what it writes.
LEMMA RecordKeepsReplay ==
  ASSUME LockInv, LogInv, ReplayInv, NEW u \in Units, RecordStep(u)
  PROVE  ReplayInv'
<1>1. /\ log \in Seq(Units) /\ log' = Append(log, u) /\ Phase(u) \in HoldsAll
      /\ Phase(u) = "executed"
  BY SMTT(20) DEF LockInv, ControlInv, TypeOK, RecordStep, HoldsAll
<1>2. /\ Len(log) \in Nat /\ Len(log') = Len(log) + 1 /\ log'[Len(log) + 1] = u
      /\ DOMAIN log' = 1..(Len(log) + 1) /\ DOMAIN log = 1..Len(log)
      /\ \A n \in 1..Len(log) : log'[n] = log[n]
  BY <1>1
<1>3. ASSUME NEW a
      PROVE  /\ \A n \in 0..Len(log) : LastWriter(log', n, a) = LastWriter(log, n, a)
             /\ LastOf(a)' = IF a \in WritesOf(u) THEN u ELSE LastOf(a)
  BY SMTT(20), <1>1, <1>2, LastWriterAppend DEF LastOf
<1>4. LoggedAgree'
  <2>1. ASSUME NEW n \in 1..Len(log), NEW a \in LoadsOf(log[n])
        PROVE  saw'[log'[n]][a] = LastWriter(log', n - 1, a)
    <3>1. n - 1 \in 0..Len(log)
      BY <1>2
    <3>2. saw[log[n]][a] = LastWriter(log, n - 1, a) /\ log'[n] = log[n] /\ saw' = saw
      BY <1>2 DEF ReplayInv, LoggedAgree, RecordStep
    <3> QED
      BY Zenon, <1>3, <3>1, <3>2
  <2>2. ASSUME NEW a \in LoadsOf(u)
        PROVE  saw'[u][a] = LastWriter(log', Len(log), a)
    <3>1. saw[u][a] = LastWriter(log, Len(log), a) /\ saw' = saw
      BY <1>1 DEF ReplayInv, ExecutedAgree, RecordStep, LastOf
    <3>2. Len(log) \in 0..Len(log)
      BY <1>2
    <3> QED
      BY <1>3, <3>1, <3>2
  <2>3. \A n \in 1..(Len(log) + 1) : n \in 1..Len(log) \/ (n = Len(log) + 1 /\ n - 1 = Len(log))
    BY <1>2
  <2> QED
    BY SMTT(20), <1>2, <2>1, <2>2, <2>3 DEF LoggedAgree
<1>5. \A v \in Units : v # u => Phase(v)' = Phase(v)
  BY DEF RecordStep, PhaseChange
<1>6. Phase(u)' = "recorded"
  BY DEF RecordStep, PhaseChange
<1>7. ASSUME NEW v \in Units, v # u, Phase(v) \in HoldsAll, NEW a \in LoadsOf(v)
      PROVE  LastOf(a)' = LastOf(a)
  BY <1>1, <1>3, <1>7, UnitsExclude
<1>8. ExecutedAgree'
  <2>1. ASSUME NEW v \in Units, Phase(v)' = "executed", NEW a \in LoadsOf(v)
        PROVE  saw'[v][a] = LastOf(a)'
    <3>1. v # u /\ Phase(v) = "executed" /\ Phase(v) \in HoldsAll /\ saw' = saw
      BY <1>5, <1>6, <2>1 DEF HoldsAll, RecordStep
    <3> QED
      BY <1>7, <2>1, <3>1 DEF ReplayInv, ExecutedAgree
  <2> QED
    BY <2>1 DEF ExecutedAgree
<1>9. RecordedLast'
  <2>1. ASSUME NEW v \in Units, Phase(v)' = "recorded", NEW a \in WritesOf(v)
        PROVE  LastOf(a)' = v
    <3>1. CASE v = u
      BY <1>3, <2>1, <3>1
    <3>2. CASE v # u
      <4>1. Phase(v) = "recorded" /\ Phase(v) \in HoldsAll /\ a \in LoadsOf(v)
        BY <1>5, <2>1, <3>2, WritesAreLoaded DEF HoldsAll
      <4> QED
        BY <1>7, <2>1, <3>2, <4>1 DEF ReplayInv, RecordedLast
    <3> QED
      BY <3>1, <3>2
  <2> QED
    BY <2>1 DEF RecordedLast
<1>10. StateAgrees'
  <2>1. ASSUME NEW a \in Accounts, \A v \in Units : Phase(v)' = "recorded" => a \notin WritesOf(v)
        PROVE  state'[a] = LastOf(a)'
    <3>1. a \notin WritesOf(u)
      BY <1>6, <2>1
    <3>2. \A v \in Units : Phase(v) = "recorded" => a \notin WritesOf(v)
      BY <1>5, <2>1, <3>1
    <3>3. state[a] = LastOf(a)
      BY <3>2 DEF ReplayInv, StateAgrees
    <3> QED
      BY <1>3, <3>1, <3>3 DEF RecordStep
  <2> QED
    BY <2>1 DEF StateAgrees
<1>11. FrozenIsDone'
  BY DEF RecordStep, FrozenIsDone
<1> QED
  BY <1>4, <1>8, <1>9, <1>10, <1>11 DEF ReplayInv

\* A commit writes what the block says was written last.
LEMMA CommitKeepsReplay ==
  ASSUME LockInv, LogInv, ReplayInv, NEW u \in Units, CommitStep(u)
  PROVE  ReplayInv'
<1>1. \A a : LastOf(a)' = LastOf(a)
  BY DEF LastOf, CommitStep
<1>2. /\ Phase(u) = "recorded" /\ Phase(u)' = "committed"
      /\ \A v \in Units : v # u => Phase(v)' = Phase(v)
      /\ UNCHANGED <<saw, log, bank>>
  BY SMTT(20) DEF CommitStep, PhaseChange
<1>3. LoggedAgree'
  BY <1>2 DEF ReplayInv, LoggedAgree
<1>4. ExecutedAgree'
  BY <1>1, <1>2 DEF ReplayInv, ExecutedAgree
<1>5. RecordedLast'
  BY <1>1, <1>2 DEF ReplayInv, RecordedLast
<1>6. StateAgrees'
  <2>1. ASSUME NEW a \in Accounts, \A v \in Units : Phase(v)' = "recorded" => a \notin WritesOf(v)
        PROVE  state'[a] = LastOf(a)
    <3>1. state'[a] = IF a \in WritesOf(u) THEN u ELSE state[a]
      BY DEF CommitStep, Written
    <3>2. CASE a \in WritesOf(u)
      BY <1>2, <3>1, <3>2 DEF ReplayInv, RecordedLast
    <3>3. CASE a \notin WritesOf(u)
      <4>1. \A v \in Units : Phase(v) = "recorded" => a \notin WritesOf(v)
        BY <1>2, <2>1, <3>3
      <4> QED
        BY <3>1, <3>3, <4>1 DEF ReplayInv, StateAgrees
    <3> QED
      BY <3>2, <3>3
  <2> QED
    BY <1>1, <2>1 DEF StateAgrees
<1>7. FrozenIsDone'
  BY <1>2 DEF ReplayInv, FrozenIsDone
<1> QED
  BY <1>3, <1>4, <1>5, <1>6, <1>7 DEF ReplayInv

-----------------------------------------------------------------------------
\* A unit appended to the block is in it, with what was there.
LEMMA AppendRange ==
  ASSUME NEW T, NEW s \in Seq(T), NEW e \in T
  PROVE  Range(Append(s, e)) = Range(s) \cup {e}
<1> DEFINE q == Append(s, e)
           n == Len(s)
<1>1. n \in Nat /\ DOMAIN s = 1..n
  OBVIOUS
<1>2. /\ DOMAIN q = 1..(n + 1) /\ q[n + 1] = e
      /\ \A i \in 1..n : q[i] = s[i] /\ i \in 1..(n + 1)
  OBVIOUS
<1>3. n + 1 \in 1..(n + 1) /\ \A i \in 1..(n + 1) : i \in 1..n \/ i = n + 1
  BY <1>1
<1> HIDE DEF q, n
<1>4. \A x \in Range(q) : x \in Range(s) \cup {e}
  BY <1>1, <1>2, <1>3 DEF Range
<1>5. \A x \in Range(s) \cup {e} : x \in Range(q)
  BY <1>1, <1>2, <1>3 DEF Range
<1> QED
  BY <1>4, <1>5 DEF q

\* A banking transaction changes its status, which is its phase.
LEMMA BankingPhase ==
  ASSUME ControlInv, NEW x \in Txs, NEW s \in Statuses, status' = [status EXCEPT ![x] = s],
         UNCHANGED stage
  PROVE  PhaseChange(x, s) /\ Phase(x) = status[x] /\ x \in Units
<1>1. status'[x] = s /\ \A y \in Txs : y # x => status'[y] = status[y]
  BY Zenon, StatusChange
<1>2. window' = window /\ at' = at /\ Current' = Current
  BY DEF stage, Current
<1> QED
  BY <1>1, <1>2 DEF PhaseChange, Phase, Units

\* The stage moves on with the front bundle.
LEMMA FrontPhase ==
  ASSUME ControlInv, at # "fill", UNCHANGED <<window, status>>, NEW c, c = Current
  PROVE  PhaseChange(c, at') /\ Phase(c) = at /\ c \in Units
<1>1. window # <<>> /\ Current \in Bundles /\ Current \in Units
  BY FrontExists
<1>2. Current \notin Txs
  BY <1>1, LeaderBankAssumption
<1>3. Current' = Current /\ window' = window /\ status' = status
  BY DEF Current
<1> QED
  BY <1>1, <1>2, <1>3 DEF PhaseChange, Phase

\* What was recorded stays recorded when a banking transaction moves.
LEMMA BankingLog ==
  ASSUME ControlInv, LogInv, NEW x \in Txs, NEW s \in Statuses,
         status' = [status EXCEPT ![x] = s], UNCHANGED stage,
         \/ log' = log /\ (x \in Range(log) => s \in {"recorded", "committed", "removable", "done"})
         \/ log' = Append(log, x) /\ s = "recorded"
  PROVE  LogInv'
<1>1. status'[x] = s /\ \A y \in Txs : y # x => status'[y] = status[y]
  BY Zenon, StatusChange
<1>2. UNCHANGED <<tips, stored, window, at>> /\ Current' = Current
  BY DEF stage, Current
<1>3. x \in Units /\ log \in Seq(Units) /\ x \notin Bundles
  BY LeaderBankAssumption DEF Units, ControlInv, TypeOK
<1>4. Range(log') \in SUBSET (Range(log) \cup {x})
  <2>1. Range(Append(log, x)) = Range(log) \cup {x}
    BY <1>3, AppendRange
  <2> QED
    BY Zenon, <2>1
<1>5. \A y \in Txs \cap Range(log') : status'[y] \in {"recorded", "committed", "removable", "done"}
  BY <1>1, <1>4 DEF LogInv
<1>6. \A b \in Bundles \cap Range(log') : b \in Range(log)
  BY <1>3, <1>4
<1> QED
  BY <1>2, <1>5, <1>6 DEF LogInv

\* And when the stage moves on with the front bundle.
LEMMA FrontLog ==
  ASSUME ControlInv, LogInv, at # "fill", UNCHANGED <<tips, stored, window, status>>,
         \/ log' = log /\ (at \in {"recorded", "committed", "done"}
                             => at' \in {"recorded", "committed", "done"})
         \/ log' = Append(log, Current) /\ at' = "recorded"
  PROVE  LogInv'
<1>1. window # <<>> /\ Current \in Bundles /\ Current \in Units
  BY FrontExists
<1>2. Current \notin Txs /\ log \in Seq(Units) /\ Current' = Current
  BY <1>1, LeaderBankAssumption DEF ControlInv, TypeOK, Current
<1>3. Current \in Range(window) /\ Current \notin Range(stored)
  <2>1. Current \in Range(window)
    BY <1>1, TailDistinct DEF ControlInv, TypeOK, QueuesInv, Current
  <2> QED
    BY <2>1 DEF ControlInv, QueuesInv
<1>4. CASE log' = log /\ (at \in {"recorded", "committed", "done"}
                            => at' \in {"recorded", "committed", "done"})
  BY <1>2, <1>4 DEF LogInv
<1>5. CASE log' = Append(log, Current) /\ at' = "recorded"
  <2>1. Range(log') = Range(log) \cup {Current}
    BY <1>1, <1>2, <1>5, AppendRange
  <2>2. \A y \in Txs \cap Range(log') : y \in Range(log)
    BY <1>2, <2>1
  <2>3. \A b \in Bundles \cap Range(log') :
          /\ b \notin Range(stored')
          /\ b \in Range(tips') \cup Range(window') =>
               window' # <<>> /\ b = Current' /\ at' \in {"recorded", "committed", "done"}
    BY <1>1, <1>2, <1>3, <1>5, <2>1 DEF LogInv
  <2> QED
    BY <2>2, <2>3 DEF LogInv
<1> QED
  BY <1>4, <1>5

BlockInv == LockInv /\ LogInv /\ ReplayInv

\* The steps of the banking stage that execute, record or commit.
LEMMA WorkKeepsBlock ==
  ASSUME BlockInv, NEW x \in Txs, Execute(x) \/ Record(x) \/ Commit(x)
  PROVE  LogInv' /\ ReplayInv'
<1>0. LockInv /\ LogInv /\ ReplayInv /\ ControlInv
  BY DEF BlockInv, LockInv
<1>1. CASE Execute(x)
  <2>1. /\ status[x] = "locked" /\ status' = [status EXCEPT ![x] = "executed"]
        /\ saw' = [saw EXCEPT ![x] = Loaded(x)] /\ UNCHANGED <<stage, bank, state, log>>
    BY <1>1 DEF Execute
  <2>2. "executed" \in Statuses
    BY DEF Statuses
  <2>3. PhaseChange(x, "executed") /\ Phase(x) = "locked" /\ x \in Units
    BY Zenon, <1>0, <2>1, <2>2, BankingPhase
  <2>4. ReplayInv'
    BY Zenon, <1>0, <2>1, <2>3, ExecuteKeepsReplay DEF ExecuteStep
  <2>5. x \notin Range(log)
    BY <1>0, <2>3, NotYetLogged
  <2> QED
    BY Zenon, <1>0, <2>1, <2>2, <2>4, <2>5, BankingLog
<1>2. CASE Record(x)
  <2>1. /\ status[x] = "executed" /\ status' = [status EXCEPT ![x] = "recorded"]
        /\ log' = Append(log, x) /\ bank = "open" /\ UNCHANGED <<stage, bank, state, saw>>
    BY <1>2 DEF Record
  <2>2. "recorded" \in Statuses
    BY DEF Statuses
  <2>3. PhaseChange(x, "recorded") /\ Phase(x) = "executed" /\ x \in Units
    BY Zenon, <1>0, <2>1, <2>2, BankingPhase
  <2>4. ReplayInv'
    BY <1>0, <2>1, <2>3, RecordKeepsReplay DEF RecordStep
  <2> QED
    BY Zenon, <1>0, <2>1, <2>2, <2>4, BankingLog
<1>3. CASE Commit(x)
  <2>1. /\ status[x] = "recorded" /\ status' = [status EXCEPT ![x] = "committed"]
        /\ state' = Written(x) /\ UNCHANGED <<stage, bank, saw, log>>
    BY <1>3 DEF Commit
  <2>2. "committed" \in Statuses
    BY DEF Statuses
  <2>3. PhaseChange(x, "committed") /\ Phase(x) = "recorded" /\ x \in Units
    BY Zenon, <1>0, <2>1, <2>2, BankingPhase
  <2>4. ReplayInv'
    BY <1>0, <2>1, <2>3, CommitKeepsReplay DEF CommitStep
  <2> QED
    BY Zenon, <1>0, <2>1, <2>2, <2>4, BankingLog
<1> QED
  BY <1>1, <1>2, <1>3

\* The steps of the bundle stage that do.
LEMMA FrontKeepsBlock ==
  ASSUME BlockInv, ExecuteBundle \/ RecordBundle \/ CommitBundle
  PROVE  LogInv' /\ ReplayInv'
<1>0. LockInv /\ LogInv /\ ReplayInv /\ ControlInv
  BY DEF BlockInv, LockInv
<1> PICK c : c = Current
  OBVIOUS
<1>1. UNCHANGED <<tips, stored, window, status>> /\ at # "fill"
  BY DEF ExecuteBundle, RecordBundle, CommitBundle, banking
<1>2. PhaseChange(c, at') /\ Phase(c) = at /\ c \in Units
  BY <1>0, <1>1, FrontPhase
<1>3. CASE ExecuteBundle
  <2>1. /\ at = "locked" /\ at' = "executed" /\ saw' = [saw EXCEPT ![c] = Loaded(c)]
        /\ UNCHANGED <<bank, state, log>>
    BY <1>3 DEF ExecuteBundle
  <2>2. ReplayInv'
    BY Zenon, <1>0, <1>2, <2>1, ExecuteKeepsReplay DEF ExecuteStep
  <2> QED
    BY <1>0, <1>1, <2>1, <2>2, FrontLog
<1>4. CASE RecordBundle
  <2>1. /\ at = "executed" /\ at' = "recorded" /\ log' = Append(log, c) /\ bank = "open"
        /\ UNCHANGED <<bank, state, saw>>
    BY <1>4 DEF RecordBundle
  <2>2. ReplayInv'
    BY <1>0, <1>2, <2>1, RecordKeepsReplay DEF RecordStep
  <2> QED
    BY <1>0, <1>1, <2>1, <2>2, FrontLog
<1>5. CASE CommitBundle
  <2>1. /\ at = "recorded" /\ at' = "committed" /\ state' = Written(c)
        /\ UNCHANGED <<bank, saw, log>>
    BY <1>5 DEF CommitBundle
  <2>2. ReplayInv'
    BY <1>0, <1>2, <2>1, CommitKeepsReplay DEF CommitStep
  <2> QED
    BY <1>0, <1>1, <2>1, <2>2, FrontLog
<1> QED
  BY <1>3, <1>4, <1>5

\* The other steps of the banking stage.
LEMMA BankingQuiet ==
  ASSUME BlockInv, NEW x \in Txs, NEW s \in Statuses, s \notin {"executed", "recorded"},
         status' = [status EXCEPT ![x] = s], status[x] # "recorded",
         UNCHANGED <<stage, bank, state, log>>,
         saw' = saw \/ (saw' = [saw EXCEPT ![x] = <<>>] /\ x \notin Range(log)),
         x \in Range(log) => s \in {"removable", "done"}
  PROVE  LogInv' /\ ReplayInv'
<1>0. LockInv /\ LogInv /\ ReplayInv /\ ControlInv
  BY DEF BlockInv, LockInv
<1>1. PhaseChange(x, s) /\ Phase(x) = status[x] /\ x \in Units
  BY Zenon, <1>0, BankingPhase
<1>2. /\ \A u \in Units : u # x => saw'[u] = saw[u]
      /\ x \in Range(log) => saw'[x] = saw[x]
      /\ Range(log) \in SUBSET Units
  BY <1>0, <1>1, RangeOfSequence DEF ControlInv, TypeOK
<1>3. QuietStep
  BY <1>1, <1>2 DEF QuietStep, PhaseChange
<1> QED
  BY Zenon, <1>0, <1>3, QuietKeepsReplay, BankingLog

\* Which are: sending, locking, returning, giving up and finishing.
LEMMA OtherWorkKeepsBlock ==
  ASSUME BlockInv, NEW x \in Txs, NEW t,
         \/ LockVote(x) \/ try_schedule_transaction(x, t)
         \/ LockWork(x) \/ ReturnWork(x) \/ try_receive_completed(x)
         \/ Abandon(x) \/ DropWork(x)
  PROVE  LogInv' /\ ReplayInv'
<1>0. LogInv /\ ControlInv
  BY DEF BlockInv, LockInv
<1>1. x \in Range(log) => status[x] \in {"recorded", "committed", "removable", "done"}
  BY <1>0 DEF LogInv
<1>2. CASE LockVote(x) \/ LockWork(x)
  <2>1. /\ status[x] \in {"queued", "sent"} /\ status' = [status EXCEPT ![x] = "locked"]
        /\ UNCHANGED <<stage, bank, state, saw, log>>
    BY <1>2 DEF LockVote, LockWork
  <2> QED
    BY Zenon, <1>1, <2>1, BankingQuiet DEF Statuses
<1>3. CASE try_schedule_transaction(x, t)
  <2>1. /\ status[x] = "queued" /\ status' = [status EXCEPT ![x] = "sent"]
        /\ UNCHANGED <<stage, bank, state, saw, log>>
    BY <1>3 DEF try_schedule_transaction
  <2> QED
    BY Zenon, <1>1, <2>1, BankingQuiet DEF Statuses
<1>4. CASE ReturnWork(x)
  <2>1. /\ status[x] = "sent" /\ status' = [status EXCEPT ![x] = "retryable"]
        /\ UNCHANGED <<stage, bank, state, saw, log>>
    BY <1>4 DEF ReturnWork
  <2> QED
    BY Zenon, <1>1, <2>1, BankingQuiet DEF Statuses
<1>5. CASE try_receive_completed(x)
  <2>1. PICK s \in {"queued", "done"} :
          /\ status[x] \in {"retryable", "removable"}
          /\ s = "queued" => status[x] = "retryable"
          /\ status' = [status EXCEPT ![x] = s]
          /\ UNCHANGED <<stage, bank, state, saw, log>>
    BY Zenon, <1>5 DEF try_receive_completed
  <2> QED
    BY Zenon, <1>1, <2>1, BankingQuiet DEF Statuses
<1>6. CASE Abandon(x)
  <2>1. PICK s \in {"queued", "done", "retryable", "removable"} :
          /\ status[x] = "executed"
          /\ status' = [status EXCEPT ![x] = s]
          /\ saw' = [saw EXCEPT ![x] = <<>>]
          /\ UNCHANGED <<stage, bank, state, log>>
    BY <1>6 DEF Abandon, Finish
  <2>2. x \notin Range(log)
    BY <1>1, <2>1
  <2> QED
    BY Zenon, <2>1, <2>2, BankingQuiet DEF Statuses
<1>7. CASE DropWork(x)
  <2>1. PICK s \in {"done", "removable"} :
          /\ status[x] = "committed"
          /\ status' = [status EXCEPT ![x] = s]
          /\ UNCHANGED <<stage, bank, state, saw, log>>
    BY <1>7 DEF DropWork, Finish
  <2> QED
    BY Zenon, <2>1, BankingQuiet DEF Statuses
<1> QED
  BY <1>2, <1>3, <1>4, <1>5, <1>6, <1>7

\* The other steps of the stage with the front bundle.
LEMMA OtherFrontKeepsBlock ==
  ASSUME BlockInv, \/ CheckBundle \/ TryLockBatch \/ WakeUp \/ GiveUp \/ AbandonBundle
                   \/ DropBundleBatch
  PROVE  LogInv' /\ ReplayInv'
<1>0. LockInv /\ LogInv /\ ReplayInv /\ ControlInv
  BY DEF BlockInv, LockInv
<1> PICK c : c = Current
  OBVIOUS
<1>1. /\ at \in {"front", "try", "asleep", "executed", "committed"}
      /\ at' \in {"try", "failed", "locked", "asleep", "done"}
      /\ at = "committed" => at' = "done"
      /\ UNCHANGED <<tips, stored, window, status, bank, state, log>>
      /\ saw' = saw \/ (saw' = [saw EXCEPT ![c] = <<>>] /\ at = "executed")
  BY DEF CheckBundle, TryLockBatch, WakeUp, GiveUp, AbandonBundle, DropBundleBatch, banking
<1>2. PhaseChange(c, at') /\ Phase(c) = at /\ c \in Units
  BY <1>0, <1>1, FrontPhase
<1>3. at = "executed" => c \notin Range(log)
  BY SMTT(20), <1>0, <1>2, NotYetLogged
<1>4. /\ \A u \in Units : u # c => saw'[u] = saw[u]
      /\ c \in Range(log) => saw'[c] = saw[c]
      /\ Range(log) \in SUBSET Units
  BY <1>0, <1>1, <1>3, RangeOfSequence DEF ControlInv, TypeOK
<1>5. at' # "executed" /\ at' # "recorded" /\ at # "recorded"
  BY <1>1
<1>6. QuietStep
  <2>1. ASSUME NEW u \in Units
        PROVE  /\ Phase(u)' = "executed" => Phase(u) = "executed" /\ saw'[u] = saw[u]
               /\ Phase(u)' = "recorded" <=> Phase(u) = "recorded"
    <3>1. CASE u = c
      BY SMTT(20), <1>2, <1>5, <3>1 DEF PhaseChange
    <3>2. CASE u # c
      BY <1>2, <1>4, <3>2 DEF PhaseChange
    <3> QED
      BY <3>1, <3>2
  <2> QED
    BY SMTT(20), <1>1, <1>4, <2>1 DEF QuietStep
<1>7. LogInv'
  BY <1>0, <1>1, FrontLog
<1> QED
  BY <1>0, <1>6, <1>7, QuietKeepsReplay

\* The steps that move the window execute and record nothing.
LEMMA WindowKeepsBlock ==
  ASSUME BlockInv, TakeTips \/ Fill \/ TakeFront \/ ReleaseBundle
  PROVE  LogInv' /\ ReplayInv'
<1>0. LockInv /\ LogInv /\ ReplayInv /\ ControlInv
  BY SMTT(20) DEF BlockInv, LockInv
<1>1. /\ at \in {"fill", "failed", "done"} /\ at' \in {"fill", "front"}
      /\ UNCHANGED <<status, bank, state, saw, log>>
  BY DEF TakeTips, Fill, TakeFront, ReleaseBundle, banking
<1>2. QuietStep
  <2>1. ASSUME NEW u \in Units
        PROVE  /\ Phase(u)' = "executed" => Phase(u) = "executed"
               /\ Phase(u)' = "recorded" <=> Phase(u) = "recorded"
    BY <1>1 DEF Phase
  <2> QED
    BY <1>1, <2>1 DEF QuietStep
<1>3. LogInv'
  <2>1. ASSUME NEW b \in Bundles \cap Range(log)
        PROVE  /\ b \notin Range(stored')
               /\ b \notin Range(tips') \cup Range(window')
    <3>1. /\ b \notin Range(stored)
          /\ b \in Range(tips) \cup Range(window) => window # <<>> /\ b = Current /\ at = "done"
      BY <1>0, <1>1 DEF LogInv
    <3>2. /\ tips \in Seq(Bundles) /\ stored \in Seq(Bundles) /\ window \in Seq(Bundles)
          /\ IsInjective(tips) /\ IsInjective(stored) /\ IsInjective(window)
      BY <1>0 DEF ControlInv, TypeOK, QueuesInv
    <3>3. CASE TakeTips
      <4>1. /\ at = "fill" /\ window' = <<Head(tips)>> /\ tips # <<>>
            /\ UNCHANGED <<tips, stored>>
        BY <3>3 DEF TakeTips
      <4>2. Head(tips) \in Range(tips) /\ Range(<<Head(tips)>>) = {Head(tips)}
        BY SMTT(20), <3>2, <4>1, TailDistinct, OneDistinct
      <4> QED
        BY <3>1, <4>1, <4>2
    <3>4. CASE Fill
      <4>1. /\ at = "fill" /\ stored # <<>> /\ window' = Append(window, Head(stored))
            /\ stored' = Tail(stored) /\ tips' = tips
        BY <3>4 DEF Fill
      <4>2. /\ Range(stored) = Range(Tail(stored)) \cup {Head(stored)} /\ Head(stored) \in Bundles
        BY <3>2, <4>1, TailDistinct
      <4>3. Range(window') = Range(window) \cup {Head(stored)}
        BY SMTT(20), <3>2, <4>1, <4>2, AppendRange
      <4> QED
        BY SMTT(20), <3>1, <4>1, <4>2, <4>3
    <3>5. CASE TakeFront
      BY <3>1, <3>5 DEF TakeFront
    <3>6. CASE ReleaseBundle
      <4>1. /\ window' = Tail(window) /\ stored' = stored
            /\ tips' = IF tips # <<>> /\ at = "done" THEN Tail(tips) ELSE <<>>
            /\ at \in {"failed", "done"}
        BY <3>6 DEF ReleaseBundle
      <4>2. /\ window # <<>> /\ Current \notin Range(window')
            /\ Range(window) = Range(window') \cup {Current}
        <5>1. window # <<>>
          BY <1>0, <4>1 DEF ControlInv, QueuesInv
        <5> QED
          BY SMTT(20), <3>2, <4>1, <5>1, TailDistinct DEF Current
      <4>3. tips # <<>> => /\ Head(tips) = Current /\ Head(tips) \notin Range(Tail(tips))
                           /\ Range(tips) = Range(Tail(tips)) \cup {Head(tips)}
        <5>1. tips # <<>> => window = <<Head(tips)>>
          BY <1>0, <4>1 DEF ControlInv, QueuesInv
        <5>2. tips # <<>> => /\ Head(tips) \notin Range(Tail(tips)) /\ Head(tips) \in Bundles
                             /\ Range(tips) = Range(Tail(tips)) \cup {Head(tips)}
          BY <3>2, TailDistinct
        <5> QED
          BY <5>1, <5>2, OneDistinct DEF Current
      <4>4. Range(<<>>) = {}
        BY DEF Range
      <4>5. b \notin Range(window')
        BY <3>1, <4>2
      <4>6. b \notin Range(tips')
        BY <3>1, <4>1, <4>3, <4>4
      <4> QED
        BY <3>1, <4>1, <4>5, <4>6
    <3> QED
      BY SMTT(20), <3>3, <3>4, <3>5, <3>6
  <2> QED
    BY <1>0, <1>1, <2>1 DEF LogInv
<1> QED
  BY <1>0, <1>2, <1>3, QuietKeepsReplay

\* The end of the slot: a bank is frozen when no unit is between record
\* and commit.
LEMMA SlotKeepsBlock ==
  ASSUME BlockInv, CloseRecords \/ Freeze \/ UNCHANGED vars
  PROVE  LogInv' /\ ReplayInv'
<1>0. LockInv /\ LogInv /\ ReplayInv /\ ControlInv
  BY DEF BlockInv, LockInv
<1>1. UNCHANGED <<tips, stored, window, at, status, state, saw, log>> /\ Current' = Current
  BY DEF CloseRecords, Freeze, vars, stage, banking, Current
<1>2. \A u \in Units : Phase(u)' = Phase(u)
  BY <1>1 DEF Phase
<1>3. bank' = "frozen" => bank = "frozen" \/ \A u \in Units : Phase(u) # "recorded"
  <2>1. CASE Freeze
    BY SMTT(20), <2>1 DEF Freeze, FreezeLocked, Phase
  <2>2. CASE CloseRecords \/ UNCHANGED vars
    BY <2>2 DEF CloseRecords, vars
  <2> QED
    BY <2>1, <2>2
<1>4. QuietStep
  BY SMTT(20), <1>1, <1>2, <1>3 DEF QuietStep
<1>5. LogInv'
  BY <1>0, <1>1 DEF LogInv
<1> QED
  BY <1>0, <1>4, <1>5, QuietKeepsReplay

\* Every step keeps the block in agreement with what was executed.
LEMMA NextKeepsBlock ==
  ASSUME BlockInv, [Next]_vars
  PROVE  BlockInv'
<1>1. LockInv'
  BY NextKeepsLocks DEF BlockInv
<1>2. CASE StageStep
  BY SMTT(20), <1>1, <1>2, FrontKeepsBlock, OtherFrontKeepsBlock, WindowKeepsBlock DEF StageStep, BlockInv
<1>3. ASSUME NEW x \in Txs, LockVote(x) \/ WorkStep(x) PROVE BlockInv'
  BY <1>1, <1>3, WorkKeepsBlock, OtherWorkKeepsBlock DEF WorkStep, BlockInv
<1>4. ASSUME NEW x \in Txs, NEW t, try_schedule_transaction(x, t) PROVE BlockInv'
  BY <1>1, <1>4, OtherWorkKeepsBlock DEF BlockInv
<1>5. CASE CloseRecords \/ Freeze \/ UNCHANGED vars
  BY <1>1, <1>5, SlotKeepsBlock DEF BlockInv
<1> QED
  BY <1>2, <1>3, <1>4, <1>5 DEF Next

\* The slot starts with an empty block.
LEMMA InitBlock == Init => BlockInv
<1> SUFFICES ASSUME Init PROVE BlockInv
  OBVIOUS
<1>1. LockInv
  BY SMTT(20), InitLocks
<1>2. /\ window = <<>> /\ at = "fill" /\ bank = "open" /\ log = <<>>
      /\ state = [a \in Accounts |-> None]
      /\ \A x \in Txs : status[x] \in {"queued", "done"}
  BY DEF Init
<1>3. DOMAIN log = {} /\ Len(log) = 0 /\ Range(log) = {}
  BY <1>2 DEF Range
<1>4. \A u \in Units : Phase(u) # "executed" /\ Phase(u) # "recorded"
  BY <1>2 DEF Phase
<1>5. \A a \in Accounts : LastOf(a) = None
  <2>1. \A a : {i \in 1..0 : a \in WritesOf(log[i])} = {}
    OBVIOUS
  <2> QED
    BY <1>3, <2>1 DEF LastOf, LastWriter
<1>6. LogInv
  BY <1>3 DEF LogInv
<1>7. ReplayInv
  BY SMTT(20), <1>2, <1>3, <1>4, <1>5
     DEF ReplayInv, LoggedAgree, ExecutedAgree, RecordedLast, StateAgrees, FrozenIsDone
<1> QED
  BY <1>1, <1>6, <1>7 DEF BlockInv

\* In every behaviour, for any transactions, bundles and workers: replay
\* of the block in PoH's order gives every transaction what it saw when
\* the leader executed it, and a frozen bank has the block's state.
THEOREM BlockReplays == Spec => []ReplayAgrees
<1>1. BlockInv => ReplayAgrees
  <2> SUFFICES ASSUME BlockInv PROVE ReplayAgrees
    OBVIOUS
  <2>1. ReplayInv
    BY DEF BlockInv
  <2>2. bank = "frozen" => \A a \in Accounts : state[a] = LastWriter(log, Len(log), a)
    BY <2>1 DEF ReplayInv, FrozenIsDone, StateAgrees, LastOf
  <2> QED
    BY <2>1, <2>2 DEF ReplayInv, LoggedAgree, ReplayAgrees
<1> QED
  BY <1>1, InitBlock, NextKeepsBlock, PTL DEF Spec
=============================================================================
