------------------------ MODULE RecordChannelsProofs ------------------------
(* What is proved of RecordChannels: nothing the code asserts or panics on
   happens and the budget is exact (ChannelNeverFails), the indexes given out
   are those of the order of recording (IndexesAreFollowed), and the channel
   implements RecordChannel (ChannelKeepsPromise).  The facts on counting that
   the invariants rest on are proved first. *)
EXTENDS RecordChannels, FiniteSetTheorems, TLAPS

\* What division by the radix leaves: the two parts of a word.
LEMMA DivMod ==
  ASSUME NEW R \in Nat, R > 0, NEW w \in Nat
  PROVE  /\ w \div R \in Nat
         /\ w % R \in 0..(R - 1)
         /\ w = (w \div R) * R + (w % R)
OBVIOUS

\* A word is read back as the two parts it was made of.
LEMMA DivModUnique ==
  ASSUME NEW R \in Nat, R > 0, NEW q \in Nat, NEW r \in 0..(R - 1)
  PROVE  (q * R + r) \div R = q /\ (q * R + r) % R = r
<1> DEFINE w == q * R + r
<1>1. w \in Nat
  OBVIOUS
<1>2. PICK a \in Nat, c \in 0..(R - 1) : a = w \div R /\ c = w % R /\ w = a * R + c
  BY <1>1, DivMod
<1>3. (a - q) * R = r - c
  BY <1>2
<1>4. a = q
  <2>1. CASE a > q
    <3>1. (a - q) * R >= R
      BY <2>1
    <3> QED BY <3>1, <1>3
  <2>2. CASE a < q
    <3>1. (q - a) * R >= R
      BY <2>2
    <3>2. (q - a) * R = c - r
      BY <1>3
    <3> QED BY <3>1, <3>2
  <2> QED BY <2>1, <2>2
<1> QED BY <1>2, <1>4

\* The elements of a sequence.
LEMMA RangeOf ==
  ASSUME NEW S, NEW s \in Seq(S), NEW x
  PROVE  x \in Range(s) <=> \E i \in 1..Len(s) : s[i] = x
<1>1. DOMAIN s = 1..Len(s)
  OBVIOUS
<1> QED BY <1>1 DEF Range

\* Pushing adds an element.
LEMMA RangeAppend ==
  ASSUME NEW S, NEW s \in Seq(S), NEW x \in S
  PROVE  Range(Append(s, x)) = Range(s) \union {x}
<1>1. /\ Len(s) \in Nat /\ Append(s, x) \in Seq(S) /\ Len(Append(s, x)) = Len(s) + 1
      /\ Append(s, x)[Len(s) + 1] = x
      /\ \A i \in 1..Len(s) : Append(s, x)[i] = s[i]
  OBVIOUS
<1>2. ASSUME NEW y \in Range(Append(s, x)) PROVE y \in Range(s) \union {x}
  <2>1. PICK i \in 1..Len(Append(s, x)) : Append(s, x)[i] = y
    BY Zenon, <1>1, <1>2, RangeOf
  <2>2. i \in 1..Len(s) \/ i = Len(s) + 1
    BY <1>1
  <2> QED BY <1>1, <2>1, <2>2, RangeOf
<1>3. ASSUME NEW y \in Range(s) PROVE y \in Range(Append(s, x))
  <2>1. PICK i \in 1..Len(s) : s[i] = y
    BY Zenon, <1>3, RangeOf
  <2>2. i \in 1..Len(Append(s, x)) /\ Append(s, x)[i] = y
    BY <1>1, <2>1
  <2> QED BY Zenon, <1>1, <2>2, RangeOf
<1>4. x \in Range(Append(s, x))
  <2>1. Len(s) + 1 \in 1..Len(Append(s, x))
    BY <1>1
  <2> QED BY Zenon, <1>1, <2>1, RangeOf
<1> QED BY Zenon, <1>2, <1>3, <1>4

-----------------------------------------------------------------------------
(* Counting *)

Counted(f) == IsFiniteSet(DOMAIN f) /\ \A x \in DOMAIN f : f[x].batches \in 0..Capacity

\* g has one record more than f, at x.
Extends(f, g, x) ==
  /\ x \notin DOMAIN f /\ DOMAIN g = DOMAIN f \union {x}
  /\ \A y \in DOMAIN f : g[y] = f[y]
  /\ g[x].batches \in 0..Capacity

\* What the invariant needs to know of finite sets and of the batches of finitely
\* many records, proved below from the theorems on finite sets (CountingHolds).
Counting ==
  /\ \A n \in Nat : IsFiniteSet(1..n) /\ Cardinality(1..n) = n
  /\ \A S : IsFiniteSet(S) => \A T \in SUBSET S : IsFiniteSet(T)
  /\ \A S : IsFiniteSet(S) => Cardinality(S) \in Nat /\ (Cardinality(S) = 0 <=> S = {})
  /\ IsFiniteSet({})
  /\ \A S, x : IsFiniteSet(S) /\ x \notin S => Cardinality(S \union {x}) = Cardinality(S) + 1
  /\ \A S, x : IsFiniteSet(S) /\ x \in S => Cardinality(S \ {x}) = Cardinality(S) - 1
  /\ \A f : Counted(f) => Batches(f) \in Nat
  /\ \A f : DOMAIN f = {} => Batches(f) = 0
  /\ \A f, g, x : Counted(f) /\ Extends(f, g, x) =>
       Counted(g) /\ Batches(g) = Batches(f) + g[x].batches
  /\ \A f, g : Counted(f) => \A h \in Bijection(DOMAIN f, DOMAIN g) :
       (\A x \in DOMAIN f : g[h[x]] = f[x]) => Batches(g) = Batches(f)
  /\ \A f : Counted(f) /\ (\A x \in DOMAIN f : f[x].batches >= 1) =>
       Cardinality(DOMAIN f) <= Batches(f)

\* The facts on finite sets.
LEMMA FiniteFacts ==
  ASSUME Counting
  PROVE  /\ \A n \in Nat : IsFiniteSet(1..n) /\ Cardinality(1..n) = n
         /\ \A S : IsFiniteSet(S) => \A T \in SUBSET S : IsFiniteSet(T)
         /\ \A S : IsFiniteSet(S) => Cardinality(S) \in Nat /\ (Cardinality(S) = 0 <=> S = {})
         /\ IsFiniteSet({})
BY DEF Counting

\* One element more or less.
LEMMA FiniteSteps ==
  ASSUME Counting, NEW S, IsFiniteSet(S), NEW x
  PROVE  /\ x \notin S => Cardinality(S \union {x}) = Cardinality(S) + 1
         /\ x \in S => Cardinality(S \ {x}) = Cardinality(S) - 1
BY DEF Counting

\* The batches of finitely many records can be counted.
LEMMA BatchesNumber ==
  ASSUME Counting, NEW f, Counted(f)
  PROVE  Batches(f) \in Nat
BY DEF Counting

\* No record, no batch.
LEMMA BatchesOfNone ==
  ASSUME Counting, NEW f, DOMAIN f = {}
  PROVE  Batches(f) = 0
BY DEF Counting

\* One record more adds its batches.
LEMMA BatchesOfMore ==
  ASSUME Counting, NEW f, NEW g, NEW x, Counted(f), x \notin DOMAIN f,
         DOMAIN g = DOMAIN f \union {x}, \A y \in DOMAIN f : g[y] = f[y],
         g[x].batches \in 0..Capacity
  PROVE  Counted(g) /\ Batches(g) = Batches(f) + g[x].batches
<1>1. Extends(f, g, x)
  BY DEF Extends
<1>2. \A e, h, y : Counted(e) /\ Extends(e, h, y) =>
        Counted(h) /\ Batches(h) = Batches(e) + h[y].batches
  BY Zenon DEF Counting
<1> QED BY <1>1, <1>2

\* The order in which records are kept does not change their batches.
LEMMA BatchesRenamed ==
  ASSUME Counting, NEW f, NEW g, Counted(f), NEW h \in Bijection(DOMAIN f, DOMAIN g),
         \A x \in DOMAIN f : g[h[x]] = f[x]
  PROVE  Batches(g) = Batches(f)
BY Zenon DEF Counting

\* Every record has a batch, so there are at most as many records as batches.
LEMMA BatchesBoundSize ==
  ASSUME Counting, NEW f, Counted(f), \A x \in DOMAIN f : f[x].batches >= 1
  PROVE  Cardinality(DOMAIN f) <= Batches(f)
BY Zenon DEF Counting

-----------------------------------------------------------------------------
(* The invariant *)

PCs == {"idle", "lock", "load", "enter", "reserve", "push", "leave", "return"}
Ats == {"top", "work", "try", "check", "recheck", "after", "add", "record", "safe", "set",
        "restart", "store", "unlock"}

TypeOK ==
  /\ tracking \in BOOLEAN
  /\ word \in Nat /\ bank_id(word) \in 0..DISABLED_BANK_ID
  /\ active \in Nat
  /\ chan \in Seq(AllRecords)
  /\ lock \in Threads \union {Free, Service}
  /\ index \in Nat
  /\ pc \in [Threads -> PCs]
  /\ record \in [Threads -> [thread : Threads, number : Nat, bank : Nat, batches : 0..Capacity]]
  /\ \A t \in Threads : /\ record[t].thread = t
                        /\ pc[t] # "idle" => record[t] \in AllRecords
  /\ seen \in [Threads -> Nat]
  /\ at \in Ats
  /\ message \in 0..MaxBankId
  /\ got \in AllRecords \union {NoRecord}
  /\ bank \in 0..MaxBankId
  /\ given \subseteq [record : AllRecords, index : Nat]
  /\ recorded \in Seq(AllRecords)
  /\ failed \in BOOLEAN

\* The senders that active_senders counts.
Inside == {t \in Threads : pc[t] \in {"reserve", "push", "leave"}}

SendersInv ==
  /\ active = Cardinality(Inside)
  /\ \A t \in Threads : pc[t] \in {"enter", "reserve"} => Admits(seen[t], record[t])

BankInv ==
  /\ \A t \in Reserved : record[t].bank = bank
  /\ \A i \in 1..Len(chan) : chan[i].bank = bank
  /\ IF at \in {"add", "record"} THEN got \in AllRecords /\ got.bank = bank ELSE got = NoRecord

ServiceInv ==
  /\ at = "top" => message = 0
  /\ at \in {"safe", "set", "restart", "store", "unlock"} => message # 0
  /\ message # 0 => message = IF at \in {"restart", "store", "unlock"} THEN bank ELSE bank + 1
  /\ message # 0 /\ at # "unlock" => bank_id(word) = DISABLED_BANK_ID
  /\ at \in {"safe", "set", "restart", "store"} => Reserved = {}
  /\ at \in {"set", "restart", "store"} => chan = <<>>

ChannelInv == TypeOK /\ SendersInv /\ BankInv /\ ServiceInv /\ BudgetIsExact /\ ~failed

-----------------------------------------------------------------------------
\* What the records are made of, and that none of them is the one that stands
\* for no record.
LEMMA RecordFacts ==
  \A r \in AllRecords : /\ r.thread \in Threads /\ r.number \in Nat \ {0}
                        /\ r.bank \in 1..MaxBankId /\ r.batches \in 1..Capacity
                        /\ r # NoRecord
<1> SUFFICES ASSUME NEW t \in Threads, NEW i \in 1..Len(Plan[t]), NEW b \in 1..MaxBankId,
                    NEW r, r = [thread |-> t, number |-> i, bank |-> b, batches |-> Plan[t][i]]
             PROVE  /\ r.thread \in Threads /\ r.number \in Nat \ {0}
                    /\ r.bank \in 1..MaxBankId /\ r.batches \in 1..Capacity
                    /\ r # NoRecord
  BY DEF AllRecords
<1>1. Plan[t] \in Seq(1..(Radix - 1))
  BY NumbersFit
<1>2. Plan[t][i] \in 1..(Radix - 1) /\ i \in Nat \ {0}
  BY <1>1, NumbersFit
<1> QED BY <1>2, NumbersFit DEF Capacity, NoRecord

\* The packing of bank and insertions into one word (encoded_value, bank_id,
\* allowed_insertions): what is put in is read back, and adding insertions that
\* fit never carries into the bank.
LEMMA Words ==
  /\ SHUTDOWN \in Nat /\ bank_id(SHUTDOWN) = DISABLED_BANK_ID /\ allowed_insertions(SHUTDOWN) = 0
  /\ \A w \in Nat : bank_id(w) \in Nat /\ allowed_insertions(w) \in 0..Capacity
  /\ \A id \in Nat, n \in 0..Capacity :
       /\ encoded_value(id, n) \in Nat
       /\ bank_id(encoded_value(id, n)) = id
       /\ allowed_insertions(encoded_value(id, n)) = n
  /\ \A w, n \in Nat :
       bank_id(w) <= DISABLED_BANK_ID /\ allowed_insertions(w) + n <= Capacity =>
         /\ Wrapped(w + n) \in Nat
         /\ bank_id(Wrapped(w + n)) = bank_id(w)
         /\ allowed_insertions(Wrapped(w + n)) = allowed_insertions(w) + n
<1>1. \A id \in Nat, n \in 0..Capacity :
       /\ encoded_value(id, n) \in Nat
       /\ bank_id(encoded_value(id, n)) = id
       /\ allowed_insertions(encoded_value(id, n)) = n
  <2> SUFFICES ASSUME NEW id \in Nat, NEW n \in 0..Capacity
               PROVE  /\ id * Radix + n \in Nat
                      /\ (id * Radix + n) \div Radix = id
                      /\ (id * Radix + n) % Radix = n
    BY DEF encoded_value, bank_id, allowed_insertions
  <2> QED BY DivModUnique, NumbersFit DEF Capacity
<1>2. \A w \in Nat : bank_id(w) \in Nat /\ allowed_insertions(w) \in 0..Capacity
  BY DivMod, NumbersFit DEF bank_id, allowed_insertions, Capacity
<1>3. SHUTDOWN \in Nat /\ bank_id(SHUTDOWN) = DISABLED_BANK_ID /\ allowed_insertions(SHUTDOWN) = 0
  BY <1>1, NumbersFit DEF SHUTDOWN, DISABLED_BANK_ID, Capacity
<1>4. ASSUME NEW w \in Nat, NEW n \in Nat, bank_id(w) <= DISABLED_BANK_ID,
             allowed_insertions(w) + n <= Capacity
      PROVE  /\ Wrapped(w + n) \in Nat
             /\ bank_id(Wrapped(w + n)) = bank_id(w)
             /\ allowed_insertions(Wrapped(w + n)) = allowed_insertions(w) + n
  <2> DEFINE D == DISABLED_BANK_ID + 1
             id == bank_id(w)
             m == allowed_insertions(w) + n
  <2>1. /\ id \in Nat /\ D \in Nat /\ id < D /\ m \in 0..Capacity /\ Radix \in Nat /\ Radix > 1
        /\ m < Radix
    <3>1. id \in Nat /\ allowed_insertions(w) \in 0..Capacity
      BY <1>2
    <3>2. DISABLED_BANK_ID \in Nat /\ Capacity = Radix - 1 /\ Radix \in Nat /\ Radix > 1
      BY NumbersFit DEF DISABLED_BANK_ID, Capacity
    <3> QED BY <3>1, <3>2, <1>4
  <2>2. w + n = id * Radix + m
    BY DivMod, NumbersFit, <1>2 DEF bank_id, allowed_insertions
  <2>3. w + n = encoded_value(id, m)
    BY <2>2 DEF encoded_value
  <2> HIDE DEF D, id, m
  <2>4. id * Radix + m < D * Radix
    <3>1. (D - id) * Radix >= Radix
      BY <2>1
    <3> QED BY <3>1, <2>1
  <2>5. D * Radix \in Nat /\ w + n \in Nat
    BY <2>1
  <2>6. (w + n) % (D * Radix) = w + n
    <3> DEFINE M == D * Radix
    <3>1. M \in Nat /\ M > 0 /\ w + n \in 0..(M - 1) /\ 0 * M + (w + n) = w + n
      BY <2>1, <2>2, <2>4, <2>5
    <3> HIDE DEF M
    <3>2. (0 * M + (w + n)) % M = w + n
      BY <3>1, DivModUnique
    <3> QED BY <3>1, <3>2 DEF M
  <2>7. Wrapped(w + n) = encoded_value(id, m)
    BY <2>3, <2>6 DEF Wrapped, D
  <2> QED BY <1>1, <2>1, <2>7 DEF id, m
<1> QED BY <1>1, <1>2, <1>3, <1>4

\* The batches of a queue can be counted.
LEMMA SeqCounted ==
  ASSUME Counting, NEW s \in Seq(AllRecords)
  PROVE  /\ Counted(s) /\ Batches(s) \in Nat /\ Len(s) <= Batches(s)
         /\ Cardinality(DOMAIN s) = Len(s)
<1>1. DOMAIN s = 1..Len(s) /\ Len(s) \in Nat /\ \A i \in 1..Len(s) : s[i] \in AllRecords
  OBVIOUS
<1>2. IsFiniteSet(1..Len(s)) /\ Cardinality(1..Len(s)) = Len(s)
  <2>1. \A n \in Nat : IsFiniteSet(1..n) /\ Cardinality(1..n) = n
    BY FiniteFacts
  <2> QED BY <1>1, <2>1
<1>3. Counted(s) /\ \A x \in DOMAIN s : s[x].batches >= 1
  BY <1>1, <1>2, RecordFacts, NumbersFit DEF Counted, Capacity
<1>4. Batches(s) \in Nat /\ Cardinality(DOMAIN s) <= Batches(s)
  BY <1>3, BatchesNumber, BatchesBoundSize
<1> QED BY <1>1, <1>2, <1>3, <1>4

\* Pushing a record adds its batches to those of the queue.
LEMMA BatchesAppend ==
  ASSUME Counting, NEW s \in Seq(AllRecords), NEW r \in AllRecords
  PROVE  Batches(Append(s, r)) = Batches(s) + r.batches
<1> DEFINE g == Append(s, r)
           x == Len(s) + 1
<1>1. DOMAIN s = 1..Len(s) /\ Len(s) \in Nat
  OBVIOUS
<1>2. DOMAIN g = DOMAIN s \union {x} /\ x \notin DOMAIN s /\ g[x] = r
  BY <1>1
<1>3. \A y \in DOMAIN s : g[y] = s[y]
  BY <1>1
<1>4. g[x].batches \in 0..Capacity
  BY <1>2, RecordFacts, NumbersFit DEF Capacity
<1> HIDE DEF g, x
<1>5. Batches(g) = Batches(s) + g[x].batches
  BY <1>2, <1>3, <1>4, SeqCounted, BatchesOfMore
<1> QED BY <1>2, <1>5 DEF g

\* Popping a record takes its batches out of the queue.
LEMMA BatchesTail ==
  ASSUME Counting, NEW s \in Seq(AllRecords), s # <<>>
  PROVE  Batches(s) = Batches(Tail(s)) + Head(s).batches
<1> DEFINE f == [i \in 2..Len(s) |-> s[i]]
           h == [i \in 1..(Len(s) - 1) |-> i + 1]
<1>1. /\ DOMAIN s = 1..Len(s) /\ Len(s) \in Nat /\ Len(s) >= 1 /\ Head(s) = s[1]
      /\ Head(s) \in AllRecords
  OBVIOUS
<1>2. /\ Tail(s) \in Seq(AllRecords) /\ DOMAIN Tail(s) = 1..(Len(s) - 1)
      /\ \A i \in 1..(Len(s) - 1) : Tail(s)[i] = s[i + 1]
  BY <1>1
<1>3. h \in Bijection(1..(Len(s) - 1), 2..Len(s))
  <2>1. h \in [1..(Len(s) - 1) -> 2..Len(s)]
    BY <1>1
  <2>2. \A j \in 2..Len(s) : j - 1 \in 1..(Len(s) - 1) /\ h[j - 1] = j
    BY <1>1
  <2>3. \A j \in 2..Len(s) : \E i \in 1..(Len(s) - 1) : h[i] = j
    BY <2>2
  <2>4. \A i, j \in 1..(Len(s) - 1) : h[i] = h[j] => i = j
    BY <1>1
  <2> QED BY Zenon, <2>1, <2>3, <2>4 DEF Bijection, Injection, Surjection, IsInjective
<1>4. Batches(f) = Batches(Tail(s))
  <2>1. DOMAIN f = 2..Len(s) /\ \A x \in DOMAIN Tail(s) : f[h[x]] = Tail(s)[x]
    BY <1>1, <1>2
  <2>2. Counted(Tail(s))
    BY Zenon, <1>2, SeqCounted
  <2> QED BY ZenonT(30), <1>2, <1>3, <2>1, <2>2, BatchesRenamed
<1>5. Counted(f)
  <2>1. IsFiniteSet(2..Len(s))
    BY <1>1, FiniteFacts
  <2> QED BY <1>1, <2>1, RecordFacts, NumbersFit DEF Counted, Capacity
<1>6. /\ DOMAIN s = DOMAIN f \union {1} /\ 1 \notin DOMAIN f
      /\ \A y \in DOMAIN f : s[y] = f[y]
  BY <1>1
<1>7. s[1].batches \in 0..Capacity
  BY <1>1, RecordFacts, NumbersFit DEF Capacity
<1> HIDE DEF f, h
<1>8. Batches(s) = Batches(f) + s[1].batches
  BY <1>5, <1>6, <1>7, BatchesOfMore
<1> QED BY <1>1, <1>4, <1>8

\* The batches of the records whose place is reserved can be counted.
LEMMA HeldCounted ==
  ASSUME Counting, TypeOK
  PROVE  Counted(Held) /\ Batches(Held) \in Nat
<1>1. IsFiniteSet(Reserved)
  BY ThreadsAssumption, FiniteFacts DEF Reserved
<1>2. Counted(Held)
  BY SMTT(20), <1>1, NumbersFit DEF Counted, Held, Reserved, TypeOK, Capacity
<1> QED BY <1>2, BatchesNumber

\* A reservation adds the batches of its record to those held.
LEMMA HeldAdds ==
  ASSUME Counting, TypeOK, NEW t \in Threads, pc[t] # "push", pc' = [pc EXCEPT ![t] = "push"],
         record' = record
  PROVE  Batches(Held') = Batches(Held) + record[t].batches
<1>1. Reserved' = Reserved \union {t} /\ t \notin Reserved
  BY Zenon DEF Reserved, TypeOK
<1>2. /\ DOMAIN Held' = DOMAIN Held \union {t} /\ t \notin DOMAIN Held
      /\ (\A y \in DOMAIN Held : Held'[y] = Held[y]) /\ Held'[t] = record[t]
  BY <1>1 DEF Held
<1>3. record[t].batches \in 0..Capacity
  BY DEF TypeOK
<1> QED BY <1>2, <1>3, HeldCounted, BatchesOfMore

\* Pushing a reserved record takes its batches out of those held.
LEMMA HeldDrops ==
  ASSUME Counting, TypeOK, NEW t \in Threads, pc[t] = "push", pc' = [pc EXCEPT ![t] = "leave"],
         record' = record
  PROVE  /\ Batches(Held) = Batches(Held') + record[t].batches
         /\ Batches(Held') \in Nat
<1>1. Reserved = Reserved' \union {t} /\ t \notin Reserved'
  BY SMTT(20) DEF Reserved, TypeOK
<1>2. /\ DOMAIN Held = DOMAIN Held' \union {t} /\ t \notin DOMAIN Held'
      /\ (\A y \in DOMAIN Held' : Held[y] = Held'[y]) /\ Held[t] = record[t]
  BY <1>1 DEF Held
<1>3. record[t].batches \in 0..Capacity
  BY DEF TypeOK
<1>4. IsFiniteSet(Reserved')
  <2>1. Reserved' \in SUBSET Threads
    BY DEF Reserved
  <2> QED BY <2>1, ThreadsAssumption, FiniteFacts
<1>5. Counted(Held')
  BY SMTT(20), <1>4, <1>1, NumbersFit DEF Counted, Held, Reserved, TypeOK, Capacity
<1> QED BY <1>2, <1>3, <1>5, BatchesNumber, BatchesOfMore

\* Nothing else changes what is held.
LEMMA HeldKept ==
  ASSUME Reserved' = Reserved, \A t \in Reserved : record'[t] = record[t]
  PROVE  Held' = Held
BY DEF Held

\* The terms of the budget are natural numbers, and the queue has no more
\* records than batches.
LEMMA Numbers ==
  ASSUME Counting, TypeOK
  PROVE  /\ Batches(chan) \in Nat /\ Len(chan) \in Nat /\ Len(chan) <= Batches(chan)
         /\ Batches(Held) \in Nat /\ Capacity \in Nat
         /\ allowed_insertions(word) \in Nat /\ got.batches \in Nat
<1>1. allowed_insertions(word) \in 0..Capacity
  BY Words DEF TypeOK
<1>2. /\ Batches(chan) \in Nat /\ Len(chan) <= Batches(chan) /\ Len(chan) \in Nat
  BY SeqCounted DEF TypeOK
<1>3. Batches(Held) \in Nat /\ Capacity \in Nat
  BY HeldCounted, NumbersFit DEF Capacity
<1>4. got.batches \in 0..Capacity
  BY SMTT(20), <1>3, RecordFacts DEF TypeOK, NoRecord
<1> QED BY <1>1, <1>2, <1>3, <1>4

\* The budget depends on nothing else.
LEMMA BudgetKept ==
  ASSUME BudgetIsExact, chan' = chan, Held' = Held, bank' = bank, got' = got,
         at = "add" <=> at' = "add",
         bank_id(word') = bank_id(word), allowed_insertions(word') = allowed_insertions(word)
  PROVE  BudgetIsExact'
BY DEF BudgetIsExact

\* Shutting the channel keeps the budget within the capacity.
LEMMA BudgetShut ==
  ASSUME Counting, TypeOK, BudgetIsExact, chan' = chan, Held' = Held, got' = got,
         at = "add" <=> at' = "add", word' = SHUTDOWN
  PROVE  BudgetIsExact'
<1>1. bank_id(word') = DISABLED_BANK_ID /\ allowed_insertions(word') = 0
  BY Words
<1> QED BY SMTT(20), <1>1, Numbers DEF BudgetIsExact

\* active_senders is right as long as no sender enters or leaves.
LEMMA InsideKept ==
  ASSUME Inside' = Inside, active' = active, active = Cardinality(Inside)
  PROVE  active' = Cardinality(Inside')
OBVIOUS

\* The senders inside can be counted.
LEMMA InsideFinite ==
  ASSUME Counting
  PROVE  IsFiniteSet(Inside) /\ Cardinality(Inside) \in Nat
<1>1. Inside \in SUBSET Threads
  BY Zenon DEF Inside
<1> QED BY <1>1, ThreadsAssumption, FiniteFacts

\* A call of try_send keeps the invariant.
LEMMA CallStep ==
  ASSUME ChannelInv, NEW t \in Threads, NEW b \in 1..MaxBankId, Call(t, b)
  PROVE  ChannelInv'
<1> USE DEF ChannelInv
<1>0. Capacity \in Nat /\ MaxBankId \in Nat
  BY NumbersFit DEF Capacity
<1> USE DEF Call, Goes, receiver
<1>1. record'[t] \in AllRecords /\ pc[t] = "idle" /\ pc'[t] = "lock"
  <2>1. Plan[t] \in Seq(1..(Radix - 1)) /\ record[t].number + 1 \in 1..Len(Plan[t])
    <3>1. Plan[t] \in Seq(1..(Radix - 1)) /\ record[t].number \in Nat
      BY Zenon, NumbersFit DEF TypeOK
    <3>2. Len(Plan[t]) \in Nat
      BY <3>1
    <3> QED BY SMTT(20), <3>1, <3>2
  <2>2. record'[t] = [thread |-> t, number |-> record[t].number + 1, bank |-> b,
                      batches |-> Plan[t][record[t].number + 1]]
    BY Zenon DEF TypeOK
  <2>3. record'[t] \in {[thread |-> t, number |-> i, bank |-> c, batches |-> Plan[t][i]] :
                          i \in 1..Len(Plan[t]), c \in 1..MaxBankId}
    BY <2>1, <2>2
  <2>4. pc[t] = "idle" /\ pc'[t] = "lock"
    BY Zenon DEF TypeOK
  <2> QED BY <2>3, <2>4 DEF AllRecords
<1>2. TypeOK'
  <2>1. record'[t] \in [thread : Threads, number : Nat, bank : Nat, batches : 0..Capacity]
    <3>1. record'[t] = [thread |-> t, number |-> record[t].number + 1, bank |-> b,
                        batches |-> Plan[t][record[t].number + 1]]
      BY DEF TypeOK
    <3>2. record'[t].batches \in 0..Capacity /\ record'[t].number \in Nat /\ b \in Nat
      BY <1>1, RecordFacts, <1>0, NumbersFit
    <3> QED BY SMTT(20), <3>1, <3>2
  <2>2. record' \in [Threads -> [thread : Threads, number : Nat, bank : Nat, batches : 0..Capacity]]
    BY Zenon, <2>1 DEF TypeOK
  <2>3. pc' \in [Threads -> PCs]
    BY Zenon DEF TypeOK, PCs
  <2>4. \A u \in Threads : /\ record'[u].thread = u
                           /\ pc'[u] # "idle" => record'[u] \in AllRecords
    BY Zenon, <1>1 DEF TypeOK
  <2>5. /\ tracking' = tracking /\ word' = word /\ active' = active /\ chan' = chan
        /\ lock' = lock /\ index' = index /\ seen' = seen /\ given' = given /\ at' = at
        /\ message' = message /\ got' = got /\ bank' = bank /\ recorded' = recorded
        /\ failed' = failed
    OBVIOUS
  <2> HIDE DEF Call
  <2>6. bank_id(word') = bank_id(word)
    BY <2>5
  <2> QED BY Zenon, <2>2, <2>3, <2>4, <2>5, <2>6 DEF TypeOK
<1>3. Inside' = Inside /\ Reserved' = Reserved
  BY Zenon DEF TypeOK, Inside, Reserved
<1>4. \A u \in Threads : pc'[u] \in {"enter", "reserve", "push"} =>
        pc[u] = pc'[u] /\ record'[u] = record[u]
  BY Zenon DEF TypeOK
<1>5. SendersInv'
  BY SMTT(20), <1>3, <1>4, InsideKept DEF SendersInv
<1>6. BankInv' /\ ServiceInv'
  BY SMTT(20), <1>3, <1>4 DEF BankInv, ServiceInv, Reserved
<1>7. Held' = Held
  BY <1>3, <1>4, HeldKept DEF Reserved
<1> QED BY <1>2, <1>5, <1>6, <1>7, BudgetKept

\* Taking the lock keeps the invariant.
LEMMA LockKeeps ==
  ASSUME ChannelInv, NEW t \in Threads
  PROVE  Lock(t) => ChannelInv'
<1> USE DEF ChannelInv
<1>0. /\ Free \notin Threads /\ Service \notin Threads /\ Free # Service
      /\ Capacity \in Nat /\ Capacity >= 1 /\ MaxBankId \in Nat /\ DISABLED_BANK_ID = MaxBankId + 1
  BY ThreadsAssumption, NumbersFit DEF Free, Service, Capacity, DISABLED_BANK_ID
<1>h. HAVE Lock(t)
<1> USE DEF Lock, Unlocked, Goes, receiver
<1>1. TypeOK'
  BY Zenon, <1>h, <1>0 DEF TypeOK, PCs
<1>2. Inside' = Inside /\ Reserved' = Reserved
  BY SMTT(20), <1>h DEF TypeOK, Inside, Reserved
<1>3. SendersInv'
  BY SMTT(20), <1>h, <1>2, InsideKept DEF SendersInv, TypeOK
<1>4. BankInv' /\ ServiceInv'
  BY <1>h, <1>2 DEF BankInv, ServiceInv
<1>5. Held' = Held
  BY Zenon, <1>h, <1>2, HeldKept
<1> QED BY <1>h, <1>1, <1>3, <1>4, <1>5, BudgetKept

\* Loading the word keeps the invariant: what it admits is remembered.
LEMMA LoadKeeps ==
  ASSUME ChannelInv, NEW t \in Threads
  PROVE  Load(t) => ChannelInv'
<1> USE DEF ChannelInv
<1>0. /\ Free \notin Threads /\ Service \notin Threads /\ Free # Service
      /\ Capacity \in Nat /\ Capacity >= 1 /\ MaxBankId \in Nat /\ DISABLED_BANK_ID = MaxBankId + 1
  BY ThreadsAssumption, NumbersFit DEF Free, Service, Capacity, DISABLED_BANK_ID
<1>h. HAVE Load(t)
<1> USE DEF Load, Goes, receiver
<1>1. TypeOK'
  BY Zenon, <1>h, <1>0 DEF TypeOK, PCs
<1>2. Inside' = Inside /\ Reserved' = Reserved
  BY SMTT(20), <1>h DEF TypeOK, Inside, Reserved
<1>3. SendersInv'
  BY Zenon, <1>h, <1>2, InsideKept DEF SendersInv, TypeOK
<1>4. BankInv' /\ ServiceInv'
  BY <1>h, <1>2 DEF BankInv, ServiceInv
<1>5. Held' = Held
  BY <1>h, <1>2, HeldKept
<1> QED BY SMTT(20), <1>h, <1>1, <1>3, <1>4, <1>5, BudgetKept

\* A refused record changes nothing but the lock.
LEMMA RefuseKeeps ==
  ASSUME ChannelInv, NEW t \in Threads
  PROVE  Refuse(t) => ChannelInv'
<1> USE DEF ChannelInv
<1>0. /\ Free \notin Threads /\ Service \notin Threads /\ Free # Service
      /\ Capacity \in Nat /\ Capacity >= 1 /\ MaxBankId \in Nat /\ DISABLED_BANK_ID = MaxBankId + 1
  BY ThreadsAssumption, NumbersFit DEF Free, Service, Capacity, DISABLED_BANK_ID
<1>h. HAVE Refuse(t)
<1> USE DEF Refuse, Unlocked, Goes, receiver
<1>1. TypeOK'
  BY Zenon, <1>h, <1>0 DEF TypeOK, PCs
<1>2. Inside' = Inside /\ Reserved' = Reserved
  BY Zenon, <1>h DEF TypeOK, Inside, Reserved
<1>3. SendersInv'
  BY SMTT(20), <1>h, <1>2, InsideKept DEF SendersInv, TypeOK
<1>4. BankInv' /\ ServiceInv'
  BY <1>h, <1>2 DEF BankInv, ServiceInv
<1>5. Held' = Held
  BY Zenon, <1>h, <1>2, HeldKept
<1> QED BY SMTT(20), <1>h, <1>1, <1>3, <1>4, <1>5, BudgetKept

\* Returning the index keeps the invariant.
LEMMA ReturnKeeps ==
  ASSUME ChannelInv, NEW t \in Threads
  PROVE  Return(t) => ChannelInv'
<1> USE DEF ChannelInv
<1>0. /\ Free \notin Threads /\ Service \notin Threads /\ Free # Service
      /\ Capacity \in Nat /\ Capacity >= 1 /\ MaxBankId \in Nat /\ DISABLED_BANK_ID = MaxBankId + 1
  BY ThreadsAssumption, NumbersFit DEF Free, Service, Capacity, DISABLED_BANK_ID
<1>h. HAVE Return(t)
<1> USE DEF Return, Unlocked, Goes, receiver
<1>1. TypeOK'
  <2>1. record[t] \in AllRecords /\ record[t].batches \in Nat
    BY SMTT(20), <1>h, <1>0, RecordFacts DEF TypeOK
  <2>2. given' \subseteq [record : AllRecords, index : Nat] /\ index' \in Nat
    <3>1. given \subseteq [record : AllRecords, index : Nat] /\ index \in Nat
      BY <1>h DEF TypeOK
    <3>2. [record |-> record[t], index |-> index] \in [record : AllRecords, index : Nat]
      BY Zenon, <2>1, <3>1
    <3> QED BY <1>h, <2>1, <3>1, <3>2
  <2> QED BY Zenon, <1>h, <2>2, <1>0 DEF TypeOK, PCs
<1>2. Inside' = Inside /\ Reserved' = Reserved
  BY Zenon, <1>h DEF TypeOK, Inside, Reserved
<1>3. SendersInv'
  BY Zenon, <1>h, <1>2, InsideKept DEF SendersInv, TypeOK
<1>4. BankInv' /\ ServiceInv'
  BY SMTT(20), <1>h, <1>2 DEF BankInv, ServiceInv
<1>5. Held' = Held
  BY <1>h, <1>2, HeldKept
<1> QED BY Zenon, <1>h, <1>1, <1>3, <1>4, <1>5, BudgetKept

\* A sender that enters is counted.
LEMMA EnterKeeps ==
  ASSUME Counting, ChannelInv, NEW t \in Threads
  PROVE  Enter(t) => ChannelInv'
<1> USE DEF ChannelInv
<1>h. HAVE Enter(t)
<1> USE DEF Enter, Goes, receiver
<1>1. TypeOK'
  BY SMTT(20), <1>h DEF TypeOK, PCs
<1>2. Inside' = Inside \union {t} /\ t \notin Inside /\ Reserved' = Reserved
  BY Zenon, <1>h DEF TypeOK, Inside, Reserved
<1>3. active' = Cardinality(Inside')
  BY <1>h, <1>2, InsideFinite, FiniteSteps DEF SendersInv
<1>4. SendersInv'
  BY Zenon, <1>h, <1>3 DEF SendersInv, TypeOK
<1>5. BankInv' /\ ServiceInv'
  BY <1>h, <1>2 DEF BankInv, ServiceInv
<1>6. Held' = Held
  BY Zenon, <1>h, <1>2, HeldKept
<1> QED BY Zenon, <1>h, <1>1, <1>4, <1>5, <1>6, BudgetKept

\* A reservation moves batches from the insertions allowed to those held.
LEMMA ReserveKeeps ==
  ASSUME Counting, ChannelInv, NEW t \in Threads
  PROVE  Reserve(t) => ChannelInv'
<1> USE DEF ChannelInv
<1>a. /\ Batches(chan) \in Nat /\ Len(chan) \in Nat /\ Len(chan) <= Batches(chan)
      /\ Batches(Held) \in Nat /\ Capacity \in Nat
      /\ allowed_insertions(word) \in Nat /\ got.batches \in Nat
  BY Numbers
<1>0. /\ Free \notin Threads /\ Service \notin Threads /\ Free # Service
      /\ Capacity \in Nat /\ Capacity >= 1 /\ MaxBankId \in Nat /\ DISABLED_BANK_ID = MaxBankId + 1
  BY SMTT(20), ThreadsAssumption, NumbersFit DEF Free, Service, Capacity, DISABLED_BANK_ID
<1>h. HAVE Reserve(t)
<1> USE DEF Reserve, Goes, receiver
<1>1. /\ pc[t] = "reserve" /\ pc' = [pc EXCEPT ![t] = "push"]
      /\ bank_id(word) # DISABLED_BANK_ID /\ bank_id(word) = record[t].bank
      /\ allowed_insertions(word) - record[t].batches \in 0..Capacity
  <2>1. Admits(word, record[t])
    BY Zenon, <1>h DEF SendersInv
  <2>2. record[t] \in AllRecords /\ allowed_insertions(word) \in 0..Capacity
    BY Zenon, <1>h, Words DEF TypeOK
  <2> QED BY SMTT(20), <1>h, <2>1, <2>2, <1>0, RecordFacts DEF Admits
<1>2. /\ word' \in Nat /\ bank_id(word') = bank_id(word)
      /\ allowed_insertions(word') = allowed_insertions(word) - record[t].batches
  BY Zenon, <1>h, <1>1, Words DEF TypeOK
<1>3. TypeOK'
  BY Zenon, <1>h, <1>1, <1>2 DEF TypeOK, PCs
<1>4. Inside' = Inside /\ Reserved' = Reserved \union {t}
  BY Zenon, <1>h DEF TypeOK, Inside, Reserved
<1>5. SendersInv'
  BY Zenon, <1>h, <1>4, InsideKept DEF SendersInv, TypeOK
<1>6. bank_id(word) = bank
  BY <1>h, <1>1 DEF BudgetIsExact
<1>7. BankInv'
  BY Zenon, <1>h, <1>1, <1>4, <1>6 DEF BankInv
<1>8. ServiceInv'
  BY <1>h, <1>1, <1>2 DEF ServiceInv
<1>9. Batches(Held') = Batches(Held) + record[t].batches
  BY Zenon, <1>h, <1>1, HeldAdds
<1>10. record[t].batches \in Nat
  BY <1>h, <1>0 DEF TypeOK
<1>11. at' = at /\ got' = got /\ chan' = chan /\ bank' = bank
  BY Zenon, <1>h
<1>12. BudgetIsExact'
  <2> DEFINE G == IF at = "add" THEN got.batches ELSE 0
  <2>1. G \in Nat /\ bank_id(word) = bank
    BY Zenon, <1>a, <1>1 DEF BudgetIsExact
  <2>2. allowed_insertions(word) + (Batches(chan) + Batches(Held) + G) = Capacity
    BY <1>1 DEF BudgetIsExact
  <2> HIDE DEF G
  <2>3. allowed_insertions(word') + (Batches(chan) + Batches(Held') + G) = Capacity
    <3>1. PICK a, c, h, g, r \in Nat :
            /\ a = allowed_insertions(word) /\ c = Batches(chan) /\ h = Batches(Held)
            /\ g = G /\ r = record[t].batches
      BY SMTT(20), <1>10, <2>1, <1>a
    <3>2. a + (c + h + g) = Capacity
      BY <3>1, <2>2
    <3>3. (a - r) + (c + (h + r) + g) = Capacity
      BY <3>2
    <3> QED BY <1>2, <1>9, <3>1, <3>3, Zenon
  <2> QED BY Zenon, <1>1, <1>2, <1>11, <2>1, <2>3 DEF BudgetIsExact, G
<1> QED BY SMTT(20), <1>h, <1>3, <1>5, <1>7, <1>8, <1>12

\* A sender that goes round again is counted no more.
LEMMA RetryKeeps ==
  ASSUME Counting, ChannelInv, NEW t \in Threads
  PROVE  Retry(t) => ChannelInv'
<1> USE DEF ChannelInv
<1>0. /\ Free \notin Threads /\ Service \notin Threads /\ Free # Service
      /\ Capacity \in Nat /\ Capacity >= 1 /\ MaxBankId \in Nat /\ DISABLED_BANK_ID = MaxBankId + 1
  BY ThreadsAssumption, NumbersFit DEF Free, Service, Capacity, DISABLED_BANK_ID
<1>h. HAVE Retry(t)
<1> USE DEF Retry, Goes, receiver
<1>1. Inside' = Inside \ {t} /\ t \in Inside /\ Reserved' = Reserved
  BY SMTT(20), <1>h DEF TypeOK, Inside, Reserved
<1>2. active' = Cardinality(Inside') /\ active' \in Nat
  <2>1. Inside # {} /\ Cardinality(Inside) # 0
    BY Zenon, <1>h, <1>1, InsideFinite, FiniteFacts
  <2>2. Cardinality(Inside \ {t}) = Cardinality(Inside) - 1
    BY Zenon, <1>h, <1>1, InsideFinite, FiniteSteps
  <2> QED BY <1>h, <1>1, <2>1, <2>2, InsideFinite DEF SendersInv
<1>3. TypeOK'
  BY Zenon, <1>h, <1>2, <1>0 DEF TypeOK, PCs, Unlocked
<1>4. SendersInv'
  BY Zenon, <1>h, <1>2 DEF SendersInv, TypeOK
<1>5. BankInv' /\ ServiceInv'
  BY <1>h, <1>1 DEF BankInv, ServiceInv
<1>6. Held' = Held
  BY <1>h, <1>1, HeldKept
<1> QED BY Zenon, <1>h, <1>3, <1>4, <1>5, <1>6, BudgetKept

\* Pushing moves batches from those held to the queue, which has room for them.
LEMMA PushKeeps ==
  ASSUME Counting, ChannelInv, NEW t \in Threads
  PROVE  Push(t) => ChannelInv'
<1> USE DEF ChannelInv
<1>a. /\ Batches(chan) \in Nat /\ Len(chan) \in Nat /\ Len(chan) <= Batches(chan)
      /\ Batches(Held) \in Nat /\ Capacity \in Nat
      /\ allowed_insertions(word) \in Nat /\ got.batches \in Nat
  BY Numbers
<1>0. /\ Free \notin Threads /\ Service \notin Threads /\ Free # Service
      /\ Capacity \in Nat /\ Capacity >= 1 /\ MaxBankId \in Nat /\ DISABLED_BANK_ID = MaxBankId + 1
  BY ThreadsAssumption, NumbersFit DEF Free, Service, Capacity, DISABLED_BANK_ID
<1>h. HAVE Push(t)
<1> USE DEF Push, Goes, receiver
<1>1. record[t] \in AllRecords /\ t \in Reserved /\ record[t].batches \in 1..Capacity
  BY Zenon, <1>h, RecordFacts DEF TypeOK, Reserved
<1>2. Inside' = Inside /\ Reserved' = Reserved \ {t}
  BY Zenon, <1>h DEF TypeOK, Inside, Reserved
<1>3. SendersInv'
  BY SMTT(20), <1>h, <1>2, InsideKept DEF SendersInv, TypeOK
<1>4. /\ chan' \in Seq(AllRecords)
      /\ \A i \in 1..Len(chan') : chan'[i] = record[t] \/ (i \in 1..Len(chan) /\ chan'[i] = chan[i])
  <2>1. chan \in Seq(AllRecords) /\ chan' = Append(chan, record[t])
    BY Zenon, <1>h DEF TypeOK
  <2>2. /\ chan' \in Seq(AllRecords) /\ Len(chan') = Len(chan) + 1 /\ Len(chan) \in Nat
        /\ chan'[Len(chan) + 1] = record[t]
        /\ \A i \in 1..Len(chan) : chan'[i] = chan[i]
    BY <1>h, <2>1, <1>1
  <2> QED BY <2>2
<1>5. TypeOK'
  BY Zenon, <1>h, <1>4 DEF TypeOK, PCs
<1>6. BankInv'
  BY Zenon, <1>h, <1>1, <1>2, <1>4 DEF BankInv
<1>7. ServiceInv'
  BY <1>h, <1>1, <1>2 DEF ServiceInv
<1>8. /\ Batches(Held) = Batches(Held') + record[t].batches /\ Batches(Held') \in Nat
      /\ Batches(chan') = Batches(chan) + record[t].batches
  BY Zenon, <1>h, <1>1, HeldDrops, BatchesAppend DEF TypeOK
<1>9. record[t].batches \in Nat /\ record[t].batches >= 1
  BY <1>h, <1>1, <1>0
<1>10. at' = at /\ got' = got /\ word' = word /\ bank' = bank
  BY Zenon, <1>h
<1>13. BudgetIsExact'
  BY SMTT(20), <1>8, <1>9, <1>10, <1>a DEF BudgetIsExact
<1>11. Len(chan) < Capacity
  <2>1. allowed_insertions(word) + (Batches(chan) + Batches(Held)
           + (IF at = "add" THEN got.batches ELSE 0)) <= Capacity
    BY <1>a DEF BudgetIsExact
  <2>2. Batches(Held) >= 1
    BY <1>8, <1>9
  <2>3. Batches(chan) < Capacity
    BY <2>1, <2>2, <1>a
  <2> QED BY <2>3, <1>a
<1>12. ~failed'
  <2>1. ~(Len(chan) >= Capacity)
    BY <1>11, <1>a
  <2> QED BY <1>h, <2>1, Zenon
<1> QED BY Zenon, <1>h, <1>3, <1>5, <1>6, <1>7, <1>13, <1>12

\* A sender that leaves is counted no more.
LEMMA LeaveKeeps ==
  ASSUME Counting, ChannelInv, NEW t \in Threads
  PROVE  Leave(t) => ChannelInv'
<1> USE DEF ChannelInv
<1>h. HAVE Leave(t)
<1> USE DEF Leave, Goes, receiver
<1>1. Inside' = Inside \ {t} /\ t \in Inside /\ Reserved' = Reserved
  BY Zenon, <1>h DEF TypeOK, Inside, Reserved
<1>2. active' = Cardinality(Inside') /\ active' \in Nat
  <2>1. Inside # {} /\ Cardinality(Inside) # 0
    BY Zenon, <1>h, <1>1, InsideFinite, FiniteFacts
  <2>2. Cardinality(Inside \ {t}) = Cardinality(Inside) - 1
    BY Zenon, <1>h, <1>1, InsideFinite, FiniteSteps
  <2> QED BY <1>h, <1>1, <2>1, <2>2, InsideFinite DEF SendersInv
<1>3. TypeOK'
  BY Zenon, <1>h, <1>2 DEF TypeOK, PCs
<1>4. SendersInv'
  BY Zenon, <1>h, <1>2 DEF SendersInv, TypeOK
<1>5. BankInv' /\ ServiceInv'
  BY SMTT(20), <1>h, <1>1 DEF BankInv, ServiceInv
<1>6. Held' = Held
  BY <1>h, <1>1, HeldKept
<1> QED BY Zenon, <1>h, <1>3, <1>4, <1>5, <1>6, BudgetKept

\* Every step of a sender keeps the invariant.
LEMMA SendStep ==
  ASSUME Counting, ChannelInv, NEW t \in Threads, Send(t)
  PROVE  ChannelInv'
BY Zenon, LockKeeps, LoadKeeps, RefuseKeeps, EnterKeeps, ReserveKeeps, RetryKeeps, PushKeeps,
   LeaveKeeps, ReturnKeeps DEF Send

\* A step that only moves the service on keeps the invariant if what it has
\* found out holds.
LEMMA LookKeeps ==
  ASSUME ChannelInv, OnlyMoves, at \notin {"add", "record"}, at' \in Ats \ {"add", "record"},
         ServiceInv'
  PROVE  ChannelInv'
<1> USE DEF ChannelInv, OnlyMoves, sender
<1>1. Inside' = Inside /\ Reserved' = Reserved /\ Held' = Held
  BY Zenon DEF Inside, Reserved, Held
<1>2. TypeOK'
  BY Zenon DEF TypeOK
<1>3. SendersInv'
  BY Zenon, <1>1, InsideKept DEF SendersInv
<1>4. BankInv'
  BY <1>1 DEF BankInv
<1> QED BY Zenon, <1>1, <1>2, <1>3, <1>4, BudgetKept

\* Every look of the service at the queue, the senders or its messages keeps the
\* invariant: the senders are looked at before the queue.
LEMMA LookStep ==
  ASSUME Counting, ChannelInv,
         \/ NoMessage \/ OnlyHash \/ TryRecv \/ SeeEmpty \/ CheckActive \/ Empty
         \/ CheckSafe \/ CheckEmpty
  PROVE  ChannelInv'
<1>1. OnlyMoves /\ at \notin {"add", "record"} /\ at' \in Ats \ {"add", "record"}
  BY DEF NoMessage, OnlyHash, TryRecv, SeeEmpty, CheckActive, Empty, CheckSafe, CheckEmpty,
         Moves, Ats
<1>2. Reserved' = Reserved /\ UNCHANGED <<chan, word, message, bank>>
  BY <1>1 DEF OnlyMoves, sender, Reserved
<1>3. ServiceInv
  BY DEF ChannelInv
<1>4. CASE NoMessage \/ OnlyHash \/ TryRecv \/ SeeEmpty \/ CheckActive \/ Empty
  <2>1. ServiceInv'
    BY Zenon, <1>2, <1>3, <1>4
       DEF ServiceInv, NoMessage, OnlyHash, TryRecv, SeeEmpty, CheckActive, Empty, Moves
  <2> QED BY Zenon, <1>1, <2>1, LookKeeps
<1>5. CASE CheckEmpty
  <2>1. ServiceInv'
    BY SMTT(20), <1>2, <1>3, <1>5 DEF ServiceInv, CheckEmpty
  <2> QED BY SMTT(20), <1>1, <2>1, LookKeeps
<1>6. CASE CheckSafe
  <2>1. active = 0 => Reserved = {}
    <3>1. active = 0 => Inside = {}
      BY Zenon, InsideFinite, FiniteFacts DEF ChannelInv, SendersInv
    <3> QED BY <3>1 DEF Inside, Reserved
  <2>2. ServiceInv'
    BY Zenon, <1>2, <1>3, <1>6, <2>1 DEF ServiceInv, CheckSafe
  <2> QED BY <1>1, <2>2, LookKeeps
<1> QED BY <1>4, <1>5, <1>6

\* Shutting the channel, for a message or near the end of the slot, keeps the
\* invariant.
LEMMA ShutStep ==
  ASSUME Counting, ChannelInv, TakeMessage \/ ShutEarly
  PROVE  ChannelInv'
<1> USE DEF ChannelInv
<1>1. /\ UNCHANGED <<tracking, active, chan, lock, index, sender, got, bank, recorded, failed>>
      /\ at \in {"top", "work"} /\ at' = "work" /\ message' \in {message, bank + 1}
      /\ (message' # message => bank < MaxBankId) /\ word' = SHUTDOWN
      /\ (message' = 0 \/ message' = bank + 1)
  BY Zenon DEF TakeMessage, ShutEarly, Moves, receiver, ServiceInv
<1>2. word' \in Nat /\ bank_id(word') = DISABLED_BANK_ID
  BY Zenon, <1>1, Words
<1>3. Inside' = Inside /\ Reserved' = Reserved /\ Held' = Held
  BY Zenon, <1>1 DEF sender, Inside, Reserved, Held
<1>4. TypeOK'
  <2>1. message' \in 0..MaxBankId /\ DISABLED_BANK_ID \in Nat
    BY <1>1, NumbersFit DEF TypeOK, DISABLED_BANK_ID
  <2> QED BY SMTT(20), <1>1, <1>2, <2>1 DEF TypeOK, Ats, sender
<1>5. SendersInv'
  BY Zenon, <1>1, <1>3, InsideKept DEF SendersInv, sender
<1>6. BankInv'
  BY Zenon, <1>1, <1>3 DEF BankInv, sender
<1>7. ServiceInv'
  BY <1>1, <1>2 DEF ServiceInv
<1> QED BY Zenon, <1>1, <1>2, <1>3, <1>4, <1>5, <1>6, <1>7, BudgetShut

\* Popping moves batches from the queue to the record taken.
LEMMA PopKeeps ==
  ASSUME Counting, ChannelInv
  PROVE  Pop => ChannelInv'
<1> USE DEF ChannelInv
<1>a. /\ Batches(chan) \in Nat /\ Len(chan) \in Nat /\ Len(chan) <= Batches(chan)
      /\ Batches(Held) \in Nat /\ Capacity \in Nat
      /\ allowed_insertions(word) \in Nat /\ got.batches \in Nat
  BY Numbers
<1>h. HAVE Pop
<1> USE DEF Pop, sender
<1>1. Inside' = Inside /\ Reserved' = Reserved /\ Held' = Held
  BY Zenon, <1>h DEF Inside, Reserved, Held
<1>2. /\ chan \in Seq(AllRecords) /\ chan # <<>> /\ chan' = Tail(chan)
      /\ got' = Head(chan) /\ got = NoRecord
  BY <1>h DEF TypeOK, BankInv
<1>3. /\ chan' \in Seq(AllRecords) /\ Len(chan') = Len(chan) - 1
      /\ got' \in AllRecords /\ got' = chan[1] /\ 1 \in 1..Len(chan)
      /\ \A i \in 1..Len(chan') : chan'[i] = chan[i + 1]
  BY <1>2
<1>4. TypeOK'
  BY Zenon, <1>h, <1>3 DEF TypeOK, Ats
<1>5. SendersInv'
  BY ZenonT(30), <1>h, <1>1, InsideKept DEF SendersInv
<1>6. BankInv'
  <2>1. \A i \in 1..Len(chan') : i + 1 \in 1..Len(chan)
    BY SMTT(20), <1>3, <1>a
  <2> QED BY SMTT(20), <1>h, <1>1, <1>3, <2>1 DEF BankInv
<1>7. ServiceInv'
  BY <1>h, <1>1 DEF ServiceInv
<1>8. Batches(chan) = Batches(chan') + got'.batches
  BY Zenon, <1>2, BatchesTail
<1>9. Batches(chan') \in Nat /\ got'.batches \in Nat
  BY SMTT(20), <1>a, <1>3, SeqCounted, RecordFacts
<1>10. BudgetIsExact'
  <2>1. /\ at # "add" /\ at' = "add" /\ word' = word /\ bank' = bank
    BY Zenon, <1>h
  <2>2. Batches(chan) + Batches(Held) + 0 = Batches(chan') + Batches(Held') + got'.batches
    BY SMTT(20), <1>1, <1>8, <1>9, <1>a
  <2> QED BY <2>1, <2>2 DEF BudgetIsExact
<1> QED BY SMTT(20), <1>h, <1>4, <1>5, <1>6, <1>7, <1>10

\* on_received_record gives the batches of the record taken back, without a carry
\* into the bank.
LEMMA ReceivedKeeps ==
  ASSUME Counting, ChannelInv
  PROVE  on_received_record => ChannelInv'
<1> USE DEF ChannelInv
<1>a. /\ Batches(chan) \in Nat /\ Len(chan) \in Nat /\ Len(chan) <= Batches(chan)
      /\ Batches(Held) \in Nat /\ Capacity \in Nat
      /\ allowed_insertions(word) \in Nat /\ got.batches \in Nat
  BY Numbers
<1>0. /\ Free \notin Threads /\ Service \notin Threads /\ Free # Service
      /\ Capacity \in Nat /\ Capacity >= 1 /\ MaxBankId \in Nat /\ DISABLED_BANK_ID = MaxBankId + 1
  BY ThreadsAssumption, NumbersFit DEF Free, Service, Capacity, DISABLED_BANK_ID
<1>h. HAVE on_received_record
<1> USE DEF on_received_record, Moves, sender
<1>1. Inside' = Inside /\ Reserved' = Reserved /\ Held' = Held
  BY Zenon, <1>h DEF Inside, Reserved, Held
<1>2. allowed_insertions(word) + (Batches(chan) + Batches(Held) + got.batches) <= Capacity
  BY <1>h, <1>a DEF BudgetIsExact
<1>3. allowed_insertions(word) + got.batches <= Capacity
  BY SMTT(20), <1>2, <1>a
<1>4. /\ word' \in Nat /\ bank_id(word') = bank_id(word)
      /\ allowed_insertions(word') = allowed_insertions(word) + got.batches
  <2>1. word \in Nat /\ got.batches \in Nat /\ word' = Wrapped(word + got.batches)
    BY <1>h, <1>a DEF TypeOK
  <2>2. bank_id(word) <= DISABLED_BANK_ID
    BY <1>0 DEF TypeOK
  <2> QED BY Zenon, <1>3, <2>1, <2>2, Words
<1>5. TypeOK'
  BY Zenon, <1>h, <1>4 DEF TypeOK, Ats
<1>6. SendersInv'
  BY Zenon, <1>h, <1>1, InsideKept DEF SendersInv
<1>7. BankInv'
  BY Zenon, <1>h, <1>1 DEF BankInv
<1>8. ServiceInv'
  BY Zenon, <1>h, <1>1, <1>4 DEF ServiceInv
<1>9. BudgetIsExact'
  <2>1. /\ at = "add" /\ at' # "add" /\ bank' = bank /\ chan' = chan
    BY <1>h
  <2>2. PICK a, c, h, g \in Nat : /\ a = allowed_insertions(word) /\ c = Batches(chan)
                                  /\ h = Batches(Held) /\ g = got.batches
    BY SMTT(20), <1>a
  <2>3. a + (c + h + g) = (a + g) + (c + h + 0)
    BY <2>2
  <2>4. allowed_insertions(word) + (Batches(chan) + Batches(Held) + got.batches)
          = allowed_insertions(word') + (Batches(chan') + Batches(Held') + 0)
    BY <1>1, <1>4, <2>1, <2>2, <2>3, Zenon
  <2> QED BY SMTT(20), <1>4, <2>1, <2>4 DEF BudgetIsExact
<1> QED BY SMTT(20), <1>h, <1>5, <1>6, <1>7, <1>8, <1>9

\* The record taken is for the working bank.
LEMMA RecordKeeps ==
  ASSUME Counting, ChannelInv
  PROVE  Record => ChannelInv'
<1> USE DEF ChannelInv
<1>a. /\ Batches(chan) \in Nat /\ Len(chan) \in Nat /\ Len(chan) <= Batches(chan)
      /\ Batches(Held) \in Nat /\ Capacity \in Nat
      /\ allowed_insertions(word) \in Nat /\ got.batches \in Nat
  BY Numbers
<1>0. /\ Free \notin Threads /\ Service \notin Threads /\ Free # Service
      /\ Capacity \in Nat /\ Capacity >= 1 /\ MaxBankId \in Nat /\ DISABLED_BANK_ID = MaxBankId + 1
  BY ThreadsAssumption, NumbersFit DEF Free, Service, Capacity, DISABLED_BANK_ID
<1>h. HAVE Record
<1> USE DEF Record, Moves, sender
<1>1. Inside' = Inside /\ Reserved' = Reserved /\ Held' = Held
  BY SMTT(20), <1>h DEF Inside, Reserved, Held
<1>2. word' \in Nat /\ bank_id(word') \in {bank_id(word), DISABLED_BANK_ID}
  BY Zenon, <1>h, Words DEF TypeOK
<1>3. got \in AllRecords /\ got.bank = bank
  BY Zenon, <1>h DEF BankInv
<1>4. recorded' \in Seq(AllRecords)
  BY <1>h, <1>3 DEF TypeOK
<1>5. failed' = failed
  BY Zenon, <1>h, <1>3 DEF TypeOK
<1>6. TypeOK'
  BY SMTT(20), <1>h, <1>0, <1>2, <1>4, <1>5 DEF TypeOK, Ats
<1>7. SendersInv'
  BY Zenon, <1>h, <1>1, InsideKept DEF SendersInv
<1>8. BankInv'
  BY Zenon, <1>h, <1>1 DEF BankInv
<1>9. ServiceInv'
  BY SMTT(20), <1>h, <1>1, <1>2 DEF ServiceInv
<1>10. BudgetIsExact'
  <2>1. /\ at # "add" /\ at' # "add" /\ bank' = bank /\ chan' = chan
    BY Zenon, <1>h
  <2>2. CASE word' = word
    BY Zenon, <1>1, <2>1, <2>2 DEF BudgetIsExact
  <2>3. CASE word' = SHUTDOWN
    <3>1. bank_id(word') = DISABLED_BANK_ID /\ allowed_insertions(word') = 0
      BY Zenon, <2>3, Words
    <3>2. allowed_insertions(word) + (Batches(chan) + Batches(Held) + 0) <= Capacity
      BY SMTT(20), <2>1, <1>a DEF BudgetIsExact
    <3>3. 0 + (Batches(chan) + Batches(Held) + 0) <= Capacity
      BY SMTT(20), <3>2, <1>a
    <3> QED BY Zenon, <1>1, <2>1, <3>1, <3>3 DEF BudgetIsExact
  <2> QED BY <1>h, <2>2, <2>3
<1> QED BY Zenon, <1>5, <1>6, <1>7, <1>8, <1>9, <1>10

\* The bank is set while nothing is reserved or queued.
LEMMA SetBankKeeps ==
  ASSUME ChannelInv
  PROVE  SetBank => ChannelInv'
<1> USE DEF ChannelInv
<1>0. /\ Free \notin Threads /\ Service \notin Threads /\ Free # Service
      /\ Capacity \in Nat /\ Capacity >= 1 /\ MaxBankId \in Nat /\ DISABLED_BANK_ID = MaxBankId + 1
  BY ThreadsAssumption, NumbersFit DEF Free, Service, Capacity, DISABLED_BANK_ID
<1>h. HAVE SetBank
<1> USE DEF SetBank, sender
<1>1. Inside' = Inside /\ Reserved' = Reserved /\ Held' = Held
  BY Zenon, <1>h DEF Inside, Reserved, Held
<1>2. Reserved = {} /\ chan = <<>> /\ message # 0 /\ bank_id(word) = DISABLED_BANK_ID
  BY Zenon, <1>h DEF ServiceInv
<1>3. TypeOK'
  <2>1. /\ message' \in 0..MaxBankId /\ bank' \in 0..MaxBankId /\ at' \in Ats
        /\ UNCHANGED <<tracking, word, active, chan, lock, index, pc, record, seen, given, got,
                       recorded, failed>>
    BY SMTT(20), <1>h, <1>0 DEF TypeOK, Ats
  <2> HIDE DEF SetBank
  <2> QED BY SMTT(20), <2>1 DEF TypeOK
<1>4. SendersInv'
  BY Zenon, <1>h, <1>1, InsideKept DEF SendersInv
<1>5. BankInv'
  BY SMTT(20), <1>h, <1>1, <1>2 DEF BankInv
<1>6. ServiceInv'
  BY Zenon, <1>h, <1>1, <1>2 DEF ServiceInv
<1>7. BudgetIsExact'
  BY Zenon, <1>h, <1>1, <1>2 DEF BudgetIsExact
<1> QED BY SMTT(20), <1>h, <1>3, <1>4, <1>5, <1>6, <1>7

\* Nothing is queued on a restart.
LEMMA LockIndexKeeps ==
  ASSUME ChannelInv
  PROVE  LockIndex => ChannelInv'
<1> USE DEF ChannelInv
<1>h. HAVE LockIndex
<1> USE DEF LockIndex, Moves, sender
<1>1. Inside' = Inside /\ Reserved' = Reserved /\ Held' = Held
  BY Zenon, <1>h DEF Inside, Reserved, Held
<1>2. failed' = failed
  BY Zenon, <1>h DEF ServiceInv, TypeOK
<1>3. TypeOK'
  BY Zenon, <1>h, <1>2 DEF TypeOK, Ats
<1>4. SendersInv'
  BY Zenon, <1>h, <1>1, InsideKept DEF SendersInv
<1>5. BankInv'
  BY Zenon, <1>h, <1>1 DEF BankInv
<1>6. ServiceInv'
  BY Zenon, <1>h, <1>1 DEF ServiceInv
<1> QED BY SMTT(20), <1>h, <1>1, <1>2, <1>3, <1>4, <1>5, <1>6, BudgetKept

\* restart opens the channel with the whole capacity, for nothing is under way.
LEMMA StoreWordKeeps ==
  ASSUME Counting, ChannelInv
  PROVE  StoreWord => ChannelInv'
<1> USE DEF ChannelInv
<1>a. /\ Batches(chan) \in Nat /\ Len(chan) \in Nat /\ Len(chan) <= Batches(chan)
      /\ Batches(Held) \in Nat /\ Capacity \in Nat
      /\ allowed_insertions(word) \in Nat /\ got.batches \in Nat
  BY Numbers
<1>0. /\ Free \notin Threads /\ Service \notin Threads /\ Free # Service
      /\ Capacity \in Nat /\ Capacity >= 1 /\ MaxBankId \in Nat /\ DISABLED_BANK_ID = MaxBankId + 1
  BY ThreadsAssumption, NumbersFit DEF Free, Service, Capacity, DISABLED_BANK_ID
<1>h. HAVE StoreWord
<1> USE DEF StoreWord, Moves, sender
<1>1. Inside' = Inside /\ Reserved' = Reserved /\ Held' = Held
  BY <1>h DEF Inside, Reserved, Held
<1>2. Reserved = {} /\ chan = <<>>
  BY Zenon, <1>h DEF ServiceInv
<1>3. word' \in Nat /\ bank_id(word') = bank /\ allowed_insertions(word') = Capacity
  BY SMTT(20), <1>h, <1>a, <1>0, Words DEF TypeOK
<1>4. TypeOK'
  BY SMTT(20), <1>h, <1>3, <1>0 DEF TypeOK, Ats
<1>5. SendersInv'
  BY Zenon, <1>h, <1>1, InsideKept DEF SendersInv
<1>6. BankInv'
  BY Zenon, <1>h, <1>1 DEF BankInv
<1>7. ServiceInv'
  BY <1>h, <1>1 DEF ServiceInv
<1>8. Batches(chan) = 0 /\ Batches(Held) = 0
  <2>1. DOMAIN chan = {} /\ DOMAIN Held = {}
    BY <1>2 DEF Held
  <2> QED BY <2>1, BatchesOfNone
<1>9. BudgetIsExact'
  <2>1. bank # DISABLED_BANK_ID /\ Capacity + (0 + 0 + 0) = Capacity
    BY <1>0, <1>a DEF TypeOK
  <2>2. at' # "add" /\ chan' = chan /\ bank' = bank
    BY Zenon, <1>h
  <2> QED BY Zenon, <1>1, <1>3, <1>8, <2>1, <2>2 DEF BudgetIsExact
<1> QED BY Zenon, <1>h, <1>4, <1>5, <1>6, <1>7, <1>9

\* restart ends with the message handled.
LEMMA UnlockIndexKeeps ==
  ASSUME ChannelInv
  PROVE  UnlockIndex => ChannelInv'
<1> USE DEF ChannelInv
<1>0. /\ Free \notin Threads /\ Service \notin Threads /\ Free # Service
      /\ Capacity \in Nat /\ Capacity >= 1 /\ MaxBankId \in Nat /\ DISABLED_BANK_ID = MaxBankId + 1
  BY ThreadsAssumption, NumbersFit DEF Free, Service, Capacity, DISABLED_BANK_ID
<1>h. HAVE UnlockIndex
<1> USE DEF UnlockIndex, Moves, sender, Unlocked
<1>1. Inside' = Inside /\ Reserved' = Reserved /\ Held' = Held
  BY Zenon, <1>h DEF Inside, Reserved, Held
<1>2. TypeOK'
  BY SMTT(20), <1>h, <1>0 DEF TypeOK, Ats
<1>3. SendersInv'
  BY Zenon, <1>h, <1>1, InsideKept DEF SendersInv
<1>4. BankInv'
  BY Zenon, <1>h, <1>1 DEF BankInv
<1>5. ServiceInv'
  BY <1>h, <1>1 DEF ServiceInv
<1> QED BY Zenon, <1>h, <1>1, <1>2, <1>3, <1>4, <1>5, BudgetKept

\* Every step of the PoH service keeps the invariant.
LEMMA ReceiveStep ==
  ASSUME Counting, ChannelInv, Receiving
  PROVE  ChannelInv'
BY SMTT(20), LookStep, ShutStep, PopKeeps, ReceivedKeeps, RecordKeeps, SetBankKeeps, LockIndexKeeps,
   StoreWordKeeps, UnlockIndexKeeps DEF Receiving

\* The channel starts shut, with nothing in it.
LEMMA ChannelInit ==
  ASSUME Counting
  PROVE  Init => ChannelInv
<1> SUFFICES ASSUME Init PROVE ChannelInv
  BY Zenon
<1>1. TypeOK
  <2>1. Capacity \in Nat /\ MaxBankId \in Nat /\ DISABLED_BANK_ID \in Nat
    BY NumbersFit DEF Capacity, DISABLED_BANK_ID
  <2>2. word \in Nat /\ bank_id(word) \in 0..DISABLED_BANK_ID
    BY <2>1, Words DEF Init
  <2>3. ASSUME NEW t \in Threads
        PROVE  /\ record[t] \in [thread : Threads, number : Nat, bank : Nat, batches : 0..Capacity]
               /\ record[t].thread = t /\ pc[t] = "idle"
    BY <2>1 DEF Init, NoRecord
  <2>4. record = [t \in Threads |-> record[t]] /\ pc \in [Threads -> PCs]
    BY DEF Init, PCs
  <2>5. record \in [Threads -> [thread : Threads, number : Nat, bank : Nat, batches : 0..Capacity]]
    BY <2>3, <2>4
  <2>6. seen \in [Threads -> Nat]
    BY Words DEF Init
  <2>7. /\ tracking \in BOOLEAN /\ active = 0 /\ chan = <<>> /\ lock = Free /\ index = 0
        /\ at = "top" /\ message = 0 /\ got = NoRecord /\ bank = 0 /\ given = {}
        /\ recorded = <<>> /\ failed = FALSE
    BY DEF Init
  <2>8. /\ active \in Nat /\ index \in Nat /\ message \in 0..MaxBankId /\ bank \in 0..MaxBankId
        /\ at \in Ats
    BY <2>1, <2>7 DEF Ats
  <2>9. chan \in Seq(AllRecords) /\ recorded \in Seq(AllRecords)
    BY <2>7
  <2>10. /\ lock \in Threads \union {Free, Service} /\ got \in AllRecords \union {NoRecord}
         /\ given \subseteq [record : AllRecords, index : Nat] /\ tracking \in BOOLEAN
         /\ failed \in BOOLEAN
    BY Zenon, <2>7
  <2> QED BY SMTT(20), <2>2, <2>3, <2>4, <2>5, <2>6, <2>8, <2>9, <2>10 DEF TypeOK
<1>2. Inside = {} /\ Reserved = {}
  BY DEF Init, Inside, Reserved
<1>3. SendersInv
  BY <1>2, FiniteFacts DEF Init, SendersInv
<1>4. BankInv /\ ServiceInv
  BY <1>2 DEF Init, BankInv, ServiceInv
<1>5. Batches(chan) = 0 /\ Batches(Held) = 0
  <2>1. DOMAIN chan = {} /\ DOMAIN Held = {}
    BY <1>2 DEF Init, Held
  <2> QED BY <2>1, BatchesOfNone
<1>6. BudgetIsExact
  BY <1>5, Words, NumbersFit DEF Init, BudgetIsExact, Capacity
<1> QED BY <1>1, <1>3, <1>4, <1>6 DEF ChannelInv, Init

\* Every step keeps the invariant.
LEMMA ChannelInductive ==
  ASSUME Counting, ChannelInv, [Next]_vars
  PROVE  ChannelInv'
<1>1. CASE Next
  BY SMTT(20), <1>1, CallStep, SendStep, ReceiveStep DEF Next
<1>2. CASE UNCHANGED vars
  BY ZenonT(30), <1>2 DEF vars, sender, receiver, ChannelInv, TypeOK, SendersInv, BankInv, ServiceInv,
              BudgetIsExact, Inside, Reserved, Held
<1> QED BY <1>1, <1>2

---------------------------------------------------------------------------
\* The batches of finitely many records can be counted.
LEMMA PlacesFinite ==
  ASSUME NEW f, Counted(f)
  PROVE  IsFiniteSet(Places(f)) /\ Batches(f) \in Nat
<1>1. IsFiniteSet(1..Capacity)
  BY NumbersFit, FS_Interval DEF Capacity
<1>2. IsFiniteSet((DOMAIN f) \X (1..Capacity))
  BY Zenon, <1>1, FS_Product DEF Counted
<1>3. Places(f) \in SUBSET ((DOMAIN f) \X (1..Capacity))
  BY DEF Places
<1>4. IsFiniteSet(Places(f))
  BY <1>2, <1>3, FS_Subset
<1> QED
  BY <1>4, FS_CardinalityType DEF Batches

\* No record, no batch.
LEMMA NoPlaces ==
  ASSUME NEW f, DOMAIN f = {}
  PROVE  Batches(f) = 0
<1>1. Places(f) = {}
  BY SMTT(20) DEF Places
<1> QED BY SMTT(20), <1>1, FS_EmptySet DEF Batches

\* One record more adds its batches.
LEMMA MorePlaces ==
  ASSUME NEW f, NEW g, NEW x, Counted(f), x \notin DOMAIN f,
         DOMAIN g = DOMAIN f \union {x}, \A y \in DOMAIN f : g[y] = f[y],
         g[x].batches \in 0..Capacity
  PROVE  Counted(g) /\ Batches(g) = Batches(f) + g[x].batches
<1> DEFINE new == {x} \X (1..g[x].batches)
<1>1. IsFiniteSet({x}) /\ Cardinality({x}) = 1
  BY FS_Singleton, Zenon
<1>2. IsFiniteSet(1..g[x].batches) /\ Cardinality(1..g[x].batches) = g[x].batches
  BY SMTT(20), FS_Interval, NumbersFit DEF Capacity
<1>3. IsFiniteSet(new) /\ Cardinality(new) = g[x].batches
  <2>1. IsFiniteSet(new) /\ Cardinality(new) = Cardinality({x}) * Cardinality(1..g[x].batches)
    BY <1>1, <1>2, FS_Product, Zenon
  <2>2. g[x].batches \in Nat
    BY SMTT(20), NumbersFit DEF Capacity
  <2> HIDE DEF new
  <2> QED BY <1>1, <1>2, <2>1, <2>2
<1>4. Places(g) = Places(f) \union new
  <2>1. ASSUME NEW p \in Places(g) PROVE p \in Places(f) \union new
    BY SMTT(20), <2>1, NumbersFit DEF Places, Capacity
  <2>2. ASSUME NEW p \in Places(f) PROVE p \in Places(g)
    BY SMTT(20), <2>2 DEF Places
  <2>3. ASSUME NEW p \in new PROVE p \in Places(g)
    BY SMTT(20), <2>3, NumbersFit DEF Places, Capacity
  <2> QED BY SMTT(20), <2>1, <2>2, <2>3
<1>5. Places(f) \intersect new = {}
  BY SMTT(20) DEF Places
<1>6. IsFiniteSet(Places(f)) /\ Cardinality(Places(f)) \in Nat
  BY SMTT(20), PlacesFinite DEF Batches
<1>7. Cardinality(Places(g)) = Cardinality(Places(f)) + g[x].batches
  <2> HIDE DEF new
  <2>1. Cardinality(Places(f) \union new)
          = Cardinality(Places(f)) + Cardinality(new) - Cardinality(Places(f) \intersect new)
    BY <1>3, <1>6, FS_Union, Zenon
  <2>2. g[x].batches \in Nat
    BY NumbersFit DEF Capacity
  <2> QED BY SMTT(20), <1>3, <1>4, <1>5, <1>6, <2>1, <2>2, FS_EmptySet
<1>8. IsFiniteSet(DOMAIN g)
  BY SMTT(20), FS_AddElement DEF Counted
<1>9. Counted(g)
  BY <1>8 DEF Counted
<1> QED BY <1>7, <1>9 DEF Batches

\* The order in which records are kept does not change their batches.
LEMMA PlacesRenamed ==
  ASSUME NEW f, NEW g, Counted(f), NEW h \in Bijection(DOMAIN f, DOMAIN g),
         \A x \in DOMAIN f : g[h[x]] = f[x]
  PROVE  Batches(g) = Batches(f)
<1> DEFINE move == [p \in Places(f) |-> <<h[p[1]], p[2]>>]
<1>1. h \in [DOMAIN f -> DOMAIN g]
  BY SMTT(20) DEF Bijection, Injection
<1>2. \A x, y \in DOMAIN f : h[x] = h[y] => x = y
  BY SMTT(20) DEF Bijection, Injection, IsInjective
<1>3. \A z \in DOMAIN g : \E x \in DOMAIN f : h[x] = z
  BY SMTT(20) DEF Bijection, Surjection
<1>4. move \in [Places(f) -> Places(g)]
  BY SMTT(20), <1>1 DEF Places
<1>5. ASSUME NEW p \in Places(f), NEW q \in Places(f), move[p] = move[q]
      PROVE  p = q
  BY SMTT(20), <1>2, <1>5 DEF Places
<1>6. ASSUME NEW q \in Places(g) PROVE \E p \in Places(f) : move[p] = q
  <2>1. PICK x \in DOMAIN f : h[x] = q[1]
    BY SMTT(20), <1>3, <1>6 DEF Places
  <2>2. <<x, q[2]>> \in Places(f)
    BY SMTT(20), <2>1, <1>6 DEF Places
  <2>3. move[<<x, q[2]>>] = q
    BY <2>1, <2>2, <1>6 DEF Places
  <2> QED BY SMTT(20), <2>2, <2>3
<1>7. move \in Bijection(Places(f), Places(g))
  BY Zenon, <1>4, <1>5, <1>6 DEF Bijection, Injection, Surjection, IsInjective
<1> QED BY SMTT(20), <1>7, PlacesFinite, FS_Bijection DEF Batches, ExistsBijection

\* Every record has a batch, so there are at most as many records as batches.
LEMMA PlacesBound ==
  ASSUME NEW f, Counted(f), \A x \in DOMAIN f : f[x].batches >= 1
  PROVE  Cardinality(DOMAIN f) <= Batches(f)
<1> DEFINE first == [x \in DOMAIN f |-> <<x, 1>>]
<1>1. first \in [DOMAIN f -> Places(f)]
  BY NumbersFit DEF Places, Capacity, Counted
<1>2. first \in Injection(DOMAIN f, Places(f))
  BY <1>1 DEF Injection, IsInjective
<1> QED BY SMTT(20), <1>2, PlacesFinite, FS_Injection DEF Batches

\* The facts on counting hold.
LEMMA CountingHolds == Counting
<1>1. \A n \in Nat : IsFiniteSet(1..n) /\ Cardinality(1..n) = n
  BY FS_Interval
<1>2. \A S : IsFiniteSet(S) => \A T \in SUBSET S : IsFiniteSet(T)
  BY FS_Subset
<1>3. /\ \A S : IsFiniteSet(S) => Cardinality(S) \in Nat /\ (Cardinality(S) = 0 <=> S = {})
      /\ IsFiniteSet({})
  BY FS_EmptySet, FS_CardinalityType
<1>4. \A S, x : IsFiniteSet(S) /\ x \notin S => Cardinality(S \union {x}) = Cardinality(S) + 1
  BY FS_AddElement
<1>5. \A S, x : IsFiniteSet(S) /\ x \in S => Cardinality(S \ {x}) = Cardinality(S) - 1
  BY FS_RemoveElement
<1>6. \A f : Counted(f) => Batches(f) \in Nat
  BY PlacesFinite
<1>7. \A f : DOMAIN f = {} => Batches(f) = 0
  BY SMTT(20), NoPlaces
<1>8. \A f, g, x : Counted(f) /\ Extends(f, g, x) =>
        Counted(g) /\ Batches(g) = Batches(f) + g[x].batches
  <2> SUFFICES ASSUME NEW f, NEW g, NEW x, Counted(f), Extends(f, g, x)
               PROVE  Counted(g) /\ Batches(g) = Batches(f) + g[x].batches
    BY Zenon
  <2> QED BY MorePlaces DEF Extends
<1>9. \A f, g : Counted(f) => \A h \in Bijection(DOMAIN f, DOMAIN g) :
        (\A x \in DOMAIN f : g[h[x]] = f[x]) => Batches(g) = Batches(f)
  BY PlacesRenamed, Zenon
<1>10. \A f : Counted(f) /\ (\A x \in DOMAIN f : f[x].batches >= 1) =>
        Cardinality(DOMAIN f) <= Batches(f)
  BY PlacesBound, Zenon
<1> QED BY <1>1, <1>2, <1>3, <1>4, <1>5, <1>6, <1>7, <1>8, <1>9, <1>10, Zenon DEF Counting

-----------------------------------------------------------------------------
\* The strengthened invariant of the channel: active_senders counts the senders
\* between their increment and decrement, a reserved or queued record is for the
\* working bank, what the service has found out about the senders and the queue
\* still holds when it acts on it, and the budget is exact.
THEOREM ChannelInvariant == Spec => []ChannelInv
<1>1. Init => ChannelInv
  BY CountingHolds, ChannelInit
<1>2. ChannelInv /\ [Next]_vars => ChannelInv'
  BY CountingHolds, ChannelInductive
<1> QED BY <1>1, <1>2, PTL DEF Spec

\* No assertion of the channel fails, the PoH service never panics on a record
\* for another bank, and the insertions allowed and under way make up the
\* capacity, for any number of threads, records and banks and any capacity.
THEOREM ChannelNeverFails == Spec => []NeverFails
<1>1. ChannelInv => NeverFails
  BY DEF ChannelInv, NeverFails
<1> QED BY <1>1, ChannelInvariant, PTL

-----------------------------------------------------------------------------
(* The order of the records, and the indexes *)

Taken == IF got = NoRecord THEN <<>> ELSE <<got>>
Log == recorded \o Taken \o chan

Unsent == {"lock", "load", "enter", "reserve", "push"}

LogInv ==
  /\ \A i \in 1..Len(Log) :
       /\ Log[i].number <= record[Log[i].thread].number
       /\ pc[Log[i].thread] \in Unsent => Log[i].number # record[Log[i].thread].number
       /\ Log[i].bank <= bank
       /\ at \in {"restart", "store"} => Log[i].bank # bank
  /\ \A i, j \in 1..Len(Log) : Log[i] = Log[j] => i = j

Critical == {"load", "enter", "reserve", "push", "leave", "return"}

\* The lock on the index is held from the load to the return, and by restart.
LockInv ==
  /\ \A t \in Threads : pc[t] \in Critical <=> lock = t
  /\ at \in {"store", "unlock"} <=> lock = Service
  /\ at = "store" => index = 0

\* The indexes given out are those of the log.
GivenInv ==
  \A g \in given : \E i \in 1..Len(Log) :
    Log[i] = g.record /\ g.index = Before(Log, i, g.record.bank)

\* The index to give next: to the sender that has just put its record in the
\* log, or to the next one.
NextInv ==
  /\ \A t \in Threads : pc[t] \in {"leave", "return"} =>
       /\ Log # <<>> /\ Log[Len(Log)] = record[t]
       /\ index = Before(Log, Len(Log), record[t].bank)
       /\ OpenBank # DISABLED_BANK_ID => record[t].bank = bank
  /\ \/ \E t \in Threads : pc[t] \in {"leave", "return"}
     \/ OpenBank = DISABLED_BANK_ID /\ Reserved = {}
     \/ index = Before(Log, Len(Log) + 1, bank)

IndexInv == tracking => LockInv /\ GivenInv /\ NextInv

-----------------------------------------------------------------------------
\* Pushing at the end of the last part of a sequence.
LEMMA ConcatAppend ==
  ASSUME NEW S, NEW a \in Seq(S), NEW b \in Seq(S), NEW x \in S
  PROVE  a \o Append(b, x) = Append(a \o b, x)
OBVIOUS

\* Moving the head of the last part of a sequence to the part before it.
LEMMA ConcatHead ==
  ASSUME NEW S, NEW a \in Seq(S), NEW b \in Seq(S), b # <<>>
  PROVE  (a \o <<>>) \o b = (a \o <<Head(b)>>) \o Tail(b)
BY SMTT(20)

\* Moving the only element of the middle part of a sequence to the first part.
LEMMA ConcatOne ==
  ASSUME NEW S, NEW a \in Seq(S), NEW x \in S
  PROVE  a \o <<x>> = Append(a, x) \o <<>>
OBVIOUS

\* The log is a sequence of records.
LEMMA LogType ==
  ASSUME TypeOK
  PROVE  Taken \in Seq(AllRecords) /\ Log \in Seq(AllRecords)
<1>1. Taken \in Seq(AllRecords)
  BY DEF TypeOK, Taken
<1> QED BY <1>1 DEF TypeOK, Log

\* A push makes the log longer by its record.
LEMMA LogPush ==
  ASSUME ChannelInv, NEW t \in Threads, Push(t)
  PROVE  Log' = Append(Log, record[t])
<1>0. chan \in Seq(AllRecords) /\ recorded \in Seq(AllRecords) /\ Taken \in Seq(AllRecords)
  BY SMTT(20), LogType DEF ChannelInv, TypeOK
<1>1. record[t] \in AllRecords /\ chan' = Append(chan, record[t])
  BY Zenon DEF Push, Goes, ChannelInv, TypeOK
<1>2. recorded' = recorded /\ Taken' = Taken
  BY DEF Push, receiver, Taken
<1>3. recorded \o Taken \in Seq(AllRecords)
  BY <1>0
<1>4. (recorded \o Taken) \o Append(chan, record[t]) = Append((recorded \o Taken) \o chan, record[t])
  BY SMTT(20), <1>0, <1>1, <1>3, ConcatAppend
<1> QED BY Zenon, <1>1, <1>2, <1>4 DEF Log

\* Only a push makes the log longer: the service moves records along it.
LEMMA LogStep ==
  ASSUME ChannelInv, [Next]_vars
  PROVE  \/ Log' = Log
         \/ \E t \in Threads : Push(t) /\ Log' = Append(Log, record[t])
<1> USE DEF ChannelInv
<1>0. chan \in Seq(AllRecords) /\ recorded \in Seq(AllRecords) /\ Taken \in Seq(AllRecords)
  BY Zenon, LogType DEF TypeOK
<1>1. ASSUME NEW t \in Threads, Push(t) PROVE Log' = Append(Log, record[t])
  BY Zenon, <1>1, LogPush
<1>2. CASE Pop
  <2>1. /\ chan # <<>> /\ got = NoRecord /\ got' = Head(chan) /\ chan' = Tail(chan)
        /\ recorded' = recorded
    BY Zenon, <1>2 DEF Pop, BankInv
  <2>2. got' # NoRecord
    <3>1. Head(chan) \in AllRecords
      BY <1>0, <2>1
    <3> QED BY <2>1, <3>1, RecordFacts
  <2>3. Taken = <<>> /\ Taken' = <<Head(chan)>>
    BY Zenon, <2>1, <2>2 DEF Taken
  <2>4. (recorded \o <<>>) \o chan = (recorded \o <<Head(chan)>>) \o Tail(chan)
    BY SMTT(20), <1>0, <2>1, ConcatHead
  <2> QED BY SMTT(20), <2>1, <2>3, <2>4 DEF Log
<1>3. CASE Record
  <2>1. /\ got \in AllRecords /\ got' = NoRecord /\ chan' = chan
        /\ recorded' = Append(recorded, got)
    BY <1>3 DEF Record, Moves, BankInv
  <2>2. Taken = <<got>> /\ Taken' = <<>>
    BY <2>1, RecordFacts DEF Taken
  <2>3. recorded \o <<got>> = Append(recorded, got) \o <<>>
    BY <1>0, <2>1, ConcatOne
  <2> QED BY Zenon, <2>1, <2>2, <2>3 DEF Log
<1>4. CASE UNCHANGED <<recorded, got, chan>>
  BY Zenon, <1>4 DEF Log, Taken
<1>5. CASE UNCHANGED vars
  BY Zenon, <1>4, <1>5 DEF vars, receiver
<1>6. CASE \E t \in Threads : \E b \in 1..MaxBankId : Call(t, b)
  BY Zenon, <1>4, <1>6 DEF Call, receiver
<1>7. CASE \E t \in Threads : Send(t)
  BY Zenon, <1>1, <1>4, <1>7
     DEF Send, Lock, Load, Refuse, Enter, Reserve, Retry, Leave, Return, receiver
<1>8. CASE Receiving
  <2>1. CASE TakeMessage \/ NoMessage \/ ShutEarly \/ OnlyHash \/ TryRecv \/ SeeEmpty
    BY Zenon, <1>4, <2>1
       DEF TakeMessage, NoMessage, ShutEarly, OnlyHash, TryRecv, SeeEmpty, OnlyMoves, receiver
  <2>2. CASE CheckActive \/ Empty \/ on_received_record \/ CheckSafe \/ CheckEmpty
    BY Zenon, <1>4, <2>2
       DEF CheckActive, Empty, on_received_record, CheckSafe, CheckEmpty, OnlyMoves, receiver
  <2>3. CASE SetBank \/ LockIndex \/ StoreWord \/ UnlockIndex
    BY ZenonT(30), <1>4, <2>3 DEF SetBank, LockIndex, StoreWord, UnlockIndex, OnlyMoves, receiver
  <2> QED BY Zenon, <1>2, <1>3, <1>8, <2>1, <2>2, <2>3 DEF Receiving
<1> QED BY Zenon, <1>5, <1>6, <1>7, <1>8 DEF Next

\* Only Call changes a record, and a thread whose record is still to be pushed had
\* it before.
LEMMA ThreadStep ==
  ASSUME ChannelInv, [Next]_vars, NEW u \in Threads
  PROVE  /\ record'[u].number >= record[u].number
         /\ pc'[u] \in Unsent => \/ pc[u] \in Unsent /\ record'[u] = record[u]
                                 \/ record'[u].number > record[u].number
<1> USE DEF ChannelInv
<1>0. record[u].number \in Nat /\ record \in [Threads -> [thread : Threads, number : Nat,
                                                bank : Nat, batches : 0..Capacity]]
      /\ pc \in [Threads -> PCs]
  BY Zenon DEF TypeOK
<1>1. CASE UNCHANGED <<pc, record>>
  BY <1>0, <1>1
<1>2. ASSUME NEW t \in Threads, NEW b \in 1..MaxBankId, Call(t, b)
      PROVE  \/ u # t /\ pc'[u] = pc[u] /\ record'[u] = record[u]
             \/ u = t /\ record'[u].number = record[u].number + 1
  BY Zenon, <1>0, <1>2 DEF Call, Goes
<1>3. ASSUME NEW t \in Threads, Send(t)
      PROVE  /\ record' = record
             /\ pc'[u] \in Unsent => pc[u] \in Unsent
  BY Zenon, <1>0, <1>3 DEF Send, Lock, Load, Refuse, Enter, Reserve, Retry, Push, Leave, Return, Goes, Unsent
<1>4. CASE Receiving
  BY Zenon, <1>1, <1>4
     DEF Receiving, TakeMessage, NoMessage, ShutEarly, OnlyHash, TryRecv, Pop, SeeEmpty, CheckActive,
         Empty, on_received_record, Record, CheckSafe, CheckEmpty, SetBank, LockIndex, StoreWord,
         UnlockIndex, OnlyMoves, sender
<1>5. CASE UNCHANGED vars
  BY ZenonT(30), <1>1, <1>5 DEF vars, sender
<1>6. CASE \E t \in Threads : \E b \in 1..MaxBankId : Call(t, b)
  BY SMTT(20), <1>0, <1>2, <1>6
<1>7. CASE \E t \in Threads : Send(t)
  BY SMTT(20), <1>0, <1>3, <1>7
<1> QED BY SMTT(20), <1>4, <1>5, <1>6, <1>7 DEF Next

\* What a step does to the working bank.
LEMMA BankStep ==
  ASSUME ChannelInv, [Next]_vars
  PROVE  \/ bank' = bank /\ (at' \in {"restart", "store"} => at \in {"restart", "store"})
         \/ bank' = bank + 1 /\ SetBank
<1> USE DEF ChannelInv
<1>1. CASE UNCHANGED <<bank, at>>
  BY Zenon, <1>1
<1>2. CASE \E t \in Threads : Send(t) \/ \E b \in 1..MaxBankId : Call(t, b)
  BY Zenon, <1>1, <1>2
     DEF Send, Lock, Load, Refuse, Enter, Reserve, Retry, Push, Leave, Return, Call, receiver
<1>3. CASE SetBank
  BY Zenon, <1>3 DEF SetBank, ServiceInv
<1>4. CASE Receiving
  BY Zenon, <1>3, <1>4
     DEF Receiving, TakeMessage, NoMessage, ShutEarly, OnlyHash, TryRecv, Pop, SeeEmpty, CheckActive,
         Empty, on_received_record, Record, CheckSafe, CheckEmpty, LockIndex, StoreWord,
         UnlockIndex, OnlyMoves, Moves, receiver
<1> QED BY SMTT(20), <1>1, <1>2, <1>4 DEF Next, vars, receiver

\* The log starts empty.
LEMMA LogInit == Init => LogInv
<1> SUFFICES ASSUME Init PROVE Log = <<>>
  BY DEF LogInv
<1> QED BY DEF Init, Log, Taken

\* Every step keeps the log's invariant: a record pushed is newer than all its
\* thread has pushed before, and of the latest bank.
LEMMA LogInductive ==
  ASSUME ChannelInv, ChannelInv', LogInv, [Next]_vars
  PROVE  LogInv'
<1>0. Log \in Seq(AllRecords) /\ Len(Log) \in Nat /\ bank \in Nat
      /\ \A i \in 1..Len(Log) : Log[i] \in AllRecords
  <2>1. Log \in Seq(AllRecords)
    BY Zenon, LogType DEF ChannelInv
  <2>2. bank \in 0..MaxBankId
    BY Zenon DEF ChannelInv, TypeOK
  <2>3. bank \in Nat
    BY SMTT(20), <2>2, NumbersFit
  <2> QED BY <2>1, <2>3
\* Old entries.
<1>1. ASSUME NEW i \in 1..Len(Log)
      PROVE  /\ Log[i].number <= record'[Log[i].thread].number
             /\ pc'[Log[i].thread] \in Unsent => Log[i].number # record'[Log[i].thread].number
             /\ Log[i].bank <= bank'
             /\ at' \in {"restart", "store"} => Log[i].bank # bank'
  <2>1. Log[i].thread \in Threads /\ Log[i].number \in Nat /\ Log[i].bank \in Nat
    BY SMTT(20), <1>0, RecordFacts, NumbersFit
  <2>2. /\ record[Log[i].thread].number \in Nat /\ record'[Log[i].thread].number \in Nat
    BY Zenon, <2>1 DEF ChannelInv, TypeOK
  <2>3. /\ Log[i].number <= record[Log[i].thread].number
        /\ pc[Log[i].thread] \in Unsent => Log[i].number # record[Log[i].thread].number
        /\ Log[i].bank <= bank
        /\ at \in {"restart", "store"} => Log[i].bank # bank
    BY Zenon DEF LogInv
  <2>4. /\ record'[Log[i].thread].number >= record[Log[i].thread].number
        /\ pc'[Log[i].thread] \in Unsent =>
             \/ pc[Log[i].thread] \in Unsent /\ record'[Log[i].thread] = record[Log[i].thread]
             \/ record'[Log[i].thread].number > record[Log[i].thread].number
    BY Zenon, <2>1, ThreadStep
  <2>5. /\ Log[i].number <= record'[Log[i].thread].number
        /\ pc'[Log[i].thread] \in Unsent => Log[i].number # record'[Log[i].thread].number
    BY SMTT(20), <2>1, <2>2, <2>3, <2>4
  <2>6. /\ Log[i].bank <= bank'
        /\ at' \in {"restart", "store"} => Log[i].bank # bank'
    BY SMTT(20), <1>0, <2>1, <2>3, BankStep
  <2> QED BY SMTT(20), <2>5, <2>6
<1>2. CASE Log' = Log
  BY ZenonT(30), <1>1, <1>2 DEF LogInv
<1>3. ASSUME NEW t \in Threads, Push(t), Log' = Append(Log, record[t])
      PROVE  LogInv'
  <2>1. /\ Len(Log') = Len(Log) + 1 /\ Log'[Len(Log) + 1] = record[t]
        /\ \A i \in 1..Len(Log) : Log'[i] = Log[i]
    BY SMTT(20), <1>0, <1>3
  <2>2. /\ record[t].thread = t /\ pc[t] = "push" /\ pc'[t] = "leave" /\ record' = record
        /\ bank' = bank /\ record[t].bank = bank /\ at' = at /\ at \notin {"restart", "store"}
        /\ record[t].number \in Nat
    BY Zenon, <1>3 DEF ChannelInv, TypeOK, Push, Goes, receiver, BankInv, ServiceInv, Reserved
  <2>3. \A i \in 1..Len(Log) : Log[i] # record[t]
    BY Zenon, <2>2 DEF LogInv, Unsent
  <2>4. ASSUME NEW i \in 1..Len(Log')
        PROVE  /\ Log'[i].number <= record'[Log'[i].thread].number
               /\ pc'[Log'[i].thread] \in Unsent => Log'[i].number # record'[Log'[i].thread].number
               /\ Log'[i].bank <= bank'
               /\ at' \in {"restart", "store"} => Log'[i].bank # bank'
    <3>1. CASE i \in 1..Len(Log)
      BY Zenon, <1>1, <2>1, <3>1
    <3>2. CASE i = Len(Log) + 1
      BY SMTT(20), <1>0, <2>1, <2>2, <3>2 DEF Unsent
    <3> QED BY SMTT(20), <1>0, <2>1, <3>1, <3>2
  <2>5. ASSUME NEW i \in 1..Len(Log'), NEW j \in 1..Len(Log'), Log'[i] = Log'[j]
        PROVE  i = j
    <3>1. CASE i \in 1..Len(Log) /\ j \in 1..Len(Log)
      BY SMTT(20), <2>1, <2>5, <3>1 DEF LogInv
    <3>2. (i \in 1..Len(Log) \/ i = Len(Log) + 1) /\ (j \in 1..Len(Log) \/ j = Len(Log) + 1)
      BY <1>0, <2>1
    <3> QED BY ZenonT(30), <2>1, <2>3, <2>5, <3>1, <3>2
  <2> QED BY SMTT(20), <2>4, <2>5 DEF LogInv
<1> QED BY SMTT(20), <1>2, <1>3, LogStep

\* No record is in the channel twice, none is of a bank later than the working
\* bank, and none that its thread has yet to push is there already.
THEOREM LogInvariant == Spec => []LogInv
<1>1. ChannelInv /\ ChannelInv' /\ LogInv /\ [Next]_vars => LogInv'
  BY Zenon, LogInductive
<1> QED BY <1>1, LogInit, ChannelInvariant, PTL DEF Spec

\* The batches before a place of the log can be counted.
LEMMA BeforeCounted ==
  ASSUME NEW s \in Seq(AllRecords), NEW i \in 1..(Len(s) + 1), NEW b
  PROVE  /\ Counted([j \in {j \in 1..(i - 1) : s[j].bank = b} |-> s[j]])
         /\ Before(s, i, b) \in Nat
<1> DEFINE f == [j \in {j \in 1..(i - 1) : s[j].bank = b} |-> s[j]]
<1>0. Len(s) \in Nat /\ i \in Nat /\ i - 1 \in Nat
  OBVIOUS
<1>1. IsFiniteSet(1..(i - 1))
  BY SMTT(20), <1>0, FS_Interval
<1>2. IsFiniteSet(DOMAIN f)
  <2>1. DOMAIN f \in SUBSET (1..(i - 1))
    BY Zenon
  <2> QED BY SMTT(20), <1>1, <2>1, FS_Subset
<1>3. ASSUME NEW x \in DOMAIN f PROVE f[x].batches \in 0..Capacity
  <2>1. x \in 1..Len(s) /\ f[x] = s[x]
    BY SMTT(20), <1>0
  <2>2. s[x] \in AllRecords
    BY SMTT(20), <2>1
  <2> QED BY SMTT(20), <2>1, <2>2, RecordFacts, NumbersFit DEF Capacity
<1>4. Counted(f)
  BY <1>2, <1>3 DEF Counted
<1>5. Batches(f) \in Nat
  BY Zenon, <1>4, PlacesFinite
<1> QED BY <1>4, <1>5 DEF Before

\* Two sequences have the same records before a place.
SameUntil(u, s, i) == \A j \in 1..(i - 1) : u[j] = s[j]

\* They depend only on the records before that place.
LEMMA BeforeSame ==
  ASSUME NEW s, NEW u, NEW i \in Nat, NEW b, SameUntil(u, s, i)
  PROVE  Before(u, i, b) = Before(s, i, b)
<1>1. {j \in 1..(i - 1) : u[j].bank = b} = {j \in 1..(i - 1) : s[j].bank = b}
  BY Zenon DEF SameUntil
<1>2. [j \in {j \in 1..(i - 1) : u[j].bank = b} |-> u[j]]
        = [j \in {j \in 1..(i - 1) : s[j].bank = b} |-> s[j]]
  BY <1>1 DEF SameUntil
<1> QED BY <1>2 DEF Before

\* There are none of a bank that has no record there.
LEMMA BeforeNone ==
  ASSUME NEW s, NEW i \in Nat, NEW b, \A j \in 1..(i - 1) : s[j].bank # b
  PROVE  Before(s, i, b) = 0
<1>1. DOMAIN [j \in {j \in 1..(i - 1) : s[j].bank = b} |-> s[j]] = {}
  BY Zenon
<1> QED BY Zenon, <1>1, NoPlaces DEF Before

\* The place after a record counts its batches as well.
LEMMA BeforeNext ==
  ASSUME NEW s \in Seq(AllRecords), NEW i \in 1..Len(s)
  PROVE  Before(s, i + 1, s[i].bank) = Before(s, i, s[i].bank) + s[i].batches
<1> DEFINE b == s[i].bank
           f == [j \in {j \in 1..(i - 1) : s[j].bank = b} |-> s[j]]
           g == [j \in {j \in 1..((i + 1) - 1) : s[j].bank = b} |-> s[j]]
<1>1. Len(s) \in Nat /\ i \in Nat /\ s[i] \in AllRecords
  OBVIOUS
<1>2. Counted(f)
  <2>1. i \in 1..(Len(s) + 1)
    BY SMTT(20), <1>1
  <2> QED BY <2>1, BeforeCounted, Zenon
<1>3. DOMAIN g = DOMAIN f \union {i} /\ i \notin DOMAIN f /\ g[i] = s[i]
      /\ \A j \in DOMAIN f : g[j] = f[j]
  BY SMTT(20), <1>1
<1>4. s[i].batches \in 0..Capacity
  BY SMTT(20), <1>1, RecordFacts, NumbersFit DEF Capacity
<1> HIDE DEF f, g
<1>5. Batches(g) = Batches(f) + g[i].batches
  BY SMTT(20), <1>2, <1>3, <1>4, MorePlaces
<1> QED BY <1>3, <1>5 DEF Before, f, g

\* A reservation does not carry into the bank.
LEMMA ReserveOpen ==
  ASSUME ChannelInv, NEW t \in Threads, Reserve(t)
  PROVE  OpenBank' = OpenBank
<1> USE DEF ChannelInv
<1>1. bank_id(word) \in Nat /\ word = seen[t]
  BY SMTT(20), Words DEF Reserve, TypeOK
<1>2. allowed_insertions(word) - record[t].batches \in 0..Capacity
  <2>1. Admits(word, record[t])
    BY Zenon DEF SendersInv, Reserve, Goes
  <2>2. record[t] \in AllRecords /\ allowed_insertions(word) \in 0..Capacity
    BY SMTT(20), Words DEF TypeOK, Reserve, Goes
  <2>3. Capacity \in Nat
    BY NumbersFit DEF Capacity
  <2> QED BY SMTT(20), <2>1, <2>2, <2>3, RecordFacts DEF Admits
<1> QED BY SMTT(20), <1>1, <1>2, Words DEF Reserve, OpenBank

\* Which bank the channel is open for: only the service changes it, by shutting
\* the channel or by restart.
LEMMA OpenStep ==
  ASSUME ChannelInv, [Next]_vars
  PROVE  \/ OpenBank' = OpenBank
         \/ OpenBank' = DISABLED_BANK_ID /\ (TakeMessage \/ ShutEarly \/ Record)
         \/ OpenBank' = bank /\ StoreWord
<1> USE DEF ChannelInv
<1>1. CASE word' = word
  BY <1>1 DEF OpenBank
<1>2. ASSUME NEW t \in Threads, Reserve(t) PROVE OpenBank' = OpenBank
  BY <1>2, ReserveOpen
<1>3. CASE on_received_record
  <2>1. /\ bank_id(word) <= DISABLED_BANK_ID
        /\ word \in Nat /\ got \in AllRecords /\ at = "add"
    <3>1. bank_id(word) \in 0..DISABLED_BANK_ID /\ DISABLED_BANK_ID \in Nat
      BY SMTT(20), NumbersFit DEF TypeOK, DISABLED_BANK_ID
    <3> QED BY SMTT(20), <1>3, <3>1 DEF on_received_record, Moves, BankInv, TypeOK
  <2>2. got.batches \in Nat
    BY SMTT(20), <2>1, RecordFacts, NumbersFit DEF Capacity
  <2>3. allowed_insertions(word) + got.batches <= Capacity
    <3>1. /\ Batches(chan) \in Nat /\ Batches(Held) \in Nat /\ allowed_insertions(word) \in Nat
          /\ Capacity \in Nat
      BY SMTT(20), Numbers, CountingHolds
    <3>2. allowed_insertions(word) + (Batches(chan) + Batches(Held) + got.batches) <= Capacity
      BY SMTT(20), <2>1, <2>2, <3>1 DEF BudgetIsExact
    <3> QED BY SMTT(20), <2>2, <3>1, <3>2
  <2> QED BY ZenonT(30), <1>3, <2>1, <2>2, <2>3, Words DEF on_received_record, OpenBank
<1>4. CASE TakeMessage \/ ShutEarly
  BY Zenon, <1>4, Words DEF TakeMessage, ShutEarly, OpenBank
<1>5. CASE Record
  BY Zenon, <1>1, <1>5, Words DEF Record, OpenBank
<1>6. CASE StoreWord
  <2>1. bank \in Nat /\ Capacity \in 0..Capacity
    BY SMTT(20), NumbersFit DEF TypeOK, Capacity
  <2> QED BY Zenon, <1>6, <2>1, Words DEF StoreWord, OpenBank
<1>7. CASE \E t \in Threads : Send(t) \/ \E b \in 1..MaxBankId : Call(t, b)
  BY Zenon, <1>1, <1>2, <1>7
     DEF Send, Lock, Load, Refuse, Enter, Retry, Push, Leave, Return, Call
<1>8. CASE Receiving
  <2>1. CASE NoMessage \/ OnlyHash \/ TryRecv \/ Pop \/ SeeEmpty \/ CheckActive
    BY Zenon, <1>1, <2>1 DEF NoMessage, OnlyHash, TryRecv, Pop, SeeEmpty, CheckActive, OnlyMoves
  <2>2. CASE Empty \/ CheckSafe \/ CheckEmpty \/ SetBank \/ LockIndex \/ UnlockIndex
    BY Zenon, <1>1, <2>2 DEF Empty, CheckSafe, CheckEmpty, SetBank, LockIndex, UnlockIndex, OnlyMoves
  <2> QED BY Zenon, <1>3, <1>4, <1>5, <1>6, <1>8, <2>1, <2>2 DEF Receiving
<1>9. CASE UNCHANGED vars
  BY <1>1, <1>9 DEF vars
<1> QED BY <1>7, <1>8, <1>9 DEF Next

\* No index is given out and none is locked at first.
LEMMA IndexInit == Init => IndexInv
<1> SUFFICES ASSUME Init PROVE LockInv /\ GivenInv /\ NextInv
  BY DEF IndexInv
<1>1. LockInv
  BY ThreadsAssumption DEF Init, LockInv, Critical, Free, Service
<1>2. GivenInv
  BY DEF Init, GivenInv
<1>3. OpenBank = DISABLED_BANK_ID
  BY Words DEF Init, OpenBank
<1>4. NextInv
  BY Zenon, <1>3 DEF Init, NextInv, Reserved
<1> QED BY SMTT(20), <1>1, <1>2, <1>4

\* The lock on transaction_indexes is passed on as LockInv says.
LEMMA LockStep ==
  ASSUME ChannelInv, LockInv, tracking, [Next]_vars
  PROVE  LockInv' /\ tracking'
<1> USE DEF LockInv, Critical
<1>0. /\ pc \in [Threads -> PCs] /\ lock \in Threads \union {Free, Service}
      /\ Free # Service /\ Free \notin Threads /\ Service \notin Threads
  BY SMTT(20), ThreadsAssumption DEF ChannelInv, TypeOK, Free, Service
<1>1. ASSUME NEW t \in Threads, Send(t) PROVE LockInv' /\ tracking'
  <2>1. tracking' /\ at' = at
    BY Zenon, <1>1 DEF Send, Lock, Load, Refuse, Enter, Reserve, Retry, Push, Leave, Return, receiver
  <2>2. CASE Lock(t)
    BY SMTT(20), <1>0, <2>1, <2>2 DEF Lock, Goes
  <2>3. CASE Load(t) \/ Enter(t) \/ Reserve(t) \/ Push(t) \/ Leave(t)
    BY ZenonT(30), <1>0, <2>1, <2>3 DEF Load, Enter, Reserve, Push, Leave, Goes
  <2>4. CASE Refuse(t) \/ Retry(t) \/ Return(t)
    <3>1. lock = t /\ lock' = Free /\ at \notin {"store", "unlock"}
      BY Zenon, <1>0, <2>4 DEF Refuse, Retry, Return, Goes, Unlocked
    <3> QED BY SMTT(20), <1>0, <2>1, <2>4, <3>1 DEF Refuse, Retry, Return, Goes
  <2> QED BY Zenon, <1>1, <2>2, <2>3, <2>4 DEF Send
<1>2. ASSUME NEW t \in Threads, NEW b \in 1..MaxBankId, Call(t, b) PROVE LockInv' /\ tracking'
  BY Zenon, <1>0, <1>2 DEF Call, Goes, receiver
<1>3. CASE LockIndex
  BY SMTT(20), <1>0, <1>3 DEF LockIndex, Moves, sender
<1>4. CASE UnlockIndex
  BY SMTT(20), <1>0, <1>4 DEF UnlockIndex, Moves, sender, Unlocked
<1>5. CASE Receiving
  <2>1. CASE UNCHANGED <<tracking, lock, index, pc>> /\ at' \notin {"store", "unlock"}
             /\ at \notin {"store", "unlock"}
    BY Zenon, <2>1
  <2>2. CASE StoreWord
    BY Zenon, <1>0, <2>2 DEF StoreWord, Moves, sender
  <2> QED
    BY Zenon, <1>3, <1>4, <1>5, <2>1, <2>2
       DEF Receiving, TakeMessage, NoMessage, ShutEarly, OnlyHash, TryRecv, Pop, SeeEmpty,
           CheckActive, Empty, on_received_record, Record, CheckSafe, CheckEmpty, SetBank,
           OnlyMoves, Moves, sender, receiver
<1>6. CASE UNCHANGED vars
  BY SMTT(20), <1>6 DEF vars, sender, receiver
<1> QED BY Zenon, <1>1, <1>2, <1>5, <1>6 DEF Next

\* The log of a step, seen from the indexes: its beginning is kept.
LEMMA LogGrows ==
  ASSUME ChannelInv, [Next]_vars
  PROVE  /\ Log \in Seq(AllRecords) /\ Len(Log) \in Nat /\ Len(Log') \in Nat
         /\ Len(Log') >= Len(Log)
         /\ \A i \in 1..Len(Log) : Log'[i] = Log[i]
         /\ \A i \in 1..(Len(Log) + 1) : \A b : Before(Log', i, b) = Before(Log, i, b)
<1>1. Log \in Seq(AllRecords) /\ Len(Log) \in Nat
  BY LogType DEF ChannelInv
<1>2. /\ Len(Log') \in Nat /\ Len(Log') >= Len(Log)
      /\ \A i \in 1..Len(Log) : Log'[i] = Log[i]
  <2>1. CASE Log' = Log
    BY SMTT(20), <1>1, <2>1
  <2>2. ASSUME NEW t \in Threads, Push(t), Log' = Append(Log, record[t])
        PROVE  /\ Len(Log') \in Nat /\ Len(Log') >= Len(Log)
               /\ \A i \in 1..Len(Log) : Log'[i] = Log[i]
    BY SMTT(20), <1>1, <2>2
  <2> QED BY SMTT(20), <2>1, <2>2, LogStep
<1>3. ASSUME NEW i \in 1..(Len(Log) + 1), NEW b
      PROVE  Before(Log', i, b) = Before(Log, i, b)
  <2>1. i \in Nat /\ SameUntil(Log', Log, i)
    BY <1>1, <1>2 DEF SameUntil
  <2>2. \A u, s : SameUntil(u, s, i) => Before(u, i, b) = Before(s, i, b)
    <3>1. i \in Nat
      BY Zenon, <2>1
    <3> QED BY <3>1, BeforeSame
  <2> QED BY Zenon, <2>1, <2>2
<1> QED BY SMTT(20), <1>1, <1>2, <1>3

\* The indexes given out stay those of the log, and the one a return adds is.
LEMMA GivenStep ==
  ASSUME ChannelInv, GivenInv, NextInv, tracking, [Next]_vars
  PROVE  GivenInv'
<1>0. /\ Len(Log) \in Nat /\ Len(Log') \in Nat /\ Len(Log') >= Len(Log)
      /\ \A i \in 1..Len(Log) : Log'[i] = Log[i] /\ i \in 1..Len(Log')
      /\ \A i \in 1..Len(Log) : \A b : Before(Log', i, b) = Before(Log, i, b)
  BY SMTT(20), LogGrows
<1>1. ASSUME NEW g \in given
      PROVE  \E i \in 1..Len(Log') : Log'[i] = g.record /\ g.index = Before(Log', i, g.record.bank)
  <2>1. PICK i \in 1..Len(Log) : Log[i] = g.record /\ g.index = Before(Log, i, g.record.bank)
    BY SMTT(20), <1>1 DEF GivenInv
  <2>2. i \in 1..Len(Log') /\ Log'[i] = g.record /\ g.index = Before(Log', i, g.record.bank)
    BY SMTT(20), <1>0, <2>1
  <2> QED BY SMTT(20), <2>2
<1>2. CASE given' = given
  BY <1>1, <1>2 DEF GivenInv
<1>3. ASSUME NEW t \in Threads, Return(t) PROVE GivenInv'
  <2>1. /\ given' = given \union {[record |-> record[t], index |-> index]}
        /\ pc[t] = "return"
    BY Zenon, <1>3 DEF Return, Goes
  <2>2. /\ Log # <<>> /\ Log[Len(Log)] = record[t]
        /\ index = Before(Log, Len(Log), record[t].bank)
    BY SMTT(20), <2>1 DEF NextInv
  <2>3. Len(Log) \in 1..Len(Log)
    <3>1. Len(Log) # 0
      BY <2>2, LogGrows
    <3> QED BY SMTT(20), <1>0, <3>1
  <2>4. Len(Log) \in 1..Len(Log') /\ Log'[Len(Log)] = record[t]
        /\ index = Before(Log', Len(Log), record[t].bank)
    BY Zenon, <1>0, <2>2, <2>3
  <2>5. ASSUME NEW g \in given'
        PROVE  \E i \in 1..Len(Log') : Log'[i] = g.record
                                       /\ g.index = Before(Log', i, g.record.bank)
    <3>1. CASE g \in given
      BY Zenon, <1>1, <3>1
    <3>2. CASE g = [record |-> record[t], index |-> index]
      <4>1. g.record = record[t] /\ g.index = index
        BY Zenon, <3>2
      <4> QED BY Zenon, <2>4, <4>1
    <3> QED BY Zenon, <2>1, <3>1, <3>2
  <2> QED BY Zenon, <2>5 DEF GivenInv
<1>4. CASE UNCHANGED vars
  BY SMTT(20), <1>2, <1>4 DEF vars, sender
<1>5. CASE \E t \in Threads : Send(t) \/ \E b \in 1..MaxBankId : Call(t, b)
  BY Zenon, <1>2, <1>3, <1>5 DEF Send, Lock, Load, Refuse, Enter, Reserve, Retry, Push, Leave, Call
<1>6. CASE Receiving
  BY Zenon, <1>2, <1>6
     DEF Receiving, TakeMessage, NoMessage, ShutEarly, OnlyHash, TryRecv, Pop, SeeEmpty,
         CheckActive, Empty, on_received_record, Record, CheckSafe, CheckEmpty, SetBank, LockIndex,
         StoreWord, UnlockIndex, OnlyMoves, Moves, sender
<1> QED BY Zenon, <1>4, <1>5, <1>6 DEF Next

\* A step that leaves the index, the log and the records alone, and gives the
\* next index to no one else.
LEMMA NextKept ==
  ASSUME NextInv, Log' = Log, index' = index, bank' = bank, record' = record,
         \A t \in Threads : pc'[t] \in {"leave", "return"} <=> pc[t] \in {"leave", "return"},
         OpenBank' \in {OpenBank, DISABLED_BANK_ID},
         OpenBank = DISABLED_BANK_ID /\ Reserved = {} => Reserved' = {}
  PROVE  NextInv'
<1>1. ASSUME NEW t \in Threads, pc'[t] \in {"leave", "return"}
      PROVE  /\ Log' # <<>> /\ Log'[Len(Log')] = record'[t]
             /\ index' = Before(Log', Len(Log'), record'[t].bank)
             /\ OpenBank' # DISABLED_BANK_ID => record'[t].bank = bank'
  BY Zenon, <1>1 DEF NextInv
<1>2. \/ \E t \in Threads : pc'[t] \in {"leave", "return"}
      \/ OpenBank' = DISABLED_BANK_ID /\ Reserved' = {}
      \/ index' = Before(Log', Len(Log') + 1, bank')
  BY Zenon DEF NextInv
<1> QED BY Zenon, <1>1, <1>2 DEF NextInv

\* Every step keeps the next index right: a sender pushes and adds to the index
\* under one lock, and restart resets the index before it opens the channel.
LEMMA NextStep ==
  ASSUME ChannelInv, LogInv, LockInv, NextInv, tracking, [Next]_vars
  PROVE  NextInv'
<1>0. /\ pc \in [Threads -> PCs] /\ lock \in Threads \union {Free, Service}
      /\ Free # Service /\ Free \notin Threads /\ Service \notin Threads
  BY SMTT(20), ThreadsAssumption DEF ChannelInv, TypeOK, Free, Service
<1>a. /\ Log \in Seq(AllRecords) /\ Len(Log) \in Nat
      /\ \A i \in 1..(Len(Log) + 1) : \A b : Before(Log', i, b) = Before(Log, i, b)
  BY LogGrows
<1>b. ASSUME NEW t \in Threads, NEW u \in Threads, pc[t] \in Critical, pc[u] \in Critical
      PROVE  t = u
  BY ZenonT(30), <1>b DEF LockInv
<1>1. ASSUME NEW t \in Threads, Push(t) PROVE NextInv'
  <2>1. /\ pc[t] = "push" /\ pc' = [pc EXCEPT ![t] = "leave"]
        /\ index' = index /\ bank' = bank /\ record' = record /\ record[t].bank = bank
    BY Zenon, <1>1 DEF Push, Goes, receiver, ChannelInv, BankInv, Reserved
  <2>2. \A u \in Threads : u # t => pc[u] \notin Critical
    BY ZenonT(30), <1>b, <2>1 DEF Critical
  <2>3. index = Before(Log, Len(Log) + 1, bank)
    BY SMTT(20), <2>1, <2>2 DEF NextInv, Reserved, Critical
  <2>4. Log' = Append(Log, record[t])
    <3>1. chan' # chan
      <4>1. chan \in Seq(AllRecords) /\ Len(chan) \in Nat /\ record[t] \in AllRecords
        BY SMTT(20), <2>1 DEF ChannelInv, TypeOK
      <4>2. Len(Append(chan, record[t])) = Len(chan) + 1
        BY <4>1
      <4> QED BY SMTT(20), <1>1, <4>1, <4>2 DEF Push
    <3> QED BY Zenon, <1>1, LogPush
  <2>5. Log' # <<>> /\ Len(Log') = Len(Log) + 1 /\ Log'[Len(Log')] = record[t]
    BY SMTT(20), <1>a, <2>4
  <2>6. index' = Before(Log', Len(Log'), bank)
    BY SMTT(20), <1>a, <2>1, <2>3, <2>5
  <2>7. ASSUME NEW u \in Threads, pc'[u] \in {"leave", "return"}
        PROVE  u = t
    BY Zenon, <1>0, <2>1, <2>2, <2>7 DEF Critical
  <2>8. pc'[t] = "leave"
    BY Zenon, <1>0, <2>1
  <2> QED BY SMTT(20), <2>1, <2>5, <2>6, <2>7, <2>8 DEF NextInv
<1>2. ASSUME NEW t \in Threads, Return(t) PROVE NextInv'
  <2>1. /\ pc[t] = "return" /\ pc' = [pc EXCEPT ![t] = "idle"]
        /\ index' = index + record[t].batches /\ bank' = bank /\ word' = word
    BY Zenon, <1>2 DEF Return, Goes, receiver
  <2>2. \A u \in Threads : u # t => pc[u] \notin Critical
    BY Zenon, <1>b, <2>1 DEF Critical
  <2>3. /\ Log # <<>> /\ Log[Len(Log)] = record[t]
        /\ index = Before(Log, Len(Log), record[t].bank)
        /\ OpenBank # DISABLED_BANK_ID => record[t].bank = bank
    BY ZenonT(30), <2>1 DEF NextInv
  <2>4. Log' = Log /\ OpenBank' = OpenBank
    BY SMTT(20), <1>2 DEF Return, Log, Taken, receiver, OpenBank
  <2>5. Len(Log) \in 1..Len(Log)
    <3>1. Len(Log) # 0
      BY SMTT(20), <1>a, <2>3
    <3> QED BY SMTT(20), <1>a, <3>1
  <2>6. index' = Before(Log, Len(Log) + 1, record[t].bank)
    BY Zenon, <1>a, <2>1, <2>3, <2>5, BeforeNext
  <2>7. Reserved' = {} /\ \A u \in Threads : pc'[u] \notin {"leave", "return"}
    BY Zenon, <1>0, <2>1, <2>2 DEF Reserved, Critical
  <2>8. OpenBank' = DISABLED_BANK_ID \/ index' = Before(Log', Len(Log') + 1, bank')
    BY Zenon, <2>1, <2>3, <2>4, <2>6
  <2> QED BY Zenon, <2>7, <2>8 DEF NextInv
<1>3. ASSUME NEW t \in Threads, Reserve(t) PROVE NextInv'
  <2>1. /\ pc[t] = "reserve" /\ pc' = [pc EXCEPT ![t] = "push"]
        /\ index' = index /\ bank' = bank /\ record' = record
        /\ Log' = Log
    BY ZenonT(30), <1>3 DEF Reserve, Goes, receiver, Log, Taken
  <2>2. OpenBank # DISABLED_BANK_ID
    BY SMTT(20), <1>3, <2>1 DEF ChannelInv, SendersInv, Admits, Reserve, OpenBank
  <2>3. OpenBank' = OpenBank
    BY Zenon, <1>3, ReserveOpen
  <2>4. \A u \in Threads : pc'[u] \in {"leave", "return"} <=> pc[u] \in {"leave", "return"}
    BY Zenon, <1>0, <2>1
  <2> QED BY Zenon, <2>1, <2>2, <2>3, <2>4, NextKept
<1>4. CASE LockIndex
  <2>1. /\ lock = Free /\ at = "restart" /\ OpenBank' = OpenBank /\ pc' = pc
    BY Zenon, <1>4 DEF LockIndex, Moves, sender, OpenBank
  <2>2. OpenBank = DISABLED_BANK_ID /\ Reserved = {}
    BY Zenon, <2>1 DEF ChannelInv, ServiceInv, OpenBank
  <2>3. \A u \in Threads : pc'[u] \notin Critical
    BY Zenon, <1>0, <2>1 DEF LockInv
  <2> QED BY Zenon, <2>1, <2>2, <2>3 DEF NextInv, Reserved, Critical
<1>5. CASE SetBank
  <2>1. /\ at = "set" /\ OpenBank' = OpenBank /\ pc' = pc /\ record' = record
        /\ Log' = Log /\ index' = index
    BY Zenon, <1>5 DEF SetBank, sender, OpenBank, Log, Taken
  <2>2. OpenBank = DISABLED_BANK_ID /\ Reserved = {}
    BY <2>1 DEF ChannelInv, ServiceInv, OpenBank
  <2>3. Reserved' = {}
    BY Zenon, <2>1, <2>2 DEF Reserved
  <2> QED BY Zenon, <2>1, <2>2, <2>3 DEF NextInv
<1>6. CASE StoreWord
  <2>1. /\ at = "store" /\ pc' = pc /\ Log' = Log /\ index' = index /\ bank' = bank
    BY <1>6 DEF StoreWord, Moves, sender, Log, Taken
  <2>2. lock = Service /\ index = 0
    BY Zenon, <2>1 DEF LockInv
  <2>3. \A u \in Threads : pc'[u] \notin Critical
    BY Zenon, <1>0, <2>1, <2>2 DEF LockInv
  <2>4. \A j \in 1..((Len(Log) + 1) - 1) : Log[j].bank # bank
    BY SMTT(20), <1>a, <2>1 DEF LogInv
  <2>5. Before(Log, Len(Log) + 1, bank) = 0
    BY SMTT(20), <1>a, <2>4, BeforeNone
  <2> QED BY Zenon, <2>1, <2>2, <2>3, <2>5 DEF NextInv, Critical
<1>7. ASSUME NEW t \in Threads, NEW b \in 1..MaxBankId, Call(t, b) PROVE NextInv'
  <2>1. /\ pc[t] = "idle" /\ pc' = [pc EXCEPT ![t] = "lock"]
        /\ index' = index /\ bank' = bank /\ Log' = Log /\ OpenBank' = OpenBank
        /\ \A u \in Threads : u # t => record'[u] = record[u]
    BY Zenon, <1>7 DEF Call, Goes, receiver, Log, Taken, OpenBank, ChannelInv, TypeOK
  <2>2. /\ \A u \in Threads : pc'[u] \in {"leave", "return"} <=>
                              pc[u] \in {"leave", "return"} /\ u # t
        /\ Reserved' = Reserved /\ pc[t] \notin {"leave", "return"}
    BY Zenon, <1>0, <2>1 DEF Reserved
  <2> QED BY Zenon, <2>1, <2>2 DEF NextInv
<1>8. CASE /\ Log' = Log /\ index' = index /\ bank' = bank /\ record' = record
           /\ \A t \in Threads : pc'[t] \in {"leave", "return"} <=> pc[t] \in {"leave", "return"}
           /\ OpenBank' \in {OpenBank, DISABLED_BANK_ID}
           /\ Reserved' = Reserved
  BY Zenon, <1>8, NextKept
<1>9. ASSUME NEW t \in Threads, Send(t) PROVE NextInv'
  <2>1. CASE Lock(t) \/ Load(t) \/ Refuse(t) \/ Enter(t) \/ Retry(t) \/ Leave(t)
    <3>1. /\ Log' = Log /\ index' = index /\ bank' = bank /\ record' = record /\ OpenBank' = OpenBank
      BY Zenon, <2>1 DEF Lock, Load, Refuse, Enter, Retry, Leave, receiver, Log, Taken, OpenBank
    <3>2. /\ \A u \in Threads : pc'[u] \in {"leave", "return"} <=> pc[u] \in {"leave", "return"}
          /\ Reserved' = Reserved
      BY Zenon, <1>0, <2>1 DEF Lock, Load, Refuse, Enter, Retry, Leave, Goes, Reserved
    <3> QED BY SMTT(20), <1>8, <3>1, <3>2
  <2> QED BY Zenon, <1>1, <1>2, <1>3, <1>9, <2>1 DEF Send
<1>10. CASE UNCHANGED vars
  BY <1>8, <1>10 DEF vars, sender, receiver, Log, Taken, OpenBank, Reserved
<1>11. CASE Receiving
  <2>1. CASE ~(SetBank \/ LockIndex \/ StoreWord)
    <3>1. index' = index /\ pc' = pc /\ record' = record
      BY Zenon, <1>11, <2>1
         DEF Receiving, TakeMessage, NoMessage, ShutEarly, OnlyHash, TryRecv, Pop, SeeEmpty,
             CheckActive, Empty, on_received_record, Record, CheckSafe, CheckEmpty,
             UnlockIndex, OnlyMoves, sender
    <3>2. Reserved' = Reserved
      BY <3>1 DEF Reserved
    <3>3. bank' = bank
      BY SMTT(20), <2>1, BankStep
    <3>4. OpenBank' \in {OpenBank, DISABLED_BANK_ID}
      BY <2>1, OpenStep
    <3>5. Log' = Log
      <4>1. ASSUME NEW t \in Threads, Push(t) PROVE FALSE
        BY SMTT(20), <1>0, <3>1, <4>1 DEF Push, Goes
      <4> QED BY Zenon, <4>1, LogStep
    <3> QED BY Zenon, <1>8, <3>1, <3>2, <3>3, <3>4, <3>5
  <2> QED BY Zenon, <1>4, <1>5, <1>6, <2>1
<1> QED BY ZenonT(30), <1>7, <1>9, <1>10, <1>11 DEF Next

\* The strengthened invariant of the indexes.
THEOREM IndexInvariant == Spec => []IndexInv
<1>1. ASSUME ChannelInv, LogInv, IndexInv, [Next]_vars PROVE IndexInv'
  <2>1. CASE tracking
    BY SMTT(20), <1>1, <2>1, LockStep, GivenStep, NextStep DEF IndexInv
  <2>2. CASE ~tracking
    <3>1. tracking' = tracking
      BY Zenon, <1>1 DEF Next, vars, Send, Lock, Load, Refuse, Enter, Reserve, Retry, Push, Leave, Return,
                  Call, Receiving, TakeMessage, NoMessage, ShutEarly, OnlyHash, TryRecv, Pop,
                  SeeEmpty, CheckActive, Empty, on_received_record, Record, CheckSafe, CheckEmpty,
                  SetBank, LockIndex, StoreWord, UnlockIndex, OnlyMoves
    <3> QED BY <2>2, <3>1, Zenon DEF IndexInv
  <2> QED BY SMTT(20), <2>1, <2>2
<1>2. ChannelInv /\ LogInv /\ IndexInv /\ [Next]_vars => IndexInv'
  BY Zenon, <1>1
<1> QED BY <1>2, IndexInit, ChannelInvariant, LogInvariant, PTL DEF Spec

\* What has been recorded is the beginning of the log.
LEMMA IndexesAreRight ==
  ASSUME ChannelInv, LogInv, IndexInv
  PROVE  IndexesFollowOrder
<1> SUFFICES ASSUME tracking, NEW g \in given, NEW i \in 1..Len(recorded), recorded[i] = g.record
             PROVE  g.index = Before(recorded, i, g.record.bank)
  BY ZenonT(30) DEF IndexesFollowOrder
<1>1. recorded \in Seq(AllRecords) /\ Taken \in Seq(AllRecords) /\ chan \in Seq(AllRecords)
      /\ Len(recorded) \in Nat /\ i \in Nat
  BY SMTT(20), LogType DEF ChannelInv, TypeOK
<1>2. \A j \in 1..Len(recorded) : j \in 1..Len(Log) /\ Log[j] = recorded[j]
  BY SMTT(20), <1>1 DEF Log
<1>3. PICK k \in 1..Len(Log) : Log[k] = g.record /\ g.index = Before(Log, k, g.record.bank)
  BY Zenon DEF IndexInv, GivenInv
<1>4. k = i
  <2>1. \A j, l \in 1..Len(Log) : Log[j] = Log[l] => j = l
    BY Zenon DEF LogInv
  <2>2. i \in 1..Len(Log) /\ Log[i] = recorded[i]
    BY Zenon, <1>2
  <2> QED
    BY Zenon, <1>3, <2>1, <2>2
<1>5. \A j \in 1..(i - 1) : recorded[j] = Log[j]
  <2>1. \A j \in 1..(i - 1) : j \in 1..Len(recorded)
    BY SMTT(20), <1>1
  <2> QED
    BY ZenonT(30), <1>2, <2>1
<1>6. Before(recorded, i, g.record.bank) = Before(Log, i, g.record.bank)
  <2>1. i \in Nat /\ SameUntil(recorded, Log, i)
    BY Zenon, <1>1, <1>5 DEF SameUntil
  <2> QED BY Zenon, <2>1, BeforeSame
<1> QED BY Zenon, <1>3, <1>4, <1>6

\* The index that try_send returns is the number of transactions recorded before
\* in the bank, however the senders and a restart interleave.
THEOREM IndexesAreFollowed == Spec => []IndexesFollowOrder
BY ChannelInvariant, LogInvariant, IndexInvariant, IndexesAreRight, PTL

-----------------------------------------------------------------------------
(* The channel keeps its promise *)

\* Popping takes away the first element, for good if none is there twice.
LEMMA RangeTail ==
  ASSUME NEW S, NEW s \in Seq(S), s # <<>>
  PROVE  /\ Range(s) = {Head(s)} \union Range(Tail(s))
         /\ (\A i, j \in 1..Len(s) : s[i] = s[j] => i = j) => Head(s) \notin Range(Tail(s))
<1>1. /\ Len(s) \in Nat /\ Len(s) # 0 /\ Tail(s) \in Seq(S) /\ Len(Tail(s)) = Len(s) - 1
      /\ Head(s) = s[1]
      /\ \A i \in 1..Len(Tail(s)) : Tail(s)[i] = s[i + 1]
  OBVIOUS
<1>2. ASSUME NEW y \in Range(s) PROVE y \in {Head(s)} \union Range(Tail(s))
  <2>1. PICK i \in 1..Len(s) : s[i] = y
    BY SMTT(20), <1>2, RangeOf
  <2>2. CASE i = 1
    BY SMTT(20), <1>1, <2>1, <2>2
  <2>3. CASE i # 1
    <3>1. i - 1 \in 1..Len(Tail(s)) /\ (i - 1) + 1 = i
      BY SMTT(20), <1>1, <2>3
    <3>2. Tail(s)[i - 1] = y
      BY SMTT(20), <1>1, <2>1, <3>1
    <3> QED BY Zenon, <1>1, <3>1, <3>2, RangeOf
  <2> QED BY SMTT(20), <2>2, <2>3
<1>3. ASSUME NEW y \in Range(Tail(s)) PROVE \E i \in 2..Len(s) : s[i] = y
  <2>1. PICK i \in 1..Len(Tail(s)) : Tail(s)[i] = y
    BY ZenonT(30), <1>1, <1>3, RangeOf
  <2>2. i + 1 \in 2..Len(s) /\ s[i + 1] = y
    BY <1>1, <2>1
  <2> QED BY <2>2
<1>4. 1 \in 1..Len(s) /\ \A i \in 2..Len(s) : i \in 1..Len(s) /\ i # 1
  BY <1>1
<1>5. Head(s) \in Range(s) /\ \A y \in Range(Tail(s)) : y \in Range(s)
  <2>1. Head(s) \in Range(s)
    BY Zenon, <1>1, <1>4, RangeOf
  <2>2. ASSUME NEW y \in Range(Tail(s)) PROVE y \in Range(s)
    BY Zenon, <1>3, <1>4, RangeOf
  <2> QED BY <2>1, <2>2
<1>6. ASSUME \A i, j \in 1..Len(s) : s[i] = s[j] => i = j, Head(s) \in Range(Tail(s))
      PROVE  FALSE
  <2>1. PICK i \in 2..Len(s) : s[i] = Head(s)
    BY Zenon, <1>3, <1>6
  <2> QED BY SMTT(20), <1>1, <1>4, <1>6, <2>1
<1> QED BY SMTT(20), <1>2, <1>5, <1>6

\* A record in the channel or received is in the log, and a thread's record that
\* is still to be sent is in neither.
LEMMA LogParts ==
  ASSUME ChannelInv, LogInv
  PROVE  /\ \A x : x \in Range(chan) \union Received => \E i \in 1..Len(Log) : Log[i] = x
         /\ \A t \in Threads : pc[t] \in Unsent => record[t] \notin Range(chan) \union Received
<1>0. /\ chan \in Seq(AllRecords) /\ recorded \in Seq(AllRecords) /\ Taken \in Seq(AllRecords)
      /\ Len(chan) \in Nat /\ Len(recorded) \in Nat /\ Len(Taken) \in Nat
      /\ Len(Log) = Len(recorded) + Len(Taken) + Len(chan)
  BY SMTT(20), LogType DEF ChannelInv, TypeOK, Log
<1>1. ASSUME NEW i \in 1..Len(recorded) PROVE i \in 1..Len(Log) /\ Log[i] = recorded[i]
  BY SMTT(20), <1>0 DEF Log
<1>2. ASSUME NEW i \in 1..Len(chan)
      PROVE  (Len(recorded) + Len(Taken)) + i \in 1..Len(Log)
             /\ Log[(Len(recorded) + Len(Taken)) + i] = chan[i]
  BY SMTT(20), <1>0 DEF Log
<1>3. ASSUME got # NoRecord
      PROVE  Len(recorded) + 1 \in 1..Len(Log) /\ Log[Len(recorded) + 1] = got
  <2>1. Taken = <<got>> /\ Len(Taken) = 1 /\ Taken[1] = got
    BY Zenon, <1>3 DEF Taken
  <2> QED BY <1>0, <2>1 DEF Log
<1>4. ASSUME NEW x, x \in Range(chan) \union Received PROVE \E i \in 1..Len(Log) : Log[i] = x
  <2>1. CASE x \in Range(chan)
    <3>1. PICK i \in 1..Len(chan) : chan[i] = x
      BY Zenon, <1>0, <2>1, RangeOf
    <3> QED BY Zenon, <1>2, <3>1
  <2>2. CASE x \in Range(recorded)
    <3>1. PICK i \in 1..Len(recorded) : recorded[i] = x
      BY SMTT(20), <1>0, <2>2, RangeOf
    <3> QED BY Zenon, <1>1, <3>1
  <2>3. CASE got # NoRecord /\ x = got
    BY Zenon, <1>3, <2>3
  <2> QED BY Zenon, <1>4, <2>1, <2>2, <2>3 DEF Received
<1>5. ASSUME NEW t \in Threads, pc[t] \in Unsent, record[t] \in Range(chan) \union Received
      PROVE  FALSE
  <2>1. PICK i \in 1..Len(Log) : Log[i] = record[t]
    BY Zenon, <1>4, <1>5
  <2>2. record[t].thread = t
    BY Zenon DEF ChannelInv, TypeOK
  <2> QED BY Zenon, <1>5, <2>1, <2>2 DEF LogInv
<1> QED BY Zenon, <1>4, <1>5

\* The records whose place is reserved.
LEMMA HeldRange ==
  ASSUME NEW x
  PROVE  x \in Range(Held) <=> \E t \in Reserved : x = record[t]
BY Zenon DEF Range, Held

\* A reservation accepts a record that is new and for the open bank.
LEMMA AcceptMaps ==
  ASSUME ChannelInv, LogInv, NEW t \in Threads, Reserve(t)
  PROVE  Promise!ChannelNext
<1>1. /\ pc[t] = "reserve" /\ pc' = [pc EXCEPT ![t] = "push"] /\ record' = record /\ chan' = chan
      /\ recorded' = recorded /\ got' = got
  BY Zenon DEF Reserve, Goes, receiver
<1>2. /\ pc \in [Threads -> PCs] /\ record[t] \in AllRecords
      /\ \A u \in Threads : record[u].thread = u
  BY Zenon, <1>1 DEF ChannelInv, TypeOK
<1>3. OpenBank = RecordBank(record[t])
  BY Zenon, <1>1 DEF ChannelInv, SendersInv, Admits, Reserve, OpenBank, RecordBank
<1>4. OpenBank' = OpenBank
  BY Zenon, ReserveOpen
<1>5. Received' = Received
  BY Zenon, <1>1 DEF Received
<1>6. Reserved' = Reserved \union {t} /\ t \notin Reserved
  BY Zenon, <1>1, <1>2 DEF Reserved
<1>7. Accepted' = Accepted \union {record[t]}
  <2>1. Range(Held') = Range(Held) \union {record[t]}
    <3>1. Held' = [u \in Reserved \union {t} |-> record[u]]
      BY Zenon, <1>1, <1>6 DEF Held
    <3> QED BY Zenon, <3>1 DEF Range, Held
  <2> QED BY Zenon, <1>1, <2>1 DEF Accepted
<1>8. record[t] \notin Accepted \union Received
  <2>1. record[t] \notin Range(chan) \union Received
    BY Zenon, <1>1, LogParts DEF Unsent
  <2>2. record[t] \notin Range(Held)
    BY SMTT(20), <1>2, <1>6, HeldRange DEF Reserved
  <2> QED BY Zenon, <2>1, <2>2 DEF Accepted
<1>9. Promise!Accept(record[t])
  BY SMTT(20), <1>3, <1>4, <1>5, <1>7, <1>8 DEF Promise!Accept
<1> QED BY Zenon, <1>2, <1>9 DEF Promise!ChannelNext

\* Taking a record out of the queue receives it: it is accepted nowhere else.
LEMMA ReceiveMaps ==
  ASSUME ChannelInv, LogInv, Pop
  PROVE  Promise!ChannelNext
<1>1. /\ chan # <<>> /\ got = NoRecord /\ got' = Head(chan) /\ chan' = Tail(chan)
      /\ recorded' = recorded /\ pc' = pc /\ record' = record /\ word' = word
  BY Zenon DEF Pop, sender, ChannelInv, BankInv
<1>2. chan \in Seq(AllRecords) /\ Head(chan) \in AllRecords /\ Len(chan) \in Nat
  BY SMTT(20), <1>1 DEF ChannelInv, TypeOK
<1>3. OpenBank' = OpenBank /\ Held' = Held
  BY Zenon, <1>1 DEF OpenBank, Held, Reserved
<1>4. got' # NoRecord
  BY Zenon, <1>1, <1>2, RecordFacts
<1>5. Received' = Received \union {Head(chan)}
  BY SMTT(20), <1>1, <1>4 DEF Received
<1>6. \A i, j \in 1..Len(chan) : chan[i] = chan[j] => i = j
  <2>1. Taken = <<>>
    BY Zenon, <1>1 DEF Taken
  <2>2. recorded \in Seq(AllRecords) /\ Len(recorded) \in Nat
    BY DEF ChannelInv, TypeOK
  <2>3. ASSUME NEW i \in 1..Len(chan)
        PROVE  Len(recorded) + i \in 1..Len(Log) /\ Log[Len(recorded) + i] = chan[i]
    BY SMTT(20), <1>2, <2>1, <2>2 DEF Log
  <2>4. ASSUME NEW i \in 1..Len(chan), NEW j \in 1..Len(chan), chan[i] = chan[j] PROVE i = j
    <3>1. Log[Len(recorded) + i] = Log[Len(recorded) + j]
      BY Zenon, <2>3, <2>4
    <3>2. Len(recorded) + i = Len(recorded) + j
      BY Zenon, <2>3, <3>1 DEF LogInv
    <3> QED BY <2>2, <3>2
  <2> QED BY <2>4
<1>7. Range(chan) = {Head(chan)} \union Range(chan') /\ Head(chan) \notin Range(chan')
  BY Zenon, <1>1, <1>2, <1>6, RangeTail
<1>8. Head(chan) \notin Range(Held)
  <2>1. \A t \in Reserved : record[t] \notin Range(chan)
    BY Zenon, LogParts DEF Reserved, Unsent
  <2> QED BY Zenon, <1>7, <2>1, HeldRange
<1>9. Head(chan) \in Accepted /\ Accepted' = Accepted \ {Head(chan)}
  BY SMTT(20), <1>3, <1>7, <1>8 DEF Accepted
<1>10. Promise!Receive(Head(chan))
  BY Zenon, <1>3, <1>5, <1>9 DEF Promise!Receive
<1> QED BY Zenon, <1>2, <1>10 DEF Promise!ChannelNext

\* No other step changes what was accepted and what was received.
LEMMA ContentsKept ==
  ASSUME ChannelInv, LogInv, [Next]_vars, ~Pop, \A t \in Threads : ~Reserve(t)
  PROVE  Accepted' = Accepted /\ Received' = Received
<1>0. /\ pc \in [Threads -> PCs] /\ chan \in Seq(AllRecords) /\ recorded \in Seq(AllRecords)
  BY Zenon DEF ChannelInv, TypeOK
<1>1. ASSUME NEW t \in Threads, Push(t) PROVE Accepted' = Accepted /\ Received' = Received
  <2>1. /\ pc[t] = "push" /\ pc' = [pc EXCEPT ![t] = "leave"] /\ record' = record
        /\ chan' = Append(chan, record[t]) /\ recorded' = recorded /\ got' = got
        /\ record[t] \in AllRecords
    BY Zenon, <1>1 DEF Push, Goes, receiver, ChannelInv, TypeOK
  <2>2. Reserved = Reserved' \union {t}
    BY Zenon, <1>0, <2>1 DEF Reserved
  <2>3. Range(Held) = Range(Held') \union {record[t]}
    <3>1. Held' = [u \in Reserved' |-> record[u]] /\ Held = [u \in Reserved' \union {t} |-> record[u]]
      BY Zenon, <2>1, <2>2 DEF Held
    <3> QED BY Zenon, <3>1 DEF Range
  <2>4. Range(chan') = Range(chan) \union {record[t]}
    BY SMTT(20), <1>0, <2>1, RangeAppend
  <2> QED BY Zenon, <2>1, <2>3, <2>4 DEF Accepted, Received
<1>2. CASE Record
  <2>1. /\ got \in AllRecords /\ got' = NoRecord /\ recorded' = Append(recorded, got)
        /\ chan' = chan /\ pc' = pc /\ record' = record
    BY Zenon, <1>2 DEF Record, Moves, sender, ChannelInv, BankInv
  <2>2. got # NoRecord
    BY Zenon, <2>1, RecordFacts
  <2>3. Range(recorded') = Range(recorded) \union {got}
    BY SMTT(20), <1>0, <2>1, RangeAppend
  <2>4. Held' = Held
    BY Zenon, <2>1 DEF Held, Reserved
  <2> QED BY SMTT(20), <2>1, <2>2, <2>3, <2>4 DEF Accepted, Received
<1>3. CASE UNCHANGED <<chan, recorded, got, Held>>
  BY Zenon, <1>3 DEF Accepted, Received
<1>4. CASE UNCHANGED <<chan, recorded, got, pc, record>>
  <2>1. UNCHANGED Held
    BY Zenon, <1>4 DEF Held, Reserved
  <2> QED BY Zenon, <1>3, <1>4, <2>1
<1>5. ASSUME NEW t \in Threads, NEW b \in 1..MaxBankId, Call(t, b)
      PROVE  Accepted' = Accepted /\ Received' = Received
  <2>1. Reserved' = Reserved /\ t \notin Reserved
    BY SMTT(20), <1>0, <1>5 DEF Call, Goes, Reserved
  <2>2. \A u \in Reserved : record'[u] = record[u]
    BY Zenon, <1>5, <2>1 DEF Call, ChannelInv, TypeOK, Reserved
  <2>3. Held' = Held
    BY Zenon, <2>1, <2>2, HeldKept
  <2> QED BY ZenonT(30), <1>3, <1>5, <2>3 DEF Call, receiver
<1>6. ASSUME NEW t \in Threads, Send(t)
      PROVE  Accepted' = Accepted /\ Received' = Received
  <2>1. CASE Lock(t) \/ Load(t) \/ Refuse(t) \/ Enter(t) \/ Retry(t) \/ Leave(t) \/ Return(t)
    <3>1. Reserved' = Reserved
      BY Zenon, <1>0, <2>1 DEF Lock, Load, Refuse, Enter, Retry, Leave, Return, Goes, Reserved
    <3>2. record' = record /\ UNCHANGED <<chan, recorded, got>>
      BY Zenon, <2>1 DEF Lock, Load, Refuse, Enter, Retry, Leave, Return, receiver
    <3>3. Held' = Held
      BY SMTT(20), <3>1, <3>2, HeldKept
    <3> QED BY SMTT(20), <1>3, <3>2, <3>3
  <2> QED BY Zenon, <1>1, <1>6, <2>1 DEF Send
<1>7. CASE Receiving
  BY Zenon, <1>2, <1>4, <1>7
     DEF Receiving, TakeMessage, NoMessage, ShutEarly, OnlyHash, TryRecv, SeeEmpty,
         CheckActive, Empty, on_received_record, CheckSafe, CheckEmpty, SetBank, LockIndex,
         StoreWord, UnlockIndex, OnlyMoves, sender, receiver
<1>8. CASE UNCHANGED vars
  BY Zenon, <1>4, <1>8 DEF vars, sender, receiver
<1> QED BY Zenon, <1>5, <1>6, <1>7, <1>8 DEF Next

\* restart opens the channel for the working bank when nothing accepted is left.
LEMMA OpenMaps ==
  ASSUME ChannelInv, StoreWord, OpenBank' = bank, Accepted' = Accepted, Received' = Received
  PROVE  Promise!ChannelNext
<1>1. at = "store"
  BY Zenon DEF StoreWord, Moves
<1>2. OpenBank = DISABLED_BANK_ID /\ Reserved = {} /\ chan = <<>> /\ message # 0 /\ message = bank
  BY Zenon, <1>1 DEF ChannelInv, ServiceInv, OpenBank
<1>3. bank \in 1..MaxBankId
  BY SMTT(20), <1>2, NumbersFit DEF ChannelInv, TypeOK
<1>4. Accepted = {}
  <2>1. Range(chan) = {}
    BY SMTT(20), <1>2 DEF Range
  <2>2. Range(Held) = {}
    BY <1>2 DEF Range, Held
  <2> QED BY Zenon, <2>1, <2>2 DEF Accepted
<1>5. Promise!Open(bank)
  BY SMTT(20), <1>2, <1>4 DEF Promise!Open
<1> QED BY Zenon, <1>3, <1>5 DEF Promise!ChannelNext

\* Every step of the channel is one the promise allows, or none it can see.
LEMMA PromiseStep ==
  ASSUME ChannelInv, LogInv, [Next]_vars
  PROVE  [Promise!ChannelNext]_Promise!channel
<1>1. CASE Pop
  BY <1>1, ReceiveMaps
<1>2. CASE \E t \in Threads : Reserve(t)
  BY Zenon, <1>2, AcceptMaps
<1>3. CASE ~Pop /\ \A t \in Threads : ~Reserve(t)
  <2>1. Accepted' = Accepted /\ Received' = Received
    BY <1>3, ContentsKept
  <2>2. CASE OpenBank' = OpenBank
    BY Zenon, <2>1, <2>2 DEF Promise!channel
  <2>3. CASE OpenBank' = DISABLED_BANK_ID
    BY <2>1, <2>3 DEF Promise!ChannelNext, Promise!Shut
  <2>4. CASE OpenBank' = bank /\ StoreWord
    BY Zenon, <2>1, <2>4, OpenMaps
  <2> QED BY SMTT(20), <2>2, <2>3, <2>4, OpenStep
<1> QED BY SMTT(20), <1>1, <1>2, <1>3

\* The channel starts as the promise says.
LEMMA PromiseInit == Init => Promise!ChannelInit
<1> SUFFICES ASSUME Init PROVE OpenBank = DISABLED_BANK_ID /\ Accepted = {} /\ Received = {}
  BY DEF Promise!ChannelInit
<1>1. OpenBank = DISABLED_BANK_ID
  BY Words DEF Init, OpenBank
<1>2. Reserved = {} /\ chan = <<>> /\ recorded = <<>> /\ got = NoRecord
  BY Zenon DEF Init, Reserved
<1>3. Range(chan) = {} /\ Range(recorded) = {} /\ Range(Held) = {}
  BY <1>2 DEF Range, Held
<1> QED BY SMTT(20), <1>1, <1>2, <1>3 DEF Accepted, Received

\* The channel with all its interleavings implements what RecordChannel promises:
\* a record is accepted only while the channel is open for its bank, an accepted
\* record is received once, and the channel opens for another bank only when
\* nothing accepted is left.
THEOREM ChannelKeepsPromise == Spec => KeepsPromise
<1>1. ChannelInv /\ LogInv /\ [Next]_vars => [Promise!ChannelNext]_Promise!channel
  BY PromiseStep
<1> QED BY <1>1, PromiseInit, ChannelInvariant, LogInvariant, PTL
       DEF Spec, KeepsPromise, Promise!ChannelSpec
=============================================================================
