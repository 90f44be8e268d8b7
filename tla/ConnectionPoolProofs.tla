------------------------ MODULE ConnectionPoolProofs ------------------------
(***************************************************************************)
(* Proofs about ConnectionPool: the slots of the pool are counted exactly, *)
(* every connection is in exactly one place, and no sleeper misses what it *)
(* waits for, for any number of threads and any limits.                    *)
(***************************************************************************)
EXTENDS ConnectionPool, SequenceTheorems, FiniteSetTheorems, TLAPS

-----------------------------------------------------------------------------
(* Sequences without repetition.                                           *)

Distinct(s) == \A i, j \in 1..Len(s) : s[i] = s[j] => i = j

\* The steps are first-order reasoning unless they say otherwise; a leaf that needs
\* arithmetic, records or function updates cites SMT.
USE ZenonT(30)

\* The elements of a finite set of numbers, numbered from the smallest.
LEMMA Ranks ==
    ASSUME NEW m \in Nat, NEW K \in SUBSET (1..m)
    PROVE  /\ IsFiniteSet(K) /\ Cardinality(K) \in Nat /\ Cardinality(K) <= m
           /\ \A n \in 1..Cardinality(K) : \E i \in K : Cardinality(K \cap 1..i) = n
           /\ \A i \in K : Cardinality(K \cap 1..i) \in 1..Cardinality(K)
           /\ \A i, j \in K : Cardinality(K \cap 1..i) = Cardinality(K \cap 1..j) => i = j
<1> DEFINE r == [i \in K |-> Cardinality(K \cap 1..i)]
           c == Cardinality(K)
<1>1. IsFiniteSet(1..m) /\ Cardinality(1..m) = m
  BY SMTT(30), FS_Interval
<1>2. IsFiniteSet(K) /\ c \in Nat /\ c <= m
  BY <1>1, FS_Subset, FS_CardinalityType
<1>3. ASSUME NEW i \in K
      PROVE  /\ IsFiniteSet(K \cap 1..i) /\ Cardinality(K \cap 1..i) \in 1..c
  <2>1. IsFiniteSet(K \cap 1..i) /\ Cardinality(K \cap 1..i) <= c
    BY <1>2, FS_Subset
  <2>2. K \cap 1..i # {}
    <3>1. i \in 1..i
      BY SMTT(30) DEF c
    <3> QED BY <3>1
  <2>3. Cardinality(K \cap 1..i) \in Nat /\ Cardinality(K \cap 1..i) # 0
    BY <2>1, <2>2, FS_EmptySet, FS_CardinalityType
  <2> HIDE DEF c
  <2> QED BY SMTT(30), <1>2, <2>1, <2>3
<1>4. ASSUME NEW i \in K, NEW j \in K, i < j
      PROVE  Cardinality(K \cap 1..i) # Cardinality(K \cap 1..j)
  <2>1. K \cap 1..i \in SUBSET (K \cap 1..j)
    BY SMTT(30), <1>4
  <2>2. j \in K \cap 1..j /\ j \notin K \cap 1..i
    BY SMTT(30), <1>4
  <2> QED BY <1>3, <2>1, <2>2, FS_Subset
<1>5. ASSUME NEW i \in K, NEW j \in K, Cardinality(K \cap 1..i) = Cardinality(K \cap 1..j)
      PROVE  i = j
  <2>1. i \in Nat /\ j \in Nat
    BY SMTT(30)
  <2>2. ~(i < j) /\ ~(j < i)
    BY <1>4, <1>5
  <2> QED BY SMTT(30), <2>1, <2>2
<1>6. r \in Injection(K, 1..c)
  <2>1. r \in [K -> 1..c]
    BY <1>3
  <2>2. \A i, j \in K : r[i] = r[j] => i = j
    BY <1>5
  <2> HIDE DEF r
  <2> QED BY <2>1, <2>2 DEF Injection, IsInjective
<1>7. IsFiniteSet(1..c) /\ Cardinality(1..c) = c
  <2> HIDE DEF c
  <2>1. IsFiniteSet(1..c) /\ Cardinality(1..c) = IF 1 > c THEN 0 ELSE c - 1 + 1
    BY SMTT(30), <1>2, FS_Interval
  <2> QED BY SMTT(30), <1>2, <2>1
<1>8. r \in Surjection(K, 1..c)
  <2>1. Cardinality(K) = Cardinality(1..c)
    BY <1>7
  <2> HIDE DEF r, c
  <2> QED BY <1>6, <1>7, <2>1, FS_Injection
<1>9. \A n \in 1..c : \E i \in K : r[i] = n
  <2> HIDE DEF r, c
  <2> QED BY <1>8 DEF Surjection
<1> QED BY <1>2, <1>3, <1>5, <1>9

\* What Kept keeps.
LEMMA KeptProperties ==
    ASSUME NEW T, NEW s \in Seq(T), NEW S
    PROVE  /\ Kept(s, S) \in Seq(T) /\ Len(Kept(s, S)) <= Len(s)
           /\ Range(Kept(s, S)) = Range(s) \cap S
           /\ Distinct(s) => Distinct(Kept(s, S))
           /\ Range(s) \subseteq S => Kept(s, S) = s
<1>1. PICK K : K = {i \in 1..Len(s) : s[i] \in S}
  OBVIOUS
<1>2. /\ Len(s) \in Nat /\ K \in SUBSET (1..Len(s))
      /\ \A i \in 1..Len(s) : i \in K <=> s[i] \in S
  BY <1>1, LenProperties
<1>3. PICK c : c = Cardinality(K)
  OBVIOUS
<1>4. /\ c \in Nat /\ c <= Len(s)
      /\ \A n \in 1..c : \E i \in K : Cardinality(K \cap 1..i) = n
      /\ \A i \in K : Cardinality(K \cap 1..i) \in 1..c
      /\ \A i, j \in K : Cardinality(K \cap 1..i) = Cardinality(K \cap 1..j) => i = j
  BY <1>2, <1>3, Ranks
<1> DEFINE at(n) == CHOOSE i \in K : Cardinality(K \cap 1..i) = n
           k == Kept(s, S)
<1>5. k = [n \in 1..c |-> s[at(n)]]
  BY SMTT(30), <1>1, <1>3 DEF Kept
<1>6. ASSUME NEW n \in 1..c
      PROVE  at(n) \in K /\ Cardinality(K \cap 1..at(n)) = n
  BY <1>4
<1>7. ASSUME NEW i \in K
      PROVE  Cardinality(K \cap 1..i) \in 1..c /\ at(Cardinality(K \cap 1..i)) = i
  <2>1. PICK n \in 1..c : n = Cardinality(K \cap 1..i)
    BY <1>4
  <2>2. at(n) \in K /\ Cardinality(K \cap 1..at(n)) = n
    BY <1>6
  <2> HIDE DEF at
  <2> QED BY <1>4, <2>1, <2>2
<1> HIDE DEF at, k
<1>8. k \in Seq(T) /\ Len(k) = c /\ \A n \in 1..c : k[n] = s[at(n)]
  <2>1. \A n \in 1..c : s[at(n)] \in T
    BY <1>2, <1>6, ElementOfSeq
  <2>2. k \in [1..c -> T]
    BY <1>5, <2>1
  <2> QED BY SMTT(30), <1>4, <1>5, <2>2, SeqDef, LenProperties
<1>9. Range(k) = Range(s) \cap S
  <2>0. Range(k) = {k[n] : n \in 1..c} /\ Range(s) = {s[i] : i \in 1..Len(s)}
    BY SMTT(30), <1>8 DEF Range
  <2>1. ASSUME NEW n \in 1..c PROVE k[n] \in Range(s) \cap S
    BY <1>2, <1>6, <1>8, <2>0
  <2>2. ASSUME NEW x \in Range(s) \cap S PROVE x \in Range(k)
    <3>1. PICK i \in K : s[i] = x
      BY <1>2, <2>0
    <3>2. PICK n \in 1..c : at(n) = i
      BY <1>7
    <3> QED BY <1>8, <2>0, <3>1, <3>2
  <2> QED BY <2>0, <2>1, <2>2
<1>10. ASSUME Distinct(s) PROVE Distinct(k)
  <2> SUFFICES ASSUME NEW i \in 1..c, NEW j \in 1..c, k[i] = k[j] PROVE i = j
    BY <1>8 DEF Distinct
  <2>1. at(i) \in 1..Len(s) /\ at(j) \in 1..Len(s) /\ s[at(i)] = s[at(j)]
    BY <1>2, <1>6, <1>8
  <2>2. at(i) = at(j)
    BY <1>10, <2>1 DEF Distinct
  <2> QED BY <1>6, <2>2
<1>11. ASSUME Range(s) \subseteq S PROVE k = s
  <2>0. Range(s) = {s[i] : i \in 1..Len(s)}
    BY SMTT(30), <1>8 DEF Range
  <2>1. K = 1..Len(s)
    BY <1>2, <1>11, <2>0
  <2>2. c = Len(s)
    <3>1. Cardinality(1..Len(s)) = IF 1 > Len(s) THEN 0 ELSE Len(s) - 1 + 1
      BY SMTT(30), <1>2, FS_Interval
    <3> QED BY SMTT(30), <1>2, <1>3, <2>1, <3>1
  <2>3. ASSUME NEW n \in 1..c PROVE at(n) = n
    <3>1. n \in K /\ n \in Nat
      BY SMTT(30), <1>4, <2>1, <2>2
    <3>2. K \cap 1..n = 1..n
      BY SMTT(30), <1>2, <2>1, <2>2
    <3>3. Cardinality(1..n) = n
      <4>1. Cardinality(1..n) = IF 1 > n THEN 0 ELSE n - 1 + 1
        BY SMTT(30), <3>1, FS_Interval
      <4> QED BY SMTT(30), <1>4, <4>1
    <3> QED BY <1>7, <3>1, <3>2, <3>3
  <2>4. Len(k) = Len(s) /\ \A n \in 1..Len(k) : k[n] = s[n]
    BY SMTT(30), <1>8, <2>2, <2>3
  <2> QED BY <1>8, <2>4, SeqEqual
<1> QED BY <1>4, <1>8, <1>9, <1>10, <1>11 DEF k

\* A new element at the end.
LEMMA AppendFacts ==
    ASSUME NEW T, NEW s \in Seq(T), NEW x \in T
    PROVE  /\ Append(s, x) \in Seq(T) /\ Len(Append(s, x)) = Len(s) + 1
           /\ Range(Append(s, x)) = Range(s) \cup {x}
           /\ Distinct(s) /\ x \notin Range(s) => Distinct(Append(s, x))
           /\ s # <<>> => Append(s, x)[1] = s[1]
<1>1. PICK a : a = Append(s, x)
  OBVIOUS
<1>2. PICK n \in Nat : n = Len(s)
  BY SMTT(30)
<1>3. /\ a \in Seq(T) /\ Len(a) = n + 1
      /\ \A i \in 1..n : a[i] = s[i]
      /\ a[n + 1] = x
  BY SMTT(30), <1>1, <1>2, AppendProperties
<1>4. Range(a) = {a[i] : i \in 1..(n + 1)} /\ Range(s) = {s[i] : i \in 1..n}
  BY SMTT(30), <1>2, <1>3 DEF Range
<1>5. \A i \in 1..(n + 1) : i = n + 1 \/ i \in 1..n
  BY SMTT(30)
<1>6. Range(a) = Range(s) \cup {x}
  <2>1. \A i \in 1..n : i \in 1..(n + 1)
    BY SMTT(30)
  <2>2. n + 1 \in 1..(n + 1)
    BY SMTT(30)
  <2> QED BY <1>3, <1>4, <1>5, <2>1, <2>2
<1>7. ASSUME Distinct(s), x \notin Range(s) PROVE Distinct(a)
  BY SMTT(30), <1>2, <1>3, <1>4, <1>5, <1>7 DEF Distinct
<1>8. s # <<>> => a[1] = s[1]
  <2>1. s # <<>> => n > 0
    BY SMTT(30), <1>2, EmptySeq
  <2> QED BY SMTT(30), <1>3, <2>1
<1> QED BY <1>1, <1>2, <1>3, <1>6, <1>7, <1>8

\* Without its last element.
LEMMA OlderFacts ==
    ASSUME NEW T, NEW s \in Seq(T), s # <<>>, Distinct(s)
    PROVE  /\ Older(s) \in Seq(T) /\ Len(Older(s)) = Len(s) - 1
           /\ Distinct(Older(s))
           /\ Newest(s) \in Range(s)
           /\ Range(Older(s)) = Range(s) \ {Newest(s)}
<1>1. PICK n \in Nat : n = Len(s) /\ n > 0
  BY SMTT(30), EmptySeq
<1>2. PICK f : f = Older(s)
  OBVIOUS
<1>3. f = [i \in 1..(n - 1) |-> s[i]]
  BY SMTT(30), <1>1, <1>2 DEF Older, SubSeq
<1>4. /\ f \in Seq(T) /\ Len(f) = n - 1
      /\ \A i \in 1..(n - 1) : f[i] = s[i]
  <2>1. n - 1 \in Nat
    BY SMTT(30), <1>1
  <2>2. \A i \in 1..(n - 1) : s[i] \in T
    BY SMTT(30), <1>1, ElementOfSeq
  <2> QED BY SMTT(30), <1>3, <2>1, <2>2
<1>5. Newest(s) = s[n]
  BY <1>1 DEF Newest
<1>6. Range(f) = {f[i] : i \in 1..(n - 1)} /\ Range(s) = {s[i] : i \in 1..n}
  BY SMTT(30), <1>1, <1>4 DEF Range
<1>7. /\ \A i \in 1..n : i = n \/ i \in 1..(n - 1)
      /\ \A i \in 1..(n - 1) : i \in 1..n /\ i # n
      /\ n \in 1..n
  BY SMTT(30), <1>1
<1>8. Newest(s) \in Range(s)
  BY <1>5, <1>6, <1>7
<1>9. Range(f) = Range(s) \ {Newest(s)}
  <2>1. ASSUME NEW i \in 1..(n - 1) PROVE f[i] \in Range(s) \ {Newest(s)}
    BY <1>1, <1>4, <1>5, <1>6, <1>7 DEF Distinct
  <2>2. ASSUME NEW i \in 1..n, s[i] # Newest(s) PROVE s[i] \in Range(f)
    BY <1>4, <1>5, <1>6, <1>7, <2>2
  <2> QED BY <1>6, <2>1, <2>2
<1>10. Distinct(f)
  BY <1>1, <1>4, <1>7 DEF Distinct
<1> QED BY <1>1, <1>2, <1>4, <1>8, <1>9, <1>10

\* Without its first element.
LEMMA TailFacts ==
    ASSUME NEW T, NEW s \in Seq(T), s # <<>>
    PROVE  /\ Tail(s) \in Seq(T) /\ Len(Tail(s)) = Len(s) - 1
           /\ Head(s) = s[1] /\ Head(s) \in Range(s)
           /\ Range(Tail(s)) \subseteq Range(s)
           /\ Distinct(s) => Distinct(Tail(s)) /\ Head(s) \notin Range(Tail(s))
<1>1. PICK n \in Nat : n = Len(s) /\ n > 0
  BY SMTT(30), EmptySeq
<1>2. PICK f : f = Tail(s)
  OBVIOUS
<1>3. /\ f \in Seq(T) /\ Len(f) = n - 1
      /\ \A i \in 1..(n - 1) : f[i] = s[i + 1]
  BY <1>1, <1>2, HeadTailProperties
<1>4. Head(s) = s[1]
  BY SMTT(30)
<1>5. Range(f) = {f[i] : i \in 1..(n - 1)} /\ Range(s) = {s[i] : i \in 1..n}
  BY SMTT(30), <1>1, <1>3 DEF Range
<1>6. /\ \A i \in 1..(n - 1) : i + 1 \in 1..n /\ i + 1 # 1
      /\ \A i, j \in 1..(n - 1) : i + 1 = j + 1 => i = j
      /\ 1 \in 1..n
  BY SMTT(30), <1>1
<1>7. Head(s) \in Range(s) /\ Range(f) \subseteq Range(s)
  BY <1>3, <1>4, <1>5, <1>6
<1>8. ASSUME Distinct(s) PROVE Distinct(f) /\ Head(s) \notin Range(f)
  BY SMTT(30), <1>1, <1>3, <1>4, <1>5, <1>6, <1>8 DEF Distinct
<1> QED BY <1>1, <1>2, <1>3, <1>4, <1>7, <1>8

\* A sequence holds at most as many values as it has places.
LEMMA RangeBound ==
    ASSUME NEW T, NEW s \in Seq(T)
    PROVE  /\ IsFiniteSet(Range(s)) /\ Cardinality(Range(s)) <= Len(s)
<1>1. PICK n \in Nat : n = Len(s)
  BY SMTT(30)
<1>2. Range(s) = {s[i] : i \in 1..n}
  BY SMTT(30), <1>1 DEF Range
<1>3. [i \in 1..n |-> s[i]] \in Surjection(1..n, Range(s))
  BY <1>2 DEF Surjection
<1>4. ExistsSurjection(1..n, Range(s))
  BY <1>3 DEF ExistsSurjection
<1>5. IsFiniteSet(Range(s))
  BY <1>4, FS_NatSurjection
<1>6. Cardinality(Range(s)) <= n
  BY <1>4, FS_SurjCardinalityBound
<1> QED BY <1>1, <1>5, <1>6

-----------------------------------------------------------------------------
(* The inductive invariant.                                                *)

Places == {"out", "expire", "lock", "waiting", "dial", "redial", "redial_kept",
           "reserved", "leased"}

\* The types of the pool's variables, and what each of them promises alone.
PoolShape ==
    /\ connections \subseteq Sockets /\ open = connections
    /\ idle \in Seq(Sockets) /\ Distinct(idle)
    /\ Idle \subseteq connections /\ Len(idle) <= MaxIdle
    /\ connecting \in Int
    /\ waiters \in Seq(Threads) /\ Distinct(waiters)
    /\ handoffs \in [Threads -> Sockets \cup {None}]
    /\ held \in [Threads -> Sockets \cup {None}]
    /\ closed \in BOOLEAN /\ (closed => connections = {})
    /\ pc \in [Threads -> Places]
    /\ \A t \in Threads : pc[t] # "leased" => held[t] = None
    /\ snapshot \in Seq(Sockets) /\ Len(snapshot) <= MaxIdle
    /\ probing \in Sockets \cup {None}

\* The places a connection of the pool can be in exclude each other, and it
\* is in one of them.
Placed(c) ==
    /\ \A t, u \in Threads : held[t] = c /\ held[u] = c => t = u
    /\ \A t, u \in Threads : handoffs[t] = c /\ handoffs[u] = c => t = u
    /\ \A t, u \in Threads : ~(held[t] = c /\ handoffs[u] = c)
    /\ c \in Idle => c # probing
    /\ \A t \in Threads : held[t] = c \/ handoffs[t] = c => c \notin Idle /\ c # probing
    /\ \/ c \in Idle \/ c = probing
       \/ \E t \in Threads : held[t] = c \/ handoffs[t] = c

\* While the pool is open nobody has a connection it does not own.
PlacesInv ==
    /\ \A c \in connections : Placed(c)
    /\ ~closed =>
          /\ \A t \in Threads : {held[t], handoffs[t]} \subseteq connections \cup {None}
          /\ probing \in connections \cup {None}

\* A sleeper is in the queue, nobody in the queue has been served, and a worker
\* of prewarm() is never served a connection.
QueueInv ==
    /\ \A t \in Threads : pc[t] = "waiting" => t \in Range(waiters)
    /\ \A t \in Range(waiters) \cup Warmers : handoffs[t] = None

PoolInv == PoolShape /\ PlacesInv /\ QueueInv /\ SlotsCounted /\ NoLostWakeup

USE PoolAssumption DEF None

-----------------------------------------------------------------------------
(* What the helpers do to the stack and to the queue.                      *)

\* A connection leaves the stack.
LEMMA WithoutConnStep ==
    ASSUME PoolShape, NEW c, idle' = WithoutConn(idle, c)
    PROVE  /\ idle' \in Seq(Sockets) /\ Distinct(idle')
           /\ Idle' = Idle \ {c} /\ Len(idle') <= Len(idle)
<1>1. idle \in Seq(Sockets) /\ Distinct(idle)
  BY DEF PoolShape
<1>2. PICK S : S = Range(idle) \ {c}
  OBVIOUS
<1>3. idle' = Kept(idle, S)
  BY <1>2 DEF WithoutConn
<1>4. /\ Kept(idle, S) \in Seq(Sockets) /\ Len(Kept(idle, S)) <= Len(idle)
      /\ Range(Kept(idle, S)) = Range(idle) \cap S /\ Distinct(Kept(idle, S))
  BY SMTT(30), <1>1, KeptProperties
<1> QED BY <1>2, <1>3, <1>4 DEF Idle

\* Old connections leave the stack; it changes unless there were none.
LEMMA ExpireStep ==
    ASSUME PoolShape, NEW old \in SUBSET Idle, idle' = Kept(idle, connections \ old)
    PROVE  /\ idle' \in Seq(Sockets) /\ Distinct(idle')
           /\ Idle' = Idle \ old /\ Len(idle') <= Len(idle)
           /\ idle' = idle => old = {}
<1>1. idle \in Seq(Sockets) /\ Distinct(idle) /\ Idle \subseteq connections
  BY DEF PoolShape
<1>2. PICK S : S = connections \ old
  OBVIOUS
<1>3. idle' = Kept(idle, S)
  BY <1>2
<1>4. /\ Kept(idle, S) \in Seq(Sockets) /\ Len(Kept(idle, S)) <= Len(idle)
      /\ Range(Kept(idle, S)) = Range(idle) \cap S /\ Distinct(Kept(idle, S))
  BY SMTT(30), <1>1, KeptProperties
<1>5. Idle' = Idle \ old
  BY <1>1, <1>2, <1>3, <1>4 DEF Idle
<1>6. idle' = idle => Idle' = Idle
  BY DEF Idle
<1> QED BY <1>3, <1>4, <1>5, <1>6

\* A thread leaves the queue.
LEMMA RemoveWaiterStep ==
    ASSUME PoolShape, NEW t \in Threads, RemoveWaiter(t)
    PROVE  /\ waiters' \in Seq(Threads) /\ Distinct(waiters')
           /\ Range(waiters') = Range(waiters) \ {t}
           /\ t \notin Range(waiters) => waiters' = waiters
<1>1. waiters \in Seq(Threads) /\ Distinct(waiters)
  BY DEF PoolShape
<1>2. PICK S : S = Range(waiters) \ {t}
  OBVIOUS
<1>3. waiters' = Kept(waiters, S)
  BY <1>2 DEF WithoutConn, RemoveWaiter
<1>4. /\ Kept(waiters, S) \in Seq(Threads)
      /\ Range(Kept(waiters, S)) = Range(waiters) \cap S /\ Distinct(Kept(waiters, S))
      /\ Range(waiters) \subseteq S => Kept(waiters, S) = waiters
  BY SMTT(30), <1>1, KeptProperties
<1> QED BY <1>2, <1>3, <1>4

\* A connection is closed and forgotten.
LEMMA WithoutStep ==
    ASSUME PoolShape, NEW c, Without(c)
    PROVE  /\ connections' = connections \ {c} /\ open' = connections'
           /\ idle' \in Seq(Sockets) /\ Distinct(idle')
           /\ Idle' = Idle \ {c} /\ Len(idle') <= MaxIdle
<1>1. connections' = connections \ {c} /\ open' = connections' /\ idle' = WithoutConn(idle, c)
  BY DEF Without, PoolShape
<1>2. /\ idle' \in Seq(Sockets) /\ Distinct(idle')
      /\ Idle' = Idle \ {c} /\ Len(idle') <= Len(idle)
  BY <1>1, WithoutConnStep
<1>3. Len(idle) <= MaxIdle /\ Len(idle) \in Nat /\ Len(idle') \in Nat
  BY SMTT(30), <1>2 DEF PoolShape
<1> QED BY SMTT(30), <1>1, <1>2, <1>3

\* A released connection is closed, handed to the first waiter, pushed on the
\* stack, or was there already.
LEMMA ReleaseCases ==
    ASSUME PoolShape, NEW c \in Sockets \cup {None}, ReleaseConnection(c)
    PROVE  /\ connections' \subseteq connections /\ open' = connections'
           /\ idle' \in Seq(Sockets) /\ Distinct(idle') /\ Len(idle') <= MaxIdle
           /\ waiters' \in Seq(Threads) /\ Distinct(waiters')
           /\ handoffs' \in [Threads -> Sockets \cup {None}]
           /\ \/ /\ connections' = connections \ {c} /\ Idle' = Idle \ {c}
                 /\ UNCHANGED <<waiters, handoffs>>
              \/ /\ ~closed /\ c \in connections
                 /\ UNCHANGED <<connections, idle>>
                 /\ \E t \in Range(waiters) \ Warmers :
                       /\ handoffs' = [handoffs EXCEPT ![t] = c]
                       /\ Range(waiters') \subseteq Range(waiters) \ {t}
              \/ /\ ~closed /\ c \in connections
                 /\ UNCHANGED <<connections, waiters, handoffs>>
                 /\ Idle' = Idle \cup {c}
<1>1. CASE Without(c) /\ UNCHANGED <<waiters, handoffs>>
  BY <1>1, WithoutStep DEF PoolShape
<1>2. CASE /\ ~closed /\ c \in connections
           /\ HandsOver
           /\ waiters' = Tail(waiters)
           /\ handoffs' = [handoffs EXCEPT ![Head(waiters)] = c]
           /\ UNCHANGED <<connections, idle, open>>
  <2>1. /\ waiters' \in Seq(Threads) /\ Distinct(waiters')
        /\ Head(waiters) \in Range(waiters)
        /\ Range(waiters') \subseteq Range(waiters) \ {Head(waiters)}
    BY SMTT(30), <1>2, TailFacts DEF PoolShape, HandsOver
  <2>2. handoffs' \in [Threads -> Sockets \cup {None}]
    BY <1>2 DEF PoolShape
  <2> QED BY <1>2, <2>1, <2>2 DEF PoolShape, HandsOver
<1>3. CASE /\ ~closed /\ c \in connections
           /\ UNCHANGED <<waiters, handoffs, connections, open>>
           /\ Len(idle) < MaxIdle
           /\ idle' = IF c \in Idle THEN idle ELSE Append(idle, c)
  <2>1. CASE c \in Idle
    <3>1. Idle' = Idle
      BY <1>3, <2>1 DEF Idle
    <3> QED BY SMTT(30), <1>3, <2>1, <3>1 DEF PoolShape
  <2>2. CASE c \notin Idle
    <3>1. idle' = Append(idle, c) /\ idle \in Seq(Sockets) /\ c \in Sockets
      BY <1>3, <2>2 DEF PoolShape
    <3>2. /\ idle' \in Seq(Sockets) /\ Len(idle') = Len(idle) + 1
          /\ Range(idle') = Range(idle) \cup {c}
          /\ Distinct(idle')
      BY SMTT(30), <2>2, <3>1, AppendFacts DEF Idle, PoolShape
    <3>3. PICK n \in Nat : n = Len(idle)
      BY SMTT(30), <3>1
    <3>4. Len(idle') <= MaxIdle
      BY SMTT(30), <1>3, <3>2, <3>3
    <3>5. Idle' = Idle \cup {c}
      BY <3>2 DEF Idle
    <3> QED BY <1>3, <3>2, <3>4, <3>5 DEF PoolShape
  <2> QED BY <2>1, <2>2
<1>4. Len(idle) \in Nat
  BY SMTT(30) DEF PoolShape
<1> QED BY SMTT(30), <1>1, <1>2, <1>3, <1>4 DEF ReleaseConnection

-----------------------------------------------------------------------------
(* Where the threads are.                                                  *)

\* t goes to p; the others stay where they are or wake up.
Moves(t, p) ==
    /\ pc' \in [Threads -> Places] /\ pc'[t] = p
    /\ \A u \in Threads \ {t} :
          \/ pc'[u] = pc[u]
          \/ pc[u] = "waiting" /\ pc'[u] = "expire"

\* Nobody moves except the sleepers, who wake up.
Stirs ==
    /\ pc' \in [Threads -> Places]
    /\ \A u \in Threads :
          \/ pc'[u] = pc[u]
          \/ pc[u] = "waiting" /\ pc'[u] = "expire"

\* Both ways to go on move one thread; only one of them wakes the others.
LEMMA GoingOn ==
    ASSUME PoolShape, NEW t \in Threads, NEW p \in Places
    PROVE  /\ Goto(t, p) => Moves(t, p)
           /\ NotifyAll(t, p) => /\ Moves(t, p)
                                 /\ \A u \in Threads \ {t} : pc'[u] # "waiting"
<1>1. pc \in [Threads -> Places]
  BY DEF PoolShape
<1>2. Goto(t, p) => Moves(t, p)
  BY <1>1 DEF Goto, Moves
<1>3. ASSUME NotifyAll(t, p)
      PROVE  Moves(t, p) /\ \A u \in Threads \ {t} : pc'[u] # "waiting"
  BY <1>1, <1>3 DEF NotifyAll, Moves, Places
<1> QED BY <1>2, <1>3

\* notify_all() by the keepalive thread or by close().
LEMMA Stirring ==
    ASSUME PoolShape
    PROVE  /\ UNCHANGED pc => Stirs
           /\ Notify => Stirs /\ \A u \in Threads : pc'[u] # "waiting"
BY DEF PoolShape, Notify, Stirs, Places

\* Who works with a connection is still known when one thread has moved.
LEMMA HoldersMove ==
    ASSUME PoolShape, NEW t \in Threads, NEW p \in Places, Moves(t, p),
           \/ held' = held /\ (p = "leased" \/ held[t] = None)
           \/ held' = [held EXCEPT ![t] = None]
           \/ \E c \in Sockets : held' = [held EXCEPT ![t] = c] /\ p = "leased"
    PROVE  /\ held' \in [Threads -> Sockets \cup {None}]
           /\ \A u \in Threads : pc'[u] # "leased" => held'[u] = None
           /\ pc' \in [Threads -> Places]
<1>1. held' \in [Threads -> Sockets \cup {None}]
  BY DEF PoolShape
<1>2. ASSUME NEW u \in Threads, pc'[u] # "leased" PROVE held'[u] = None
  <2>1. CASE u = t
    BY <1>2, <2>1 DEF Moves, PoolShape
  <2>2. CASE u # t
    <3>1. held'[u] = held[u] /\ pc[u] # "leased"
      BY <1>2, <2>2 DEF Moves, PoolShape
    <3> QED BY <3>1 DEF PoolShape
  <2> QED BY <2>1, <2>2
<1> QED BY <1>1, <1>2 DEF Moves

\* The same when only sleepers have moved.
LEMMA HoldersStir ==
    ASSUME PoolShape, Stirs, held' = held
    PROVE  /\ held' \in [Threads -> Sockets \cup {None}]
           /\ \A u \in Threads : pc'[u] # "leased" => held'[u] = None
           /\ pc' \in [Threads -> Places]
BY DEF PoolShape, Stirs

\* The part of PoolShape that says who works with a connection.
HoldersShape ==
    /\ held \in [Threads -> Sockets \cup {None}]
    /\ \A u \in Threads : pc[u] # "leased" => held[u] = None
    /\ pc \in [Threads -> Places]

\* The part of PoolShape about the connections.
StackShape ==
    /\ connections \subseteq Sockets /\ open = connections
    /\ idle \in Seq(Sockets) /\ Distinct(idle)
    /\ Idle \subseteq connections /\ Len(idle) <= MaxIdle

\* The part of PoolShape about the queue.
LineShape ==
    /\ waiters \in Seq(Threads) /\ Distinct(waiters)
    /\ handoffs \in [Threads -> Sockets \cup {None}]

\* The part of PoolShape about the rest.
RestShape ==
    /\ connecting \in Int
    /\ closed \in BOOLEAN /\ (closed => connections = {})
    /\ snapshot \in Seq(Sockets) /\ Len(snapshot) <= MaxIdle
    /\ probing \in Sockets \cup {None}

\* PoolShape is its four parts.
LEMMA ShapeParts ==
    PoolShape <=> HoldersShape /\ StackShape /\ LineShape /\ RestShape
BY DEF PoolShape, HoldersShape, StackShape, LineShape, RestShape

-----------------------------------------------------------------------------
(* Every step keeps PoolShape.                                             *)

\* What Returned leaves of a thread that held nothing.
LEMMA ReturnedEmpty ==
    ASSUME PoolShape, NEW t \in Threads, held[t] = None, Returned(t)
    PROVE  held' = held
BY DEF PoolShape, Returned

\* The steps of one thread.
LEMMA ThreadShape ==
    ASSUME PoolShape, NEW t \in Threads,
           \/ Enter(t) \/ Expire(t) \/ DeadlinePasses(t) \/ Admit(t)
           \/ DialFails(t) \/ RedialFails(t)
           \/ Redial(t) \/ ReleaseReserved(t)
           \/ Discard(t) \/ Retry(t) \/ Release(t) \/ Replace(t) \/ Resumed(t)
    PROVE  PoolShape'
<1> USE DEF HoldersShape, Places
<1>0. /\ HoldersShape /\ StackShape /\ LineShape /\ RestShape
      /\ (HoldersShape' /\ StackShape' /\ LineShape' /\ RestShape' => PoolShape')
  BY ShapeParts, PTL
<1>1. CASE Enter(t)
  <2>1. HoldersShape'
    BY <1>1, GoingOn, HoldersMove DEF Enter, PoolShape
  <2> QED BY <1>0, <1>1, <2>1
          DEF Enter, poolVars, keepaliveVars, StackShape, LineShape, RestShape, Idle
<1>2. CASE Expire(t)
  <2>1. PICK old \in SUBSET Idle :
          /\ connections' = connections \ old
          /\ idle' = Kept(idle, connections \ old)
          /\ open' = open \ old
          /\ IF idle' # idle THEN NotifyAll(t, "lock") ELSE Goto(t, "lock")
    BY <1>2 DEF Expire, ExpireIdle
  <2>2. HoldersShape'
    BY <1>2, <2>1, GoingOn, HoldersMove DEF Expire, PoolShape
  <2>3. StackShape'
    <3>1. /\ idle' \in Seq(Sockets) /\ Distinct(idle')
          /\ Idle' = Idle \ old /\ Len(idle') <= Len(idle)
      BY <2>1, ExpireStep
    <3>2. Len(idle') <= MaxIdle
      BY SMTT(30), <1>0, <3>1 DEF StackShape
    <3> QED BY <1>0, <2>1, <3>1, <3>2 DEF StackShape
  <2> QED BY <1>0, <1>2, <2>1, <2>2, <2>3
          DEF Expire, ExpireIdle, keepaliveVars, LineShape, RestShape
<1>3. CASE DeadlinePasses(t)
  <2>1. HoldersShape'
    BY <1>3, GoingOn, HoldersMove DEF DeadlinePasses, PoolShape
  <2> QED BY <1>0, <1>3, <2>1
          DEF DeadlinePasses, poolVars, keepaliveVars, StackShape, LineShape, RestShape, Idle
<1>4. CASE Admit(t)
  <2>0. /\ held[t] = None /\ pc[t] = "lock"
        /\ open' = open /\ UNCHANGED keepaliveVars
    BY <1>0, <1>4 DEF Admit
  <2>1. CASE RaiseClosed(t)
    <3>1. HoldersShape'
      BY <2>0, <2>1, GoingOn, HoldersMove, ReturnedEmpty DEF RaiseClosed
    <3>2. LineShape'
      BY <1>0, <2>1, RemoveWaiterStep DEF LineShape, RaiseClosed
    <3> QED BY <1>0, <2>0, <2>1, <3>1, <3>2
            DEF RaiseClosed, keepaliveVars, StackShape, RestShape, Idle
  <2>2. CASE TakeHandoff(t)
    <3>1. HoldersShape'
      BY <1>0, <2>2, GoingOn, HoldersMove DEF TakeHandoff, LineShape
    <3>2. LineShape'
      BY <1>0, <2>2 DEF LineShape, TakeHandoff
    <3> QED BY <1>0, <2>0, <2>2, <3>1, <3>2
            DEF TakeHandoff, keepaliveVars, StackShape, RestShape, Idle
  <2>3. CASE TakeIdle(t)
    <3>1. /\ Older(idle) \in Seq(Sockets) /\ Len(Older(idle)) = Len(idle) - 1
          /\ Distinct(Older(idle)) /\ Newest(idle) \in Range(idle)
          /\ Range(Older(idle)) = Range(idle) \ {Newest(idle)}
      BY <1>0, <2>3, OlderFacts DEF StackShape, TakeIdle
    <3>2. PICK n \in Nat : n = Len(idle)
      BY SMTT(30), <1>0 DEF StackShape
    <3>3. Len(idle') <= MaxIdle
      BY SMTT(30), <1>0, <2>3, <3>1, <3>2 DEF StackShape, TakeIdle
    <3>4. StackShape'
      BY <1>0, <2>0, <2>3, <3>1, <3>3 DEF StackShape, TakeIdle, Idle
    <3>5. HoldersShape'
      BY <1>0, <2>3, <3>1, GoingOn, HoldersMove DEF TakeIdle, StackShape, Idle
    <3>6. LineShape'
      BY <1>0, <2>3, RemoveWaiterStep DEF LineShape, TakeIdle
    <3> QED BY <1>0, <2>0, <2>3, <3>4, <3>5, <3>6
            DEF TakeIdle, keepaliveVars, RestShape
  <2>4. CASE WarmEnough(t)
    <3>1. HoldersShape'
      BY <2>0, <2>4, GoingOn, HoldersMove, ReturnedEmpty DEF WarmEnough
    <3>2. LineShape'
      BY <1>0, <2>4, RemoveWaiterStep DEF LineShape, WarmEnough
    <3> QED BY <1>0, <2>0, <2>4, <3>1, <3>2
            DEF WarmEnough, keepaliveVars, StackShape, RestShape, Idle
  <2>5. CASE Reserve(t)
    <3>1. HoldersShape'
      BY <2>0, <2>5, GoingOn, HoldersMove DEF Reserve
    <3>2. LineShape'
      BY <1>0, <2>5, RemoveWaiterStep DEF LineShape, Reserve
    <3> QED BY SMTT(30), <1>0, <2>0, <2>5, <3>1, <3>2
            DEF Reserve, keepaliveVars, StackShape, RestShape, Idle
  <2>6. CASE Saturated(t)
    <3>1. HoldersShape'
      BY <2>0, <2>6, GoingOn, HoldersMove, ReturnedEmpty DEF Saturated
    <3> QED BY <1>0, <2>0, <2>6, <3>1
            DEF Saturated, poolVars, keepaliveVars, StackShape, LineShape, RestShape, Idle
  <2>7. CASE TimeOut(t)
    <3>1. HoldersShape'
      BY <2>0, <2>7, GoingOn, HoldersMove, ReturnedEmpty DEF TimeOut
    <3>2. LineShape'
      BY <1>0, <2>7, RemoveWaiterStep DEF LineShape, TimeOut
    <3> QED BY <1>0, <2>0, <2>7, <3>1, <3>2
            DEF TimeOut, keepaliveVars, StackShape, RestShape, Idle
  <2>8. CASE Wait(t)
    <3>1. HoldersShape'
      BY <2>0, <2>8, GoingOn, HoldersMove DEF Wait
    <3>2. LineShape'
      BY <1>0, <2>8, AppendFacts DEF LineShape, Wait, Enqueued, Queued
    <3> QED BY <1>0, <2>0, <2>8, <3>1, <3>2
            DEF Wait, keepaliveVars, StackShape, RestShape, Idle
  <2> QED BY <1>4, <2>1, <2>2, <2>3, <2>4, <2>5, <2>6, <2>7, <2>8 DEF Admit
<1>5. CASE DialFails(t)
  <2>1. HoldersShape'
    BY <1>0, <1>5, GoingOn, HoldersMove DEF DialFails, Returned
  <2> QED BY SMTT(30), <1>0, <1>5, <2>1
          DEF DialFails, keepaliveVars, StackShape, LineShape, RestShape, Idle
<1>6. CASE RedialFails(t)
  <2>1. HoldersShape'
    BY <1>0, <1>6, GoingOn, HoldersMove DEF RedialFails, Returned
  <2> QED BY SMTT(30), <1>0, <1>6, <2>1
          DEF RedialFails, keepaliveVars, StackShape, LineShape, RestShape, Idle
<1>7. CASE Redial(t)
  <2>1. HoldersShape'
    BY <1>0, <1>7, GoingOn, HoldersMove DEF Redial, Returned
  <2> QED BY SMTT(30), <1>0, <1>7, <2>1
          DEF Redial, keepaliveVars, StackShape, LineShape, RestShape, Idle
<1>8. CASE ReleaseReserved(t)
  <2>1. HoldersShape'
    BY <1>0, <1>8, GoingOn, HoldersMove DEF ReleaseReserved, Returned
  <2> QED BY SMTT(30), <1>0, <1>8, <2>1
          DEF ReleaseReserved, keepaliveVars, StackShape, LineShape, RestShape, Idle
<1>9. CASE Discard(t) \/ Retry(t) \/ Replace(t)
  <2>1. HoldersShape'
    BY <1>9, GoingOn, HoldersMove DEF Discard, Retry, Replace, Returned
  <2>2. Without(held[t])
    BY <1>9 DEF Discard, Retry, Replace
  <2>3. StackShape'
    BY <1>0, <2>2, WithoutStep DEF StackShape
  <2>4. connections' \subseteq connections
    BY <2>2 DEF Without
  <2> QED BY SMTT(30), <1>0, <1>9, <2>1, <2>3, <2>4
          DEF Discard, Retry, Replace, keepaliveVars, LineShape, RestShape
<1>10. CASE Release(t)
  <2>1. HoldersShape'
    BY <1>10, GoingOn, HoldersMove DEF Release, Returned
  <2>2. ReleaseConnection(held[t]) /\ held[t] \in Sockets \cup {None}
    BY <1>0, <1>10 DEF Release
  <2>3. StackShape' /\ LineShape' /\ connections' \subseteq connections
    BY <1>0, <2>2, ReleaseCases DEF StackShape, LineShape, Idle
  <2> QED BY <1>0, <1>10, <2>1, <2>3 DEF Release, keepaliveVars, RestShape
<1>11. CASE Resumed(t)
  BY <1>0, <1>11
     DEF Resumed, poolVars, keepaliveVars, StackShape, LineShape, RestShape, Idle
<1> QED BY <1>1, <1>2, <1>3, <1>4, <1>5, <1>6, <1>7, <1>8, <1>9, <1>10, <1>11

\* The threads that own a slot are finitely many.
LEMMA DialingFinite ==
    /\ IsFiniteSet(Dialing) /\ Cardinality(Dialing) \in Nat
    /\ \A t \in Dialing : Cardinality(Dialing) > 0
<1>1. Dialing \in SUBSET Threads
  BY DEF Dialing
<1>2. IsFiniteSet(Dialing) /\ Cardinality(Dialing) \in Nat
  BY <1>1, FS_Subset, FS_CardinalityType
<1>3. Dialing # {} => Cardinality(Dialing) # 0
  BY <1>2, FS_EmptySet
<1> QED BY SMTT(30), <1>2, <1>3

\* The connections of the pool are finitely many.
LEMMA ConnectionsFinite ==
    ASSUME PoolShape
    PROVE  IsFiniteSet(connections) /\ Cardinality(connections) \in Nat
BY FS_Subset, FS_CardinalityType DEF PoolShape

\* There is a name for the socket of a successful dial: the dialer's slot
\* keeps the connections below max_connections.
LEMMA FreshIsUnused ==
    ASSUME PoolInv, NEW t \in Dialing, ~closed
    PROVE  Fresh \in Unused
<1>1. PoolShape /\ PlacesInv
  BY DEF PoolInv
<1>2. PICK a \in Nat : a = Cardinality(connections)
  BY <1>1, ConnectionsFinite
<1>3. PICK d \in Nat : d = Cardinality(Dialing) /\ d > 0
  BY DialingFinite
<1>4. connecting = d /\ a + connecting <= MaxConnections
  BY <1>2, <1>3 DEF PoolInv, SlotsCounted
<1>5. a < MaxConnections
  BY SMTT(30), <1>3, <1>4
<1>6. PICK S : S = Range(snapshot)
  OBVIOUS
<1>7. IsFiniteSet(S) /\ Cardinality(S) \in Nat /\ Cardinality(S) <= MaxIdle
  <2>1. snapshot \in Seq(Sockets) /\ Len(snapshot) <= MaxIdle /\ Len(snapshot) \in Nat
    BY SMTT(30), <1>1 DEF PoolShape
  <2>2. IsFiniteSet(S) /\ Cardinality(S) <= Len(snapshot)
    BY <1>6, <2>1, RangeBound
  <2>3. Cardinality(S) \in Nat
    BY <2>2, FS_CardinalityType
  <2> QED BY SMTT(30), <2>1, <2>2, <2>3
<1>8. IsFiniteSet(connections \cup S)
      /\ Cardinality(connections \cup S) \in Nat
      /\ Cardinality(connections \cup S) <= a + Cardinality(S)
  <2>1. IsFiniteSet(connections)
    BY <1>1, ConnectionsFinite
  <2>2. /\ IsFiniteSet(connections \cup S)
        /\ Cardinality(connections \cup S) = Cardinality(connections) + Cardinality(S)
                                             - Cardinality(connections \cap S)
    BY <1>7, <2>1, FS_Union
  <2>3. Cardinality(connections \cap S) \in Nat
    BY <2>1, FS_Intersection, FS_CardinalityType
  <2>4. Cardinality(connections \cup S) \in Nat
    BY <2>2, FS_CardinalityType
  <2> QED BY SMTT(30), <1>2, <1>7, <2>2, <2>3, <2>4
<1>9. connections \cup S # Sockets
  <2>1. Cardinality(Sockets) \in Nat
    BY FS_CardinalityType
  <2>2. Cardinality(connections \cup S) < Cardinality(Sockets)
    BY SMTT(30), <1>2, <1>5, <1>7, <1>8, <2>1
  <2> QED BY SMTT(30), <2>1, <2>2, <1>8
<1>10. connections \cup S \subseteq Sockets
  <2>1. \A i \in 1..Len(snapshot) : snapshot[i] \in Sockets
    BY <1>1, ElementOfSeq DEF PoolShape
  <2>2. S \subseteq Sockets
    BY SMTT(30), <1>1, <1>6, <2>1 DEF Range, PoolShape
  <2> QED BY <1>1, <2>2 DEF PoolShape
<1>11. PICK c \in Sockets : c \notin connections \cup S
  BY <1>9, <1>10
<1>12. c \in Unused
  <2>1. c # None /\ c \notin Idle /\ c \notin open
    BY <1>1, <1>11 DEF PoolShape
  <2>2. c # probing /\ \A u \in Threads : c # held[u] /\ c # handoffs[u]
    BY <1>1, <1>11, <2>1 DEF PlacesInv
  <2> QED BY <1>6, <1>11, <2>1, <2>2 DEF Unused
<1> QED BY <1>12 DEF Fresh

\* The remaining steps keep PoolShape as well; the keepalive thread and
\* close() move no thread except the sleepers.
LEMMA OtherShape ==
    ASSUME PoolInv,
           \/ \E t \in Threads : Dialed(t)
           \/ KeepaliveRound \/ KeepaliveTake \/ KeepaliveProbed \/ Close
    PROVE  PoolShape'
<1> USE DEF HoldersShape
<1>0. /\ HoldersShape /\ StackShape /\ LineShape /\ RestShape /\ PoolShape
      /\ (HoldersShape' /\ StackShape' /\ LineShape' /\ RestShape' => PoolShape')
  BY ShapeParts, PTL DEF PoolInv
<1>1. ASSUME NEW t \in Threads, Dialed(t) PROVE PoolShape'
  <2>1. CASE closed
    <3>1. HoldersShape'
      BY <1>0, <1>1, <2>1, GoingOn, HoldersMove DEF Dialed, Returned, Places
    <3> QED BY SMTT(30), <1>0, <1>1, <2>1, <3>1
          DEF Dialed, Overpaid, keepaliveVars, StackShape, LineShape, RestShape, Idle
  <2>2. CASE ~closed
    <3>0. t \in Dialing
      BY <1>1 DEF Dialed, Dialing
    <3>1. Fresh \in Unused
      BY <2>2, <3>0, FreshIsUnused
    <3>2. Fresh \in Sockets
      BY <3>1 DEF Unused
    <3>3. PICK c \in Sockets : c = Fresh
      BY <3>2
    <3>4. /\ connections' = connections \cup {c} /\ open' = open \cup {c}
          /\ held' = [held EXCEPT ![t] = c] /\ NotifyAll(t, "leased")
      BY <1>1, <2>2, <3>3 DEF Dialed
    <3>5. HoldersShape'
      BY <1>0, <3>4, GoingOn, HoldersMove DEF Places
    <3>6. StackShape'
      BY <1>0, <1>1, <3>4 DEF StackShape, Dialed, Idle
    <3>7. LineShape' /\ RestShape'
      BY SMTT(30), <1>0, <1>1, <2>2 DEF Dialed, keepaliveVars, LineShape, RestShape
    <3> QED BY <1>0, <3>5, <3>6, <3>7
  <2> QED BY <2>1, <2>2
<1>2. CASE KeepaliveRound
  <2>1. PICK old \in SUBSET Idle :
          /\ connections' = connections \ old
          /\ idle' = Kept(idle, connections \ old)
          /\ open' = open \ old
          /\ IF idle' # idle THEN Notify ELSE UNCHANGED pc
    BY <1>2 DEF KeepaliveRound
  <2>2. HoldersShape'
    BY <1>0, <1>2, <2>1, Stirring, HoldersStir DEF KeepaliveRound
  <2>3. StackShape'
    <3>1. /\ idle' \in Seq(Sockets) /\ Distinct(idle')
          /\ Idle' = Idle \ old /\ Len(idle') <= Len(idle)
      BY <1>0, <2>1, ExpireStep
    <3>2. Len(idle') <= MaxIdle
      BY SMTT(30), <1>0, <3>1 DEF StackShape
    <3> QED BY <1>0, <2>1, <3>1, <3>2 DEF StackShape
  <2> QED BY <1>0, <1>2, <2>1, <2>2, <2>3 DEF KeepaliveRound, StackShape, LineShape, RestShape
<1>3. CASE KeepaliveTake
  <2>1. HoldersShape'
    BY <1>0, <1>3 DEF KeepaliveTake, threadVars
  <2>2. /\ Head(snapshot) \in Sockets
        /\ snapshot' \in Seq(Sockets) /\ Len(snapshot') <= MaxIdle
    <3>1. /\ Tail(snapshot) \in Seq(Sockets) /\ Len(Tail(snapshot)) = Len(snapshot) - 1
          /\ Head(snapshot) \in Sockets
      BY <1>0, <1>3, HeadTailProperties DEF KeepaliveTake, RestShape
    <3>2. PICK n \in Nat : n = Len(snapshot)
      BY SMTT(30), <1>0 DEF RestShape
    <3>3. <<>> \in Seq(Sockets) /\ Len(<<>>) = 0
      BY SMTT(30)
    <3> QED BY SMTT(30), <1>0, <1>3, <3>1, <3>2, <3>3 DEF KeepaliveTake, RestShape
  <2>3. /\ idle' \in Seq(Sockets) /\ Distinct(idle')
        /\ Idle' \subseteq Idle /\ Len(idle') <= MaxIdle
    <3>1. CASE idle' = idle
      BY <1>0, <3>1 DEF StackShape, Idle
    <3>2. CASE idle' = WithoutConn(idle, Head(snapshot))
      BY SMTT(30), <1>0, <3>2, WithoutConnStep DEF StackShape
    <3> QED BY <1>3, <3>1, <3>2 DEF KeepaliveTake
  <2>4. StackShape'
    BY <1>0, <1>3, <2>3 DEF StackShape, KeepaliveTake
  <2> QED BY <1>0, <1>3, <2>1, <2>2, <2>4 DEF KeepaliveTake, LineShape, RestShape
<1>4. CASE KeepaliveProbed
  <2>1. HoldersShape'
    BY <1>0, <1>4, Stirring, HoldersStir DEF KeepaliveProbed
  <2>2. CASE ReleaseConnection(probing)
    <3>1. StackShape' /\ LineShape' /\ connections' \subseteq connections
      BY <1>0, <2>2, ReleaseCases DEF StackShape, LineShape, Idle, RestShape
    <3> QED BY <1>0, <1>4, <2>1, <3>1 DEF KeepaliveProbed, RestShape
  <2>3. CASE Without(probing) /\ UNCHANGED <<waiters, handoffs>>
    <3>1. StackShape' /\ connections' \subseteq connections
      BY <1>0, <2>3, WithoutStep DEF StackShape
    <3> QED BY <1>0, <1>4, <2>1, <2>3, <3>1 DEF KeepaliveProbed, LineShape, RestShape
  <2> QED BY <1>4, <2>2, <2>3 DEF KeepaliveProbed
<1>5. CASE Close
  <2>1. HoldersShape'
    BY <1>0, <1>5, Stirring, HoldersStir DEF Close
  <2>2. /\ <<>> \in Seq(Sockets) /\ <<>> \in Seq(Threads) /\ Len(<<>>) = 0
        /\ Range(<<>>) = {} /\ Distinct(<<>>)
    BY SMTT(30) DEF Range, Distinct
  <2>3. StackShape'
    BY SMTT(30), <1>0, <1>5, <2>2 DEF StackShape, Close, Idle
  <2>4. LineShape'
    BY <1>5, <2>2 DEF LineShape, Close
  <2> QED BY <1>0, <1>5, <2>1, <2>3, <2>4 DEF Close, RestShape, keepaliveVars
<1> QED BY <1>1, <1>2, <1>3, <1>4, <1>5

\* Every step keeps PoolShape.
LEMMA ShapeStep ==
    ASSUME PoolInv, [PoolNext]_vars
    PROVE  PoolShape'
<1>1. CASE UNCHANGED vars
  BY <1>1 DEF PoolInv, PoolShape, vars, poolVars, threadVars, keepaliveVars, Idle
<1>2. CASE PoolNext
  BY <1>2, ThreadShape, OtherShape DEF PoolNext, PoolInv
<1> QED BY <1>1, <1>2

-----------------------------------------------------------------------------
(* Every step keeps each connection in one place.                          *)

\* Nobody and nothing changes places.
LEMMA PlacesRest ==
    ASSUME PlacesInv,
           UNCHANGED <<connections, handoffs, held, closed, probing>>, Idle' = Idle
    PROVE  PlacesInv'
<1>1. \A c \in connections : Placed(c)'
  BY SMTT(30) DEF PlacesInv, Placed
<1> QED BY <1>1 DEF PlacesInv

\* Connections go with the place they are in.
LEMMA PlacesShrink ==
    ASSUME PoolShape, PlacesInv, NEW old,
           connections' = connections \ old, Idle' = Idle \ old,
           UNCHANGED <<handoffs, closed>>,
           \A t \in Threads : held'[t] = held[t] \/ (held[t] \in old /\ held'[t] = None),
           probing' = probing \/ (probing \in old /\ probing' = None),
           ~closed => /\ probing' \notin old
                      /\ \A t \in Threads : held'[t] \notin old /\ handoffs[t] \notin old
    PROVE  PlacesInv'
<1>0. None \notin connections
  BY DEF PoolShape
<1>1. ASSUME NEW c \in connections' PROVE Placed(c)'
  <2>1. Placed(c) /\ c \notin old /\ c # None
    BY <1>0, <1>1 DEF PlacesInv
  <2>2. /\ c \in Idle <=> c \in Idle'
        /\ c = probing <=> c = probing'
        /\ \A t \in Threads : /\ c = held[t] <=> c = held'[t]
                              /\ handoffs'[t] = handoffs[t]
    BY <2>1
  <2> QED BY SMTT(30), <2>1, <2>2 DEF Placed
<1>2. ASSUME ~closed'
      PROVE  /\ \A t \in Threads : {held'[t], handoffs'[t]} \subseteq connections' \cup {None}
             /\ probing' \in connections' \cup {None}
  BY <1>2 DEF PlacesInv
<1> QED BY <1>1, <1>2 DEF PlacesInv

\* Who queues is a thread.
LEMMA WaitersAreThreads ==
    ASSUME PoolShape
    PROVE  Range(waiters) \subseteq Threads
<1>1. \A i \in 1..Len(waiters) : waiters[i] \in Threads
  BY ElementOfSeq DEF PoolShape
<1> QED BY SMTT(30), <1>1 DEF Range, PoolShape

\* A thread gives its connection up and the pool forgets it.
LEMMA LeavesHand ==
    ASSUME PoolShape, PlacesInv, NEW t \in Threads, NEW c, c = held[t],
           connections' = connections \ {c}, Idle' = Idle \ {c},
           UNCHANGED <<handoffs, closed, probing>>, held' = [held EXCEPT ![t] = None]
    PROVE  PlacesInv'
<1>1. PICK old : old = {c} \ {None}
  OBVIOUS
<1>2. connections' = connections \ old /\ Idle' = Idle \ old
  BY <1>1 DEF PoolShape
<1>3. \A u \in Threads : held'[u] = held[u] \/ (held[u] \in old /\ held'[u] = None)
  BY <1>1 DEF PoolShape
<1>4. ASSUME ~closed
      PROVE  /\ probing' \notin old
             /\ \A u \in Threads : held'[u] \notin old /\ handoffs[u] \notin old
  <2>1. CASE c = None
    BY <1>1, <2>1
  <2>2. CASE c # None
    <3>1. c \in connections
      BY <1>4, <2>2 DEF PlacesInv
    <3>2. Placed(c)
      BY <3>1 DEF PlacesInv
    <3>3. \A u \in Threads : held'[u] # c
      BY <2>2, <3>2 DEF Placed, PoolShape
    <3> QED BY SMTT(30), <1>1, <3>2, <3>3 DEF Placed
  <2> QED BY <2>1, <2>2
<1> QED BY <1>2, <1>3, <1>4, PlacesShrink

\* The steps of one thread.
LEMMA ThreadPlaces ==
    ASSUME PoolInv, NEW t \in Threads,
           \/ Enter(t) \/ Expire(t) \/ DeadlinePasses(t) \/ Admit(t)
           \/ Dialed(t) \/ DialFails(t) \/ RedialFails(t)
           \/ Redial(t) \/ ReleaseReserved(t)
           \/ Discard(t) \/ Retry(t) \/ Release(t) \/ Replace(t) \/ Resumed(t)
    PROVE  PlacesInv'
<1>0. /\ PoolShape /\ PlacesInv /\ QueueInv
      /\ pc[t] # "leased" => held[t] = None
      /\ held \in [Threads -> Sockets \cup {None}]
      /\ handoffs \in [Threads -> Sockets \cup {None}]
      /\ None \notin connections /\ Idle \subseteq connections
      /\ (closed => connections = {})
  BY DEF PoolInv, PoolShape
<1>1. CASE Enter(t) \/ DeadlinePasses(t) \/ Resumed(t)
  <2>1. UNCHANGED <<connections, handoffs, held, closed, probing>> /\ Idle' = Idle
    BY <1>1 DEF Enter, DeadlinePasses, Resumed, poolVars, keepaliveVars, Idle
  <2> QED BY <1>0, <2>1, PlacesRest
<1>2. CASE Expire(t)
  <2>1. PICK old \in SUBSET Idle :
          /\ connections' = connections \ old
          /\ idle' = Kept(idle, connections \ old)
    BY <1>2 DEF Expire, ExpireIdle
  <2>2. Idle' = Idle \ old
    BY <1>0, <2>1, ExpireStep
  <2>3. UNCHANGED <<handoffs, closed, held, probing>>
    BY <1>2 DEF Expire, ExpireIdle, keepaliveVars
  <2>4. ASSUME ~closed
        PROVE  /\ probing \notin old
               /\ \A u \in Threads : held[u] \notin old /\ handoffs[u] \notin old
    BY <1>0 DEF PlacesInv, Placed
  <2> QED BY <1>0, <2>1, <2>2, <2>3, <2>4, PlacesShrink
<1>3. CASE Admit(t)
  <2>0. /\ held[t] = None /\ probing' = probing
    BY <1>0, <1>3 DEF Admit, keepaliveVars
  <2>1. CASE RaiseClosed(t)
    <3>1. connections' = {} /\ closed'
      BY <1>0, <2>1 DEF RaiseClosed
    <3> QED BY <3>1 DEF PlacesInv
  <2>2. CASE TakeHandoff(t)
    <3>1. PICK c \in connections : c = handoffs[t]
      BY <1>0, <2>2 DEF TakeHandoff, PlacesInv
    <3>2. /\ UNCHANGED <<connections, idle, closed, probing>> /\ Idle' = Idle
          /\ held' = [held EXCEPT ![t] = c] /\ handoffs' = [handoffs EXCEPT ![t] = None]
      BY <2>0, <2>2, <3>1 DEF TakeHandoff, Idle
    <3>3. ASSUME NEW d \in connections' PROVE Placed(d)'
      <4>1. Placed(d) /\ d # None /\ Placed(c)
        BY <1>0, <3>2, <3>3 DEF PlacesInv
      <4> QED BY <1>0, <2>0, <3>1, <3>2, <4>1 DEF Placed
    <3> QED BY <1>0, <3>1, <3>2, <3>3 DEF PlacesInv
  <2>3. CASE TakeIdle(t)
    <3>1. /\ Newest(idle) \in Idle /\ Idle' = Idle \ {Newest(idle)}
      BY <1>0, <2>3, OlderFacts DEF PoolShape, TakeIdle, Idle
    <3>2. PICK c \in connections : c = Newest(idle)
      BY <1>0, <3>1
    <3>3. /\ UNCHANGED <<connections, handoffs, closed, probing>>
          /\ held' = [held EXCEPT ![t] = c] /\ Idle' = Idle \ {c} /\ c \in Idle
      BY <2>0, <2>3, <3>1, <3>2 DEF TakeIdle
    <3>4. ASSUME NEW d \in connections' PROVE Placed(d)'
      <4>1. Placed(d) /\ d # None /\ Placed(c)
        BY <1>0, <3>3, <3>4 DEF PlacesInv
      <4> QED BY <1>0, <2>0, <3>3, <4>1 DEF Placed
    <3> QED BY <1>0, <3>3, <3>4 DEF PlacesInv
  <2>4. CASE WarmEnough(t) \/ Saturated(t) \/ TimeOut(t)
    <3>1. UNCHANGED <<connections, handoffs, held, closed, probing>> /\ Idle' = Idle
      BY <1>0, <2>0, <2>4, ReturnedEmpty
         DEF WarmEnough, Saturated, TimeOut, poolVars, Idle
    <3> QED BY <1>0, <3>1, PlacesRest
  <2>5. CASE Reserve(t) \/ Wait(t)
    <3>1. UNCHANGED <<connections, handoffs, held, closed, probing>> /\ Idle' = Idle
      BY <2>0, <2>5 DEF Reserve, Wait, Idle
    <3> QED BY <1>0, <3>1, PlacesRest
  <2> QED BY <1>3, <2>1, <2>2, <2>3, <2>4, <2>5 DEF Admit
<1>4. CASE Dialed(t)
  <2>1. CASE closed
    <3>1. connections' = {} /\ closed'
      BY <1>0, <1>4, <2>1 DEF Dialed
    <3> QED BY <3>1 DEF PlacesInv
  <2>2. CASE ~closed
    <3>0. t \in Dialing /\ held[t] = None
      BY <1>0, <1>4 DEF Dialed, Dialing
    <3>1. PICK c \in Unused : c = Fresh
      BY <2>2, <3>0, FreshIsUnused
    <3>2. /\ UNCHANGED <<handoffs, closed, probing>> /\ Idle' = Idle
          /\ connections' = connections \cup {c} /\ held' = [held EXCEPT ![t] = c]
      BY <1>4, <2>2, <3>1 DEF Dialed, keepaliveVars, Idle
    <3>3. /\ c # None /\ c \notin Idle /\ c # probing
          /\ \A u \in Threads : held[u] # c /\ handoffs[u] # c
      BY <3>1 DEF Unused
    <3>4. ASSUME NEW d \in connections' PROVE Placed(d)'
      <4>1. CASE d = c
        BY <1>0, <3>2, <3>3, <4>1 DEF Placed
      <4>2. CASE d # c
        <5>1. d \in connections /\ Placed(d) /\ d # None
          BY <1>0, <3>2, <3>4, <4>2 DEF PlacesInv
        <5> QED BY <1>0, <3>0, <3>2, <4>2, <5>1 DEF Placed
      <4> QED BY <4>1, <4>2
    <3> QED BY <1>0, <3>2, <3>4 DEF PlacesInv
  <2> QED BY <2>1, <2>2
<1>5. CASE DialFails(t) \/ RedialFails(t) \/ Redial(t) \/ ReleaseReserved(t)
  <2>1. held[t] = None
    BY <1>0, <1>5 DEF DialFails, RedialFails, Redial, ReleaseReserved
  <2>2. UNCHANGED <<connections, handoffs, held, closed, probing>> /\ Idle' = Idle
    BY <1>0, <1>5, <2>1, ReturnedEmpty
       DEF DialFails, RedialFails, Redial, ReleaseReserved, keepaliveVars, Idle
  <2> QED BY <1>0, <2>2, PlacesRest
<1>6. CASE Discard(t) \/ Retry(t) \/ Replace(t)
  <2>1. PICK c \in Sockets \cup {None} : c = held[t]
    BY <1>0
  <2>2. connections' = connections \ {c} /\ Idle' = Idle \ {c}
    BY <1>0, <1>6, <2>1, WithoutStep DEF Discard, Retry, Replace
  <2>3. UNCHANGED <<handoffs, closed, probing>> /\ held' = [held EXCEPT ![t] = None]
    BY <1>6 DEF Discard, Retry, Replace, Returned, keepaliveVars
  <2> QED BY <1>0, <2>1, <2>2, <2>3, LeavesHand
<1>7. CASE Release(t)
  <2>1. PICK c \in Sockets \cup {None} : c = held[t]
    BY <1>0
  <2>2. /\ ReleaseConnection(c) /\ UNCHANGED <<closed, probing>>
        /\ held' = [held EXCEPT ![t] = None]
    BY <1>7, <2>1 DEF Release, Returned, keepaliveVars
  <2>3. CASE /\ connections' = connections \ {c} /\ Idle' = Idle \ {c}
             /\ UNCHANGED <<waiters, handoffs>>
    BY <1>0, <2>1, <2>2, <2>3, LeavesHand
  <2>4. ASSUME ~closed, c \in connections,
               UNCHANGED <<connections, idle>>,
               NEW u \in Range(waiters), handoffs' = [handoffs EXCEPT ![u] = c]
        PROVE  PlacesInv'
    <3>1. u \in Threads /\ handoffs[u] = None
      BY <1>0, <2>4, WaitersAreThreads DEF QueueInv
    <3>2. Idle' = Idle
      BY <2>4 DEF Idle
    <3>3. ASSUME NEW d \in connections' PROVE Placed(d)'
      <4>1. Placed(d) /\ d # None /\ Placed(c)
        BY <1>0, <2>4, <3>3 DEF PlacesInv
      <4> QED BY SMTT(30), <1>0, <2>1, <2>2, <2>4, <3>1, <3>2, <4>1 DEF Placed
    <3> QED BY SMTT(30), <1>0, <2>2, <2>4, <3>1, <3>3 DEF PlacesInv
  <2>5. CASE /\ ~closed /\ c \in connections
             /\ UNCHANGED <<connections, waiters, handoffs>>
             /\ Idle' = Idle \cup {c}
    <3>1. ASSUME NEW d \in connections' PROVE Placed(d)'
      <4>1. Placed(d) /\ d # None /\ Placed(c)
        BY <1>0, <2>5, <3>1 DEF PlacesInv
      <4> QED BY SMTT(30), <1>0, <2>1, <2>2, <2>5, <4>1 DEF Placed
    <3> QED BY <1>0, <2>2, <2>5, <3>1 DEF PlacesInv
  <2> QED BY <1>0, <2>2, <2>3, <2>4, <2>5, ReleaseCases
<1> QED BY <1>1, <1>2, <1>3, <1>4, <1>5, <1>6, <1>7

\* The steps of the keepalive thread and close().
LEMMA OtherPlaces ==
    ASSUME PoolInv, KeepaliveRound \/ KeepaliveTake \/ KeepaliveProbed \/ Close
    PROVE  PlacesInv'
<1>0. /\ PoolShape /\ PlacesInv /\ QueueInv
      /\ held \in [Threads -> Sockets \cup {None}]
      /\ handoffs \in [Threads -> Sockets \cup {None}]
      /\ None \notin connections /\ Idle \subseteq connections
      /\ probing \in Sockets \cup {None}
  BY DEF PoolInv, PoolShape
<1>1. CASE KeepaliveRound
  <2>1. PICK old \in SUBSET Idle :
          /\ connections' = connections \ old
          /\ idle' = Kept(idle, connections \ old)
    BY <1>1 DEF KeepaliveRound
  <2>2. Idle' = Idle \ old
    BY <1>0, <2>1, ExpireStep
  <2>3. UNCHANGED <<handoffs, closed, held, probing>>
    BY <1>1 DEF KeepaliveRound
  <2>4. ASSUME ~closed
        PROVE  /\ probing \notin old
               /\ \A u \in Threads : held[u] \notin old /\ handoffs[u] \notin old
    BY <1>0 DEF PlacesInv, Placed
  <2> QED BY <1>0, <2>1, <2>2, <2>3, <2>4, PlacesShrink
<1>2. CASE KeepaliveTake
  <2>1. UNCHANGED <<connections, handoffs, held, closed>> /\ probing = None
    BY <1>2 DEF KeepaliveTake, threadVars
  <2>2. CASE UNCHANGED <<idle, probing>>
    BY <1>0, <2>1, <2>2, PlacesRest DEF Idle
  <2>3. CASE /\ Head(snapshot) \in connections \cap Idle
             /\ idle' = WithoutConn(idle, Head(snapshot))
             /\ probing' = Head(snapshot)
    <3>1. PICK c \in connections \cap Idle : c = probing' /\ Idle' = Idle \ {c}
      BY <1>0, <2>3, WithoutConnStep
    <3>2. ASSUME NEW d \in connections' PROVE Placed(d)'
      <4>1. Placed(d) /\ d # None /\ Placed(c)
        BY <1>0, <2>1, <3>2 DEF PlacesInv
      <4> QED BY <1>0, <2>1, <3>1, <4>1 DEF Placed
    <3> QED BY <1>0, <2>1, <3>1, <3>2 DEF PlacesInv
  <2> QED BY <1>2, <2>2, <2>3 DEF KeepaliveTake
<1>3. CASE KeepaliveProbed
  <2>1. PICK c \in Sockets : c = probing
    BY <1>0, <1>3 DEF KeepaliveProbed
  <2>2. UNCHANGED <<held, closed>> /\ probing' = None
    BY <1>3 DEF KeepaliveProbed
  <2>3. CASE /\ connections' = connections \ {c} /\ Idle' = Idle \ {c}
             /\ UNCHANGED handoffs
    <3>1. ASSUME ~closed
          PROVE  \A u \in Threads : held[u] # c /\ handoffs[u] # c
      <4>1. Placed(c)
        BY <1>0, <2>1, <3>1 DEF PlacesInv
      <4> QED BY <2>1, <4>1 DEF Placed
    <3>2. \A u \in Threads : held'[u] = held[u]
      BY <2>2
    <3>3. PICK old : old = {c}
      OBVIOUS
    <3> QED BY <1>0, <2>1, <2>2, <2>3, <3>1, <3>2, <3>3, PlacesShrink
  <2>4. ASSUME ~closed, c \in connections,
               UNCHANGED <<connections, idle>>,
               NEW u \in Range(waiters), handoffs' = [handoffs EXCEPT ![u] = c]
        PROVE  PlacesInv'
    <3>1. u \in Threads /\ handoffs[u] = None
      BY <1>0, <2>4, WaitersAreThreads DEF QueueInv
    <3>2. Idle' = Idle
      BY <2>4 DEF Idle
    <3>3. ASSUME NEW d \in connections' PROVE Placed(d)'
      <4>1. Placed(d) /\ d # None /\ Placed(c)
        BY <1>0, <2>4, <3>3 DEF PlacesInv
      <4> QED BY <1>0, <2>1, <2>2, <2>4, <3>1, <3>2, <4>1 DEF Placed
    <3> QED BY <1>0, <2>2, <2>4, <3>1, <3>3 DEF PlacesInv
  <2>5. CASE /\ ~closed /\ c \in connections
             /\ UNCHANGED <<connections, waiters, handoffs>>
             /\ Idle' = Idle \cup {c}
    <3>1. ASSUME NEW d \in connections' PROVE Placed(d)'
      <4>1. Placed(d) /\ d # None /\ Placed(c)
        BY <1>0, <2>5, <3>1 DEF PlacesInv
      <4> QED BY <1>0, <2>1, <2>2, <2>5, <4>1 DEF Placed
    <3> QED BY <1>0, <2>2, <2>5, <3>1 DEF PlacesInv
  <2>6. CASE ReleaseConnection(c)
    BY <1>0, <2>3, <2>4, <2>5, <2>6, ReleaseCases
  <2>7. CASE Without(c) /\ UNCHANGED <<waiters, handoffs>>
    BY <1>0, <2>3, <2>7, WithoutStep
  <2> QED BY <1>3, <2>1, <2>6, <2>7 DEF KeepaliveProbed
<1>4. CASE Close
  BY <1>4 DEF Close, PlacesInv
<1> QED BY <1>1, <1>2, <1>3, <1>4

\* Every step keeps PlacesInv.
LEMMA PlacesStep ==
    ASSUME PoolInv, [PoolNext]_vars
    PROVE  PlacesInv'
<1>1. CASE UNCHANGED vars
  BY <1>1, PlacesRest DEF PoolInv, vars, poolVars, threadVars, keepaliveVars, Idle
<1>2. CASE PoolNext
  BY <1>2, ThreadPlaces, OtherPlaces DEF PoolNext
<1> QED BY <1>1, <1>2

-----------------------------------------------------------------------------
(* The queue, and who sleeps.                                              *)

\* Whether a thread would go on depends on nothing a step leaves alone.
LEMMA SleepersStay ==
    ASSUME NoLostWakeup, UNCHANGED <<connections, idle, connecting, waiters, closed>>,
           \A u \in Threads : pc'[u] = "waiting" => pc[u] = "waiting" /\ handoffs'[u] = handoffs[u]
    PROVE  NoLostWakeup'
BY DEF NoLostWakeup, CanProceed, MayReserve, IsTurn, HasCapacity

\* Nobody sleeps after a step that wakes everybody.
LEMMA EverybodyWoken ==
    ASSUME \A u \in Threads : pc'[u] # "waiting"
    PROVE  NoLostWakeup'
BY DEF NoLostWakeup

\* A step keeps the queue and the sleepers: it wakes everybody, or it changes
\* nothing a sleeper waits for.
Rested == QueueInv /\ NoLostWakeup

\* A released connection goes to somebody who queues for one, and everybody
\* is awake.
LEMMA ReleasedQueue ==
    ASSUME PoolShape, QueueInv, NEW c \in Sockets \cup {None}, ReleaseConnection(c),
           \A u \in Threads : pc'[u] # "waiting"
    PROVE  QueueInv'
<1>1. CASE UNCHANGED <<waiters, handoffs>>
  BY <1>1 DEF QueueInv
<1>2. ASSUME NEW t \in Range(waiters) \ Warmers,
             handoffs' = [handoffs EXCEPT ![t] = c],
             Range(waiters') \subseteq Range(waiters) \ {t}
      PROVE  QueueInv'
  <2>1. \A u \in Threads : u # t => handoffs'[u] = handoffs[u]
    BY <1>2 DEF PoolShape
  <2>2. Range(waiters) \subseteq Threads /\ Warmers \subseteq Threads
    BY WaitersAreThreads DEF Threads
  <2> QED BY <1>2, <2>1, <2>2 DEF QueueInv
<1> QED BY <1>1, <1>2, ReleaseCases

\* The steps of one thread.
LEMMA ThreadQueue ==
    ASSUME PoolInv, NEW t \in Threads,
           \/ Enter(t) \/ Expire(t) \/ DeadlinePasses(t) \/ Admit(t)
           \/ Dialed(t) \/ DialFails(t) \/ RedialFails(t)
           \/ Redial(t) \/ ReleaseReserved(t)
           \/ Discard(t) \/ Retry(t) \/ Release(t) \/ Replace(t) \/ Resumed(t)
    PROVE  Rested'
<1> USE DEF Rested, Places
<1>0. /\ PoolShape /\ QueueInv /\ NoLostWakeup
      /\ handoffs \in [Threads -> Sockets \cup {None}]
      /\ pc \in [Threads -> Places] /\ waiters \in Seq(Threads)
      /\ Range(waiters) \subseteq Threads
  BY WaitersAreThreads DEF PoolInv, PoolShape
<1>a. ASSUME NEW p \in Places, p # "waiting", NotifyAll(t, p),
             UNCHANGED <<waiters, handoffs>>
      PROVE  Rested'
  <2>1. \A u \in Threads : pc'[u] # "waiting"
    BY SMTT(30), <1>0, <1>a, GoingOn DEF Moves
  <2> QED BY <1>0, <1>a, <2>1, EverybodyWoken DEF QueueInv
<1>b. ASSUME NEW p \in Places, p # "waiting", Goto(t, p),
             UNCHANGED <<connections, idle, connecting, waiters, handoffs, closed>>
      PROVE  Rested'
  <2>1. \A u \in Threads : pc'[u] = "waiting" => pc[u] = "waiting"
    BY <1>0, <1>b DEF Goto
  <2> QED BY <1>0, <1>b, <2>1, SleepersStay DEF QueueInv
<1>c. ASSUME NEW p \in Places, p # "waiting", NotifyAll(t, p), RemoveWaiter(t),
             UNCHANGED handoffs
      PROVE  Rested'
  <2>1. \A u \in Threads : pc'[u] # "waiting"
    BY SMTT(30), <1>0, <1>c, GoingOn DEF Moves
  <2>2. Range(waiters') \subseteq Range(waiters)
    BY <1>0, <1>c, RemoveWaiterStep
  <2> QED BY <1>0, <1>c, <2>1, <2>2, EverybodyWoken DEF QueueInv
<1>1. CASE Enter(t) \/ DeadlinePasses(t)
  BY <1>1, <1>b DEF Enter, DeadlinePasses, poolVars
<1>2. CASE Expire(t)
  <2>1. PICK old \in SUBSET Idle :
          /\ connections' = connections \ old
          /\ idle' = Kept(idle, connections \ old)
          /\ IF idle' # idle THEN NotifyAll(t, "lock") ELSE Goto(t, "lock")
    BY <1>2 DEF Expire, ExpireIdle
  <2>2. UNCHANGED <<connecting, waiters, handoffs, closed>>
    BY <1>2 DEF Expire, ExpireIdle
  <2>3. CASE idle' # idle
    BY <1>a, <2>1, <2>2, <2>3
  <2>4. CASE idle' = idle
    <3>1. connections' = connections
      BY <1>0, <2>1, <2>4, ExpireStep
    <3> QED BY <1>b, <2>1, <2>2, <2>4, <3>1
  <2> QED BY <2>3, <2>4
<1>3. CASE Admit(t)
  <2>0. pc[t] = "lock"
    BY <1>3 DEF Admit
  <2>1. CASE RaiseClosed(t)
    <3>1. \A u \in Threads : pc[u] # "waiting"
      BY <1>0, <2>1 DEF RaiseClosed, NoLostWakeup, CanProceed
    <3>2. \A u \in Threads : pc'[u] # "waiting"
      BY <1>0, <2>1, <3>1 DEF RaiseClosed, Goto
    <3>3. Range(waiters') = Range(waiters) \ {t}
      BY <1>0, <2>1, RemoveWaiterStep DEF RaiseClosed
    <3>4. \A u \in Range(waiters') \cup Warmers : handoffs'[u] = None
      BY <1>0, <2>1, <3>3 DEF RaiseClosed, QueueInv, Threads
    <3> QED BY <3>2, <3>4, EverybodyWoken DEF QueueInv
  <2>2. CASE TakeHandoff(t)
    <3>1. \A u \in Threads : pc'[u] = "waiting" => u # t /\ pc[u] = "waiting"
      BY <1>0, <2>2 DEF TakeHandoff, Goto
    <3>2. \A u \in Threads : u # t => handoffs'[u] = handoffs[u]
      BY <1>0, <2>2 DEF TakeHandoff
    <3>3. \A u \in Range(waiters) : handoffs'[u] = None
      BY <1>0, <2>2 DEF TakeHandoff, QueueInv
    <3> QED BY SMTT(30), <1>0, <2>2, <3>1, <3>2, <3>3, SleepersStay DEF TakeHandoff, QueueInv
  <2>3. CASE TakeIdle(t)
    BY <1>c, <2>3 DEF TakeIdle
  <2>4. CASE WarmEnough(t)
    <3>1. CASE Queued(t)
      BY <1>c, <2>4, <3>1 DEF WarmEnough
    <3>2. CASE ~Queued(t)
      <4>1. t \notin Range(waiters)
        BY <1>0, <3>2 DEF Queued
      <4>2. waiters' = waiters
        BY <1>0, <2>4, <4>1, RemoveWaiterStep DEF WarmEnough
      <4> QED BY <1>b, <2>4, <3>2, <4>2 DEF WarmEnough
    <3> QED BY <3>1, <3>2
  <2>5. CASE Reserve(t)
    BY <1>c, <2>5 DEF Reserve
  <2>6. CASE Saturated(t)
    BY <1>b, <2>6 DEF Saturated, poolVars
  <2>7. CASE TimeOut(t)
    BY <1>c, <2>7 DEF TimeOut
  <2>8. CASE Wait(t)
    <3>0. /\ ~CanProceed(t) /\ Goto(t, "waiting") /\ waiters' = Enqueued(t)
          /\ UNCHANGED <<connections, idle, connecting, handoffs, closed>>
      BY <2>8 DEF Wait
    <3>1. pc' = [pc EXCEPT ![t] = "waiting"]
      BY <3>0 DEF Goto
    <3>2. handoffs[t] = None
      BY <1>0, <3>0 DEF CanProceed, QueueInv, Threads
    <3>3. /\ Range(waiters') = Range(waiters) \cup {t}
          /\ \A u \in Threads : IsTurn(u)' => IsTurn(u)
      <4>1. CASE Queued(t)
        <5>1. waiters' = waiters /\ t \in Range(waiters)
          BY <1>0, <3>0, <4>1 DEF Enqueued, Queued
        <5> QED BY <5>1 DEF IsTurn
      <4>2. CASE ~Queued(t)
        <5>1. waiters' = Append(waiters, t)
          BY <3>0, <4>2 DEF Enqueued
        <5>2. /\ waiters' \in Seq(Threads) /\ Len(waiters') = Len(waiters) + 1
              /\ Range(waiters') = Range(waiters) \cup {t}
              /\ waiters # <<>> => waiters'[1] = waiters[1]
          BY SMTT(30), <1>0, <5>1, AppendFacts
        <5>3. ASSUME NEW u \in Threads, IsTurn(u)' PROVE IsTurn(u)
          <6>1. 1 \in DOMAIN waiters' /\ waiters'[1] = u
            BY SMTT(30), <1>0, <5>2, <5>3 DEF IsTurn
          <6>2. waiters = <<>> => IsTurn(u)
            BY SMTT(30) DEF IsTurn
          <6> QED BY <5>2, <6>1, <6>2 DEF IsTurn
        <5> QED BY <5>2, <5>3
      <4> QED BY <4>1, <4>2
    <3>4. \A u \in Threads : CanProceed(u)' => CanProceed(u)
      BY <3>0, <3>3 DEF CanProceed, MayReserve, HasCapacity
    <3>5. \A u \in Threads : pc'[u] = "waiting" => u = t \/ pc[u] = "waiting"
      BY <1>0, <3>1
    <3>6. NoLostWakeup'
      BY <1>0, <3>0, <3>4, <3>5 DEF NoLostWakeup
    <3> QED BY <1>0, <3>0, <3>2, <3>3, <3>5, <3>6 DEF QueueInv
  <2> QED BY <1>3, <2>1, <2>2, <2>3, <2>4, <2>5, <2>6, <2>7, <2>8 DEF Admit
<1>4. CASE Dialed(t)
  <2>1. CASE closed
    BY <1>4, <1>a, <2>1 DEF Dialed
  <2>2. CASE ~closed
    BY <1>4, <1>a, <2>2 DEF Dialed
  <2> QED BY <2>1, <2>2
<1>5. CASE DialFails(t)
  BY <1>5, <1>a DEF DialFails
<1>6. CASE RedialFails(t)
  BY <1>6, <1>a DEF RedialFails
<1>7. CASE Redial(t)
  BY <1>7, <1>a, <1>b DEF Redial
<1>8. CASE ReleaseReserved(t)
  BY <1>8, <1>a DEF ReleaseReserved
<1>9. CASE Discard(t)
  BY <1>9, <1>a DEF Discard
<1>10. CASE Retry(t)
  BY <1>10, <1>a DEF Retry
<1>11. CASE Replace(t)
  BY <1>11, <1>a DEF Replace
<1>12. CASE Release(t)
  <2>1. /\ ReleaseConnection(held[t]) /\ held[t] \in Sockets \cup {None}
        /\ NotifyAll(t, "out")
    BY <1>0, <1>12 DEF Release, PoolShape
  <2>2. \A u \in Threads : pc'[u] # "waiting"
    BY <1>0, <2>1, GoingOn DEF Moves
  <2> QED BY <1>0, <2>1, <2>2, ReleasedQueue, EverybodyWoken
<1>13. CASE Resumed(t)
  BY <1>0, <1>13, SleepersStay DEF Resumed, poolVars, QueueInv
<1> QED BY SMTT(30), <1>1, <1>2, <1>3, <1>4, <1>5, <1>6, <1>7, <1>8, <1>9, <1>10, <1>11,
           <1>12, <1>13

\* The steps of the keepalive thread and close().
LEMMA OtherQueue ==
    ASSUME PoolInv, KeepaliveRound \/ KeepaliveTake \/ KeepaliveProbed \/ Close
    PROVE  Rested'
<1> USE DEF Rested
<1>0. PoolShape /\ QueueInv /\ NoLostWakeup
  BY DEF PoolInv
<1>1. CASE KeepaliveRound
  <2>1. PICK old \in SUBSET Idle :
          /\ connections' = connections \ old
          /\ idle' = Kept(idle, connections \ old)
          /\ IF idle' # idle THEN Notify ELSE UNCHANGED pc
    BY <1>1 DEF KeepaliveRound
  <2>2. UNCHANGED <<connecting, waiters, handoffs, closed>>
    BY <1>1 DEF KeepaliveRound
  <2>3. CASE idle' # idle
    <3>1. \A u \in Threads : pc'[u] # "waiting"
      BY <1>0, <2>1, <2>3, Stirring
    <3> QED BY <1>0, <2>2, <3>1, EverybodyWoken DEF QueueInv
  <2>4. CASE idle' = idle
    <3>1. connections' = connections
      BY <1>0, <2>1, <2>4, ExpireStep
    <3> QED BY <1>0, <2>1, <2>2, <2>4, <3>1, SleepersStay DEF QueueInv
  <2> QED BY <2>3, <2>4
<1>2. CASE KeepaliveTake
  <2>1. UNCHANGED <<connections, connecting, waiters, handoffs, closed, pc>>
    BY <1>2 DEF KeepaliveTake, threadVars
  <2>2. CASE idle' = idle
    BY <1>0, <2>1, <2>2, SleepersStay DEF QueueInv
  <2>3. CASE waiters = <<>>
    <3>1. \A u \in Threads : pc'[u] # "waiting"
      BY SMTT(30), <1>0, <2>1, <2>3 DEF QueueInv, Range
    <3> QED BY <1>0, <2>1, <3>1, EverybodyWoken DEF QueueInv
  <2> QED BY <1>2, <2>2, <2>3 DEF KeepaliveTake
<1>3. CASE KeepaliveProbed
  <2>1. \A u \in Threads : pc'[u] # "waiting"
    BY <1>0, <1>3, Stirring DEF KeepaliveProbed
  <2>2. CASE ReleaseConnection(probing)
    BY <1>0, <2>1, <2>2, ReleasedQueue, EverybodyWoken DEF PoolShape
  <2>3. CASE UNCHANGED <<waiters, handoffs>>
    BY <1>0, <2>1, <2>3, EverybodyWoken DEF QueueInv
  <2> QED BY <1>3, <2>2, <2>3 DEF KeepaliveProbed
<1>4. CASE Close
  <2>1. \A u \in Threads : pc'[u] # "waiting"
    BY <1>0, <1>4, Stirring DEF Close
  <2>2. QueueInv'
    BY SMTT(30), <1>4, <2>1 DEF QueueInv, Close, Range, Threads
  <2> QED BY <2>1, <2>2, EverybodyWoken
<1> QED BY <1>1, <1>2, <1>3, <1>4

\* Every step keeps QueueInv and NoLostWakeup.
LEMMA QueueStep ==
    ASSUME PoolInv, [PoolNext]_vars
    PROVE  QueueInv' /\ NoLostWakeup'
<1>1. CASE UNCHANGED vars
  BY <1>1, SleepersStay DEF PoolInv, QueueInv, vars, poolVars, threadVars
<1>2. CASE PoolNext
  BY <1>2, ThreadQueue, OtherQueue DEF PoolNext, Rested
<1> QED BY <1>1, <1>2

-----------------------------------------------------------------------------
(* Every step counts the slots.                                            *)

\* Where a thread owns a reserved slot.
SlotPlaces == {"dial", "redial", "redial_kept", "reserved"}

\* One thread moves: it takes a slot, gives one back, or neither.
LEMMA DialingMoves ==
    ASSUME PoolShape, NEW t \in Threads, NEW p \in Places, Moves(t, p)
    PROVE  /\ (pc[t] \in SlotPlaces <=> p \in SlotPlaces)
                 => Cardinality(Dialing') = Cardinality(Dialing)
           /\ pc[t] \notin SlotPlaces /\ p \in SlotPlaces
                 => Cardinality(Dialing') = Cardinality(Dialing) + 1
           /\ pc[t] \in SlotPlaces /\ p \notin SlotPlaces
                 => Cardinality(Dialing') = Cardinality(Dialing) - 1
<1>1. Dialing = {u \in Threads : pc[u] \in SlotPlaces}
  BY DEF Dialing, SlotPlaces
<1>2. Dialing' = {u \in Threads : pc'[u] \in SlotPlaces}
  BY DEF Dialing, SlotPlaces
<1>3. \A u \in Threads \ {t} : pc'[u] \in SlotPlaces <=> pc[u] \in SlotPlaces
  BY DEF Moves, SlotPlaces
<1>4. pc'[t] = p
  BY DEF Moves
<1>5. IsFiniteSet(Dialing) /\ Cardinality(Dialing) \in Nat
  BY DialingFinite
<1>6. ASSUME pc[t] \in SlotPlaces <=> p \in SlotPlaces PROVE Dialing' = Dialing
  BY <1>1, <1>2, <1>3, <1>4, <1>6
<1>7. ASSUME pc[t] \notin SlotPlaces, p \in SlotPlaces
      PROVE  Cardinality(Dialing') = Cardinality(Dialing) + 1
  <2>1. Dialing' = Dialing \cup {t} /\ t \notin Dialing
    BY <1>1, <1>2, <1>3, <1>4, <1>7
  <2> QED BY <1>5, <2>1, FS_AddElement
<1>8. ASSUME pc[t] \in SlotPlaces, p \notin SlotPlaces
      PROVE  Cardinality(Dialing') = Cardinality(Dialing) - 1
  <2>1. Dialing' = Dialing \ {t} /\ t \in Dialing
    BY <1>1, <1>2, <1>3, <1>4, <1>8
  <2> QED BY <1>5, <2>1, FS_RemoveElement
<1> QED BY <1>6, <1>7, <1>8

\* Sleepers own no slot.
LEMMA DialingStirs ==
    ASSUME PoolShape, Stirs
    PROVE  Dialing' = Dialing
BY DEF Stirs, Dialing

\* The pool has fewer connections after it has lost some.
LEMMA FewerConnections ==
    ASSUME PoolShape, NEW S \in SUBSET connections
    PROVE  Cardinality(S) \in Nat /\ Cardinality(S) <= Cardinality(connections)
BY ConnectionsFinite, FS_Subset, FS_CardinalityType

\* The slots are counted after a step of an open pool.
SlotsRight ==
    /\ connecting = Cardinality(Dialing)
    /\ Cardinality(connections) + connecting <= MaxConnections

\* The steps of one thread.
LEMMA ThreadSlots ==
    ASSUME PoolInv, NEW t \in Threads, ~closed,
           \/ Enter(t) \/ Expire(t) \/ DeadlinePasses(t) \/ Admit(t)
           \/ Dialed(t) \/ DialFails(t) \/ RedialFails(t)
           \/ Redial(t) \/ ReleaseReserved(t)
           \/ Discard(t) \/ Retry(t) \/ Release(t) \/ Replace(t) \/ Resumed(t)
    PROVE  SlotsRight'
<1> USE DEF SlotPlaces, Places
<1>0. PoolShape
  BY DEF PoolInv
<1>1. PICK n \in Nat, d \in Nat :
        n = Cardinality(connections) /\ d = Cardinality(Dialing)
  BY <1>0, ConnectionsFinite, DialingFinite
<1>2. connecting = d /\ n + d <= MaxConnections
  BY <1>1 DEF PoolInv, SlotsCounted
<1>a. ASSUME NEW p \in Places, NEW q \in Places, p = pc[t], Moves(t, q),
             p \in SlotPlaces <=> q \in SlotPlaces,
             connecting' = connecting, connections' \subseteq connections
      PROVE  SlotsRight'
  <2>1. Cardinality(Dialing') = d
    BY <1>0, <1>1, <1>a, DialingMoves
  <2>2. PICK m \in Nat : m = Cardinality(connections') /\ m <= n
    BY <1>0, <1>1, <1>a, FewerConnections
  <2> QED BY SMTT(30), <1>2, <1>a, <2>1, <2>2 DEF SlotsRight
<1>b. ASSUME NEW q \in Places, Moves(t, q), pc[t] \in SlotPlaces, q \notin SlotPlaces,
             connecting' = connecting - 1, connections' = connections
      PROVE  SlotsRight'
  <2>1. Cardinality(Dialing') = d - 1
    BY <1>0, <1>1, <1>b, DialingMoves
  <2>2. Cardinality(connections') = n
    BY <1>1, <1>b
  <2> QED BY SMTT(30), <1>2, <1>b, <2>1, <2>2 DEF SlotsRight
<1>3. CASE Enter(t) \/ DeadlinePasses(t)
  <2>1. Goto(t, "expire") /\ pc[t] \notin SlotPlaces
    BY <1>3 DEF Enter, DeadlinePasses
  <2>2. Moves(t, "expire") /\ pc[t] \in Places
    BY <1>0, <2>1, GoingOn DEF PoolShape
  <2> QED BY <1>3, <1>a, <2>1, <2>2 DEF Enter, DeadlinePasses, poolVars
<1>4. CASE Expire(t)
  <2>1. Moves(t, "lock") /\ pc[t] \in Places /\ pc[t] \notin SlotPlaces
    BY <1>0, <1>4, GoingOn DEF Expire, ExpireIdle, PoolShape
  <2>2. connecting' = connecting /\ connections' \subseteq connections
    BY <1>4 DEF Expire, ExpireIdle
  <2> QED BY <1>a, <2>1, <2>2
<1>5. CASE Admit(t)
  <2>0. pc[t] = "lock"
    BY <1>5 DEF Admit
  <2>1. CASE TakeHandoff(t)
    BY <1>0, <1>a, <2>0, <2>1, GoingOn DEF TakeHandoff
  <2>2. CASE TakeIdle(t)
    BY <1>0, <1>a, <2>0, <2>2, GoingOn DEF TakeIdle
  <2>3. CASE WarmEnough(t)
    BY <1>0, <1>a, <2>0, <2>3, GoingOn DEF WarmEnough
  <2>4. CASE Reserve(t)
    <3>1. Moves(t, "dial") /\ connecting' = d + 1 /\ connections' = connections
      BY <1>0, <1>2, <2>4, GoingOn DEF Reserve
    <3>2. n + d < MaxConnections
      BY <1>1, <1>2, <2>4 DEF Reserve, MayReserve, HasCapacity
    <3>3. Cardinality(Dialing') = d + 1 /\ Cardinality(connections') = n
      BY <1>0, <1>1, <2>0, <3>1, DialingMoves
    <3> QED BY SMTT(30), <3>1, <3>2, <3>3 DEF SlotsRight
  <2>5. CASE Saturated(t)
    BY <1>0, <1>a, <2>0, <2>5, GoingOn DEF Saturated, poolVars
  <2>6. CASE TimeOut(t)
    BY <1>0, <1>a, <2>0, <2>6, GoingOn DEF TimeOut
  <2>7. CASE Wait(t)
    BY <1>0, <1>a, <2>0, <2>7, GoingOn DEF Wait
  <2>8. ~RaiseClosed(t)
    BY DEF RaiseClosed
  <2> QED BY <1>5, <2>1, <2>2, <2>3, <2>4, <2>5, <2>6, <2>7, <2>8 DEF Admit
<1>6. CASE Dialed(t)
  <2>0. t \in Dialing
    BY <1>6 DEF Dialed, Dialing
  <2>1. PICK c \in Unused : c = Fresh
    BY <2>0, FreshIsUnused
  <2>2. /\ connections' = connections \cup {c} /\ c \notin connections
        /\ connecting' = d - 1 /\ NotifyAll(t, "leased") /\ pc[t] \in SlotPlaces
    BY <1>2, <1>6, <2>1 DEF Dialed, Unused
  <2>3. Moves(t, "leased")
    BY <1>0, <2>2, GoingOn
  <2>4. Cardinality(Dialing') = d - 1
    BY <1>0, <1>1, <2>2, <2>3, DialingMoves
  <2>5. Cardinality(connections') = n + 1
    BY <1>0, <1>1, <2>2, ConnectionsFinite, FS_AddElement
  <2> QED BY SMTT(30), <1>2, <2>2, <2>4, <2>5 DEF SlotsRight
<1>7. CASE DialFails(t)
  BY <1>0, <1>7, <1>b, GoingOn DEF DialFails
<1>8. CASE RedialFails(t)
  <2>1. CASE MoreAttempts(t)
    <3>1. /\ NotifyAll(t, "reserved") /\ connecting' = connecting
          /\ connections' = connections /\ pc[t] \in SlotPlaces
      BY <1>8, <2>1 DEF RedialFails
    <3>2. Moves(t, "reserved")
      BY <1>0, <3>1, GoingOn
    <3> QED BY <1>a, <3>1, <3>2
  <2>2. CASE ~MoreAttempts(t)
    <3>1. /\ NotifyAll(t, "out") /\ connecting' = connecting - 1
          /\ connections' = connections /\ pc[t] \in SlotPlaces
      BY <1>8, <2>2 DEF RedialFails
    <3> QED BY <1>0, <1>b, <3>1, GoingOn
  <2> QED BY <2>1, <2>2
<1>9. CASE Redial(t)
  <2>1. /\ Goto(t, "redial_kept") /\ connecting' = connecting
        /\ connections' = connections /\ pc[t] \in SlotPlaces
    BY <1>9 DEF Redial
  <2>2. Moves(t, "redial_kept")
    BY <1>0, <2>1, GoingOn
  <2> QED BY <1>a, <2>1, <2>2
<1>10. CASE ReleaseReserved(t)
  BY <1>0, <1>10, <1>b, GoingOn DEF ReleaseReserved
<1>11. CASE Discard(t)
  BY <1>0, <1>11, <1>a, GoingOn DEF Discard, Without
<1>12. CASE Retry(t)
  BY <1>0, <1>12, <1>a, GoingOn DEF Retry, Without
<1>13. CASE Release(t)
  <2>1. held[t] \in Sockets \cup {None} /\ ReleaseConnection(held[t])
    BY <1>0, <1>13 DEF PoolShape, Release
  <2>2. connections' \subseteq connections
    BY <1>0, <2>1, ReleaseCases
  <2> QED BY <1>0, <1>13, <1>a, <2>2, GoingOn DEF Release
<1>14. CASE Replace(t)
  <2>1. PICK c \in connections : c = held[t]
    BY <1>14 DEF Replace
  <2>2. /\ connections' = connections \ {c} /\ connecting' = d + 1
        /\ NotifyAll(t, "redial") /\ pc[t] \notin SlotPlaces
    BY <1>2, <1>14, <2>1 DEF Replace, Without
  <2>3. Moves(t, "redial")
    BY <1>0, <2>2, GoingOn
  <2>4. Cardinality(Dialing') = d + 1
    BY <1>0, <1>1, <2>2, <2>3, DialingMoves
  <2>5. Cardinality(connections') = n - 1
    BY <1>0, <1>1, <2>1, <2>2, ConnectionsFinite, FS_RemoveElement
  <2> QED BY SMTT(30), <1>2, <2>2, <2>4, <2>5 DEF SlotsRight
<1>15. CASE Resumed(t)
  BY <1>1, <1>2, <1>15 DEF Resumed, poolVars, SlotsRight, Dialing
<1> QED BY <1>3, <1>4, <1>5, <1>6, <1>7, <1>8, <1>9, <1>10, <1>11, <1>12, <1>13,
           <1>14, <1>15

\* Every step counts the slots.
LEMMA SlotsStep ==
    ASSUME PoolInv, [PoolNext]_vars
    PROVE  SlotsCounted'
<1>0. PoolShape /\ PoolShape'
  BY ShapeStep DEF PoolInv
<1>1. CASE closed'
  BY <1>0, <1>1 DEF PoolShape, SlotsCounted
<1>2. CASE ~closed'
  <2>1. ~closed
    <3>1. CASE UNCHANGED vars
      BY <1>2, <3>1 DEF vars, poolVars
    <3>2. ASSUME NEW t \in Threads,
             \/ Enter(t) \/ Expire(t) \/ DeadlinePasses(t) \/ Admit(t)
             \/ Dialed(t) \/ DialFails(t) \/ RedialFails(t)
             \/ Redial(t) \/ ReleaseReserved(t)
             \/ Discard(t) \/ Retry(t) \/ Release(t) \/ Replace(t) \/ Resumed(t)
          PROVE closed' = closed
      BY <3>2 DEF Enter, Expire, ExpireIdle, DeadlinePasses, Admit, RaiseClosed,
           TakeHandoff, TakeIdle, WarmEnough, Reserve, Saturated, TimeOut, Wait,
           Dialed, DialFails, RedialFails, Redial, ReleaseReserved, Discard, Retry,
           Release, Replace, Resumed, poolVars
    <3>3. CASE KeepaliveRound \/ KeepaliveTake \/ KeepaliveProbed
      BY <1>2, <3>3 DEF KeepaliveRound, KeepaliveTake, KeepaliveProbed
    <3>4. CASE Close
      BY <1>2, <3>4 DEF Close
    <3> QED BY <1>2, <3>1, <3>2, <3>3, <3>4 DEF PoolNext
  <2>2. SlotsRight
    BY <2>1 DEF PoolInv, SlotsCounted, SlotsRight
  <2>3. SlotsRight'
    <3>1. CASE UNCHANGED vars
      BY <2>2, <3>1 DEF vars, poolVars, threadVars, SlotsRight, Dialing
    <3>2. ASSUME Stirs, connecting' = connecting, connections' \subseteq connections
          PROVE  SlotsRight'
      <4>1. PICK n \in Nat, d \in Nat :
              n = Cardinality(connections) /\ d = Cardinality(Dialing)
        BY <1>0, ConnectionsFinite, DialingFinite
      <4>2. PICK m \in Nat : m = Cardinality(connections') /\ m <= n
        BY <1>0, <3>2, <4>1, FewerConnections
      <4>3. Dialing' = Dialing
        BY <1>0, <3>2, DialingStirs
      <4> QED BY SMTT(30), <2>2, <3>2, <4>1, <4>2, <4>3 DEF SlotsRight
    <3>3. CASE KeepaliveRound
      BY <1>0, <3>2, <3>3, Stirring DEF KeepaliveRound
    <3>4. CASE KeepaliveTake
      BY <1>0, <3>2, <3>4, Stirring DEF KeepaliveTake, threadVars
    <3>5. CASE KeepaliveProbed
      <4>1. connections' \subseteq connections
        BY <1>0, <3>5, ReleaseCases DEF KeepaliveProbed, Without, PoolShape
      <4> QED BY <1>0, <3>2, <3>5, <4>1, Stirring DEF KeepaliveProbed
    <3>6. ~Close
      BY <1>2 DEF Close
    <3> QED BY <2>1, <3>1, <3>3, <3>4, <3>5, <3>6, ThreadSlots DEF PoolNext
  <2> QED BY <1>0, <1>2, <2>3 DEF PoolShape, SlotsCounted, SlotsRight
<1> QED BY <1>1, <1>2

-----------------------------------------------------------------------------
(* The theorems.                                                           *)

\* A connection that is in its place is claimed exactly once.
LEMMA PlacedOnce ==
    ASSUME PoolShape, PlacesInv, NEW c \in connections
    PROVE  Cardinality(Claims(c)) = 1
<1>1. Placed(c)
  BY DEF PlacesInv
<1>2. ASSUME NEW x, Claims(c) = {x} PROVE Cardinality(Claims(c)) = 1
  BY <1>2, FS_Singleton
<1>3. Idle = {idle[i] : i \in DOMAIN idle} /\ DOMAIN idle = 1..Len(idle)
  BY SMTT(30) DEF Idle, Range, PoolShape
<1>4. CASE c \in Idle
  <2>1. PICK i \in DOMAIN idle : idle[i] = c
    BY <1>3, <1>4
  <2>2. /\ {u \in Threads : held[u] = c} = {} /\ {u \in Threads : handoffs[u] = c} = {}
        /\ {probing} \cap {c} = {}
    BY <1>1, <1>4 DEF Placed
  <2>3. {j \in DOMAIN idle : idle[j] = c} = {i}
    BY SMTT(30), <1>3, <2>1 DEF PoolShape, Distinct
  <2>4. Claims(c) = {<<"idle", i>>}
    BY <2>2, <2>3 DEF Claims
  <2> QED BY <1>2, <2>4
<1>5. CASE c = probing
  <2>1. /\ {u \in Threads : held[u] = c} = {} /\ {u \in Threads : handoffs[u] = c} = {}
        /\ {probing} \cap {c} = {c} /\ c \notin Idle
    BY <1>1, <1>5 DEF Placed
  <2>2. {j \in DOMAIN idle : idle[j] = c} = {}
    BY <1>3, <2>1
  <2>3. Claims(c) = {<<"probing", c>>}
    BY <2>1, <2>2 DEF Claims
  <2> QED BY <1>2, <2>3
<1>6. ASSUME NEW t \in Threads, held[t] = c PROVE Cardinality(Claims(c)) = 1
  <2>1. /\ {u \in Threads : held[u] = c} = {t} /\ {u \in Threads : handoffs[u] = c} = {}
        /\ {probing} \cap {c} = {} /\ c \notin Idle
    BY <1>1, <1>6 DEF Placed
  <2>2. {j \in DOMAIN idle : idle[j] = c} = {}
    BY <1>3, <2>1
  <2>3. Claims(c) = {<<"leased", t>>}
    BY <2>1, <2>2 DEF Claims
  <2> QED BY <1>2, <2>3
<1>7. ASSUME NEW t \in Threads, handoffs[t] = c PROVE Cardinality(Claims(c)) = 1
  <2>1. /\ {u \in Threads : held[u] = c} = {} /\ {u \in Threads : handoffs[u] = c} = {t}
        /\ {probing} \cap {c} = {} /\ c \notin Idle
    BY <1>1, <1>7 DEF Placed
  <2>2. {j \in DOMAIN idle : idle[j] = c} = {}
    BY <1>3, <2>1
  <2>3. Claims(c) = {<<"handoff", t>>}
    BY <2>1, <2>2 DEF Claims
  <2> QED BY <1>2, <2>3
<1> QED BY <1>1, <1>4, <1>5, <1>6, <1>7 DEF Placed

\* A pool without connections satisfies the invariant.
LEMMA PoolStarts ==
    ASSUME PoolInit
    PROVE  PoolInv
<1>1. /\ Range(<<>>) = {} /\ Distinct(<<>>)
      /\ <<>> \in Seq(Sockets) /\ <<>> \in Seq(Threads) /\ Len(<<>>) = 0
  BY SMTT(30) DEF Range, Distinct
<1>2. PoolShape
  <2>1. HoldersShape
    BY DEF PoolInit, HoldersShape, Places
  <2>2. StackShape
    BY SMTT(30), <1>1 DEF PoolInit, StackShape, Idle
  <2>3. LineShape
    BY <1>1 DEF PoolInit, LineShape
  <2>4. closed \in BOOLEAN /\ ~closed
    BY DEF PoolInit
  <2>5. /\ connecting \in Int /\ snapshot \in Seq(Sockets) /\ Len(snapshot) <= MaxIdle
        /\ probing \in Sockets \cup {None}
    <3>1. 0 \in Int /\ 0 <= MaxIdle
      BY SMTT(30)
    <3> QED BY <1>1, <3>1 DEF PoolInit
  <2>6. RestShape
    BY <2>4, <2>5 DEF RestShape
  <2> QED BY <2>1, <2>2, <2>3, <2>6, ShapeParts
<1>3. PlacesInv
  BY DEF PoolInit, PlacesInv
<1>4. QueueInv
  BY <1>1 DEF PoolInit, QueueInv, Threads
<1>5. Dialing = {}
  BY DEF PoolInit, Dialing
<1>6. SlotsCounted
  BY SMTT(30), <1>5, FS_EmptySet DEF PoolInit, SlotsCounted
<1>7. NoLostWakeup
  BY DEF PoolInit, NoLostWakeup
<1> QED BY <1>2, <1>3, <1>4, <1>6, <1>7 DEF PoolInv

\* The pool keeps its invariant, whatever fails, expires or is closed.
THEOREM PoolSafe == PoolSpec => []PoolInv
<1>1. PoolInit => PoolInv
  BY PoolStarts
<1>2. PoolInv /\ [PoolNext]_vars => PoolInv'
  BY ShapeStep, PlacesStep, QueueStep, SlotsStep DEF PoolInv
<1> QED BY <1>1, <1>2, PTL DEF PoolSpec

\* "_connections + _connecting never exceeds max_connections": connections and
\* reserved slots together never exceed max_connections, every reserved slot
\* is owned by a thread that dials, and every open socket belongs to the pool
\* (_checkout_connection, _new_connection, _replace_connection).
THEOREM SlotsAreCounted == PoolSpec => []SlotsCounted
<1>1. PoolInv => SlotsCounted
  BY DEF PoolInv
<1> QED BY <1>1, PoolSafe, PTL

\* Every connection of the pool is in exactly one place: in the idle stack,
\* handed to a waiter, leased to one stream, or probed by the keepalive thread
\* (_checkout_connection, _release_connection, _discard_connection).
THEOREM ConnectionsAreExclusive == PoolSpec => []ConnectionsExclusive
<1>1. PoolInv => ConnectionsExclusive
  BY PlacedOnce DEF PoolInv, PoolShape, ConnectionsExclusive
<1> QED BY <1>1, PoolSafe, PTL

\* No thread sleeps on the condition variable when one more pass of its loop
\* would end its wait: every change that could help it notifies.
THEOREM NoWakeupIsLost == PoolSpec => []NoLostWakeup
<1>1. PoolInv => NoLostWakeup
  BY DEF PoolInv
<1> QED BY <1>1, PoolSafe, PTL

=============================================================================
