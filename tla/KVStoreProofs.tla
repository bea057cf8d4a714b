--------------------------- MODULE KVStoreProofs ---------------------------
(***************************************************************************)
(* What the store and the rate limiter keep, for any keys, sizes,          *)
(* lifetimes and memory limit.                                             *)
(*   The quota of the quotes: whatever is evicted, a step adds at most the *)
(* key it sets.                                                            *)
(*   The store: its types, its byte count within the limit, the map, the   *)
(* list and the byte count telling the same (KVInv), and no insertion that *)
(* evicts more than it must.  The last two need that each entry alone fits *)
(* into the memory (EntriesFit).                                           *)
(*   The rate limiter: a live counter is witnessed by a request within the *)
(* last minute, and it counts every request admitted since it was set, so  *)
(* that no partner whose counter was never evicted gets more than the      *)
(* limit within a minute.                                                  *)
(***************************************************************************)
EXTENDS RateLimit, SumLemmas, SequenceTheorems, TLAPS

Alive == {k \in QuoteKeys : Counted(data[k])}

DataOK == data \in [Keys -> Entries \cup {NoEntry}]

QuotaInv == DataOK /\ QuoteQuotaHolds

\* Every key but one, at most, keeps its entry, loses it or grows older.
OnlySets(new) ==
  /\ DataOK'
  /\ \A k \in Keys \ new : data'[k] \in {data[k], NoEntry, Older(data[k])}

\* There are finitely many keys of quotes to count.
LEMMA QuoteKeysFinite == IsFiniteSet(QuoteKeys)
  BY KVAssumption, FS_Subset DEF Keys

\* Ageing keeps the type of an entry, and what is not counted stays so.
LEMMA Ageing ==
  ASSUME NEW e \in Entries \cup {NoEntry}
  PROVE  Older(e) \in Entries \cup {NoEntry} /\ (Counted(Older(e)) => Counted(e))
<1>1. CASE e.mortal /\ e.left >= 0
  <2>1. e \in Entries
    BY <1>1 DEF NoEntry
  <2>2. Older(e) = [value |-> e.value, size |-> e.size, mortal |-> e.mortal, left |-> e.left - 1]
    BY <1>1, <2>1 DEF Older, Entries
  <2>3. Older(e) \in Entries
    BY <2>1, <2>2 DEF Entries
  <2>4. Counted(Older(e)) => e.left > 0
    BY <1>1, <2>1, <2>2 DEF Counted, Entries
  <2>5. e # NoEntry
    BY <1>1 DEF NoEntry
  <2>6. QED
    BY <2>3, <2>4, <2>5 DEF Counted
<1>2. CASE ~(e.mortal /\ e.left >= 0)
  BY <1>2 DEF Older
<1>3. QED
  BY <1>1, <1>2

\* If a step sets no quote, no quote comes alive.
LEMMA NoNewQuote ==
  ASSUME QuotaInv, NEW new, OnlySets(new), new \cap QuoteKeys = {}
  PROVE  QuotaInv'
<1>1. Alive' \subseteq Alive
  <2> SUFFICES ASSUME NEW k \in QuoteKeys, Counted(data'[k]) PROVE Counted(data[k])
    BY DEF Alive
  <2>1. k \in Keys \ new /\ data[k] \in Entries \cup {NoEntry}
    BY DEF Keys, QuotaInv, DataOK
  <2>2. data'[k] \in {data[k], NoEntry, Older(data[k])}
    BY <2>1 DEF OnlySets
  <2>3. ~Counted(NoEntry)
    BY DEF Counted
  <2>4. QED
    BY <2>1, <2>2, <2>3, Ageing
<1>2. IsFiniteSet(Alive)
  BY QuoteKeysFinite, FS_Subset DEF Alive
<1>3. Cardinality(Alive') <= Cardinality(Alive) /\ IsFiniteSet(Alive')
  BY <1>1, <1>2, FS_Subset
<1>4. Cardinality(Alive) \in Nat /\ Cardinality(Alive') \in Nat
  BY <1>2, <1>3, FS_CardinalityType
<1>5. Count(QuoteKeys) = Cardinality(Alive) /\ Count(QuoteKeys)' = Cardinality(Alive')
  BY DEF Count, Alive
<1>6. QED
  BY <1>3, <1>4, <1>5, KVAssumption DEF QuotaInv, QuoteQuotaHolds, OnlySets

\* Setting one quote below the quota stays within the quota.
LEMMA OneNewQuote ==
  ASSUME QuotaInv, NEW q \in QuoteKeys, OnlySets({q}), Count(QuoteKeys) < QuoteQuota
  PROVE  QuotaInv'
<1>1. Alive' \subseteq Alive \cup {q}
  <2> SUFFICES ASSUME NEW k \in QuoteKeys, k # q, Counted(data'[k]) PROVE Counted(data[k])
    BY DEF Alive
  <2>1. k \in Keys \ {q} /\ data[k] \in Entries \cup {NoEntry}
    BY DEF Keys, QuotaInv, DataOK
  <2>2. data'[k] \in {data[k], NoEntry, Older(data[k])}
    BY <2>1 DEF OnlySets
  <2>3. ~Counted(NoEntry)
    BY DEF Counted
  <2>4. QED
    BY <2>1, <2>2, <2>3, Ageing
<1>2. IsFiniteSet(Alive) /\ Cardinality(Alive) \in Nat
  BY QuoteKeysFinite, FS_Subset, FS_CardinalityType DEF Alive
<1>3. /\ IsFiniteSet(Alive \cup {q})
      /\ Cardinality(Alive \cup {q}) <= Cardinality(Alive) + 1
      /\ Cardinality(Alive \cup {q}) \in Nat
  <2>1. /\ IsFiniteSet(Alive \cup {q})
        /\ Cardinality(Alive \cup {q}) =
             IF q \in Alive THEN Cardinality(Alive) ELSE Cardinality(Alive) + 1
    BY <1>2, FS_AddElement
  <2>2. QED
    BY <1>2, <2>1
<1>4. Cardinality(Alive') <= Cardinality(Alive \cup {q}) /\ IsFiniteSet(Alive')
  BY <1>1, <1>3, FS_Subset
<1>5. Cardinality(Alive') \in Nat
  BY <1>4, FS_CardinalityType
<1>6. Count(QuoteKeys) = Cardinality(Alive) /\ Count(QuoteKeys)' = Cardinality(Alive')
  BY DEF Count, Alive
<1>7. QED
  BY <1>2, <1>3, <1>4, <1>5, <1>6, KVAssumption DEF QuotaInv, QuoteQuotaHolds, OnlySets

\* Inserting an entry, with whatever evictions, sets that key only.
LEMMA PutSetsOne ==
  ASSUME DataOK, NEW k \in Keys, NEW e \in Entries, Put(k, e)
  PROVE  /\ OnlySets({k})
         /\ \A x \in Keys \ {k} : data'[x] \in {data[x], NoEntry}
         /\ data'[k] \in {e, data[k], NoEntry}
<1> DEFINE rest == Without({k})
           n == IF Enough(k, e.size) = {} THEN Len(rest) ELSE Min(Enough(k, e.size))
           victims == Oldest(rest, n)
           kept == [x \in Keys |-> IF x \in victims THEN NoEntry ELSE data[x]]
<1>1. kept \in [Keys -> Entries \cup {NoEntry}]
  BY DEF DataOK
<1>2. data' = kept \/ data' = [kept EXCEPT ![k] = e]
  BY DEF Put
<1>3. \A x \in Keys : kept[x] \in {data[x], NoEntry}
  OBVIOUS
<1>4. QED
  BY <1>1, <1>2, <1>3 DEF OnlySets, DataOK

\* A deletion sets none.
LEMMA RemoveSetsNone ==
  ASSUME DataOK, NEW k \in Keys, Remove(k)
  PROVE  /\ OnlySets({})
         /\ \A x \in Keys : data'[x] \in {data[x], NoEntry}
  BY DEF Remove, OnlySets, DataOK

\* Set asks for the quota before it adds a quote.
LEMMA SetKeepsQuota ==
  ASSUME QuotaInv, NEW k \in QuoteKeys \cup SystemKeys, NEW size \in Sizes, NEW ttl \in Nat,
         Set(k, size, ttl)
  PROVE  QuotaInv'
<1> DEFINE e == [value |-> 0, size |-> size, mortal |-> ttl > 0, left |-> ttl]
<1>1. e \in Entries /\ k \in Keys
  BY KVAssumption DEF Entries, Keys
<1>2. OnlySets({k})
  BY <1>1, PutSetsOne DEF Set, QuotaInv
<1>3. CASE k \in QuoteKeys
  BY <1>2, <1>3, OneNewQuote DEF Set, HasQuota
<1>4. CASE k \in SystemKeys
  BY <1>2, <1>4, NoNewQuote, KVAssumption
<1>5. QED
  BY <1>3, <1>4

\* A counter is no quote.
LEMMA IncrementKeepsQuota ==
  ASSUME QuotaInv, NEW k \in RateKeys, IncrementRateLimit(k)
  PROVE  QuotaInv'
<1> DEFINE e == [value |-> NextCount(k), size |-> 1, mortal |-> TRUE, left |-> RateTTL]
<1>1. k \in Keys /\ data[k] \in Entries \cup {NoEntry}
  BY DEF Keys, QuotaInv, DataOK
<1>2. data[k].value \in 0..MaxCount
  BY <1>1, KVAssumption DEF IncrementRateLimit, Entries, NoEntry
<1>3. NextCount(k) \in 0..MaxCount + 1
  BY <1>2, KVAssumption DEF NextCount
<1>4. e \in Entries
  BY <1>3, KVAssumption DEF Entries
<1>5. OnlySets({k})
  BY <1>1, <1>4, PutSetsOne DEF IncrementRateLimit, QuotaInv
<1>6. QED
  BY <1>5, NoNewQuote, KVAssumption

\* Every operation of the store keeps the quota.
LEMMA NextQuotaInv == QuotaInv /\ [Next]_kvVars => QuotaInv'
<1> SUFFICES ASSUME QuotaInv, [Next]_kvVars PROVE QuotaInv'
  OBVIOUS
<1>0. DataOK
  BY DEF QuotaInv
<1>1. ASSUME NEW k \in Keys, Get(k) PROVE QuotaInv'
  <2>1. CASE Remove(k)
    BY <2>1, <1>0, RemoveSetsNone, NoNewQuote
  <2>2. CASE UNCHANGED data
    BY <2>2 DEF QuotaInv, DataOK, QuoteQuotaHolds, Count
  <2>3. QED
    BY <1>1, <2>1, <2>2 DEF Get
<1>2. ASSUME NEW k \in Keys, Delete(k) PROVE QuotaInv'
  BY <1>0, <1>2, RemoveSetsNone, NoNewQuote DEF Delete
<1>3. ASSUME NEW k \in QuoteKeys, NEW size \in Sizes, NEW ttl \in Lifetimes, Set(k, size, ttl)
      PROVE  QuotaInv'
  BY <1>3, SetKeepsQuota, KVAssumption
<1>4. ASSUME NEW k \in SystemKeys, NEW size \in Sizes, Set(k, size, 0) PROVE QuotaInv'
  BY <1>4, SetKeepsQuota
<1>5. ASSUME NEW k \in RateKeys, IncrementRateLimit(k) PROVE QuotaInv'
  BY <1>5, IncrementKeepsQuota
<1>6. CASE Cleanup
  <2>1. OnlySets({})
    BY <1>0, <1>6 DEF Cleanup, OnlySets, DataOK
  <2>2. QED
    BY <2>1, NoNewQuote
<1>7. CASE Tick
  <2>1. DataOK'
    BY <1>0, <1>7, Ageing DEF Tick, DataOK
  <2>2. OnlySets({})
    BY <2>1, <1>7 DEF Tick, OnlySets
  <2>3. QED
    BY <2>2, NoNewQuote
<1>8. CASE UNCHANGED kvVars
  BY <1>8 DEF kvVars, QuotaInv, DataOK, QuoteQuotaHolds, Count
<1>9. QED
  BY <1>1, <1>2, <1>3, <1>4, <1>5, <1>6, <1>7, <1>8 DEF Next

\* The empty store is within its quota.
LEMMA InitQuotaInv == Init => QuotaInv
<1> SUFFICES ASSUME Init PROVE QuotaInv
  OBVIOUS
<1>1. DataOK
  BY DEF Init, DataOK
<1>2. {k \in QuoteKeys : Counted(data[k])} = {}
  BY DEF Init, Counted, Keys
<1>3. QED
  BY <1>1, <1>2, FS_EmptySet, KVAssumption DEF QuotaInv, QuoteQuotaHolds, Count

\* No more quotes are alive than the quota allows, for any quota, whatever
\* is evicted, expires, is cleaned up or replaced.
THEOREM QuoteQuotaAlwaysHolds == Spec => []QuoteQuotaHolds
<1>1. QuotaInv => QuoteQuotaHolds
  BY DEF QuotaInv
<1>2. QED
  BY <1>1, InitQuotaInv, NextQuotaInv, PTL DEF Spec

-----------------------------------------------------------------------------
(* The list and the byte count                                             *)

\* What is left of the first n nodes: the nodes at the positions p, in order.
IsRest(r, p, ks, n) ==
  /\ r \in Seq(Keys) /\ p \in [1..Len(r) -> 1..n]
  /\ \A i \in 1..Len(r) : r[i] = lru[p[i]] /\ r[i] \notin ks
  /\ \A i, j \in 1..Len(r) : i < j => p[i] < p[j]
  /\ \A a \in 1..n : lru[a] \notin ks => \E i \in 1..Len(r) : p[i] = a

IsWithout(g, ks, n) ==
  g = [m \in 0..n |->
         IF m = 0 THEN <<>>
         ELSE IF lru[m] \in ks THEN g[m - 1] ELSE Append(g[m - 1], lru[m])]

\* The recursive function that drops ks from the list exists.
LEMMA WithoutExists ==
  ASSUME NEW ks, lru \in Seq(Keys)
  PROVE  \E g : IsWithout(g, ks, Len(lru))
<1> DEFINE I == {n \in Nat : \E g : IsWithout(g, ks, n)}
<1>1. 0 \in I
  <2>1. IsWithout([m \in 0..0 |-> <<>>], ks, 0)
    BY DEF IsWithout
  <2>2. QED
    BY <2>1
<1>2. ASSUME NEW n \in Nat, n \in I PROVE n + 1 \in I
  <2>1. PICK g : IsWithout(g, ks, n)
    BY <1>2
  <2> DEFINE h == [m \in 0..n + 1 |->
                     IF m = 0 THEN <<>>
                     ELSE IF lru[m] \in ks THEN g[m - 1] ELSE Append(g[m - 1], lru[m])]
  <2>0. \A m \in 0..n :
          g[m] = IF m = 0 THEN <<>>
                 ELSE IF lru[m] \in ks THEN g[m - 1] ELSE Append(g[m - 1], lru[m])
    BY <2>1, Zenon DEF IsWithout
  <2>2. ASSUME NEW m \in 0..n PROVE h[m] = g[m]
    <3>1. m \in 0..n + 1
      OBVIOUS
    <3>2. QED
      BY <2>0, <3>1
  <2>3. ASSUME NEW m \in 0..n + 1, m # 0 PROVE h[m - 1] = g[m - 1]
    <3>1. m - 1 \in 0..n
      BY <2>3
    <3> HIDE DEF h
    <3>2. QED
      BY <2>2, <3>1
  <2>4. h = [m \in 0..n + 1 |->
               IF m = 0 THEN <<>>
               ELSE IF lru[m] \in ks THEN h[m - 1] ELSE Append(h[m - 1], lru[m])]
    BY <2>3
  <2>5. IsWithout(h, ks, n + 1)
    <3> HIDE DEF h
    <3> QED
      BY <2>4 DEF IsWithout
  <2>6. QED
    BY <2>5
<1>3. Nat \subseteq I
  <2> HIDE DEF I
  <2> QED
    BY <1>1, <1>2, NatSetInduction
<1>4. QED
  BY <1>3

\* What it returns is the list at ascending places, those of the other keys.
LEMMA WithoutIsRest ==
  ASSUME NEW ks, lru \in Seq(Keys)
  PROVE  \E p : IsRest(Without(ks), p, ks, Len(lru))
<1> DEFINE g == CHOOSE g : IsWithout(g, ks, Len(lru))
<1>1. IsWithout(g, ks, Len(lru)) /\ Without(ks) = g[Len(lru)]
  BY WithoutExists DEF Without, IsWithout
<1> HIDE DEF g
<1> DEFINE I == {n \in Nat : n <= Len(lru) => \E p : IsRest(g[n], p, ks, n)}
<1>2. 0 \in I
  <2>1. g[0] = <<>>
    BY <1>1 DEF IsWithout
  <2>2. IsRest(<<>>, <<>>, ks, 0)
    BY DEF IsRest
  <2>3. QED
    BY <2>1, <2>2
<1>3. ASSUME NEW n \in Nat, n \in I PROVE n + 1 \in I
  <2> SUFFICES ASSUME n + 1 <= Len(lru) PROVE \E q : IsRest(g[n + 1], q, ks, n + 1)
    OBVIOUS
  <2>1. PICK p : IsRest(g[n], p, ks, n)
    BY <1>3
  <2> DEFINE k == lru[n + 1]
             r == g[n]
  <2>2. g[n + 1] = IF k \in ks THEN r ELSE Append(r, k)
    <3>1. \A m \in 0..Len(lru) :
            g[m] = IF m = 0 THEN <<>>
                   ELSE IF lru[m] \in ks THEN g[m - 1] ELSE Append(g[m - 1], lru[m])
      BY <1>1, Zenon DEF IsWithout
    <3>2. n + 1 \in 0..Len(lru) /\ n + 1 # 0 /\ (n + 1) - 1 = n
      OBVIOUS
    <3>3. QED
      BY <3>1, <3>2
  <2>3. k \in Keys
    OBVIOUS
  <2> HIDE DEF r
  <2>4. CASE k \in ks
    <3>1. IsRest(r, p, ks, n + 1)
      BY <2>1, <2>4 DEF IsRest, r
    <3>2. QED
      BY <2>2, <2>4, <3>1
  <2>5. CASE k \notin ks
    <3> DEFINE q == [i \in 1..Len(r) + 1 |-> IF i = Len(r) + 1 THEN n + 1 ELSE p[i]]
               s == Append(r, k)
    <3>1. r \in Seq(Keys) /\ p \in [1..Len(r) -> 1..n]
      BY <2>1 DEF IsRest, r
    <3>2. /\ s \in Seq(Keys) /\ Len(s) = Len(r) + 1 /\ Len(r) \in Nat
          /\ \A i \in 1..Len(r) : s[i] = r[i]
          /\ s[Len(r) + 1] = k
      BY <2>3, <3>1
    <3> HIDE DEF s
    <3>3. IsRest(s, q, ks, n + 1)
      <4>1. q \in [1..Len(s) -> 1..n + 1]
        BY <3>1, <3>2
      <4>2. ASSUME NEW i \in 1..Len(s) PROVE s[i] = lru[q[i]] /\ s[i] \notin ks
        <5>1. CASE i \in 1..Len(r)
          <6>1. r[i] = lru[p[i]] /\ r[i] \notin ks
            BY <2>1, <5>1 DEF IsRest, r
          <6>2. q[i] = p[i] /\ s[i] = r[i]
            BY <3>2, <5>1
          <6>3. QED
            BY <6>1, <6>2
        <5>2. CASE i = Len(r) + 1
          <6>1. q[i] = n + 1
            BY <3>2, <5>2
          <6>2. QED
            BY <2>5, <3>2, <5>2, <6>1
        <5>3. QED
          BY <3>2, <5>1, <5>2
      <4>3. ASSUME NEW i \in 1..Len(s), NEW j \in 1..Len(s), i < j PROVE q[i] < q[j]
        <5>1. i \in 1..Len(r) /\ q[i] = p[i] /\ p[i] \in 1..n
          BY <3>1, <3>2, <4>3
        <5>2. CASE j \in 1..Len(r)
          <6>1. p[i] < p[j]
            BY <2>1, <4>3, <5>1, <5>2 DEF IsRest, r
          <6>2. QED
            BY <3>2, <5>1, <5>2, <6>1
        <5>3. CASE j = Len(r) + 1
          BY <3>2, <5>1, <5>3
        <5>4. QED
          BY <3>2, <5>2, <5>3
      <4>4. ASSUME NEW a \in 1..n + 1, lru[a] \notin ks PROVE \E i \in 1..Len(s) : q[i] = a
        <5>1. CASE a = n + 1
          BY <3>2, <5>1
        <5>2. CASE a \in 1..n
          BY <2>1, <3>1, <3>2, <4>4, <5>2 DEF IsRest, r
        <5>3. QED
          BY <5>1, <5>2
      <4>5. QED
        BY <3>2, <4>1, <4>2, <4>3, <4>4 DEF IsRest
    <3>4. QED
      BY <2>2, <2>5, <3>3 DEF s
  <2>6. QED
    BY <2>4, <2>5
<1>4. Nat \subseteq I
  <2> HIDE DEF I
  <2> QED
    BY <1>2, <1>3, NatSetInduction
<1>5. QED
  BY <1>1, <1>4

Distinct(list) == \A i, j \in 1..Len(list) : list[i] = list[j] => i = j
Members(list) == {list[i] : i \in 1..Len(list)}

\* Nothing but the keys asked for leaves the list, and nothing comes twice.
LEMMA WithoutFacts ==
  ASSUME NEW ks, lru \in Seq(Keys), Distinct(lru)
  PROVE  /\ Without(ks) \in Seq(Keys)
         /\ Distinct(Without(ks))
         /\ Members(Without(ks)) = Members(lru) \ ks
<1> DEFINE r == Without(ks)
<1>1. PICK p : IsRest(r, p, ks, Len(lru))
  BY WithoutIsRest
<1> HIDE DEF r
<1>2. r \in Seq(Keys) /\ p \in [1..Len(r) -> 1..Len(lru)]
  BY <1>1 DEF IsRest
<1>3. Distinct(r)
  <2> SUFFICES ASSUME NEW i \in 1..Len(r), NEW j \in 1..Len(r), r[i] = r[j], i # j PROVE FALSE
    BY DEF Distinct
  <2>1. p[i] = p[j]
    <3>1. p[i] \in 1..Len(lru) /\ p[j] \in 1..Len(lru)
      BY <1>2
    <3>2. r[i] = lru[p[i]] /\ r[j] = lru[p[j]]
      BY <1>1 DEF IsRest
    <3>3. QED
      BY <3>1, <3>2 DEF Distinct
  <2>2. i < j \/ j < i
    BY <1>2
  <2>3. p[i] < p[j] \/ p[j] < p[i]
    BY <1>1, <2>2 DEF IsRest
  <2>4. QED
    BY <1>2, <2>1, <2>3
<1>4. Members(r) \subseteq Members(lru) \ ks
  BY <1>1, <1>2 DEF IsRest, Members
<1>5. ASSUME NEW k \in Members(lru) \ ks PROVE k \in Members(r)
  <2>1. PICK a \in 1..Len(lru) : lru[a] = k
    BY DEF Members
  <2>2. PICK i \in 1..Len(r) : p[i] = a
    BY <1>1, <2>1 DEF IsRest
  <2>3. QED
    BY <1>1, <2>1, <2>2 DEF IsRest, Members
<1>6. QED
  BY <1>2, <1>3, <1>4, <1>5 DEF r

\* Every entry alone fits into the memory, as with the defaults of
\* NewMemoryStore: 1 MB against 512 MB.
EntriesFit == \A size \in Sizes : size <= MaxBytes

\* The list, the map and the byte count agree.
KVInv ==
  /\ DataOK
  /\ lru \in Seq(Keys) /\ Distinct(lru)
  /\ Members(lru) = Stored
  /\ bytes = SizeOf(Stored)

SizeFcn == [k \in Keys |-> data[k].size]

\* Sizes are natural numbers, of single entries and of sets of them.
LEMMA SizeFacts ==
  ASSUME DataOK
  PROVE  /\ \A k \in Keys : SizeFcn[k] \in Nat /\ data[k].size \in Nat
         /\ \A k \in Keys : Has(k) => data[k] \in Entries
         /\ \A ks \in SUBSET Keys : IsFiniteSet(ks) /\ SizeOf(ks) \in Nat
<1>1. \A k \in Keys : SizeFcn[k] \in Nat /\ data[k].size \in Nat
  <2> SUFFICES ASSUME NEW k \in Keys PROVE data[k].size \in Nat
    BY DEF SizeFcn
  <2>1. data[k] \in Entries \cup {NoEntry}
    BY DEF DataOK
  <2>2. CASE data[k] \in Entries
    BY <2>2, KVAssumption DEF Entries
  <2>3. CASE data[k] = NoEntry
    BY <2>3 DEF NoEntry
  <2>4. QED
    BY <2>1, <2>2, <2>3
<1>2. \A k \in Keys : Has(k) => data[k] \in Entries
  BY DEF DataOK, Has
<1>3. ASSUME NEW ks \in SUBSET Keys PROVE IsFiniteSet(ks) /\ SizeOf(ks) \in Nat
  <2>1. IsFiniteSet(ks)
    BY KVAssumption, FS_Subset
  <2>2. SumFunctionOnSet(SizeFcn, ks) \in Nat
    BY <1>1, <2>1, SumNat
  <2>3. QED
    BY <2>1, <2>2 DEF SizeOf, SizeFcn
<1>4. QED
  BY <1>1, <1>2, <1>3

\* What SizeOf returns, for keys added, taken away and put together.
LEMMA SizeOfRemove ==
  ASSUME DataOK, NEW ks \in SUBSET Keys, NEW k \in ks
  PROVE  SizeOf(ks) = data[k].size + SizeOf(ks \ {k})
<1>1. SumFunctionOnSet(SizeFcn, ks) = SizeFcn[k] + SumFunctionOnSet(SizeFcn, ks \ {k})
  BY SizeFacts, SumRemove
<1>2. QED
  BY <1>1 DEF SizeOf, SizeFcn

\* The size of a set is that of a part and that of the rest.
LEMMA SizeOfSplit ==
  ASSUME DataOK, NEW ks \in SUBSET Keys, NEW part \in SUBSET ks
  PROVE  SizeOf(ks) = SizeOf(part) + SizeOf(ks \ part)
<1>1. SumFunctionOnSet(SizeFcn, ks) =
        SumFunctionOnSet(SizeFcn, part) + SumFunctionOnSet(SizeFcn, ks \ part)
  BY SizeFacts, SumSplit
<1>2. QED
  BY <1>1 DEF SizeOf, SizeFcn

\* A set whose entries keep their sizes keeps its size.
LEMMA SizeOfSame ==
  ASSUME DataOK, NEW ks \in SUBSET Keys, \A k \in ks : data'[k].size = data[k].size
  PROVE  SizeOf(ks)' = SizeOf(ks)
<1>1. SizeFcn' = [k \in Keys |-> data'[k].size]
  BY DEF SizeFcn
<1>2. \A k \in ks : SizeFcn[k] \in Int /\ SizeFcn[k] = SizeFcn'[k]
  BY <1>1, SizeFacts DEF SizeFcn
<1>3. SumFunctionOnSet(SizeFcn, ks) = SumFunctionOnSet(SizeFcn', ks)
  BY <1>2, SizeFacts, SumSame
<1>4. SizeOf(ks) = SumFunctionOnSet(SizeFcn, ks)
  BY DEF SizeOf, SizeFcn
<1>5. SizeOf(ks)' = SumFunctionOnSet(SizeFcn', ks)
  BY <1>1 DEF SizeOf
<1>6. QED
  BY <1>3, <1>4, <1>5

\* The length of a list without repetitions is the number of its members.
LEMMA DistinctLength ==
  ASSUME NEW list \in Seq(Keys), Distinct(list)
  PROVE  Len(list) = Cardinality(Members(list))
<1> DEFINE S == 1..Len(list)
<1>1. IsFiniteSet(S) /\ Cardinality(S) = Len(list)
  <2>1. Len(list) \in Nat
    OBVIOUS
  <2>2. IsFiniteSet(S) /\ Cardinality(S) = IF 1 > Len(list) THEN 0 ELSE Len(list) - 1 + 1
    BY <2>1, FS_Interval
  <2>3. QED
    BY <2>1, <2>2
<1>2. list \in Bijection(S, Members(list))
  BY DEF Distinct, Members, Bijection, Injection, Surjection, IsInjective
<1>3. QED
  BY <1>1, <1>2, FS_Bijection DEF ExistsBijection

\* The oldest n members of a list, and the others.
LEMMA OldestFacts ==
  ASSUME NEW list \in Seq(Keys), NEW n \in 0..Len(list)
  PROVE  /\ Oldest(list, n) \in SUBSET Keys
         /\ Oldest(list, n) \subseteq Members(list)
         /\ SubSeq(list, 1, Len(list) - n) \in Seq(Keys)
         /\ Distinct(list) =>
              /\ Distinct(SubSeq(list, 1, Len(list) - n))
              /\ Members(SubSeq(list, 1, Len(list) - n)) = Members(list) \ Oldest(list, n)
<1> DEFINE front == SubSeq(list, 1, Len(list) - n)
<1>1. /\ Len(list) - n \in Nat
      /\ front \in Seq(Keys)
      /\ Len(front) = Len(list) - n
      /\ \A i \in 1..Len(list) - n : front[i] = list[i]
  OBVIOUS
<1>2. \A i \in 1..Len(list) : list[i] \in Keys
  OBVIOUS
<1>3. Oldest(list, n) \subseteq Members(list)
  BY DEF Oldest, Members
<1>4. Members(list) \subseteq Keys
  BY <1>2 DEF Members
<1>5. ASSUME Distinct(list)
      PROVE  Distinct(front) /\ Members(front) = Members(list) \ Oldest(list, n)
  <2> HIDE DEF front
  <2>1. Distinct(front)
    BY <1>1, <1>5 DEF Distinct
  <2>2. Members(front) = {list[i] : i \in 1..Len(list) - n}
    BY <1>1 DEF Members
  <2>3. \A i \in 1..Len(list) : i \in 1..Len(list) - n \/ i \in Len(list) - n + 1..Len(list)
    BY <1>1
  <2>4. \A i \in 1..Len(list) - n, j \in Len(list) - n + 1..Len(list) : list[i] # list[j]
    BY <1>1, <1>5 DEF Distinct
  <2>5. Oldest(list, n) = {list[i] : i \in Len(list) - n + 1..Len(list)}
    BY DEF Oldest
  <2>6. \A i \in 1..Len(list) - n : i \in 1..Len(list)
    BY <1>1
  <2>7. Members(front) \subseteq Members(list) \ Oldest(list, n)
    BY <2>2, <2>4, <2>5, <2>6 DEF Members
  <2>8. Members(list) \ Oldest(list, n) \subseteq Members(front)
    BY <2>2, <2>3, <2>5 DEF Members
  <2>9. QED
    BY <2>1, <2>7, <2>8
<1>6. QED
  BY <1>1, <1>3, <1>4, <1>5

\* An entry takes some memory, which tells it from none.
LEMMA EntrySize ==
  ASSUME NEW e \in Entries
  PROVE  e.size \in Sizes /\ e.size \in Nat \ {0} /\ e # NoEntry
<1>1. e.size \in Sizes
  BY DEF Entries
<1>2. e.size \in Nat \ {0}
  BY <1>1, KVAssumption
<1>3. NoEntry.size = 0
  BY DEF NoEntry
<1>4. QED
  BY <1>1, <1>2, <1>3

\* A list without some keys is a list of keys.
LEMMA WithoutSeq ==
  ASSUME NEW ks, lru \in Seq(Keys)
  PROVE  Without(ks) \in Seq(Keys)
  BY WithoutIsRest DEF IsRest

\* The least n that leaves room, if any does.
LEMMA EnoughLeast ==
  ASSUME NEW k, NEW size, Enough(k, size) # {}, lru \in Seq(Keys)
  PROVE  /\ Min(Enough(k, size)) \in Enough(k, size)
         /\ \A m \in Enough(k, size) : Min(Enough(k, size)) <= m
         /\ Min(Enough(k, size)) \in 0..Len(Without({k}))
<1>1. Len(Without({k})) \in Nat
  BY WithoutSeq
<1>2. Enough(k, size) \subseteq 0..Len(Without({k})) /\ Enough(k, size) \in SUBSET Nat
  BY <1>1 DEF Enough
<1>3. \E n \in Enough(k, size) : \A m \in Enough(k, size) : n <= m
  BY <1>2, LeastNat
<1>4. QED
  BY <1>2, <1>3 DEF Min

\* What inserting an entry does to the list and the byte count, whether or
\* not there is enough room.
LEMMA PutBounded ==
  ASSUME DataOK, lru \in Seq(Keys), bytes \in Int, NEW k \in Keys, NEW e \in Entries, Put(k, e)
  PROVE  /\ lru' \in Seq(Keys)
         /\ bytes' \in Int
         /\ bytes <= MaxBytes => bytes' <= MaxBytes
<1> DEFINE rest == Without({k})
           enough == Enough(k, e.size)
           n == IF enough = {} THEN Len(rest) ELSE Min(enough)
           victims == Oldest(rest, n)
           used == Freed(k) - SizeOf(victims)
<1>1. rest \in Seq(Keys) /\ Len(rest) \in Nat
  BY WithoutSeq
<1>2. n \in 0..Len(rest)
  BY <1>1, EnoughLeast
<1>3. SizeOf(victims) \in Nat
  <2> HIDE DEF rest, n
  <2>1. victims \in SUBSET Keys
    BY <1>1, <1>2, OldestFacts
  <2>2. QED
    BY <2>1, SizeFacts
<1>4. Freed(k) \in Int /\ Freed(k) <= bytes
  <2>1. data[k].size \in Nat
    BY SizeFacts
  <2>2. QED
    BY <2>1 DEF Freed
<1>5. used \in Int /\ used <= bytes
  BY <1>3, <1>4
<1>6. e.size \in Int
  BY EntrySize
<1>7. CASE enough = {}
  <2>1. lru' = <<>> /\ bytes' = used
    BY <1>7 DEF Put
  <2>2. QED
    BY <1>5, <2>1, KVAssumption
<1>8. CASE enough # {}
  <2>1. bytes' = used + e.size /\ lru' = <<k>> \o SubSeq(rest, 1, Len(rest) - n)
    BY <1>8 DEF Put
  <2>2. n \in enough
    BY <1>8, EnoughLeast
  <2>3. used + e.size <= MaxBytes
    BY <2>2 DEF Enough
  <2>4. SubSeq(rest, 1, Len(rest) - n) \in Seq(Keys)
    <3> HIDE DEF rest, n
    <3> QED
      BY <1>1, <1>2, OldestFacts
  <2>5. QED
    <3> HIDE DEF used, rest, n
    <3> QED
      BY <1>5, <1>6, <2>1, <2>3, <2>4
<1>9. QED
  BY <1>7, <1>8

StoreInv == TypeOK /\ MemoryBound

\* A deletion returns what the entry took.
LEMMA RemoveBounded ==
  ASSUME StoreInv, NEW k \in Keys, Remove(k)
  PROVE  lru' \in Seq(Keys) /\ bytes' \in Int /\ bytes' <= MaxBytes
<1>1. data[k].size \in Nat
  BY SizeFacts DEF StoreInv, TypeOK, DataOK
<1>2. QED
  BY <1>1, WithoutSeq, KVAssumption DEF Remove, StoreInv, TypeOK, MemoryBound

\* Entries of counters always count something.
RatePositive == \A k \in RateKeys : data[k] # NoEntry => data[k].value > 0

\* Every step of the store keeps the types and the memory limit.
LEMMA NextStoreInv == StoreInv /\ [Next]_kvVars => StoreInv'
<1> SUFFICES ASSUME StoreInv, [Next]_kvVars PROVE StoreInv'
  OBVIOUS
<1>0. /\ DataOK /\ RatePositive /\ lru \in Seq(Keys) /\ bytes \in Int /\ bytes <= MaxBytes
      /\ RateKeys \subseteq Keys
  BY DEF StoreInv, TypeOK, MemoryBound, DataOK, RatePositive, Keys
<1>a. SUFFICES /\ DataOK' /\ RatePositive' /\ lru' \in Seq(Keys)
               /\ bytes' \in Int /\ bytes' <= MaxBytes
  BY DEF StoreInv, TypeOK, MemoryBound, DataOK, RatePositive
<1>1. ASSUME NEW k \in Keys, Remove(k)
      PROVE  /\ DataOK' /\ RatePositive' /\ lru' \in Seq(Keys)
             /\ bytes' \in Int /\ bytes' <= MaxBytes
  BY <1>0, <1>1, RemoveBounded, RemoveSetsNone DEF OnlySets, RatePositive
<1>2. ASSUME NEW k \in Keys, Get(k)
      PROVE  /\ DataOK' /\ RatePositive' /\ lru' \in Seq(Keys)
             /\ bytes' \in Int /\ bytes' <= MaxBytes
  <2>1. CASE UNCHANGED <<data, bytes>> /\ lru' = IF k \in Listed THEN <<k>> \o Without({k}) ELSE lru
    <3>1. Without({k}) \in Seq(Keys)
      BY <1>0, WithoutSeq
    <3>2. lru' \in Seq(Keys)
      BY <1>0, <2>1, <3>1
    <3>3. QED
      BY <1>0, <2>1, <3>2 DEF DataOK, RatePositive
  <2>2. QED
    BY <1>1, <1>2, <2>1 DEF Get
<1>3. ASSUME NEW k \in QuoteKeys \cup SystemKeys, NEW size \in Sizes, NEW ttl \in Nat,
             Set(k, size, ttl)
      PROVE  /\ DataOK' /\ RatePositive' /\ lru' \in Seq(Keys)
             /\ bytes' \in Int /\ bytes' <= MaxBytes
  <2> DEFINE e == [value |-> 0, size |-> size, mortal |-> ttl > 0, left |-> ttl]
  <2>1. e \in Entries /\ k \in Keys /\ k \notin RateKeys
    BY KVAssumption DEF Entries, Keys
  <2>2. Put(k, e)
    BY <1>3 DEF Set
  <2>3. DataOK' /\ \A x \in RateKeys : data'[x] \in {data[x], NoEntry}
    BY <1>0, <2>1, <2>2, PutSetsOne DEF OnlySets
  <2>4. lru' \in Seq(Keys) /\ bytes' \in Int /\ bytes' <= MaxBytes
    BY <1>0, <2>1, <2>2, PutBounded
  <2>5. QED
    BY <1>0, <2>3, <2>4 DEF RatePositive
<1>4. ASSUME NEW k \in RateKeys, IncrementRateLimit(k)
      PROVE  /\ DataOK' /\ RatePositive' /\ lru' \in Seq(Keys)
             /\ bytes' \in Int /\ bytes' <= MaxBytes
  <2> DEFINE e == [value |-> NextCount(k), size |-> 1, mortal |-> TRUE, left |-> RateTTL]
  <2>1. data[k] \in Entries \cup {NoEntry}
    BY <1>0 DEF DataOK
  <2>2. data[k].value \in 0..MaxCount
    BY <1>4, <2>1, KVAssumption DEF IncrementRateLimit, Entries, NoEntry
  <2>3. NextCount(k) \in 1..MaxCount + 1
    BY <2>2, KVAssumption DEF NextCount
  <2>4. e \in Entries /\ e.value > 0
    BY <2>3, KVAssumption DEF Entries
  <2>5. Put(k, e)
    BY <1>4 DEF IncrementRateLimit
  <2> HIDE DEF e
  <2>6. DataOK' /\ \A x \in RateKeys : data'[x] \in {data[x], NoEntry, e}
    BY <1>0, <2>4, <2>5, PutSetsOne DEF OnlySets
  <2>7. lru' \in Seq(Keys) /\ bytes' \in Int /\ bytes' <= MaxBytes
    BY <1>0, <2>4, <2>5, PutBounded
  <2>8. QED
    BY <1>0, <2>4, <2>6, <2>7 DEF RatePositive
<1>5. CASE Cleanup
  <2> DEFINE expired == {k \in Keys : Expired(data[k])}
  <2>1. SizeOf(expired) \in Nat
    BY <1>0, SizeFacts
  <2>2. bytes' = bytes - SizeOf(expired) /\ lru' = Without(expired)
    BY <1>5 DEF Cleanup
  <2>3. bytes' \in Int /\ bytes' <= MaxBytes /\ lru' \in Seq(Keys)
    <3> HIDE DEF expired
    <3> QED
      BY <1>0, <2>1, <2>2, WithoutSeq, KVAssumption
  <2>4. QED
    BY <1>0, <1>5, <2>3 DEF Cleanup, DataOK, RatePositive
<1>6. CASE Tick
  <2>1. DataOK'
    BY <1>0, <1>6, Ageing DEF Tick, DataOK
  <2>2. ASSUME NEW k \in RateKeys, data'[k] # NoEntry PROVE data'[k].value > 0
    <3>1. data'[k] = Older(data[k]) /\ data[k] \in Entries \cup {NoEntry}
      BY <1>0, <1>6 DEF Tick, DataOK
    <3>2. Older(NoEntry) = NoEntry
      BY DEF Older, NoEntry
    <3>3. data[k] # NoEntry /\ data[k] \in Entries
      BY <2>2, <3>1, <3>2
    <3>4. Older(data[k]).value = data[k].value
      BY <3>3 DEF Older, Entries
    <3>5. QED
      BY <1>0, <3>1, <3>3, <3>4 DEF RatePositive
  <2>3. QED
    BY <1>0, <1>6, <2>1, <2>2 DEF Tick, RatePositive
<1>7. CASE UNCHANGED kvVars
  BY <1>0, <1>7 DEF kvVars, DataOK, RatePositive
<1>8. ASSUME NEW k \in Keys, Delete(k)
      PROVE  /\ DataOK' /\ RatePositive' /\ lru' \in Seq(Keys)
             /\ bytes' \in Int /\ bytes' <= MaxBytes
  BY <1>1, <1>8 DEF Delete
<1>9. QED
  BY <1>2, <1>3, <1>4, <1>5, <1>6, <1>7, <1>8, KVAssumption DEF Next

\* The empty store is typed and within its memory.
LEMMA InitStoreInv == Init => StoreInv
<1> SUFFICES ASSUME Init PROVE StoreInv
  OBVIOUS
<1>1. DataOK
  BY DEF Init, DataOK
<1>2. RatePositive
  BY DEF Init, RatePositive, Keys
<1>3. lru \in Seq(Keys) /\ bytes \in Int /\ bytes <= MaxBytes
  BY KVAssumption DEF Init
<1>4. QED
  BY <1>1, <1>2, <1>3 DEF StoreInv, TypeOK, MemoryBound, DataOK, RatePositive

\* The map, the list and the byte count of the store keep their types.
THEOREM StoreTypeCorrect == Spec => []TypeOK
<1>1. StoreInv => TypeOK
  BY DEF StoreInv
<1>2. QED
  BY <1>1, InitStoreInv, NextStoreInv, PTL DEF Spec

\* The byte count stays within the limit for entries of any size, also of
\* those that are too large to be stored.
THEOREM MemoryAlwaysBounded == Spec => []MemoryBound
<1>1. StoreInv => MemoryBound
  BY DEF StoreInv
<1>2. QED
  BY <1>1, InitStoreInv, NextStoreInv, PTL DEF Spec

\* The choice that Put makes when every entry fits: the list without the key
\* is that of the other stored keys, and the last n of them go.
LEMMA PutChoice ==
  ASSUME KVInv, EntriesFit, NEW k \in Keys, NEW size \in Sizes
  PROVE  /\ Without({k}) \in Seq(Keys) /\ Distinct(Without({k}))
         /\ Members(Without({k})) = Stored \ {k}
         /\ Freed(k) = SizeOf(Stored \ {k})
         /\ Enough(k, size) # {}
<1> DEFINE rest == Without({k})
           R == Stored \ {k}
<1>1. rest \in Seq(Keys) /\ Distinct(rest) /\ Members(rest) = R
  BY WithoutFacts DEF KVInv
<1>2. DataOK /\ bytes = SizeOf(Stored) /\ Stored \in SUBSET Keys
  BY DEF KVInv, Stored
<1>3. SizeOf(R) \in Nat /\ SizeOf(Stored) \in Nat /\ data[k].size \in Nat
  BY <1>2, SizeFacts
<1>4. Freed(k) = SizeOf(R)
  <2>1. CASE Has(k)
    <3>1. k \in Stored
      BY <2>1 DEF Stored
    <3>2. SizeOf(Stored) = data[k].size + SizeOf(R)
      BY <1>2, <3>1, SizeOfRemove
    <3>3. QED
      BY <1>2, <1>3, <2>1, <3>2 DEF Freed
  <2>2. CASE ~Has(k)
    <3>1. R = Stored
      BY <2>2 DEF Stored
    <3>2. QED
      BY <1>2, <2>2, <3>1 DEF Freed
  <2>3. QED
    BY <2>1, <2>2
<1>5. Oldest(rest, Len(rest)) = R
  <2> HIDE DEF rest
  <2>1. Len(rest) - Len(rest) + 1 = 1
    BY <1>1
  <2>2. QED
    BY <1>1, <2>1 DEF Oldest, Members
<1>6. Len(rest) \in Enough(k, size)
  <2>1. Len(rest) \in 0..Len(rest)
    BY <1>1
  <2>2. Freed(k) - SizeOf(Oldest(rest, Len(rest))) + size <= MaxBytes
    <3>1. size \in Nat /\ size <= MaxBytes
      BY KVAssumption DEF EntriesFit
    <3>2. Freed(k) - SizeOf(Oldest(rest, Len(rest))) = 0
      <4>1. Freed(k) - SizeOf(Oldest(rest, Len(rest))) = SizeOf(R) - SizeOf(R)
        BY <1>4, <1>5
      <4> HIDE DEF R
      <4>2. QED
        BY <1>3, <4>1
    <3> HIDE DEF rest
    <3>3. QED
      BY <3>1, <3>2
  <2>3. QED
    BY <2>1, <2>2 DEF Enough
<1>7. QED
  BY <1>1, <1>4, <1>6

\* A list with a new key at its front.
LEMMA PushFront ==
  ASSUME NEW list \in Seq(Keys), Distinct(list), NEW k \in Keys, k \notin Members(list)
  PROVE  /\ <<k>> \o list \in Seq(Keys)
         /\ Distinct(<<k>> \o list)
         /\ Members(<<k>> \o list) = {k} \cup Members(list)
<1> DEFINE new == <<k>> \o list
<1>1. /\ new \in Seq(Keys) /\ Len(new) = Len(list) + 1 /\ Len(list) \in Nat
      /\ new[1] = k
      /\ \A i \in 2..Len(new) : new[i] = list[i - 1]
  OBVIOUS
<1> HIDE DEF new
<1>2. \A i \in 1..Len(list) : new[i + 1] = list[i] /\ list[i] # k
  BY <1>1 DEF Members
<1>3. Distinct(new)
  <2> SUFFICES ASSUME NEW i \in 1..Len(new), NEW j \in 1..Len(new), new[i] = new[j]
               PROVE  i = j
    BY DEF Distinct
  <2>1. CASE i = 1 /\ j # 1
    <3>1. j - 1 \in 1..Len(list) /\ (j - 1) + 1 = j
      BY <1>1, <2>1
    <3>2. QED
      BY <1>1, <1>2, <2>1, <3>1
  <2>2. CASE j = 1 /\ i # 1
    <3>1. i - 1 \in 1..Len(list) /\ (i - 1) + 1 = i
      BY <1>1, <2>2
    <3>2. QED
      BY <1>1, <1>2, <2>2, <3>1
  <2>3. CASE i # 1 /\ j # 1
    <3>1. i - 1 \in 1..Len(list) /\ j - 1 \in 1..Len(list)
      BY <1>1, <2>3
    <3>2. list[i - 1] = list[j - 1]
      BY <1>1, <2>3
    <3>3. i - 1 = j - 1
      BY <3>1, <3>2 DEF Distinct
    <3>4. QED
      BY <3>3
  <2>4. QED
    BY <2>1, <2>2, <2>3
<1>4. Members(new) \subseteq {k} \cup Members(list)
  <2> SUFFICES ASSUME NEW i \in 1..Len(new), i # 1 PROVE new[i] \in Members(list)
    BY <1>1 DEF Members
  <2>1. i - 1 \in 1..Len(list) /\ new[i] = list[i - 1]
    BY <1>1
  <2>2. QED
    BY <2>1 DEF Members
<1>5. {k} \cup Members(list) \subseteq Members(new)
  <2>1. 1 \in 1..Len(new)
    BY <1>1
  <2>2. \A i \in 1..Len(list) : i + 1 \in 1..Len(new)
    BY <1>1
  <2>3. k \in Members(new)
    BY <1>1, <2>1 DEF Members
  <2>4. ASSUME NEW x \in Members(list) PROVE x \in Members(new)
    <3>1. PICK i \in 1..Len(list) : list[i] = x
      BY DEF Members
    <3>2. new[i + 1] = x
      BY <1>2, <3>1
    <3>3. QED
      BY <2>2, <3>2 DEF Members
  <2>5. QED
    BY <2>3, <2>4
<1>6. QED
  BY <1>1, <1>3, <1>4, <1>5 DEF new

\* The size stored after a step that changes no size of what is left.
LEMMA StoredSize ==
  ASSUME DataOK, NEW S \in SUBSET Keys, Stored' = S, \A k \in S : data'[k].size = data[k].size
  PROVE  SizeOf(Stored)' = SizeOf(S)
<1>1. SizeOf(S)' = SizeOf(S)
  BY SizeOfSame
<1>2. SizeOf(Stored)' = SizeOf(S)'
  BY DEF SizeOf
<1>3. QED
  BY <1>1, <1>2

\* A deletion keeps the three in agreement.
LEMMA RemoveKeepsKVInv ==
  ASSUME KVInv, NEW k \in Keys, Has(k), Remove(k)
  PROVE  KVInv'
<1>1. DataOK /\ lru \in Seq(Keys) /\ Distinct(lru) /\ Members(lru) = Stored /\ bytes = SizeOf(Stored)
  BY DEF KVInv
<1>2. DataOK' /\ data' = [data EXCEPT ![k] = NoEntry]
  BY <1>1, RemoveSetsNone DEF OnlySets, Remove
<1>3. \A x \in Keys : data'[x] = IF x = k THEN NoEntry ELSE data[x]
  BY <1>1, <1>2 DEF DataOK
<1>4. Stored' = Stored \ {k}
  BY <1>3 DEF Stored, Has
<1>5. lru' \in Seq(Keys) /\ Distinct(lru') /\ Members(lru') = Stored'
  <2>1. lru' = Without({k})
    BY DEF Remove
  <2>2. QED
    BY <1>1, <1>4, <2>1, WithoutFacts
<1>6. bytes' = SizeOf(Stored \ {k})
  <2>1. Stored \in SUBSET Keys /\ k \in Stored
    BY DEF Stored
  <2>2. SizeOf(Stored) = data[k].size + SizeOf(Stored \ {k})
    BY <1>1, <2>1, SizeOfRemove
  <2>3. data[k].size \in Nat /\ SizeOf(Stored \ {k}) \in Nat
    BY <1>1, <2>1, SizeFacts
  <2>4. bytes' = bytes - data[k].size
    BY DEF Remove
  <2>5. QED
    BY <1>1, <2>2, <2>3, <2>4
<1>7. PICK S : S = Stored \ {k}
  OBVIOUS
<1>8. S \in SUBSET Keys /\ Stored' = S /\ \A x \in S : data'[x] = data[x]
  BY <1>3, <1>4, <1>7 DEF Stored
<1>9. SizeOf(Stored)' = SizeOf(S)
  BY <1>1, <1>8, StoredSize
<1>10. QED
  BY <1>2, <1>5, <1>6, <1>7, <1>9 DEF KVInv

\* So does an insertion, with what it evicts.
LEMMA PutKeepsKVInv ==
  ASSUME KVInv, EntriesFit, NEW k \in Keys, NEW e \in Entries, Put(k, e)
  PROVE  KVInv'
<1> DEFINE rest == Without({k})
           n == Min(Enough(k, e.size))
           victims == Oldest(rest, n)
           front == SubSeq(rest, 1, Len(rest) - n)
           others == Stored \ {k}
           kept == [x \in Keys |-> IF x \in victims THEN NoEntry ELSE data[x]]
<1>1. DataOK /\ e.size \in Sizes /\ e.size \in Nat \ {0} /\ e # NoEntry /\ lru \in Seq(Keys)
  BY EntrySize DEF KVInv
<1>2. /\ rest \in Seq(Keys) /\ Distinct(rest) /\ Members(rest) = others
      /\ Freed(k) = SizeOf(others) /\ Enough(k, e.size) # {}
  BY <1>1, PutChoice
<1>3. n \in 0..Len(rest)
  BY <1>1, <1>2, EnoughLeast
<1>4. /\ data' = [kept EXCEPT ![k] = e]
      /\ lru' = <<k>> \o front
      /\ bytes' = Freed(k) - SizeOf(victims) + e.size
  BY <1>2 DEF Put
<1>5. /\ victims \in SUBSET Keys /\ victims \subseteq others
      /\ front \in Seq(Keys) /\ Distinct(front) /\ Members(front) = others \ victims
  <2> HIDE DEF rest, n
  <2> QED
    BY <1>2, <1>3, OldestFacts
<1>6. DataOK'
  BY <1>1, PutSetsOne DEF OnlySets
<1> HIDE DEF rest, n, victims
<1>7. \A x \in Keys : data'[x] = IF x = k THEN e ELSE IF x \in victims THEN NoEntry ELSE data[x]
  BY <1>4
<1>8. Stored' = {k} \cup (others \ victims)
  BY <1>1, <1>7 DEF Stored, Has
<1>9. lru' \in Seq(Keys) /\ Distinct(lru') /\ Members(lru') = Stored'
  <2>1. k \notin Members(front)
    BY <1>5
  <2> HIDE DEF front
  <2>2. QED
    BY <1>4, <1>5, <1>8, <2>1, PushFront
<1>10. PICK S : S = others \ victims
  OBVIOUS
<1>11. S \in SUBSET Keys /\ k \notin S /\ Stored' = {k} \cup S /\ others \in SUBSET Keys
  BY <1>8, <1>10 DEF Stored
<1>12. SizeOf(Stored)' = e.size + SizeOf(S)
  <2>1. PICK f : f = [x \in Keys |-> data'[x].size]
    OBVIOUS
  <2>2. SizeOf(Stored)' = SumFunctionOnSet(f, S \cup {k})
    BY <1>11, <2>1 DEF SizeOf
  <2>3. SizeOf(S)' = SumFunctionOnSet(f, S)
    BY <2>1 DEF SizeOf
  <2>4. \A x \in S : data'[x] = data[x]
    BY <1>7, <1>10, <1>11
  <2>5. SizeOf(S)' = SizeOf(S)
    BY <1>1, <1>11, <2>4, SizeOfSame
  <2>6. f[k] = e.size
    BY <1>7, <2>1
  <2>7. \A x \in S \cup {k} : f[x] \in Int
    BY <1>1, <1>11, <2>1, <2>4, <2>6, SizeFacts
  <2>8. SumFunctionOnSet(f, S \cup {k}) = f[k] + SumFunctionOnSet(f, S)
    BY <1>1, <1>11, <2>7, SizeFacts, SumAdd
  <2>9. QED
    BY <2>2, <2>3, <2>5, <2>6, <2>8
<1>13. SizeOf(others) = SizeOf(victims) + SizeOf(S)
  BY <1>1, <1>5, <1>10, <1>11, SizeOfSplit
<1>14. SizeOf(others) \in Nat /\ SizeOf(victims) \in Nat /\ SizeOf(S) \in Nat
  BY <1>1, <1>5, <1>11, SizeFacts
<1>15. bytes' = SizeOf(Stored)'
  BY <1>1, <1>2, <1>4, <1>12, <1>13, <1>14
<1>16. QED
  BY <1>6, <1>9, <1>15 DEF KVInv

\* A hit only moves a key of the list to its front.
LEMMA GetKeepsKVInv ==
  ASSUME KVInv, NEW k \in Keys, Get(k)
  PROVE  KVInv'
<1>1. CASE Remove(k)
  BY <1>1, RemoveKeepsKVInv DEF Get
<1>2. CASE UNCHANGED <<data, bytes>> /\ lru' = IF k \in Listed THEN <<k>> \o Without({k}) ELSE lru
  <2>1. DataOK /\ lru \in Seq(Keys) /\ Distinct(lru) /\ Members(lru) = Stored /\ bytes = SizeOf(Stored)
    BY DEF KVInv
  <2>2. DataOK' /\ Stored' = Stored /\ bytes' = SizeOf(Stored)'
    BY <1>2, <2>1 DEF DataOK, Stored, Has, SizeOf
  <2>3. k \in Stored
    BY DEF Get, Stored
  <2>4. Listed = Members(lru)
    BY <2>1 DEF Listed, Oldest, Members
  <2>5. lru' = <<k>> \o Without({k})
    BY <1>2, <2>1, <2>3, <2>4
  <2>6. /\ Without({k}) \in Seq(Keys) /\ Distinct(Without({k}))
        /\ Members(Without({k})) = Stored \ {k}
    BY <2>1, WithoutFacts
  <2>7. lru' \in Seq(Keys) /\ Distinct(lru') /\ Members(lru') = {k} \cup (Stored \ {k})
    BY <2>5, <2>6, PushFront
  <2>8. QED
    BY <2>2, <2>3, <2>7 DEF KVInv
<1>3. QED
  BY <1>1, <1>2 DEF Get

\* The cleanup takes what it deletes from all three.
LEMMA CleanupKeepsKVInv ==
  ASSUME KVInv, Cleanup
  PROVE  KVInv'
<1> DEFINE expired == {k \in Keys : Expired(data[k])}
<1>1. DataOK /\ lru \in Seq(Keys) /\ Distinct(lru) /\ Members(lru) = Stored /\ bytes = SizeOf(Stored)
  BY DEF KVInv
<1>2. expired \subseteq Stored /\ Stored \in SUBSET Keys
  BY DEF Expired, NoEntry, Stored, Has
<1>3. \A k \in Keys : data'[k] = IF k \in expired THEN NoEntry ELSE data[k]
  BY DEF Cleanup
<1>4. DataOK'
  BY <1>1 DEF Cleanup, DataOK
<1>5. lru' = Without(expired) /\ bytes' = bytes - SizeOf(expired)
  BY DEF Cleanup
<1> HIDE DEF expired
<1>6. Stored' = Stored \ expired
  BY <1>3 DEF Stored, Has
<1>7. lru' \in Seq(Keys) /\ Distinct(lru') /\ Members(lru') = Stored'
  BY <1>1, <1>5, <1>6, WithoutFacts
<1>8. PICK S : S = Stored \ expired
  OBVIOUS
<1>9. S \in SUBSET Keys /\ Stored' = S /\ \A k \in S : data'[k] = data[k]
  BY <1>2, <1>3, <1>6, <1>8
<1>10. SizeOf(Stored)' = SizeOf(S)
  BY <1>1, <1>9, StoredSize
<1>11. SizeOf(Stored) = SizeOf(expired) + SizeOf(S)
  BY <1>1, <1>2, <1>8, SizeOfSplit
<1>12. SizeOf(expired) \in Nat /\ SizeOf(S) \in Nat
  BY <1>1, <1>2, <1>9, SizeFacts
<1>13. QED
  BY <1>1, <1>4, <1>5, <1>7, <1>10, <1>11, <1>12 DEF KVInv

\* Ageing changes no size.
LEMMA TickKeepsKVInv ==
  ASSUME KVInv, Tick
  PROVE  KVInv'
<1>1. DataOK /\ lru \in Seq(Keys) /\ Distinct(lru) /\ Members(lru) = Stored /\ bytes = SizeOf(Stored)
  BY DEF KVInv
<1>2. DataOK'
  BY <1>1, Ageing DEF Tick, DataOK
<1>3. ASSUME NEW k \in Keys
      PROVE  data'[k].size = data[k].size /\ (data'[k] # NoEntry <=> data[k] # NoEntry)
  <2>1. data'[k] = Older(data[k]) /\ data[k] \in Entries \cup {NoEntry}
    BY <1>1 DEF Tick, DataOK
  <2>2. CASE data[k] = NoEntry
    BY <2>1, <2>2 DEF Older, NoEntry
  <2>3. CASE data[k] \in Entries
    <3>1. Older(data[k]).size = data[k].size
      BY <2>3 DEF Older, Entries
    <3>2. data[k].size # 0 /\ data[k] # NoEntry
      BY <2>3, EntrySize
    <3>3. NoEntry.size = 0
      BY DEF NoEntry
    <3>4. QED
      BY <2>1, <3>1, <3>2, <3>3
  <2>4. QED
    BY <2>1, <2>2, <2>3
<1>4. Stored' = Stored
  BY <1>3 DEF Stored, Has
<1>5. PICK S : S = Stored
  OBVIOUS
<1>6. S \in SUBSET Keys
  BY <1>5 DEF Stored
<1>7. SizeOf(Stored)' = SizeOf(S)
  BY <1>1, <1>3, <1>4, <1>5, <1>6, StoredSize
<1>8. QED
  BY <1>1, <1>2, <1>4, <1>5, <1>7 DEF Tick, KVInv

\* Every operation of the store keeps the three in agreement.
LEMMA NextKVInv == ASSUME EntriesFit PROVE KVInv /\ [Next]_kvVars => KVInv'
<1> SUFFICES ASSUME KVInv, [Next]_kvVars PROVE KVInv'
  OBVIOUS
<1>1. ASSUME NEW k \in Keys, Delete(k) PROVE KVInv'
  BY <1>1, RemoveKeepsKVInv DEF Delete
<1>2. ASSUME NEW k \in QuoteKeys \cup SystemKeys, NEW size \in Sizes, NEW ttl \in Nat,
             Set(k, size, ttl)
      PROVE  KVInv'
  <2> DEFINE e == [value |-> 0, size |-> size, mortal |-> ttl > 0, left |-> ttl]
  <2>1. e \in Entries /\ k \in Keys
    BY KVAssumption DEF Entries, Keys
  <2> HIDE DEF e
  <2>2. Put(k, e)
    BY <1>2 DEF Set, e
  <2>3. QED
    BY <2>1, <2>2, PutKeepsKVInv
<1>3. ASSUME NEW k \in RateKeys, IncrementRateLimit(k) PROVE KVInv'
  <2> DEFINE e == [value |-> NextCount(k), size |-> 1, mortal |-> TRUE, left |-> RateTTL]
  <2>1. data[k] \in Entries \cup {NoEntry} /\ k \in Keys
    BY DEF KVInv, DataOK, Keys
  <2>2. data[k].value \in 0..MaxCount
    BY <1>3, <2>1, KVAssumption DEF IncrementRateLimit, Entries, NoEntry
  <2>3. NextCount(k) \in 0..MaxCount + 1
    BY <2>2, KVAssumption DEF NextCount
  <2>4. e \in Entries
    BY <2>3, KVAssumption DEF Entries
  <2> HIDE DEF e
  <2>5. Put(k, e)
    BY <1>3 DEF IncrementRateLimit, e
  <2>6. QED
    BY <2>1, <2>4, <2>5, PutKeepsKVInv
<1>4. CASE UNCHANGED kvVars
  BY <1>4 DEF kvVars, KVInv, DataOK, Distinct, Members, Stored, Has, SizeOf
<1>5. QED
  BY <1>1, <1>2, <1>3, <1>4, GetKeepsKVInv, CleanupKeepsKVInv, TickKeepsKVInv, KVAssumption
     DEF Next

\* The empty store agrees with itself.
LEMMA InitKVInv == Init => KVInv
<1> SUFFICES ASSUME Init PROVE KVInv
  OBVIOUS
<1>1. DataOK /\ Stored = {}
  BY DEF Init, DataOK, Stored, Has
<1>2. lru \in Seq(Keys) /\ Distinct(lru) /\ Members(lru) = {}
  BY DEF Init, Distinct, Members
<1>3. SizeOf(Stored) = 0
  BY <1>1, SumEmpty DEF SizeOf
<1>4. QED
  BY <1>1, <1>2, <1>3 DEF Init, KVInv

\* The inductive invariant implies that the three accounts agree.
LEMMA KVInvAccounts == KVInv => Accounting
<1> SUFFICES ASSUME KVInv PROVE Accounting
  OBVIOUS
<1>1. Listed = Members(lru)
  BY DEF KVInv, Listed, Oldest, Members
<1>2. Len(lru) = Cardinality(Members(lru))
  BY DistinctLength DEF KVInv
<1>3. QED
  BY <1>1, <1>2 DEF KVInv, Accounting

\* The map, the list and the byte count tell the same after every operation:
\* every stored key is listed once, and the bytes are those of the entries.
THEOREM AccountsAlwaysAgree == ASSUME EntriesFit PROVE Spec => []Accounting
<1>1. KVInv /\ [Next]_kvVars => KVInv'
  BY NextKVInv
<1>2. QED
  BY <1>1, InitKVInv, KVInvAccounts, PTL DEF Spec

\* Nothing else than an insertion both stores an entry anew and drops others.
LEMMA OnlyPutEvicts ==
  ASSUME KVInv, [Next]_kvVars, NEW k \in Keys, data'[k] # data[k], Has(k)',
         NEW x \in Keys, Has(x), ~Has(x)'
  PROVE  \E y \in Keys, e \in Entries : Put(y, e)
<1>0. data \in [Keys -> Entries \cup {NoEntry}]
  BY DEF KVInv, DataOK
<1>1. ASSUME NEW y \in Keys, Remove(y) PROVE FALSE
  BY <1>0, <1>1 DEF Remove, Has
<1>2. ~UNCHANGED data
  OBVIOUS
<1>3. ~Cleanup
  BY <1>0 DEF Cleanup, Has
<1>4. ~Tick
  <2> SUFFICES ASSUME Tick PROVE FALSE
    OBVIOUS
  <2>1. data'[x] = Older(data[x]) /\ data[x] \in Entries
    BY <1>0 DEF Tick, Has
  <2>2. Older(data[x]).size = data[x].size
    BY <2>1 DEF Older, Entries
  <2>3. data[x].size # 0
    BY <2>1, EntrySize
  <2>4. NoEntry.size = 0
    BY DEF NoEntry
  <2>5. QED
    BY <2>1, <2>2, <2>3, <2>4 DEF Has
<1>5. ASSUME NEW y \in QuoteKeys \cup SystemKeys, NEW size \in Sizes, NEW ttl \in Nat,
             Set(y, size, ttl)
      PROVE  \E z \in Keys, e \in Entries : Put(z, e)
  <2>1. [value |-> 0, size |-> size, mortal |-> ttl > 0, left |-> ttl] \in Entries /\ y \in Keys
    BY KVAssumption DEF Entries, Keys
  <2>2. QED
    BY <1>5, <2>1 DEF Set
<1>6. ASSUME NEW y \in RateKeys, IncrementRateLimit(y)
      PROVE  \E z \in Keys, e \in Entries : Put(z, e)
  <2>1. data[y] \in Entries \cup {NoEntry} /\ y \in Keys
    BY <1>0 DEF Keys
  <2>2. data[y].value \in 0..MaxCount
    BY <1>6, <2>1, KVAssumption DEF IncrementRateLimit, Entries, NoEntry
  <2>3. NextCount(y) \in 0..MaxCount + 1
    BY <2>2, KVAssumption DEF NextCount
  <2>4. [value |-> NextCount(y), size |-> 1, mortal |-> TRUE, left |-> RateTTL] \in Entries
    BY <2>3, KVAssumption DEF Entries
  <2>5. QED
    BY <1>6, <2>1, <2>4 DEF IncrementRateLimit
<1>7. QED
  BY <1>1, <1>2, <1>3, <1>4, <1>5, <1>6, KVAssumption DEF Next, kvVars, Get, Delete

\* The last entry evicted is the first, from the front, of those that went.
LEMMA LastEvictedIs ==
  ASSUME lru \in Seq(Keys), Distinct(lru), NEW new, NEW i \in 1..Len(lru),
         lru[i] \notin new, \A j \in 1..i - 1 : lru[j] \in new
  PROVE  LastEvicted(lru, new) = lru[i]
<1> DEFINE P(k) == \E a \in 1..Len(lru) : /\ lru[a] = k /\ k \notin new
                                          /\ \A j \in 1..a - 1 : lru[j] \in new
<1>1. lru[i] \in Keys /\ P(lru[i])
  OBVIOUS
<1>2. ASSUME NEW k \in Keys, P(k) PROVE k = lru[i]
  <2>1. PICK a \in 1..Len(lru) : /\ lru[a] = k /\ k \notin new
                                 /\ \A j \in 1..a - 1 : lru[j] \in new
    BY <1>2
  <2>2. ~(a < i)
    BY <2>1
  <2>3. ~(i < a)
    BY <2>1
  <2>4. QED
    BY <2>1, <2>2, <2>3
<1>3. LastEvicted(lru, new) = CHOOSE k \in Keys : P(k)
  BY DEF LastEvicted
<1> HIDE DEF P
<1>4. QED
  BY <1>1, <1>2, <1>3

\* An insertion evicts no more than it must.
LEMMA PutEvictsLeast ==
  ASSUME KVInv, EntriesFit, NEW k \in Keys, NEW e \in Entries, Put(k, e),
         NEW x \in Keys, Has(x), ~Has(x)'
  PROVE  bytes' + data[LastEvicted(lru, Stored')].size > MaxBytes
<1> DEFINE rest == Without({k})
           n == Min(Enough(k, e.size))
           victims == Oldest(rest, n)
           kept == [y \in Keys |-> IF y \in victims THEN NoEntry ELSE data[y]]
<1>1. /\ DataOK /\ e.size \in Sizes /\ e.size \in Nat \ {0} /\ e # NoEntry
      /\ lru \in Seq(Keys) /\ Distinct(lru) /\ Members(lru) = Stored
  BY EntrySize DEF KVInv
<1>2. /\ rest \in Seq(Keys) /\ Distinct(rest) /\ Members(rest) = Stored \ {k}
      /\ Enough(k, e.size) # {}
      /\ Freed(k) = SizeOf(Stored \ {k})
  BY <1>1, PutChoice
<1>3. /\ n \in 0..Len(rest) /\ n \in Enough(k, e.size)
      /\ \A m \in Enough(k, e.size) : n <= m
  BY <1>1, <1>2, EnoughLeast
<1>4. /\ data' = [kept EXCEPT ![k] = e]
      /\ bytes' = Freed(k) - SizeOf(victims) + e.size
  BY <1>2 DEF Put
<1>5. victims \in SUBSET Keys /\ victims \subseteq Stored \ {k}
  <2> HIDE DEF rest, n
  <2> QED
    BY <1>2, <1>3, OldestFacts
<1> HIDE DEF n
<1>6. \A y \in Keys : data'[y] = IF y = k THEN e ELSE IF y \in victims THEN NoEntry ELSE data[y]
  BY <1>4
<1>7. Stored' = {k} \cup (Stored \ victims)
  <2> HIDE DEF victims
  <2> QED
    BY <1>1, <1>5, <1>6 DEF Stored, Has
<1>8. x \in victims
  <2> HIDE DEF victims
  <2> QED
    BY <1>1, <1>6 DEF Has
<1>9. n # 0
  BY <1>2, <1>8 DEF Oldest
<1> DEFINE b == Len(rest) - n + 1
           v == rest[b]
           fewer == Oldest(rest, n - 1)
<1>10. b \in 1..Len(rest) /\ n - 1 \in 0..Len(rest)
  BY <1>2, <1>3, <1>9

\* One eviction fewer would not have done
<1>11. Freed(k) - SizeOf(fewer) + e.size > MaxBytes
  <2>1. n - 1 \notin Enough(k, e.size)
    BY <1>2, <1>3, <1>9
  <2>2. ~(Freed(k) - SizeOf(fewer) + e.size <= MaxBytes)
    BY <1>10, <2>1 DEF Enough
  <2>3. fewer \in SUBSET Keys
    <3> HIDE DEF rest
    <3> QED
      BY <1>2, <1>10, OldestFacts
  <2>4. SizeOf(fewer) \in Nat /\ Freed(k) \in Nat
    BY <1>1, <1>2, <1>5, <2>3, SizeFacts DEF Stored
  <2> HIDE DEF fewer
  <2>5. QED
    BY <1>1, <2>2, <2>4, KVAssumption
<1>12. SizeOf(victims) = data[v].size + SizeOf(fewer)
  <2> HIDE DEF rest
  <2>1. v \in victims
    BY <1>2, <1>10 DEF Oldest
  <2>2. fewer = victims \ {v}
    <3>1. Len(rest) - (n - 1) + 1 = b + 1 /\ Len(rest) - n + 1 = b
      BY <1>2, <1>3
    <3>2. fewer = {rest[j] : j \in b + 1..Len(rest)} /\ victims = {rest[j] : j \in b..Len(rest)}
      BY <3>1 DEF Oldest
    <3>3. \A j \in b + 1..Len(rest) : j \in b..Len(rest) /\ rest[j] # v
      BY <1>2, <1>10 DEF Distinct
    <3>4. \A j \in b..Len(rest) : j = b \/ j \in b + 1..Len(rest)
      BY <1>2, <1>10
    <3> HIDE DEF b
    <3>5. QED
      BY <3>2, <3>3, <3>4
  <2>3. SizeOf(victims) = data[v].size + SizeOf(victims \ {v})
    BY <1>1, <1>5, <2>1, SizeOfRemove
  <2>4. QED
    BY <2>2, <2>3

\* It is the last one evicted
<1>13. LastEvicted(lru, Stored') = v
  <2>1. PICK p : IsRest(rest, p, {k}, Len(lru))
    BY <1>1, WithoutIsRest
  <2> HIDE DEF rest
  <2>2. p \in [1..Len(rest) -> 1..Len(lru)] /\ lru[p[b]] = v /\ p[b] \in 1..Len(lru)
    BY <1>10, <2>1 DEF IsRest
  <2>3. v \notin Stored'
    <3>1. v \in victims
      BY <1>2, <1>10 DEF Oldest
    <3>2. QED
      BY <1>5, <1>7, <3>1
  <2>4. ASSUME NEW j \in 1..p[b] - 1 PROVE lru[j] \in Stored'
    <3>0. j \in 1..Len(lru) /\ j < p[b]
      BY <1>1, <2>2
    <3>1. CASE lru[j] = k
      BY <1>7, <3>1
    <3>2. CASE lru[j] # k
      <4>1. PICK i \in 1..Len(rest) : p[i] = j
        BY <2>1, <3>0, <3>2 DEF IsRest
      <4>2. rest[i] = lru[j]
        BY <2>1, <4>1 DEF IsRest
      <4>3. i < b
        <5> SUFFICES ASSUME b = i \/ b < i PROVE FALSE
          BY <1>10
        <5>1. p[b] = p[i] \/ p[b] < p[i]
          BY <1>10, <2>1 DEF IsRest
        <5>2. QED
          BY <2>2, <3>0, <4>1, <5>1
      <4>4. rest[i] \notin victims
        <5>1. \A m \in b..Len(rest) : rest[m] # rest[i]
          BY <1>2, <1>10, <4>3 DEF Distinct
        <5>2. QED
          BY <5>1 DEF Oldest
      <4>5. lru[j] \in Stored
        BY <1>1, <3>0 DEF Members
      <4>6. QED
        BY <1>7, <4>2, <4>4, <4>5
    <3>3. QED
      BY <3>1, <3>2
  <2> HIDE DEF v
  <2>5. QED
    BY <1>1, <2>2, <2>3, <2>4, LastEvictedIs
<1>14. QED
  <2>1. SizeOf(victims) \in Nat /\ SizeOf(fewer) \in Nat
    <3>1. fewer \in SUBSET Keys
      <4> HIDE DEF rest
      <4> QED
        BY <1>2, <1>10, OldestFacts
    <3>2. QED
      BY <1>1, <1>5, <3>1, SizeFacts
  <2>2. v \in Keys /\ data[v].size \in Nat /\ Freed(k) \in Nat
    BY <1>1, <1>2, <1>10, SizeFacts DEF Stored
  <2> HIDE DEF v, fewer, victims
  <2>3. bytes' + data[v].size = Freed(k) - SizeOf(fewer) + e.size
    <3>1. PICK free \in Nat, less \in Nat, size \in Nat, last \in Nat :
            free = Freed(k) /\ less = SizeOf(fewer) /\ size = e.size /\ last = data[v].size
      BY <1>1, <2>1, <2>2
    <3>2. bytes' = free - (last + less) + size
      BY <1>4, <1>12, <3>1
    <3>3. bytes' + last = free - less + size
      BY <3>1, <3>2
    <3>4. QED
      BY <3>1, <3>3
  <2>4. QED
    BY <1>11, <1>13, <2>3

\* No insertion evicts an entry that could have stayed: with the last one
\* evicted kept, the bytes would exceed the limit.
THEOREM EvictsOnlyUnderPressure == ASSUME EntriesFit PROVE Spec => NoNeedlessEviction
<1>1. KVInv /\ [Next]_kvVars => KVInv'
  BY NextKVInv
<1>2. KVInv /\ [Next]_kvVars =>
        [LET present == {k \in Keys : Has(k)'}
             gone == {k \in Keys : Has(k)} \ present
         IN gone # {} /\ (\E k \in present : data'[k] # data[k])
              => bytes' + data[LastEvicted(lru, present)].size > MaxBytes]_kvVars
  <2> SUFFICES ASSUME KVInv, [Next]_kvVars,
                      NEW x \in Keys, Has(x), ~Has(x)', NEW k \in Keys, Has(k)', data'[k] # data[k]
               PROVE  bytes' + data[LastEvicted(lru, Stored')].size > MaxBytes
    BY DEF Stored
  <2>1. PICK y \in Keys, e \in Entries : Put(y, e)
    BY OnlyPutEvicts
  <2>2. QED
    BY <2>1, PutEvictsLeast
<1>3. QED
  BY <1>1, <1>2, InitKVInv, PTL DEF Spec, NoNeedlessEviction

-----------------------------------------------------------------------------
(* The rate limiter                                                        *)

\* A counter that has left ticks to live was incremented RateTTL - left ago.
Witnessed(p) ==
  Has(p) /\ ~Expired(data[p]) =>
    /\ data[p].mortal
    /\ data[p].left \in Window
    /\ made[p][RateTTL - data[p].left] > 0

LimitInv ==
  /\ DataOK
  /\ made \in [RateKeys -> [Window -> Nat]]
  /\ \A p \in RateKeys : Witnessed(p)

\* No counter is alive and no request was made at the start.
LEMMA InitLimitInv == LimitInit => LimitInv
<1> SUFFICES ASSUME LimitInit PROVE LimitInv
  OBVIOUS
<1>1. DataOK
  BY DEF LimitInit, Init, DataOK
<1>2. made \in [RateKeys -> [Window -> Nat]]
  BY DEF LimitInit, None
<1>3. \A p \in RateKeys : ~Has(p)
  BY DEF LimitInit, Init, Has, Keys
<1>4. QED
  BY <1>1, <1>2, <1>3 DEF LimitInv, Witnessed

\* A witness lasts as long as no request is forgotten.
LEMMA StillWitnessed ==
  ASSUME LimitInv, NEW p \in RateKeys, data'[p] \in {data[p], NoEntry},
         \A age \in Window : made'[p][age] > 0 \/ made'[p][age] = made[p][age]
  PROVE  Witnessed(p)'
<1> SUFFICES ASSUME Has(p)', ~Expired(data[p])' PROVE Witnessed(p)'
  BY DEF Witnessed
<1>1. data'[p] = data[p] /\ Has(p) /\ ~Expired(data[p])
  BY DEF Has
<1>2. data[p].mortal /\ data[p].left \in Window /\ made[p][RateTTL - data[p].left] > 0
  BY <1>1 DEF LimitInv, Witnessed
<1>3. RateTTL - data[p].left \in Window
  BY <1>2, KVAssumption DEF Window
<1>4. QED
  BY <1>1, <1>2, <1>3 DEF Witnessed

\* A request leaves a counter that it has itself made young.
LEMMA RequestKeepsLimitInv ==
  ASSUME LimitInv, NEW p \in RateKeys, Request(p)
  PROVE  LimitInv'
<1> DEFINE e == [value |-> NextCount(p), size |-> 1, mortal |-> TRUE, left |-> RateTTL]
<1>1. p \in Keys /\ data[p] \in Entries \cup {NoEntry}
  BY DEF Keys, LimitInv, DataOK
<1>2. data[p].value \in 0..MaxCount
  BY <1>1, KVAssumption DEF Request, IncrementRateLimit, Entries, NoEntry
<1>3. e \in Entries
  BY <1>2, KVAssumption DEF Entries, NextCount
<1>4. /\ OnlySets({p})
      /\ \A x \in Keys \ {p} : data'[x] \in {data[x], NoEntry}
      /\ data'[p] \in {e, data[p], NoEntry}
  BY <1>1, <1>3, PutSetsOne DEF Request, IncrementRateLimit, LimitInv
<1>5. /\ 0 \in Window
      /\ made \in [RateKeys -> [Window -> Nat]]
      /\ made' = [made EXCEPT ![p][0] = @ + 1]
  BY KVAssumption DEF Window, Request, Now, LimitInv
<1>6. /\ made' \in [RateKeys -> [Window -> Nat]]
      /\ made'[p][0] > 0
      /\ \A x \in RateKeys, age \in Window : made'[x][age] > 0 \/ made'[x][age] = made[x][age]
  BY <1>5
<1>7. ASSUME NEW x \in RateKeys PROVE Witnessed(x)'
  <2>1. CASE data'[x] \in {data[x], NoEntry}
    BY <1>6, <2>1, StillWitnessed
  <2>2. CASE x = p /\ data'[p] = e
    BY <1>5, <1>6, <2>2, KVAssumption DEF Witnessed, Expired, Window
  <2>3. QED
    BY <1>4, <2>1, <2>2 DEF Keys
<1>8. QED
  BY <1>4, <1>6, <1>7 DEF LimitInv, OnlySets

\* The rest of the API touches no counter but to evict or clean it up.
LEMMA StoreStepKeepsLimitInv ==
  ASSUME LimitInv, StoreStep
  PROVE  LimitInv'
<1>0. made' = made /\ DataOK
  BY DEF StoreStep, LimitInv
<1>1. SUFFICES DataOK' /\ \A p \in RateKeys : data'[p] \in {data[p], NoEntry}
  BY <1>0, StillWitnessed DEF LimitInv
<1>2. ASSUME NEW k \in QuoteKeys \cup SystemKeys, NEW size \in Sizes, NEW ttl \in Nat,
             Set(k, size, ttl)
      PROVE  DataOK' /\ \A p \in RateKeys : data'[p] \in {data[p], NoEntry}
  <2>1. [value |-> 0, size |-> size, mortal |-> ttl > 0, left |-> ttl] \in Entries
    BY KVAssumption DEF Entries
  <2>2. k \in Keys /\ k \notin RateKeys
    BY KVAssumption DEF Keys
  <2>3. QED
    BY <1>0, <1>2, <2>1, <2>2, PutSetsOne DEF Set, OnlySets, Keys
<1>3. ASSUME NEW k \in QuoteKeys \cup SystemKeys, Get(k) \/ Delete(k)
      PROVE  DataOK' /\ \A p \in RateKeys : data'[p] \in {data[p], NoEntry}
  <2>1. CASE Remove(k)
    BY <1>0, <2>1, RemoveSetsNone DEF OnlySets, Keys
  <2>2. CASE UNCHANGED data
    BY <1>0, <2>2 DEF DataOK
  <2>3. QED
    BY <1>3, <2>1, <2>2 DEF Get, Delete
<1>4. CASE Cleanup
  BY <1>0, <1>4 DEF Cleanup, DataOK, Keys
<1>5. QED
  BY <1>2, <1>3, <1>4, KVAssumption DEF StoreStep

\* A tick moves the witness along with the counter it witnesses.
LEMMA SecondKeepsLimitInv ==
  ASSUME LimitInv, Second
  PROVE  LimitInv'
<1>1. DataOK /\ made \in [RateKeys -> [Window -> Nat]]
  BY DEF LimitInv
<1>2. DataOK'
  BY <1>1, Ageing DEF Second, Tick, DataOK
<1>3. made' \in [RateKeys -> [Window -> Nat]]
  BY <1>1, KVAssumption DEF Second, Aged, Window
<1>4. ASSUME NEW p \in RateKeys, Has(p)', ~Expired(data[p])'
      PROVE  /\ data'[p].mortal /\ data'[p].left \in Window
             /\ made'[p][RateTTL - data'[p].left] > 0
  <2>1. p \in Keys /\ data[p] \in Entries \cup {NoEntry} /\ data'[p] = Older(data[p])
    BY <1>1 DEF Keys, DataOK, Second, Tick
  <2>2. data[p] \in Entries
    <3>1. ~NoEntry.mortal
      BY DEF NoEntry
    <3>2. Older(NoEntry) = NoEntry
      BY <3>1 DEF Older
    <3>3. QED
      BY <1>4, <2>1, <3>2 DEF Has
  <2>3. Has(p) /\ ~Expired(data[p])
    BY <1>4, <2>1, <2>2 DEF Has, Expired, Older, Entries, NoEntry
  <2>4. /\ data[p].mortal
        /\ data[p].left \in Window
        /\ made[p][RateTTL - data[p].left] > 0
    BY <2>3 DEF LimitInv, Witnessed
  <2>5. data'[p].mortal /\ data'[p].left = data[p].left - 1
    BY <2>1, <2>2, <2>4 DEF Older, Entries, Window
  <2>6. data'[p].left >= 0
    BY <1>4, <2>4, <2>5 DEF Expired, Window
  <2>7. /\ data'[p].left \in Window
        /\ RateTTL - data'[p].left = RateTTL - data[p].left + 1
        /\ RateTTL - data'[p].left \in Window
        /\ RateTTL - data'[p].left # 0
    BY <2>4, <2>5, <2>6, KVAssumption DEF Window
  <2>8. made'[p][RateTTL - data'[p].left] = made[p][RateTTL - data'[p].left - 1]
    BY <2>7 DEF Second, Aged
  <2>9. RateTTL - data'[p].left - 1 = RateTTL - data[p].left
    BY <2>4, <2>7, KVAssumption DEF Window
  <2>10. QED
    BY <2>4, <2>5, <2>7, <2>8, <2>9
<1>5. QED
  BY <1>2, <1>3, <1>4 DEF LimitInv, Witnessed

\* With no request in the last minute no counter is live, so it starts at 1.
LEMMA RequestAfterSilence ==
  ASSUME LimitInv, NEW p \in RateKeys, Request(p), made[p] = None
  PROVE  admitted' = Now(admitted, p)
<1>1. \A age \in Window : ~(made[p][age] > 0)
  BY DEF None
<1>2. ~(Has(p) /\ ~Expired(data[p]))
  <2> SUFFICES ASSUME Has(p), ~Expired(data[p]) PROVE FALSE
    OBVIOUS
  <2>1. data[p].left \in Window /\ made[p][RateTTL - data[p].left] > 0
    BY DEF LimitInv, Witnessed
  <2>2. RateTTL - data[p].left \in Window
    BY <2>1, KVAssumption DEF Window
  <2>3. QED
    BY <1>1, <2>1, <2>2
<1>3. NextCount(p) = 1
  BY <1>2 DEF NextCount
<1>4. QED
  BY <1>3, LimitAssumption DEF Request, Exceeds

\* A partner that has kept still for longer than a minute is admitted, for
\* every limit and however the store evicts.
THEOREM LockoutAlwaysEnds == LimitSpec => LockoutEnds
<1>1. LimitInv /\ [LimitNext]_vars => LimitInv'
  <2> SUFFICES ASSUME LimitInv, [LimitNext]_vars PROVE LimitInv'
    OBVIOUS
  <2>1. CASE UNCHANGED vars
    BY <2>1 DEF vars, LimitInv, DataOK, Witnessed, Has
  <2>2. QED
    BY <2>1, RequestKeepsLimitInv, StoreStepKeepsLimitInv, SecondKeepsLimitInv DEF LimitNext
<1>2. LimitInv /\ [LimitNext]_vars =>
        [\A p \in RateKeys : Request(p) /\ made[p] = None => admitted' = Now(admitted, p)]_vars
  BY RequestAfterSilence
<1>3. QED
  BY <1>1, <1>2, InitLimitInv, PTL DEF LimitSpec, LockoutEnds

\* A step of the limiter is a step of the store or leaves it alone.
LEMMA LimiterStep == [LimitNext]_vars => [Next]_kvVars
<1>1. ASSUME NEW p \in RateKeys, Request(p) PROVE Next
  BY <1>1 DEF Request, Next
<1>2. ASSUME StoreStep PROVE Next
  BY <1>2 DEF StoreStep, Next, Keys
<1>3. ASSUME Second PROVE Next
  BY <1>3 DEF Second, Next
<1>4. QED
  BY <1>1, <1>2, <1>3 DEF LimitNext, vars, kvVars

\* The limiter uses the store as the store allows: what is proved of every
\* behaviour of the store holds under the limiter.
THEOREM LimiterRunsStore == LimitSpec => Spec
<1>1. LimitInit => Init
  BY DEF LimitInit
<1>2. QED
  BY <1>1, LimiterStep, PTL DEF LimitSpec, Spec

\* Ageing drops the oldest requests of the window and no others.
LEMMA AgedSum ==
  ASSUME NEW r \in [Window -> Nat]
  PROVE  InWindow(Aged(r)) \in Nat /\ InWindow(r) \in Nat /\ InWindow(Aged(r)) <= InWindow(r)
<1> DEFINE a == Aged(r)
           I == {n \in Nat : n \in Window =>
                   SumFunctionOnSet(a, 0..n) + r[n] = SumFunctionOnSet(r, 0..n)}
<1>1. a \in [Window -> Nat] /\ a[0] = 0 /\ \A n \in Window : n # 0 => a[n] = r[n - 1]
  BY KVAssumption DEF Aged, Window
<1> HIDE DEF a
<1>2. \A n \in Window : IsFiniteSet(0..n) /\ 0..n \subseteq Window
  <2> SUFFICES ASSUME NEW n \in Window PROVE IsFiniteSet(0..n) /\ 0..n \subseteq Window
    OBVIOUS
  <2>1. n \in Nat /\ 0..n \subseteq Window
    BY KVAssumption DEF Window
  <2>2. QED
    BY <2>1, FS_Interval
<1>3. 0 \in I
  <2>1. 0..0 = {} \cup {0} /\ 0 \in Window
    BY KVAssumption DEF Window
  <2>2. SumFunctionOnSet(a, 0..0) = a[0] + 0
    BY <1>1, <2>1, FS_EmptySet, SumAdd, SumEmpty
  <2>3. SumFunctionOnSet(r, 0..0) = r[0] + 0
    BY <2>1, FS_EmptySet, SumAdd, SumEmpty
  <2>4. QED
    BY <1>1, <2>1, <2>2, <2>3
<1>4. ASSUME NEW n \in Nat, n \in I PROVE n + 1 \in I
  <2> SUFFICES ASSUME n + 1 \in Window
               PROVE  SumFunctionOnSet(a, 0..n + 1) + r[n + 1] = SumFunctionOnSet(r, 0..n + 1)
    OBVIOUS
  <2>1. n \in Window /\ 0..n + 1 = (0..n) \cup {n + 1} /\ n + 1 \notin 0..n
    BY KVAssumption DEF Window
  <2>2. SumFunctionOnSet(a, 0..n) + r[n] = SumFunctionOnSet(r, 0..n)
    BY <1>4, <2>1
  <2>3. SumFunctionOnSet(a, 0..n + 1) = a[n + 1] + SumFunctionOnSet(a, 0..n)
    <3>1. \A x \in (0..n) \cup {n + 1} : a[x] \in Int
      BY <1>1, <1>2, <2>1
    <3>2. QED
      BY <1>2, <2>1, <3>1, SumAdd
  <2>4. SumFunctionOnSet(r, 0..n + 1) = r[n + 1] + SumFunctionOnSet(r, 0..n)
    <3>1. \A x \in (0..n) \cup {n + 1} : r[x] \in Int
      BY <1>2, <2>1
    <3>2. QED
      BY <1>2, <2>1, <3>1, SumAdd
  <2>5. a[n + 1] = r[n] /\ r[n] \in Nat /\ r[n + 1] \in Nat
    <3>1. n + 1 # 0 /\ (n + 1) - 1 = n
      OBVIOUS
    <3>2. QED
      BY <1>1, <2>1, <3>1
  <2>6. SumFunctionOnSet(a, 0..n) \in Int /\ SumFunctionOnSet(r, 0..n) \in Int
    <3>1. \A x \in 0..n : a[x] \in Int /\ r[x] \in Int
      BY <1>1, <1>2, <2>1
    <3>2. QED
      BY <1>2, <2>1, <3>1, SumInt
  <2>7. QED
    BY <2>2, <2>3, <2>4, <2>5, <2>6
<1>5. Nat \subseteq I
  <2> HIDE DEF I
  <2> QED
    BY <1>3, <1>4, NatSetInduction
<1>6. RateTTL \in Window /\ Window = 0..RateTTL
  BY KVAssumption DEF Window
<1>7. SumFunctionOnSet(a, Window) + r[RateTTL] = SumFunctionOnSet(r, Window)
  <2>1. RateTTL \in I
    BY <1>5, KVAssumption
  <2>2. QED
    BY <1>6, <2>1
<1>8. SumFunctionOnSet(a, Window) \in Nat /\ SumFunctionOnSet(r, Window) \in Nat
  BY <1>1, <1>2, <1>6, SumNat
<1>9. r[RateTTL] \in Nat
  BY <1>6
<1>10. QED
  BY <1>7, <1>8, <1>9 DEF InWindow, a

\* A request counts once.
LEMMA NowSum ==
  ASSUME NEW r \in [Window -> Nat]
  PROVE  InWindow([r EXCEPT ![0] = @ + 1]) = InWindow(r) + 1
<1> DEFINE g == [r EXCEPT ![0] = @ + 1]
<1>1. IsFiniteSet(Window) /\ 0 \in Window
  BY KVAssumption, FS_Interval DEF Window
<1>2. g \in [Window -> Nat] /\ g[0] = r[0] + 1 /\ \A n \in Window \ {0} : g[n] = r[n]
  BY <1>1
<1> HIDE DEF g
<1>3. SumFunctionOnSet(g, Window) = g[0] + SumFunctionOnSet(g, Window \ {0})
  BY <1>1, <1>2, SumRemove
<1>4. SumFunctionOnSet(r, Window) = r[0] + SumFunctionOnSet(r, Window \ {0})
  BY <1>1, SumRemove
<1>5. IsFiniteSet(Window \ {0})
  BY <1>1, FS_RemoveElement
<1>6. SumFunctionOnSet(r, Window \ {0}) = SumFunctionOnSet(g, Window \ {0})
  BY <1>2, <1>5, SumSame
<1>7. SumFunctionOnSet(r, Window \ {0}) \in Nat /\ r[0] \in Nat
  BY <1>1, <1>5, SumNat
<1>8. QED
  BY <1>2, <1>3, <1>4, <1>6, <1>7 DEF InWindow, g

Live(p) == Has(p) /\ ~Expired(data[p])

\* A live counter has counted every admitted request of the window, and none
\* is younger than the last increment.  A partner without one has none.
AdmitInv(p) ==
  /\ Live(p) =>
       /\ data[p].mortal /\ data[p].left \in 0..RateTTL /\ data[p].value \in Nat
       /\ InWindow(admitted[p]) <= data[p].value
       /\ InWindow(admitted[p]) <= Limit
       /\ \A age \in Window : age < RateTTL - data[p].left => admitted[p][age] = 0
  /\ ~Live(p) => \A age \in Window : admitted[p][age] = 0

AdmittedInv ==
  /\ KVInv
  /\ admitted \in [RateKeys -> [Window -> Nat]]
  /\ \A p \in RateKeys \ evicted : AdmitInv(p)

\* What is left alone, or has lost a counter that no longer counts, stays so.
LEMMA StillAdmitted ==
  ASSUME AdmittedInv, Evict, NEW p \in RateKeys, p \notin evicted',
         data'[p] \in {data[p], NoEntry}, admitted'[p] = admitted[p]
  PROVE  AdmitInv(p)'
<1>1. p \notin evicted /\ AdmitInv(p)
  BY DEF Evict, AdmittedInv
<1>2. CASE Live(p)
  <2>1. data'[p] = data[p]
    BY <1>2 DEF Evict, Live, Has
  <2>2. Live(p)'
    BY <1>2, <2>1 DEF Live, Has
  <2>3. QED
    BY <1>1, <1>2, <2>1, <2>2 DEF AdmitInv, InWindow
<1>3. CASE ~Live(p)
  <2>1. ~Live(p)'
    BY <1>3 DEF Live, Has
  <2>2. QED
    BY <1>1, <1>3, <2>1 DEF AdmitInv
<1>4. QED
  BY <1>2, <1>3

\* A request that is admitted is counted, one that is refused changes nothing.
LEMMA RequestKeepsAdmitted ==
  ASSUME AdmittedInv, EntriesFit, NEW p \in RateKeys, Request(p)
  PROVE  /\ admitted' \in [RateKeys -> [Window -> Nat]]
         /\ \A x \in RateKeys \ evicted' : AdmitInv(x)'
<1> DEFINE e == [value |-> NextCount(p), size |-> 1, mortal |-> TRUE, left |-> RateTTL]
<1>1. p \in Keys /\ data[p] \in Entries \cup {NoEntry} /\ DataOK /\ KVInv
  BY DEF Keys, AdmittedInv, KVInv, DataOK
<1>2. data[p].value \in 0..MaxCount
  BY <1>1, KVAssumption DEF Request, IncrementRateLimit, Entries, NoEntry
<1>3. e \in Entries
  BY <1>2, KVAssumption DEF Entries, NextCount
<1>4. Put(p, e) /\ Evict
  BY DEF Request, IncrementRateLimit
<1>5. 1 \in Sizes /\ e.size = 1
  BY KVAssumption
<1>6. data'[p] = e
  <2>1. Enough(p, e.size) # {}
    BY <1>1, <1>5, PutChoice
  <2> HIDE DEF e
  <2>2. QED
    BY <1>1, <1>4, <2>1 DEF Put
<1>7. \A x \in Keys \ {p} : data'[x] \in {data[x], NoEntry}
  <2> HIDE DEF e
  <2> QED
    BY <1>1, <1>3, <1>4, PutSetsOne
<1>8. 0 \in Window /\ admitted \in [RateKeys -> [Window -> Nat]] /\ admitted[p] \in [Window -> Nat]
  BY KVAssumption DEF Window, AdmittedInv
<1>9. /\ admitted' \in [RateKeys -> [Window -> Nat]]
      /\ \A x \in RateKeys \ {p} : admitted'[x] = admitted[x]
      /\ admitted'[p] = IF Exceeds(NextCount(p)) THEN admitted[p]
                        ELSE [admitted[p] EXCEPT ![0] = @ + 1]
  BY <1>8 DEF Request, Now
<1>10. ASSUME NEW x \in RateKeys \ {p}, x \notin evicted' PROVE AdmitInv(x)'
  BY <1>4, <1>7, <1>9, <1>10, StillAdmitted DEF Keys
<1>11. ASSUME p \notin evicted' PROVE AdmitInv(p)'
  <2>1. AdmitInv(p)
    BY <1>4, <1>11 DEF Evict, AdmittedInv
  <2> DEFINE sum == InWindow(admitted[p])
  <2>2. sum \in Nat
    BY <1>8, AgedSum
  <2>3. NextCount(p) \in Nat /\ sum < NextCount(p) /\ sum <= Limit
    <3>1. CASE Live(p)
      <4>1. NextCount(p) = data[p].value + 1
        BY <3>1 DEF NextCount, Live
      <4>2. data[p].value \in Nat /\ sum <= data[p].value /\ sum <= Limit
        BY <2>1, <3>1 DEF AdmitInv
      <4> HIDE DEF sum
      <4>3. QED
        BY <2>2, <4>1, <4>2
    <3>2. CASE ~Live(p)
      <4>1. NextCount(p) = 1
        BY <3>2 DEF NextCount, Live
      <4>2. \A age \in Window : admitted[p][age] = 0
        BY <2>1, <3>2 DEF AdmitInv
      <4>3. IsFiniteSet(Window)
        BY KVAssumption, FS_Interval DEF Window
      <4>4. sum = 0
        BY <4>2, <4>3, SumZero DEF InWindow
      <4> HIDE DEF sum
      <4>5. QED
        BY <4>1, <4>4, LimitAssumption
    <3>3. QED
      BY <3>1, <3>2
  <2>4. InWindow(admitted'[p]) <= NextCount(p) /\ InWindow(admitted'[p]) <= Limit
    <3>1. CASE Exceeds(NextCount(p))
      <4>1. InWindow(admitted'[p]) = sum
        BY <1>9, <3>1
      <4> HIDE DEF sum
      <4>2. QED
        BY <2>2, <2>3, <4>1
    <3>2. CASE ~Exceeds(NextCount(p))
      <4>1. InWindow(admitted'[p]) = sum + 1
        BY <1>8, <1>9, <3>2, NowSum
      <4>2. NextCount(p) <= Limit
        BY <2>3, <3>2, LimitAssumption DEF Exceeds
      <4> HIDE DEF sum
      <4>3. QED
        BY <2>2, <2>3, <4>1, <4>2, LimitAssumption
    <3>3. QED
      BY <3>1, <3>2
  <2>5. InWindow(admitted[p])' = InWindow(admitted'[p])
    BY DEF InWindow
  <2>6. Live(p)'
    <3>1. e # NoEntry
      BY <1>3, EntrySize
    <3>2. ~(e.mortal /\ e.left < 0)
      BY KVAssumption
    <3> HIDE DEF e
    <3>3. QED
      BY <1>6, <3>1, <3>2 DEF Live, Has, Expired
  <2>7. data'[p].mortal /\ data'[p].left = RateTTL /\ data'[p].value = NextCount(p)
    BY <1>6
  <2>8. \A age \in Window : ~(age < RateTTL - RateTTL)
    BY KVAssumption DEF Window
  <2>9. RateTTL \in 0..RateTTL
    BY KVAssumption
  <2> HIDE DEF e, sum
  <2>10. QED
    BY <2>3, <2>4, <2>5, <2>6, <2>7, <2>8, <2>9 DEF AdmitInv
<1>12. QED
  BY <1>9, <1>10, <1>11

\* The rest of the API admits nothing and touches no counter but to evict it or
\* to clean it up once it has expired.
LEMMA StoreStepKeepsAdmitted ==
  ASSUME AdmittedInv, StoreStep
  PROVE  /\ admitted' \in [RateKeys -> [Window -> Nat]]
         /\ \A p \in RateKeys \ evicted' : AdmitInv(p)'
<1>0. admitted' = admitted /\ Evict /\ DataOK /\ admitted \in [RateKeys -> [Window -> Nat]]
  BY DEF StoreStep, AdmittedInv, KVInv
<1>1. SUFFICES \A p \in RateKeys : data'[p] \in {data[p], NoEntry}
  BY <1>0, StillAdmitted
<1>2. ASSUME NEW k \in QuoteKeys \cup SystemKeys, NEW size \in Sizes, NEW ttl \in Nat,
             Set(k, size, ttl)
      PROVE  \A p \in RateKeys : data'[p] \in {data[p], NoEntry}
  <2>1. [value |-> 0, size |-> size, mortal |-> ttl > 0, left |-> ttl] \in Entries
    BY KVAssumption DEF Entries
  <2>2. k \in Keys /\ k \notin RateKeys
    BY KVAssumption DEF Keys
  <2>3. QED
    BY <1>0, <1>2, <2>1, <2>2, PutSetsOne DEF Set, Keys
<1>3. ASSUME NEW k \in QuoteKeys \cup SystemKeys, Get(k) \/ Delete(k)
      PROVE  \A p \in RateKeys : data'[p] \in {data[p], NoEntry}
  <2>1. CASE Remove(k)
    BY <1>0, <2>1, RemoveSetsNone DEF Keys
  <2>2. QED
    BY <1>3, <2>1 DEF Get, Delete
<1>4. CASE Cleanup
  BY <1>4 DEF Cleanup, Keys
<1>5. QED
  BY <1>2, <1>3, <1>4, KVAssumption DEF StoreStep

\* As the counter grows older, so does what it has counted, and it expires
\* when the last of that leaves the window.
LEMMA SecondKeepsAdmitted ==
  ASSUME AdmittedInv, Second
  PROVE  /\ admitted' \in [RateKeys -> [Window -> Nat]]
         /\ \A p \in RateKeys \ evicted' : AdmitInv(p)'
<1>1. DataOK /\ admitted \in [RateKeys -> [Window -> Nat]]
  BY DEF AdmittedInv, KVInv
<1>2. /\ admitted' \in [RateKeys -> [Window -> Nat]]
      /\ \A p \in RateKeys : /\ admitted'[p] = Aged(admitted[p])
                             /\ admitted'[p][0] = 0
                             /\ \A n \in Window \ {0} : admitted'[p][n] = admitted[p][n - 1]
  <2>1. admitted' = [p \in RateKeys |-> Aged(admitted[p])]
    BY DEF Second
  <2>2. \A n \in Window \ {0} : n - 1 \in Window
    BY KVAssumption DEF Window
  <2>3. 0 \in Window
    BY KVAssumption DEF Window
  <2>4. QED
    BY <1>1, <2>1, <2>2, <2>3 DEF Aged
<1>3. ASSUME NEW p \in RateKeys, p \notin evicted' PROVE AdmitInv(p)'
  <2>1. AdmitInv(p) /\ p \in Keys /\ data[p] \in Entries \cup {NoEntry} /\ data'[p] = Older(data[p])
    BY <1>1, <1>3 DEF Second, AdmittedInv, Keys, DataOK, Tick
  <2>2. ASSUME ~Live(p) PROVE AdmitInv(p)'
    <3>1. ~Live(p)'
      <4>1. CASE data[p] = NoEntry
        BY <2>1, <4>1 DEF Live, Has, Older, NoEntry
      <4>2. CASE data[p] # NoEntry
        BY <2>1, <2>2, <4>2 DEF Live, Has, Older, Expired, Entries
      <4>3. QED
        BY <4>1, <4>2
    <3>2. \A age \in Window : admitted[p][age] = 0
      BY <2>1, <2>2 DEF AdmitInv
    <3>3. \A age \in Window : admitted'[p][age] = 0
      <4>1. \A n \in Window \ {0} : n - 1 \in Window
        BY KVAssumption DEF Window
      <4>2. QED
        BY <1>2, <3>2, <4>1
    <3>4. QED
      BY <3>1, <3>3 DEF AdmitInv
  <2>3. ASSUME Live(p) PROVE AdmitInv(p)'
    <3> DEFINE left == data[p].left
    <3>1. /\ data[p].mortal /\ left \in 0..RateTTL /\ data[p].value \in Nat
          /\ InWindow(admitted[p]) <= data[p].value
          /\ InWindow(admitted[p]) <= Limit
          /\ \A age \in Window : age < RateTTL - left => admitted[p][age] = 0
      BY <2>1, <2>3 DEF AdmitInv
    <3>2. data[p] \in Entries
      BY <2>1, <2>3 DEF Live, Has
    <3>3. /\ data'[p].mortal /\ data'[p].left = left - 1 /\ data'[p].value = data[p].value
      BY <2>1, <3>1, <3>2 DEF Older, Entries
    <3>4. InWindow(admitted'[p]) <= data'[p].value /\ InWindow(admitted'[p]) <= Limit
      <4>1. /\ InWindow(admitted'[p]) \in Nat /\ InWindow(admitted[p]) \in Nat
            /\ InWindow(admitted'[p]) <= InWindow(admitted[p])
        <5>1. admitted[p] \in [Window -> Nat]
          BY <1>1
        <5>2. QED
          BY <1>2, <5>1, AgedSum
      <4>2. QED
        BY <3>1, <3>3, <4>1, LimitAssumption
    <3>5. \A age \in Window : age < RateTTL - (left - 1) => admitted'[p][age] = 0
      <4> SUFFICES ASSUME NEW age \in Window, age < RateTTL - (left - 1), age # 0
                   PROVE  admitted'[p][age] = 0
        BY <1>2
      <4>1. age - 1 \in Window /\ age - 1 < RateTTL - left
        BY <3>1, KVAssumption DEF Window
      <4>2. QED
        BY <1>2, <3>1, <4>1
    <3> HIDE DEF left
    <3>6. CASE left = 0
      <4>1. ~Live(p)'
        BY <3>3, <3>6 DEF Live, Expired
      <4>2. \A age \in Window : age < RateTTL - (left - 1)
        BY <3>6, KVAssumption DEF Window
      <4>3. QED
        BY <3>5, <4>1, <4>2 DEF AdmitInv
    <3>7. CASE left # 0
      <4>1. left - 1 \in 0..RateTTL
        BY <3>1, <3>7, KVAssumption
      <4>2. InWindow(admitted[p])' = InWindow(admitted'[p])
        BY DEF InWindow
      <4>3. Live(p)'
        <5>1. Older(data[p]) # NoEntry
          BY <2>1, <3>3 DEF NoEntry
        <5>2. ~Expired(data'[p])
          BY <3>3, <4>1 DEF Expired
        <5>3. QED
          BY <2>1, <5>1, <5>2 DEF Live, Has
      <4>4. QED
        BY <3>1, <3>3, <3>4, <3>5, <4>1, <4>2, <4>3 DEF AdmitInv
    <3>8. QED
      BY <3>6, <3>7
  <2>4. QED
    BY <2>2, <2>3
<1>4. QED
  BY <1>2, <1>3

\* No request has been admitted at the start.
LEMMA InitAdmitted == LimitInit => AdmittedInv
<1> SUFFICES ASSUME LimitInit PROVE AdmittedInv
  OBVIOUS
<1>1. KVInv
  BY InitKVInv DEF LimitInit
<1>2. admitted \in [RateKeys -> [Window -> Nat]] /\ \A p \in RateKeys, n \in Window : admitted[p][n] = 0
  BY DEF LimitInit, None
<1>3. \A p \in RateKeys : ~Live(p)
  BY DEF LimitInit, Init, Live, Has, Keys
<1>4. QED
  BY <1>1, <1>2, <1>3 DEF AdmittedInv, AdmitInv

\* Every step of the limiter keeps the counters above the requests admitted.
LEMMA NextAdmitted == ASSUME EntriesFit PROVE AdmittedInv /\ [LimitNext]_vars => AdmittedInv'
<1> SUFFICES ASSUME AdmittedInv, [LimitNext]_vars PROVE AdmittedInv'
  OBVIOUS
<1>1. KVInv'
  <2>1. [Next]_kvVars
    BY LimiterStep
  <2>2. QED
    BY <2>1, NextKVInv DEF AdmittedInv
<1>2. CASE UNCHANGED vars
  BY <1>1, <1>2 DEF vars, AdmittedInv, AdmitInv, Live, Has, InWindow
<1>3. ASSUME NEW p \in RateKeys, Request(p) PROVE AdmittedInv'
  BY <1>1, <1>3, RequestKeepsAdmitted DEF AdmittedInv
<1>4. CASE StoreStep
  BY <1>1, <1>4, StoreStepKeepsAdmitted DEF AdmittedInv
<1>5. CASE Second
  BY <1>1, <1>5, SecondKeepsAdmitted DEF AdmittedInv
<1>6. QED
  BY <1>2, <1>3, <1>4, <1>5 DEF LimitNext

\* A counter that covers the requests admitted keeps them within the limit.
LEMMA AdmittedBounded == AdmittedInv => AdmittedPerWindow
<1> SUFFICES ASSUME AdmittedInv, NEW p \in RateKeys \ evicted PROVE InWindow(admitted[p]) <= Limit
  BY DEF AdmittedPerWindow
<1>1. AdmitInv(p)
  BY DEF AdmittedInv
<1>2. CASE Live(p)
  BY <1>1, <1>2 DEF AdmitInv
<1>3. CASE ~Live(p)
  <2>1. IsFiniteSet(Window)
    BY KVAssumption, FS_Interval DEF Window
  <2>2. InWindow(admitted[p]) = 0
    BY <1>1, <1>3, <2>1, SumZero DEF AdmitInv, InWindow
  <2>3. QED
    BY <2>2, LimitAssumption
<1>4. QED
  BY <1>2, <1>3

\* A partner whose counter was never evicted has at most Limit requests
\* admitted within a minute, at any time and with any number of partners.
THEOREM AdmitsWithinLimit == ASSUME EntriesFit PROVE LimitSpec => []AdmittedPerWindow
<1>1. AdmittedInv /\ [LimitNext]_vars => AdmittedInv'
  BY NextAdmitted
<1>2. QED
  BY <1>1, InitAdmitted, AdmittedBounded, PTL DEF LimitSpec
=============================================================================
