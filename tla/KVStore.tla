------------------------------ MODULE KVStore ------------------------------
(***************************************************************************)
(* internal/kv MemoryStore: a map with lifetimes, per-namespace quotas, a  *)
(* byte limit and least-recently-used eviction.  Every operation holds     *)
(* s.mu, so each is one action, and time passes between them.              *)
(*                                                                         *)
(* An entry's expiresAt is modelled by the time left until it, counted     *)
(* down to -1: expired is time.Now().After(expiresAt), left < 0, while     *)
(* quotas count what time.Now().Before(expiresAt) says, left > 0.  What    *)
(* matters of a key and a value is the size of their entry.                *)
(***************************************************************************)
EXTENDS Integers, FiniteSets, Sequences, FiniteSetsExt, Functions

CONSTANTS
  QuoteKeys,    \* keys of the namespace "quotes"
  RateKeys,     \* "rate_limits", one per partner
  SystemKeys,   \* "system": the ledger index
  QuoteQuota,   \* 10000
  RateQuota,    \* 100000
  MaxBytes,     \* maxBytes (512 MB)
  Sizes,        \* what maxKeyLength and maxValueSize let an entry take
  Lifetimes,    \* ttl of Set; 0: none
  RateTTL,      \* ttl of IncrementRateLimit (60 s)
  MaxCount      \* bound: the count an IncrementRateLimit may start from

Keys == QuoteKeys \cup RateKeys \cup SystemKeys

ASSUME KVAssumption ==
  /\ IsFiniteSet(Keys) /\ Sizes \subseteq Nat \ {0} /\ 1 \in Sizes
  /\ QuoteKeys \cap RateKeys = {} /\ QuoteKeys \cap SystemKeys = {}
  /\ RateKeys \cap SystemKeys = {}
  /\ QuoteQuota \in Nat /\ RateQuota \in Nat /\ MaxBytes \in Nat \ {0}
  /\ Lifetimes \subseteq Nat /\ RateTTL \in Nat \ {0} /\ MaxCount \in Nat

VARIABLES
  data,    \* s.data; NoEntry: absent
  lru,     \* s.lru, its front first
  bytes    \* s.currentBytes

kvVars == <<data, lru, bytes>>

Entries == [value : 0..MaxCount + 1, size : Sizes, mortal : BOOLEAN, left : Int]
NoEntry == [value |-> 0, size |-> 0, mortal |-> FALSE, left |-> 0]

\* Types, of the map, the list and the byte count (which may be wrong, but is a number).
TypeOK ==
  /\ data \in [Keys -> Entries \cup {NoEntry}]
  /\ \A k \in RateKeys : data[k] # NoEntry => data[k].value > 0
  /\ lru \in Seq(Keys)
  /\ bytes \in Int

Init == data = [k \in Keys |-> NoEntry] /\ lru = <<>> /\ bytes = 0

Has(k) == data[k] # NoEntry
Stored == {k \in Keys : Has(k)}
Expired(e) == e.mortal /\ e.left < 0
Counted(e) == e # NoEntry /\ (~e.mortal \/ e.left > 0)
Count(ks) == Cardinality({k \in ks : Counted(data[k])})

-----------------------------------------------------------------------------
\* s.lru.Remove: the list without the nodes of some keys
Without(ks) ==
  LET rest[n \in 0..Len(lru)] ==
        IF n = 0 THEN <<>>
        ELSE IF lru[n] \in ks THEN rest[n - 1] ELSE Append(rest[n - 1], lru[n])
  IN rest[Len(lru)]

\* deleteEntryLocked
Remove(k) ==
  /\ data' = [data EXCEPT ![k] = NoEntry]
  /\ lru' = Without({k})
  /\ bytes' = bytes - data[k].size

\* The entries of the last n keys of a list
Oldest(list, n) == {list[i] : i \in Len(list) - n + 1..Len(list)}
Listed == Oldest(lru, Len(lru))
SizeOf(ks) == SumFunctionOnSet([k \in Keys |-> data[k].size], ks)

\* Mutant: the entry that is replaced still counts while room is made
FreedMutant(k) == bytes

\* The bytes in use once the entry to be replaced is subtracted
Freed(k) == IF Has(k) THEN bytes - data[k].size ELSE bytes

\* Mutant: the new entry is not counted
EnoughMutant(k, size) ==
  LET rest == Without({k}) IN
  {n \in 0..Len(rest) : Freed(k) - SizeOf(Oldest(rest, n)) <= MaxBytes}

\* Mutant: >= instead of >
EnoughStrictMutant(k, size) ==
  LET rest == Without({k}) IN
  {n \in 0..Len(rest) : Freed(k) - SizeOf(Oldest(rest, n)) + size < MaxBytes}

\* How many evictOldest calls leave room
Enough(k, size) ==
  LET rest == Without({k}) IN
  {n \in 0..Len(rest) : Freed(k) - SizeOf(Oldest(rest, n)) + size <= MaxBytes}

\* setLocked, and the second half of Set.  Without enough room for the entry
\* everything is evicted except the old entry of the key, which has left the
\* list and the byte count but not the map.
Put(k, e) ==
  LET rest == Without({k})
      n == IF Enough(k, e.size) = {} THEN Len(rest) ELSE Min(Enough(k, e.size))
      victims == Oldest(rest, n)
      kept == [x \in Keys |-> IF x \in victims THEN NoEntry ELSE data[x]]
      used == Freed(k) - SizeOf(victims)
  IN IF Enough(k, e.size) = {}
       THEN data' = kept /\ lru' = <<>> /\ bytes' = used
       ELSE /\ data' = [kept EXCEPT ![k] = e]
            /\ lru' = <<k>> \o SubSeq(rest, 1, Len(rest) - n)
            /\ bytes' = used + e.size

-----------------------------------------------------------------------------
\* A hit moves the key to the front; an expired entry goes
Get(k) ==
  /\ Has(k)
  /\ \/ Expired(data[k]) /\ Remove(k)
     \/ ~Expired(data[k]) /\ UNCHANGED <<data, bytes>>
        /\ lru' = IF k \in Listed THEN <<k>> \o Without({k}) ELSE lru

\* Mutant: the limit is one too high
HasQuotaMutant(k) ==
  /\ k \in QuoteKeys => Count(QuoteKeys) <= QuoteQuota
  /\ k \in RateKeys => Count(RateKeys) <= RateQuota

\* checkNamespaceQuota; the namespace "system" is never near its quota
HasQuota(k) ==
  /\ k \in QuoteKeys => Count(QuoteKeys) < QuoteQuota
  /\ k \in RateKeys => Count(RateKeys) < RateQuota

Set(k, size, ttl) ==
  /\ HasQuota(k)
  /\ Put(k, [value |-> 0, size |-> size, mortal |-> ttl > 0, left |-> ttl])

Delete(k) == Has(k) /\ Remove(k)

\* Mutant: an expired counter goes on counting
NextCountStaleMutant(k) == IF Has(k) THEN data[k].value + 1 ELSE 1

\* A missing or expired counter starts at 1
NextCount(k) == IF Has(k) /\ ~Expired(data[k]) THEN data[k].value + 1 ELSE 1

\* Every call sets the lifetime anew, and no quota is checked.  (An expired
\* counter is deleted first; its successor is no larger, so it always fits.)
IncrementRateLimit(k) ==
  /\ data[k].value <= MaxCount
  /\ Put(k, [value |-> NextCount(k), size |-> 1, mortal |-> TRUE, left |-> RateTTL])

\* The ticker of cleanupLoop: every expired entry is deleted
Cleanup ==
  LET expired == {k \in Keys : Expired(data[k])} IN
  /\ data' = [k \in Keys |-> IF k \in expired THEN NoEntry ELSE data[k]]
  /\ lru' = Without(expired)
  /\ bytes' = bytes - SizeOf(expired)

Older(e) == IF e.mortal /\ e.left >= 0 THEN [e EXCEPT !.left = @ - 1] ELSE e

Tick ==
  /\ data' = [k \in Keys |-> Older(data[k])]
  /\ UNCHANGED <<lru, bytes>>

-----------------------------------------------------------------------------
Next ==
  \/ \E k \in Keys : Get(k) \/ Delete(k)
  \/ \E k \in QuoteKeys, size \in Sizes, ttl \in Lifetimes : Set(k, size, ttl)
  \/ \E k \in SystemKeys, size \in Sizes : Set(k, size, 0)
  \/ \E k \in RateKeys : IncrementRateLimit(k)
  \/ Cleanup \/ Tick

Spec == Init /\ [][Next]_kvVars

-----------------------------------------------------------------------------
\* The three representations of the contents never drift apart: the list
\* holds each stored key once, and the byte count is the sum of the sizes,
\* through replacements of another size, evictions, expiry and cleanup.
Accounting ==
  /\ Listed = Stored
  /\ Len(lru) = Cardinality(Stored)
  /\ bytes = SizeOf(Stored)

\* The memory limit holds at all times.
MemoryBound == bytes <= MaxBytes

\* No more quotes are alive than their quota allows.
QuoteQuotaHolds == Count(QuoteKeys) <= QuoteQuota

\* Live entries are evicted only under pressure: had the last one evicted
\* stayed, the new entry would not have fitted.
LastEvicted(old, new) ==
  CHOOSE k \in Keys : \E i \in 1..Len(old) :
    /\ old[i] = k /\ k \notin new
    /\ \A j \in 1..i - 1 : old[j] \in new

NoNeedlessEviction ==
  [][LET present == {k \in Keys : Has(k)'}
         gone == {k \in Keys : Has(k)} \ present
     IN gone # {} /\ (\E k \in present : data'[k] # data[k])
          => bytes' + data[LastEvicted(lru, present)].size > MaxBytes]_kvVars

(* What the code does not do                                               *)

\* architecture.md: "Per-namespace quotas (quotes: 10k, rate_limits: 100k
\* max keys)"
RateQuotaHolds == Count(RateKeys) <= RateQuota

\* security_test.go: "Negative memory", for a store whose maxValueSize lets
\* an entry be larger than maxBytes
NoNegativeMemory == bytes >= 0
=============================================================================
