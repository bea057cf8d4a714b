----------------------------- MODULE RateLimit -----------------------------
(***************************************************************************)
(* The rate limiter of internal/api on top of the store: every request of  *)
(* a partner increments its counter, and a count beyond the limit of the   *)
(* plan is answered with 429 and Retry-After: 60.  The counters live in    *)
(* the store next to the quotes and compete with them for memory.          *)
(***************************************************************************)
EXTENDS KVStore

CONSTANT Limit   \* getLimitForPlan: 100, 1000 or 10000

ASSUME LimitAssumption == Limit \in Nat \ {0}

Window == 0..RateTTL   \* ages of a request within the last minute

VARIABLES
  made,      \* requests of each partner, by age: what a client can count
  admitted,  \* those that went on to the handler
  evicted    \* partners that have lost a live counter to the memory limit

vars == <<data, lru, bytes, made, admitted, evicted>>

None == [age \in Window |-> 0]
InWindow(requests) == SumFunctionOnSet(requests, Window)

LimitInit ==
  /\ Init
  /\ made = [p \in RateKeys |-> None]
  /\ admitted = [p \in RateKeys |-> None]
  /\ evicted = {}

Now(requests, p) == [requests EXCEPT ![p][0] = @ + 1]

Evict ==
  evicted' = evicted \cup {p \in RateKeys : Has(p) /\ ~Expired(data[p]) /\ data'[p] = NoEntry}

\* Mutant: count >= limit + 2
ExceedsMutant(count) == count > Limit + 1

\* count > int64(limit)
Exceeds(count) == count > Limit

\* IncrementRateLimit(partnerID, 60 s), then the comparison
Request(p) ==
  /\ InWindow(made[p]) <= MaxCount
  /\ made' = Now(made, p)
  /\ admitted' = IF Exceeds(NextCount(p)) THEN admitted ELSE Now(admitted, p)
  /\ IncrementRateLimit(p)
  /\ Evict

\* What else may be done with the store
StoreStep ==
  /\ \/ \E k \in QuoteKeys, size \in Sizes, ttl \in Lifetimes : Set(k, size, ttl)
     \/ \E k \in SystemKeys, size \in Sizes : Set(k, size, 0)
     \/ \E k \in QuoteKeys \cup SystemKeys : Get(k) \/ Delete(k)
     \/ Cleanup
  /\ Evict
  /\ UNCHANGED <<made, admitted>>

Aged(requests) == [age \in Window |-> IF age = 0 THEN 0 ELSE requests[age - 1]]

Second ==
  /\ Tick
  /\ made' = [p \in RateKeys |-> Aged(made[p])]
  /\ admitted' = [p \in RateKeys |-> Aged(admitted[p])]
  /\ UNCHANGED evicted

LimitNext == (\E p \in RateKeys : Request(p)) \/ StoreStep \/ Second

LimitSpec == LimitInit /\ [][LimitNext]_vars

-----------------------------------------------------------------------------
\* "requests per minute" (ratelimit.go:15): within any minute no more than the
\* plan's limit get through, except for a partner whose live counter had to
\* make room for other entries: that one starts again at 1.
AdmittedPerWindow == \A p \in RateKeys \ evicted : InWindow(admitted[p]) <= Limit

\* "Retry-After: 60": a partner that has kept still for longer than a
\* minute starts afresh, however often it was rejected before.
LockoutEnds ==
  [][\A p \in RateKeys :
       Request(p) /\ made[p] = None => admitted' = Now(admitted, p)]_vars

\* What the code does not do, since every request prolongs the life of its
\* counter: a partner whose last minute holds no more
\* requests than its limit, the one at hand included, is not rejected.
RejectedOnlyOverLimit ==
  [][\A p \in RateKeys :
       Request(p) /\ InWindow(made[p]) < Limit => admitted' = Now(admitted, p)]_vars
=============================================================================
