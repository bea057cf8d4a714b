--------------------------- MODULE CircuitBreaker ---------------------------
(***************************************************************************)
(* internal/router CircuitBreaker for one pair of assets; pairs share      *)
(* nothing but the caution mode.  CheckPrice compares the price of a quote *)
(* with the average of the last accepted ones, opens after too many        *)
(* rejections and lets a price try again after 30 s.                       *)
(*                                                                         *)
(* Prices are small integers.  The clock is a set of ages and remaining    *)
(* times that Tick moves and that stop where the code no longer tells them *)
(* apart, so time needs no bound.                                          *)
(***************************************************************************)
EXTENDS Integers, Sequences, SequencesExt

CONSTANTS
  Prices,         \* prices that a quote may have; 0 is what an empty pool gives
  Threshold,      \* the threshold of the caution mode in thousandths, half the normal one
  MaxPrices,      \* DefaultMaxPrices
  FailureLimit,   \* DefaultFailureLimit
  OpenFor,        \* 30 s, in ticks
  CautionFor,     \* DefaultCautionDuration, in ticks
  Durations,      \* durations that EnableCautionMode is called with
  MaxTimers       \* bound: timers that run at once

ASSUME BreakerAssumption ==
  /\ Prices \subseteq Nat /\ Prices # {} /\ Threshold \in Nat
  /\ MaxPrices \in Nat \ {0} /\ FailureLimit \in Nat \ {0}
  /\ OpenFor \in Nat /\ CautionFor \in Nat /\ Durations \subseteq Nat
  /\ MaxTimers \in Nat \ {0}

VARIABLES
  recentPrices,
  state,        \* "closed", "open" or "half-open"
  failures,
  sinceOpened,  \* the age of openedAt, at most OpenFor + 1
  cautionMode,
  cautionLeft,  \* the time to cautionUntil
  timers,       \* what is left of each timer that EnableCautionMode started
  market,       \* the price the pathfinder computes now
  streak,       \* rejections since a price was last accepted, at most FailureLimit
  panicked      \* a division by zero ended a call

breaker == <<recentPrices, state, failures, sinceOpened>>
caution == <<cautionMode, cautionLeft, timers>>
breakerVars == <<breaker, caution, market, streak, panicked>>

Minus1(n) == IF n > 0 THEN n - 1 ELSE 0
Least(m, n) == IF m < n THEN m ELSE n

BreakerInit ==
  /\ recentPrices = <<>> /\ state = "closed" /\ failures = 0 /\ sinceOpened = 0
  /\ cautionMode = TRUE /\ cautionLeft = CautionFor /\ timers = <<CautionFor>>
  /\ market \in Prices
  /\ streak = 0 /\ panicked = FALSE

-----------------------------------------------------------------------------
Total == SumFunction(recentPrices)

\* The threshold in force
Limit == IF cautionMode /\ cautionLeft > 0 THEN Threshold ELSE 2 * Threshold

\* price - average, times the number of prices
Off(price) == Len(recentPrices) * price - Total

\* Mutant: only a rise counts
DeviatesMutant(price, limit) == 1000 * Off(price) > limit * Total

\* |price - average| / average > limit, multiplied out
Deviates(price, limit) ==
  \/ 1000 * Off(price) > limit * Total
  \/ 1000 * Off(price) < -(limit * Total)

\* recordPrice
Record(price) ==
  LET all == Append(recentPrices, price)
  IN IF Len(all) > MaxPrices THEN Tail(all) ELSE all

\* Mutant: a rejection makes the breaker stay open for another 30 s
StillOpenMutant ==
  /\ state = "open" /\ sinceOpened <= OpenFor
  /\ sinceOpened' = 0
  /\ streak' = Least(streak + 1, FailureLimit)
  /\ UNCHANGED <<recentPrices, state, failures, panicked>>

\* CheckPrice of an open breaker
StillOpen ==
  /\ state = "open" /\ sinceOpened <= OpenFor
  /\ streak' = Least(streak + 1, FailureLimit)
  /\ UNCHANGED <<breaker, panicked>>

\* The state that CheckPrice goes on with: an open breaker is half-open now
Admits == state # "open" \/ sinceOpened > OpenFor
Tried == IF state = "open" THEN "half-open" ELSE state

Counted == IF state = "open" THEN 0 ELSE failures

\* Division by an average of zero
Panic ==
  /\ Admits /\ recentPrices # <<>> /\ Total = 0
  /\ state' = Tried /\ failures' = Counted
  /\ panicked' = TRUE
  /\ UNCHANGED <<recentPrices, sinceOpened, streak>>

\* Mutant: the limit may be passed
ReachesLimitMutant(n) == n > FailureLimit

ReachesLimit(n) == n >= FailureLimit

Reject ==
  /\ Admits /\ recentPrices # <<>> /\ Total # 0 /\ Deviates(market, Limit)
  /\ failures' = Counted + 1
  /\ IF ReachesLimit(failures')
     THEN state' = "open" /\ sinceOpened' = 0
     ELSE state' = Tried /\ UNCHANGED sinceOpened
  /\ streak' = Least(streak + 1, FailureLimit)
  /\ UNCHANGED <<recentPrices, panicked>>

\* Accepted; the first price of a pair always is
Accept ==
  /\ Admits
  /\ \/ recentPrices = <<>> /\ state' = Tried /\ failures' = Counted
     \/ /\ recentPrices # <<>> /\ Total # 0 /\ ~Deviates(market, Limit)
        /\ state' = "closed"
        /\ failures' = IF Tried = "half-open" THEN 0 ELSE failures
  /\ recentPrices' = Record(market)
  /\ streak' = 0
  /\ UNCHANGED <<sinceOpened, panicked>>

CheckPrice ==
  /\ StillOpen \/ Panic \/ Reject \/ Accept
  /\ UNCHANGED <<caution, market>>

\* Only tests call it
RecordTrade(price) ==
  /\ recentPrices' = Record(price)
  /\ UNCHANGED <<state, failures, sinceOpened, caution, market, streak, panicked>>

EnableCautionMode(d) ==
  /\ Len(timers) < MaxTimers
  /\ cautionMode' = TRUE /\ cautionLeft' = d /\ timers' = Append(timers, d)
  /\ UNCHANGED <<breaker, market, streak, panicked>>

\* One of the timers that have run out is gone
OneFires == \E i \in DOMAIN timers : timers[i] = 0 /\ timers' = RemoveAt(timers, i)

\* Mutant: a timer leaves the flag alone
FireTimerMutant ==
  /\ OneFires
  /\ UNCHANGED <<breaker, cautionMode, cautionLeft, market, streak, panicked>>

\* The function of time.AfterFunc, some time after its duration
FireTimer ==
  /\ OneFires /\ cautionMode' = FALSE
  /\ UNCHANGED <<breaker, cautionLeft, market, streak, panicked>>

\* The process starts again: nothing was persisted
Restart ==
  /\ recentPrices' = <<>> /\ state' = "closed" /\ failures' = 0 /\ sinceOpened' = 0
  /\ cautionMode' = TRUE /\ cautionLeft' = CautionFor /\ timers' = <<CautionFor>>
  /\ streak' = 0
  /\ UNCHANGED <<market, panicked>>

Tick ==
  /\ sinceOpened' = IF state = "open" THEN Least(sinceOpened + 1, OpenFor + 1) ELSE sinceOpened
  /\ cautionLeft' = Minus1(cautionLeft)
  /\ timers' = [i \in DOMAIN timers |-> Minus1(timers[i])]
  /\ UNCHANGED <<recentPrices, state, failures, cautionMode, market, streak, panicked>>

\* The pools and offers of the pair change
Move(price) ==
  /\ market' = price
  /\ UNCHANGED <<breaker, caution, streak, panicked>>

\* What the router's process does in production
Service == CheckPrice \/ FireTimer \/ Restart \/ Tick \/ \E p \in Prices : Move(p)

BreakerNext ==
  \/ Service
  \/ \E p \in Prices : RecordTrade(p)
  \/ \E d \in Durations : EnableCautionMode(d)

\* Quotes go on being asked for, and time passes
Fairness == WF_breakerVars(CheckPrice) /\ WF_breakerVars(Tick) /\ WF_breakerVars(FireTimer)

BreakerSpec == BreakerInit /\ [][BreakerNext]_breakerVars /\ Fairness
ServiceSpec == BreakerInit /\ [][Service]_breakerVars /\ Fairness

-----------------------------------------------------------------------------
\* The number of failures and the state go together: the breaker is open
\* exactly when the limit is reached.
TypeOK ==
  /\ recentPrices \in Seq(Prices) /\ Len(recentPrices) <= MaxPrices
  /\ state \in {"closed", "open", "half-open"}
  /\ failures \in 0..FailureLimit /\ (failures = FailureLimit <=> state = "open")
  /\ sinceOpened \in 0..OpenFor + 1
  /\ cautionMode \in BOOLEAN /\ cautionLeft \in Nat /\ timers \in Seq(Nat)
  /\ market \in Prices /\ streak \in 0..FailureLimit /\ panicked \in BOOLEAN

\* The caution mode is never left on: as long as it is, the timer of the last
\* EnableCautionMode is still to fire.
CautionEnds == cautionMode => cautionLeft \in Range(timers)

\* Once the average is above zero, CheckPrice never brings it back to zero, in
\* whatever order prices come and drop out of the window: the division by the
\* average can only fail before the first price above zero, or after trades.
AverageStaysPositive == [][CheckPrice /\ Total > 0 => Total' > 0]_breakerVars

\* The market is within the tighter threshold of the average
PriceIsBack == recentPrices = <<>> \/ (Total # 0 /\ ~Deviates(market, Threshold))

\* A pair whose price comes back is traded again: if from some time on the
\* market stays within the tighter threshold, the breaker closes, again after
\* every restart.
Recovers ==
  <>[]PriceIsBack => []<>(state = "closed")

(* What the code does not do                                               *)

\* "Consecutive failures before opening" (006_router_security.sql:84): since a
\* price was last accepted, an open breaker has rejected FailureLimit ones.
OpensOnConsecutive == state = "open" => streak = FailureLimit

\* "No panics in production code" (CONTRIBUTING.md:123)
NoPanic == ~panicked

\* "if price change exceeds threshold in short interval, pause or reject"
\* (white-paper.md:196): a price that stays where it is, is accepted at last.
NewPriceIsAccepted == \A p \in Prices : <>[](market = p) => []<>(streak = 0)
=============================================================================
