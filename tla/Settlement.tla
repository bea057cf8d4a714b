----------------------------- MODULE Settlement -----------------------------
(***************************************************************************)
(* From a quote to the bill.  The API registers the partner of each quote  *)
(* it answers under the hash of the quote; the indexer finds the hash in   *)
(* the memo of a payment, records the trade, bills the registered partner  *)
(* and removes the registration.  The four statements of a payment are     *)
(* four steps, since the other worker of the indexer, the API and a crash  *)
(* may come between them, and each may fail, which is only logged.         *)
(*                                                                         *)
(* A quote stands for its hash, which covers assets, amount, fees, ledger  *)
(* index and lifetime but not the partner: two partners may get the same.  *)
(* Times are compared with the clock only by the clean-up functions of the *)
(* database, which someone may call at any moment: a registration that has *)
(* expired goes, and a trade that was recorded 90 days ago.                *)
(***************************************************************************)
EXTENDS Orderbook

CONSTANTS
  Partners,
  NoPartner,
  Quotes,
  QuoteOf    \* the quote whose hash the memo of a payment carries

\* The hash of a transaction occurs once in a history
SingleOccurrence(h) ==
  \A l, k \in DOMAIN h : \A i \in DOMAIN h[l], j \in DOMAIN h[k] :
    h[l][i].type = "Payment" /\ h[l][i] = h[k][j] => l = k /\ i = j

ASSUME SettlementAssumption ==
  /\ NoPartner \notin Partners
  /\ QuoteOf \in [Payments -> Quotes]
  /\ \A h \in Histories : SingleOccurrence(h)

VARIABLES
  registry,   \* quote_registry: the partner of a quote, or NoPartner
  expired,    \* observed only: quotes whose registration was cleaned up
  requested,  \* observed only: who asked for which quote
  trades,     \* core.completed_trades, by tx_hash
  cleaned,    \* observed only: trades that were deleted after their 90 days
  usage,      \* usage_events of each transaction: the partners billed
  stage,      \* how far each worker is with the payment at hand
  unsettled   \* observed only: payments a statement has failed for

billing == <<registry, expired, requested, trades, cleaned, usage, stage, unsettled>>
allVars == <<vars, billing>>

AtStart == [pc |-> "lookup", partner |-> NoPartner]
Stages == {AtStart} \cup [pc : {"trade", "usage", "delete"}, partner : Partners]

SettleInit ==
  /\ Init
  /\ registry = [q \in Quotes |-> NoPartner]
  /\ expired = {} /\ requested = {}
  /\ trades = {} /\ cleaned = {}
  /\ usage = [t \in Payments |-> <<>>]
  /\ stage = [w \in Workers |-> AtStart]
  /\ unsettled = {}

-----------------------------------------------------------------------------
(* The API                                                                 *)

\* StoreQuoteRegistry: the hash is the primary key
Register(p, q) == IF registry[q] = NoPartner THEN [registry EXCEPT ![q] = p] ELSE registry

\* QuoteHandler: a registration that fails is logged, and the quote answered.
\* (Bound: only quotes that some payment carries.)
Quote(p, q) ==
  /\ \E t \in Payments, l \in Ledgers : QuoteOf[t] = q /\ Holds(l, Payment(t))
  /\ requested' = requested \cup {<<p, q>>}
  /\ registry' \in {registry, Register(p, q)}
  /\ UNCHANGED <<vars, expired, trades, cleaned, usage, stage, unsettled>>

\* cleanup_expired_quotes, whenever someone calls it; each row it deletes is a
\* step, as the payments of different quotes do not meet
Expire(q) ==
  /\ registry[q] # NoPartner
  /\ registry' = [registry EXCEPT ![q] = NoPartner]
  /\ expired' = expired \cup {q}
  /\ UNCHANGED <<vars, requested, trades, cleaned, usage, stage, unsettled>>

\* cleanup_old_trades, whenever someone calls it: rows that are 90 days old
CleanUpTrade(t) ==
  /\ t \in trades
  /\ trades' = trades \ {t}
  /\ cleaned' = cleaned \cup {t}
  /\ UNCHANGED <<vars, registry, expired, requested, usage, stage, unsettled>>

-----------------------------------------------------------------------------
(* The indexer                                                             *)

\* A payment carries the hash of a quote somebody has asked for
TakeLedger(w, l) ==
  /\ Take(w, l)
  /\ \A i \in DOMAIN history[l] : history[l][i].type = "Payment" =>
       \E p \in Partners : <<p, QuoteOf[history[l][i].id]>> \in requested
  /\ UNCHANGED billing

\* The hash of the payment a worker stands at
AtPayment(w) ==
  /\ Busy(w) /\ ~LoopDone(w)
  /\ history[work[w].ledger][work[w].tx].type = "Payment"
Hash(w) == history[work[w].ledger][work[w].tx].id

AtStage(w, pc) == AtPayment(w) /\ stage[w].pc = pc
Goto(w, pc) == stage' = [stage EXCEPT ![w].pc = pc]

ApplyOther(w) == ~AtPayment(w) /\ Apply(w) /\ UNCHANGED billing

\* The payment is settled as far as it ever will be
NextTransaction(w) == Apply(w) /\ stage' = [stage EXCEPT ![w] = AtStart]

\* An error at the payment at hand
Fails(w) ==
  /\ unsettled' = unsettled \cup {Hash(w)}
  /\ Cardinality(unsettled') <= MaxFailures

\* The payment has no readable memo, or its quote is not registered
Ignore(w) ==
  /\ AtStage(w, "lookup")
  /\ ~HasQuoteHash(Payment(Hash(w))) \/ registry[QuoteOf[Hash(w)]] = NoPartner
  /\ NextTransaction(w)
  /\ UNCHANGED <<registry, expired, requested, trades, cleaned, usage, unsettled>>

\* extractTradeDetails or GetQuoteRegistryEntry fails
LookupFails(w) ==
  /\ AtStage(w, "lookup")
  /\ NextTransaction(w)
  /\ Fails(w)
  /\ UNCHANGED <<registry, expired, requested, trades, cleaned, usage>>

\* Mutant: the payment is billed but its trade is not recorded
BillFirstMutant(w) ==
  /\ AtStage(w, "lookup")
  /\ registry[QuoteOf[Hash(w)]] # NoPartner
  /\ stage' = [stage EXCEPT ![w] = [pc |-> "usage", partner |-> registry[QuoteOf[Hash(w)]]]]
  /\ UNCHANGED <<vars, registry, expired, requested, trades, cleaned, usage, unsettled>>

GetQuoteRegistryEntry(w) ==
  /\ AtStage(w, "lookup")
  /\ HasQuoteHash(Payment(Hash(w))) /\ registry[QuoteOf[Hash(w)]] # NoPartner
  /\ stage' = [stage EXCEPT ![w] = [pc |-> "trade", partner |-> registry[QuoteOf[Hash(w)]]]]
  /\ UNCHANGED <<vars, registry, expired, requested, trades, cleaned, usage, unsettled>>

\* Mutant: the registration goes as soon as the trade is recorded
InsertCompletedTradeMutant(w) ==
  /\ AtStage(w, "trade")
  /\ Goto(w, "usage")
  /\ trades' = trades \cup {Hash(w)}
  /\ registry' = [registry EXCEPT ![QuoteOf[Hash(w)]] = NoPartner]
  /\ UNCHANGED <<vars, expired, requested, cleaned, usage, unsettled>>

\* ON CONFLICT (tx_hash) DO NOTHING
InsertCompletedTrade(w) ==
  /\ AtStage(w, "trade")
  /\ Goto(w, "usage")
  /\ \/ trades' = trades \cup {Hash(w)} /\ UNCHANGED unsettled
     \/ Fails(w) /\ UNCHANGED trades
  /\ UNCHANGED <<vars, registry, expired, requested, cleaned, usage>>

\* Mutant: a statement whose answer is lost is sent again
InsertUsageEventMutant(w) ==
  /\ AtStage(w, "usage")
  /\ Goto(w, "usage") \/ Goto(w, "delete")
  /\ usage' = [usage EXCEPT ![Hash(w)] = Append(@, stage[w].partner)]
  /\ UNCHANGED <<vars, registry, expired, requested, trades, cleaned, unsettled>>

\* Mutant: the statement reads the partner from the registry again
BillCurrentMutant(w) ==
  /\ AtStage(w, "usage")
  /\ Goto(w, "delete")
  /\ usage' = [usage EXCEPT ![Hash(w)] = Append(@, registry[QuoteOf[Hash(w)]])]
  /\ UNCHANGED <<vars, registry, expired, requested, trades, cleaned, unsettled>>

\* ON CONFLICT DO NOTHING, but no column that could conflict
InsertUsageEvent(w) ==
  /\ AtStage(w, "usage")
  /\ Goto(w, "delete")
  /\ \/ /\ usage' = [usage EXCEPT ![Hash(w)] = Append(@, stage[w].partner)]
        /\ UNCHANGED unsettled
     \/ Fails(w) /\ UNCHANGED usage
  /\ UNCHANGED <<vars, registry, expired, requested, trades, cleaned>>

DeleteQuoteRegistryEntry(w) ==
  /\ AtStage(w, "delete")
  /\ NextTransaction(w)
  /\ registry' \in {registry, [registry EXCEPT ![QuoteOf[Hash(w)]] = NoPartner]}
  /\ UNCHANGED <<expired, requested, trades, cleaned, usage, unsettled>>

SettlePayment(w) ==
  \/ Ignore(w) \/ LookupFails(w) \/ GetQuoteRegistryEntry(w)
  \/ InsertCompletedTrade(w) \/ InsertUsageEvent(w) \/ DeleteQuoteRegistryEntry(w)

\* The tables survive the process
Restart ==
  /\ Crash
  /\ stage' = [w \in Workers |-> AtStart]
  /\ UNCHANGED <<registry, expired, requested, trades, cleaned, usage, unsettled>>

SettleNext ==
  \/ \E q \in Quotes : Expire(q) \/ \E p \in Partners : Quote(p, q)
  \/ \E t \in trades : CleanUpTrade(t)
  \/ \E w \in Workers :
       \/ SettlePayment(w) \/ ApplyOther(w)
       \/ Save(w) /\ UNCHANGED billing
       \/ \E l \in todo[w] : TakeLedger(w, l) \/ (Miss(w, l) /\ UNCHANGED billing)
  \/ Restart

SettleSpec == SettleInit /\ [][SettleNext]_allVars

-----------------------------------------------------------------------------
(* Properties                                                              *)

Billed(t) == usage[t] # <<>>

\* A partner pays only for trades on record: whatever statements of other payments
\* fail, wherever the process stops and however often a ledger is applied, a billed
\* payment has its trade, until that has been kept for its 90 days.
BilledIsRecorded ==
  \A t \in Payments : Billed(t) => t \in trades \cup cleaned \cup unsettled

\* No other payment carries the quote, and the clean-up has not met it
Sole(t) ==
  QuoteOf[t] \notin expired /\ \A u \in Payments : QuoteOf[u] = QuoteOf[t] => u = t

\* The other way round: once its ledger has a checkpoint, a recorded trade is
\* billed, also if the process stopped between the two statements or could not save
\* the checkpoint, unless a statement of the payment failed or the registration was
\* taken away by the clean-up or for another payment.  A ledger that is applied again
\* under its checkpoint is outside the promise: a crash may end that half-way.
RecordedIsBilled ==
  \A l \in saved \ reread, t \in trades \ unsettled :
    Holds(l, Payment(t)) /\ Sole(t) => Billed(t)

\* usage_events has nothing to conflict on, so a payment can be billed again; but
\* only when a crash, a checkpoint that was not saved or one that was not read
\* has made the ledger be applied again, once for each.
BillingBound == \A t \in Payments : Len(usage[t]) <= 1 + crashes + lapses

\* Who is billed has asked for the quote, though registrations come and go
\* between the statements of the payment.
BilledHasAsked ==
  \A t \in Payments : \A i \in DOMAIN usage[t] : <<usage[t][i], QuoteOf[t]>> \in requested

\* As long as the parsers get what xrpl.Transaction hands on, the whole loop
\* stores nothing that counts: no row is ever active or cancelled, no pool is kept, and
\* no payment of any partner's quote is recorded or billed.
FieldsAreLost ==
  carried = TransactionFields =>
    /\ \A o \in Offers : offers[o].status \in {"none", "invalid_parse"}
    /\ \A a \in Accounts : pools[a] = NoPool
    /\ trades = {} /\ \A t \in Payments : ~Billed(t)

(* What the code does not do                                               *)

\* "processing the same ledger twice is safe" (backfill_test.go:65)
BilledOnce == \A t \in Payments : Len(usage[t]) <= 1
=============================================================================
