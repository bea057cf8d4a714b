----------------------------- MODULE Orderbook -----------------------------
(***************************************************************************)
(* The transaction loop of processLedger, with the parsers that turn a     *)
(* transaction into a row and the statements that write it: what the       *)
(* tables core.orderbook_state and core.amm_pools hold after ledgers were  *)
(* applied, abandoned by a crash, applied again, or applied late by the    *)
(* backfill goroutine while the main loop goes on.  A statement of the     *)
(* loop that fails is only logged; when the query for the checkpoint fails *)
(* a ledger is applied once more, and when the checkpoint is not saved the *)
(* process goes on.  Settlement adds what the loop does with payments.     *)
(*                                                                         *)
(* Indexer models which ledgers reach which worker; of that this module    *)
(* keeps what each may still take: backfill the ledgers from the newest    *)
(* checkpoint to the current one, once and in order; the main loop those   *)
(* from there on, as their answers arrive, and again when they are         *)
(* announced again; either may miss some.  An offer is one value for its   *)
(* account and sequence number, and is created once; offers placed with a  *)
(* ticket, which carry no sequence number, are left out.                   *)
(*                                                                         *)
(* The parsers see what xrpl.Transaction hands on.  That is too little for *)
(* any of them; the module also covers the whole transactions that they    *)
(* and their tests are written for, so that what the loop does then is     *)
(* known before the missing fields are added.                              *)
(***************************************************************************)
EXTENDS Integers, Sequences, FiniteSets, FiniteSetsExt

CONSTANTS
  Histories,   \* what the ledgers 1..N may hold: sequences of sequences of transactions
  Offers,      \* an account and the sequence number of its OfferCreate
  Accounts,    \* senders of AMMCreate
  Pairs,       \* asset pairs of pools
  Payments,    \* hashes of the transactions that pay for a quote
  Overtake,    \* how many earlier ledgers an answer may overtake: a goroutine
               \* of its own fetches each
  MaxCrashes,  \* bound: restarts of the process
  MaxFailures, \* bound: transactions in failed
  MaxLapses    \* bound: failures of GetCheckpoint and SaveCheckpoint

\* The transactions and the fields the parsers look for in them
OfferCreate(o) == [type |-> "OfferCreate", id |-> o, pair |-> "none"]
OfferCancel(o) == [type |-> "OfferCancel", id |-> o, pair |-> "none"]
AMMCreate(a, p) == [type |-> "AMMCreate", id |-> a, pair |-> p]
\* An OfferCreate so cheap that "%.8f" prints its price as zero
DustCreate(o) == [type |-> "DustCreate", id |-> o, pair |-> "none"]
\* An OfferCancel with the memo of a quote
MarkedCancel(o) == [type |-> "MarkedCancel", id |-> o, pair |-> "none"]
Payment(t) == [type |-> "Payment", id |-> t, pair |-> "none"]

Transactions ==
  {OfferCreate(o) : o \in Offers} \cup {DustCreate(o) : o \in Offers}
  \cup {OfferCancel(o) : o \in Offers} \cup {MarkedCancel(o) : o \in Offers}
  \cup {AMMCreate(a, p) : a \in Accounts, p \in Pairs} \cup {Payment(t) : t \in Payments}

ASSUME OrderbookAssumption ==
  /\ Histories \subseteq Seq(Seq(Transactions))
  /\ "none" \notin Pairs
  /\ Overtake \in Nat /\ MaxCrashes \in Nat /\ MaxFailures \in Nat /\ MaxLapses \in Nat

\* The fields of a transaction that outlive json.Marshal of an xrpl.Transaction ...
TransactionFields ==
  {"TransactionType", "Account", "Sequence", "Fee", "hash", "ledger_index", "meta", "metaData"}
\* ... and all that the parsers and the quote path look for
WholeTransaction ==
  TransactionFields
    \cup {"TakerPays", "TakerGets", "OfferSequence", "Amount", "Amount2", "Memos"}

Workers == {"live", "backfill"}

VARIABLES
  history,   \* what the network validated: history[l] is ledger l
  carried,   \* the fields handed on to the parsers: those of the code, or all
  offers,    \* core.orderbook_state, by (owner_account, offer_sequence)
  pools,     \* core.amm_pools, by account
  saved,     \* core.ledger_checkpoints
  work,      \* each worker's ledger and the position of its loop; 0: idle
  todo,      \* the ledgers each worker may still take
  crashes,
  lapses,    \* how often GetCheckpoint or SaveCheckpoint has failed
  reread,    \* observed only: ledgers applied although they had a checkpoint,
  failed     \* and transactions whose statement failed when last run

network == <<history, carried>>
faults == <<crashes, lapses, reread>>
vars == <<network, offers, pools, saved, work, todo, faults, failed>>

Ledgers == DOMAIN history
NoOffer == [status |-> "none", ledger |-> 0]
NoPool == [pair |-> "none", reserves |-> "none"]
Idle == [ledger |-> 0, tx |-> 0]
Busy(w) == work[w] # Idle

\* Types; a worker in its loop stands at one of its ledger's transactions or behind
\* the last, and the ledger has no checkpoint, unless the worker failed to read it.
TypeOK ==
  /\ history \in Histories /\ carried \in {TransactionFields, WholeTransaction}
  /\ offers \in [Offers -> {NoOffer} \cup
                  [status : {"active", "cancelled", "invalid_parse"}, ledger : Ledgers]]
  /\ pools \in [Accounts -> {NoPool} \cup [pair : Pairs, reserves : Pairs]]
  /\ saved \subseteq Ledgers
  /\ work \in [Workers -> [ledger : Ledgers \cup {0}, tx : Nat]]
  /\ \A w \in Workers : Busy(w) => /\ work[w].ledger \in Ledgers \ (saved \ reread)
                                  /\ work[w].tx \in 1..Len(history[work[w].ledger]) + 1
  /\ todo \in [Workers -> SUBSET Ledgers]
  /\ crashes \in 0..MaxCrashes /\ lapses \in 0..MaxLapses
  /\ reread \subseteq Ledgers
  /\ failed \subseteq Transactions

Init ==
  /\ history \in Histories /\ carried \in {TransactionFields, WholeTransaction}
  /\ offers = [o \in Offers |-> NoOffer]
  /\ pools = [a \in Accounts |-> NoPool]
  /\ saved = {}
  /\ work = [w \in Workers |-> Idle]
  /\ todo = [w \in Workers |-> IF w = "live" THEN Ledgers ELSE {}]
  /\ crashes = 0 /\ lapses = 0 /\ reread = {} /\ failed = {}

-----------------------------------------------------------------------------
(* Which ledger a worker takes                                             *)

\* FetchLedgerSync failed, or the channel was full
Miss(w, l) ==
  /\ todo' = [todo EXCEPT ![w] = @ \ {l}]
  /\ UNCHANGED <<network, offers, pools, saved, work, faults, failed>>

\* The ledgers that may be a worker's next
Arriving(w) ==
  {l \in todo[w] :
     Cardinality({k \in todo[w] : k < l}) <= IF w = "live" THEN Overtake ELSE 0}

\* The main loop may be given a ledger again: announced twice, it is fetched twice
Deliver(w, l) ==
  \/ todo' = [todo EXCEPT ![w] = @ \ {l}]
  \/ w = "live" /\ UNCHANGED todo

Begin(w, l) == work' = [work EXCEPT ![w] = [ledger |-> l, tx |-> 1]]

\* A checkpoint that is not read, or not saved
Lapse == lapses < MaxLapses /\ lapses' = lapses + 1

\* Mutant: GetCheckpoint is not asked
ProcessedMutant(l) == FALSE

Processed(l) == l \in saved

\* err == nil && existingCheckpoint != nil: a ledger with a checkpoint is skipped,
\* but not if the query fails
Take(w, l) ==
  /\ ~Busy(w) /\ l \in Arriving(w)
  /\ Deliver(w, l)
  /\ \/ Processed(l) /\ UNCHANGED <<work, lapses, reread>>
     \/ ~Processed(l) /\ Begin(w, l) /\ UNCHANGED <<lapses, reread>>
     \/ Processed(l) /\ Begin(w, l) /\ Lapse /\ reread' = reread \cup {l}
  /\ UNCHANGED <<network, offers, pools, saved, crashes, failed>>

\* The process stops anywhere; its successor starts from the newest
\* checkpoint, and the network has reached ledger current meanwhile
Crash ==
  /\ crashes < MaxCrashes
  /\ crashes' = crashes + 1
  /\ work' = [w \in Workers |-> Idle]
  /\ \E current \in Ledgers :
       /\ current >= Max({work[w].ledger : w \in Workers} \cup saved)
       /\ todo' = [w \in Workers |->
            IF w = "live" THEN {l \in Ledgers : l >= current}
            ELSE {l \in Ledgers : saved # {} /\ l > Max(saved) /\ l < current}]
  /\ UNCHANGED <<network, offers, pools, saved, lapses, reread, failed>>

-----------------------------------------------------------------------------
(* The transaction loop                                                    *)

\* Mutant: a missing amount is taken for zero
CreatedStatusMutant == "active"

\* parseOfferCreate: a row for every OfferCreate, active if it is complete
CreatedStatus ==
  IF {"TakerPays", "TakerGets"} \subseteq carried THEN "active" ELSE "invalid_parse"

\* UpsertOffer: on a conflict the new row wins, whatever ledger it is from
UpsertOffer(o, l) ==
  offers' = [offers EXCEPT ![o] = [status |-> CreatedStatus, ledger |-> l]]

\* The row of a dust offer violates CHECK (price > 0): logged and dropped.
\* An invalid_parse row is written with price 1
UpsertDust(o, l) ==
  IF CreatedStatus = "active" THEN UNCHANGED offers ELSE UpsertOffer(o, l)

\* Mutant: the ledger index of the row stays what it was
CancelOfferMutant(o, l) ==
  offers' = IF offers[o].status = "active" THEN [offers EXCEPT ![o].status = "cancelled"] ELSE offers

\* ParseOfferCancel and CancelOffer: without the field OfferSequence, or
\* without an active row, only a log line
CancelOffer(o, l) ==
  offers' = IF "OfferSequence" \in carried /\ offers[o].status = "active"
            THEN [offers EXCEPT ![o] = [status |-> "cancelled", ledger |-> l]]
            ELSE offers

\* parseAMMCreate and UpsertAMMPool.  A conflict on the account updates the
\* reserves only; a pair that another account's row holds is an error.
UpsertAMMPool(a, p) ==
  pools' = IF {"Amount", "Amount2"} \subseteq carried
              /\ (pools[a] # NoPool \/ \A b \in Accounts : pools[b].pair # p)
           THEN [pools EXCEPT ![a] = [pair |-> IF @ = NoPool THEN p ELSE @.pair, reserves |-> p]]
           ELSE pools

\* hasLucendexQuoteHash
HasQuoteHash(tx) == tx.type \in {"MarkedCancel", "Payment"} /\ "Memos" \in carried

\* What a transaction writes.  The memo of a cancel ends the loop body before
\* it comes to the cancel: a cancel has no amount to make a trade of
Execute(tx, l) ==
  \/ tx.type = "OfferCreate" /\ UpsertOffer(tx.id, l) /\ UNCHANGED pools
  \/ tx.type = "DustCreate" /\ UpsertDust(tx.id, l) /\ UNCHANGED pools
  \/ /\ tx.type \in {"OfferCancel", "MarkedCancel"} /\ ~HasQuoteHash(tx)
     /\ CancelOffer(tx.id, l) /\ UNCHANGED pools
  \/ tx.type = "AMMCreate" /\ UpsertAMMPool(tx.id, tx.pair) /\ UNCHANGED offers
  \/ HasQuoteHash(tx) /\ UNCHANGED <<offers, pools>>
  \/ tx.type = "Payment" /\ UNCHANGED <<offers, pools>>

\* Its statement fails, and the loop goes on
StatementFails(tx) ==
  /\ tx.type # "Payment" /\ ~HasQuoteHash(tx)
  /\ failed' = failed \cup {tx} /\ Cardinality(failed') <= MaxFailures
  /\ UNCHANGED <<offers, pools>>

\* One transaction of the loop
Apply(w) ==
  LET l == work[w].ledger
      tx == history[l][work[w].tx]
  IN /\ Busy(w) /\ work[w].tx <= Len(history[l])
     /\ \/ Execute(tx, l) /\ failed' = failed \ {tx}
        \/ StatementFails(tx)
     /\ work' = [work EXCEPT ![w].tx = @ + 1]
     /\ UNCHANGED <<network, saved, todo, faults>>

\* Mutant: the checkpoint is saved before the last transaction
LoopDoneMutant(w) == work[w].tx >= Len(history[work[w].ledger])

LoopDone(w) == work[w].tx > Len(history[work[w].ledger])

\* SaveCheckpoint, after the loop; its error is logged by both callers
Save(w) ==
  /\ Busy(w) /\ LoopDone(w)
  /\ work' = [work EXCEPT ![w] = Idle]
  /\ \/ saved' = saved \cup {work[w].ledger} /\ UNCHANGED lapses
     \/ Lapse /\ UNCHANGED saved
  /\ UNCHANGED <<network, offers, pools, todo, crashes, reread, failed>>

Next ==
  \/ \E w \in Workers : Apply(w) \/ Save(w) \/ \E l \in todo[w] : Miss(w, l) \/ Take(w, l)
  \/ Crash

Spec == Init /\ [][Next]_vars

-----------------------------------------------------------------------------
Holds(l, tx) == \E i \in DOMAIN history[l] : history[l][i] = tx

Cancels(l, o) == Holds(l, OfferCancel(o)) \/ Holds(l, MarkedCancel(o))
Cancelled(o) == \E l \in Ledgers : Cancels(l, o)

\* The offer is on the order book of the network in the end
Open(o) == (\E l \in Ledgers : Holds(l, OfferCreate(o))) /\ ~Cancelled(o)

\* No row claims what no ledger says: an active row was created, and a
\* cancelled one cancelled, by the ledger it names, and a pool's pair and
\* reserves were its account's.  Through repeated, overlapping and abandoned
\* applications.
RowsAreHistory ==
  /\ \A o \in Offers : offers[o] # NoOffer =>
       LET l == offers[o].ledger IN
       IF offers[o].status = "cancelled" THEN Cancels(l, o)
       ELSE Holds(l, OfferCreate(o)) \/ Holds(l, DustCreate(o))
  /\ \A a \in Accounts : pools[a] # NoPool =>
       \E l, k \in Ledgers : /\ Holds(l, AMMCreate(a, pools[a].pair))
                             /\ Holds(k, AMMCreate(a, pools[a].reserves))

\* The row of an offer the table must have, active unless some ledger cancels it
Listed(o) == offers[o] # NoOffer /\ (~Cancelled(o) => offers[o].status = CreatedStatus)

\* A checkpoint vouches for the writes of its ledger: each offer it created has a
\* row, and one that is still open is active, however its ledgers were repeated
\* or overtaken, unless the statement itself failed.
OpenIsListed ==
  \A l \in saved, o \in Offers :
    Holds(l, OfferCreate(o)) => Listed(o) \/ OfferCreate(o) \in failed

(* What the code does not do                                               *)

IsCurrent(o) == offers[o].status = "active" <=> Open(o)

\* "Indexes current state only (AMM pools, active orderbook offers)"
\* (architecture.md:266), with the fields that xrpl.Transaction hands on.
TableIsCurrent ==
  saved = Ledgers /\ carried = TransactionFields =>
    \A o \in Offers : IsCurrent(o)

\* The same for whole transactions: an OfferCancel that overtakes its OfferCreate, or a
\* ledger that is applied again, leaves a cancelled offer active
WholeTableIsCurrent ==
  saved = Ledgers /\ carried = WholeTransaction =>
    \A o \in Offers : IsCurrent(o)

\* The reserves of a pool are those of its pair
ReservesOfPair == \A a \in Accounts : pools[a].pair = pools[a].reserves
=============================================================================
