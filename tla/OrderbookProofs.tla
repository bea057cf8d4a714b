-------------------------- MODULE OrderbookProofs --------------------------
(***************************************************************************)
(* For every history, any number of crashes and lapses and answers in any  *)
(* order: the rows of Orderbook say what some ledger says, and a           *)
(* checkpoint vouches for the offers of its ledger, whichever statements   *)
(* fail.  The second half is about Settlement: what the statements of a    *)
(* payment leave behind fits together, although no transaction holds them  *)
(* together, and nothing of it is stored as long as the fields are lost.   *)
(***************************************************************************)
EXTENDS Settlement, FiniteSetTheorems, TLAPS

\* The row the offer must have is there, or its statement has failed
Settled(o) == Listed(o) \/ OfferCreate(o) \in failed

\* What a worker has passed in its loop is stored
PassedIsListed ==
  \A w \in Workers : Busy(w) =>
    \A i \in 1..work[w].tx - 1, o \in Offers :
      history[work[w].ledger][i] = OfferCreate(o) => Settled(o)

\* What a worker has, or may still take
Reach(w) == todo[w] \cup (IF Busy(w) THEN {work[w].ledger} ELSE {})

\* The backfill goroutine stays behind the main loop, so that no ledger is
\* in the hands of both
BackfillBehind == \A b \in Reach("backfill"), l \in Reach("live") : b < l

BookInv ==
  TypeOK /\ RowsAreHistory /\ PassedIsListed /\ OpenIsListed /\ BackfillBehind

\* The kinds of transaction, each with what its fields hold.
LEMMA TransactionTypes ==
  ASSUME NEW tx \in Transactions
  PROVE  \/ \E o \in Offers : tx = OfferCreate(o) /\ tx.id = o /\ tx.type = "OfferCreate"
         \/ \E o \in Offers : tx = DustCreate(o) /\ tx.id = o /\ tx.type = "DustCreate"
         \/ \E o \in Offers : tx = OfferCancel(o) /\ tx.id = o /\ tx.type = "OfferCancel"
         \/ \E o \in Offers : tx = MarkedCancel(o) /\ tx.id = o /\ tx.type = "MarkedCancel"
         \/ \E a \in Accounts, p \in Pairs :
              tx = AMMCreate(a, p) /\ tx.id = a /\ tx.pair = p /\ tx.type = "AMMCreate"
         \/ \E t \in Payments : tx = Payment(t) /\ tx.id = t /\ tx.type = "Payment"
  BY SMT DEF Transactions, OfferCreate, DustCreate, OfferCancel, MarkedCancel, AMMCreate, Payment

\* A ledger is a sequence of transactions
LEMMA LedgerShape ==
  ASSUME TypeOK, NEW l \in Ledgers
  PROVE  /\ history[l] \in Seq(Transactions)
         /\ Ledgers \subseteq Nat /\ 0 \notin Ledgers
         /\ Len(history[l]) \in Nat
         /\ DOMAIN history[l] = 1..Len(history[l])
<1>1. history \in Seq(Seq(Transactions))
  BY OrderbookAssumption DEF TypeOK
<1>2. Ledgers = 1..Len(history) /\ Len(history) \in Nat
  BY <1>1 DEF Ledgers
<1>3. history[l] \in Seq(Transactions)
  BY <1>1, <1>2
<1> QED
  BY <1>2, <1>3

\* The empty tables satisfy the invariant.
LEMMA BookInit == Init => BookInv
<1> SUFFICES ASSUME Init PROVE BookInv
  OBVIOUS
<1> USE DEF Init
<1>1. TypeOK
  BY OrderbookAssumption, SMT DEF TypeOK, Ledgers, Workers, Busy, Idle
<1>2. RowsAreHistory /\ PassedIsListed /\ OpenIsListed
  BY DEF RowsAreHistory, PassedIsListed, OpenIsListed, Busy
<1>3. BackfillBehind
  BY DEF BackfillBehind, Reach, Busy, Workers
<1> QED
  BY <1>1, <1>2, <1>3 DEF BookInv

-----------------------------------------------------------------------------
\* A ledger is taken, missed or skipped: the tables stay
LEMMA TakeKeeps ==
  ASSUME BookInv, NEW w \in Workers, NEW l \in todo[w], Take(w, l) \/ Miss(w, l)
  PROVE  BookInv'
<1> USE DEF BookInv
<1>0. /\ history' = history /\ offers' = offers /\ pools' = pools /\ saved' = saved
      /\ carried' = carried /\ crashes' = crashes /\ failed' = failed /\ Ledgers' = Ledgers
      /\ todo' = todo \/ todo' = [todo EXCEPT ![w] = @ \ {l}]
      /\ \/ work' = work /\ reread' = reread
         \/ /\ ~Busy(w) /\ work' = [work EXCEPT ![w] = [ledger |-> l, tx |-> 1]]
            /\ \/ l \notin saved /\ reread' = reread
               \/ reread' = reread \cup {l}
      /\ lapses' = lapses \/ (lapses < MaxLapses /\ lapses' = lapses + 1)
  BY DEF Take, Miss, Processed, Deliver, Begin, Lapse, Ledgers, network, faults
<1>1. l \in Ledgers
  BY DEF TypeOK
<1>2. l \in Nat /\ 0 \notin Ledgers /\ Len(history[l]) \in Nat
  BY <1>1, LedgerShape
<1>3. TypeOK'
  <2>1. work' \in [Workers -> [ledger : Ledgers \cup {0}, tx : Nat]]
    BY <1>0, <1>1 DEF TypeOK
  <2>3. \A v \in Workers : Busy(v)' => /\ work'[v].ledger \in Ledgers \ (saved \ reread')
                                      /\ work'[v].tx \in 1..Len(history[work'[v].ledger]) + 1
    BY <1>0, <1>1, <1>2 DEF TypeOK, Busy, Workers
  <2>2. todo' \in [Workers -> SUBSET Ledgers]
    BY <1>0 DEF TypeOK
  <2>4. lapses' \in 0..MaxLapses /\ reread' \subseteq Ledgers
    BY <1>0, <1>1, OrderbookAssumption DEF TypeOK
  <2> QED
    BY <1>0, <2>1, <2>2, <2>3, <2>4 DEF TypeOK
<1>4. RowsAreHistory' /\ OpenIsListed'
  BY <1>0 DEF RowsAreHistory, OpenIsListed, Holds, Cancels, Listed, Cancelled, CreatedStatus
<1>5. PassedIsListed'
  <2> SUFFICES ASSUME NEW v \in Workers, Busy(v)', NEW i \in 1..work'[v].tx - 1, NEW o \in Offers,
                      history[work'[v].ledger][i] = OfferCreate(o)
               PROVE  Settled(o)
    BY <1>0 DEF PassedIsListed, Settled, Listed, Cancelled, Cancels, Holds, CreatedStatus
  <2>1. work'[v] = work[v] \/ work'[v].tx = 1
    BY <1>0 DEF TypeOK
  <2> QED
    BY <2>1 DEF PassedIsListed, Busy
<1>6. BackfillBehind'
  <2>1. \A v \in Workers : Reach(v)' \subseteq Reach(v)
    BY <1>0, <1>1 DEF Reach, Busy, TypeOK, Workers
  <2> QED
    BY <2>1 DEF BackfillBehind, Workers
<1> QED
  BY <1>3, <1>4, <1>5, <1>6

\* What one transaction may do to the row of an offer ...
RowStep(o, tx, l) ==
  \/ offers'[o] = offers[o]
  \/ /\ offers'[o] = [status |-> CreatedStatus, ledger |-> l]
     /\ tx = OfferCreate(o) \/ tx = DustCreate(o)
  \/ /\ offers'[o] = [status |-> "cancelled", ledger |-> l]
     /\ tx = OfferCancel(o) \/ tx = MarkedCancel(o)

\* ... and to the row of a pool
PoolStep(a, tx) ==
  \/ pools'[a] = pools[a]
  \/ \E p \in Pairs :
       /\ tx = AMMCreate(a, p)
       /\ \/ pools'[a] = [pair |-> p, reserves |-> p]
          \/ pools[a] # NoPool /\ pools'[a] = [pair |-> pools[a].pair, reserves |-> p]

Rows == {NoOffer} \cup [status : {"active", "cancelled", "invalid_parse"}, ledger : Ledgers]
PoolRows == {NoPool} \cup [pair : Pairs, reserves : Pairs]

\* What the statement of one transaction does to the two tables.
LEMMA TransactionStep ==
  ASSUME TypeOK, NEW l \in Ledgers, NEW tx \in Transactions, Execute(tx, l)
  PROVE  /\ offers' \in [Offers -> Rows] /\ pools' \in [Accounts -> PoolRows]
         /\ \A o \in Offers : RowStep(o, tx, l)
         /\ \A o \in Offers :
              tx = OfferCreate(o) => offers'[o] = [status |-> CreatedStatus, ledger |-> l]
         /\ \A a \in Accounts : PoolStep(a, tx)
<1>2. 0 \notin Ledgers
  BY LedgerShape
<1>4. offers \in [Offers -> Rows] /\ pools \in [Accounts -> PoolRows]
  BY DEF TypeOK, Rows, PoolRows
<1>5. CreatedStatus \in {"active", "invalid_parse"}
  BY DEF CreatedStatus
<1>6. [status |-> CreatedStatus, ledger |-> l] \in Rows
      /\ [status |-> "cancelled", ledger |-> l] \in Rows
  BY <1>5 DEF Rows
<1>7. CASE \E o \in Offers : tx = OfferCreate(o) /\ tx.id = o /\ tx.type = "OfferCreate"
  <2>1. PICK o \in Offers : tx = OfferCreate(o) /\ tx.id = o /\ tx.type = "OfferCreate"
    BY <1>7
  <2>2. offers' = [offers EXCEPT ![o] = [status |-> CreatedStatus, ledger |-> l]] /\ pools' = pools
    BY <2>1 DEF Execute, UpsertOffer, HasQuoteHash
  <2>3. \A x \in Offers : tx = OfferCreate(x) => x = o
    BY <2>1 DEF OfferCreate
  <2> QED
    BY <1>4, <1>6, <2>1, <2>2, <2>3 DEF RowStep, PoolStep
<1>8. CASE \E o \in Offers : tx = DustCreate(o) /\ tx.id = o /\ tx.type = "DustCreate"
  <2>1. PICK o \in Offers : tx = DustCreate(o) /\ tx.id = o /\ tx.type = "DustCreate"
    BY <1>8
  <2>2. /\ \/ offers' = offers
           \/ offers' = [offers EXCEPT ![o] = [status |-> CreatedStatus, ledger |-> l]]
        /\ pools' = pools
    BY <2>1 DEF Execute, UpsertDust, UpsertOffer, HasQuoteHash
  <2>3. \A x \in Offers : tx # OfferCreate(x)
    BY <2>1 DEF OfferCreate, DustCreate
  <2> QED
    BY <1>4, <1>6, <2>1, <2>2, <2>3 DEF RowStep, PoolStep
<1>9. CASE \E o \in Offers : /\ tx = OfferCancel(o) \/ tx = MarkedCancel(o)
                             /\ tx.id = o /\ tx.type \in {"OfferCancel", "MarkedCancel"}
  <2>1. PICK o \in Offers : /\ tx = OfferCancel(o) \/ tx = MarkedCancel(o)
                            /\ tx.id = o /\ tx.type \in {"OfferCancel", "MarkedCancel"}
    BY <1>9
  <2>2. /\ \/ offers' = offers
           \/ offers' = [offers EXCEPT ![o] = [status |-> "cancelled", ledger |-> l]]
        /\ pools' = pools
    BY <2>1 DEF Execute, CancelOffer
  <2>3. \A x \in Offers : tx # OfferCreate(x)
    BY <2>1 DEF OfferCreate, OfferCancel, MarkedCancel
  <2> QED
    BY <1>4, <1>6, <2>1, <2>2, <2>3 DEF RowStep, PoolStep
<1>10. CASE \E a \in Accounts, p \in Pairs :
              tx = AMMCreate(a, p) /\ tx.id = a /\ tx.pair = p /\ tx.type = "AMMCreate"
  <2>1. PICK a \in Accounts, p \in Pairs :
          tx = AMMCreate(a, p) /\ tx.id = a /\ tx.pair = p /\ tx.type = "AMMCreate"
    BY <1>10
  <2>2. offers' = offers /\ UpsertAMMPool(a, p)
    BY <2>1 DEF Execute, HasQuoteHash
  <2>3. \/ pools' = pools
        \/ /\ pools[a] = NoPool
           /\ pools' = [pools EXCEPT ![a] = [pair |-> p, reserves |-> p]]
        \/ /\ pools[a] # NoPool
           /\ pools' = [pools EXCEPT ![a] = [pair |-> pools[a].pair, reserves |-> p]]
    BY <2>2, <1>4 DEF UpsertAMMPool
  <2>4. \A x \in Offers : tx # OfferCreate(x)
    BY <2>1 DEF OfferCreate, AMMCreate
  <2>5. pools' \in [Accounts -> PoolRows]
    BY <1>4, <2>3 DEF PoolRows
  <2>6. \A x \in Accounts : PoolStep(x, tx)
    BY <1>4, <2>1, <2>3 DEF PoolStep
  <2> QED
    BY <1>4, <2>2, <2>4, <2>5, <2>6 DEF RowStep
<1>11. CASE \E t \in Payments : tx = Payment(t) /\ tx.type = "Payment"
  <2>1. offers' = offers /\ pools' = pools
    BY <1>11 DEF Execute
  <2>2. \A x \in Offers : tx # OfferCreate(x)
    BY <1>11 DEF OfferCreate, Payment
  <2> QED
    BY <1>4, <2>1, <2>2 DEF RowStep, PoolStep
<1> QED
  BY <1>7, <1>8, <1>9, <1>10, <1>11, TransactionTypes

\* A transaction of the loop is executed, or fails and leaves the tables alone.
LEMMA ApplyStep ==
  ASSUME TypeOK, NEW w \in Workers, Apply(w)
  PROVE  LET l == work[w].ledger
             tx == history[l][work[w].tx]
         IN /\ l \in Ledgers /\ tx \in Transactions /\ Holds(l, tx)
            /\ work[w].tx \in 1..Len(history[l])
            /\ offers' \in [Offers -> Rows] /\ pools' \in [Accounts -> PoolRows]
            /\ \A o \in Offers : RowStep(o, tx, l)
            /\ \A a \in Accounts : PoolStep(a, tx)
            /\ \/ failed' = failed \cup {tx}
               \/ /\ failed' = failed \ {tx}
                  /\ \A o \in Offers : tx = OfferCreate(o) =>
                       offers'[o] = [status |-> CreatedStatus, ledger |-> l]
<1> DEFINE l == work[w].ledger
           tx == history[l][work[w].tx]
<1>1. l \in Ledgers /\ work[w].tx \in Nat /\ work[w].tx >= 1 /\ work[w].tx <= Len(history[l])
  BY DEF Apply, TypeOK
<1>2. history[l] \in Seq(Transactions) /\ DOMAIN history[l] = 1..Len(history[l])
      /\ Len(history[l]) \in Nat
  BY <1>1, LedgerShape
<1>3. tx \in Transactions /\ Holds(l, tx)
  BY <1>1, <1>2 DEF Holds
<1>4. CASE Execute(tx, l) /\ failed' = failed \ {tx}
  BY <1>1, <1>3, <1>4, TransactionStep
<1>5. CASE StatementFails(tx)
  BY <1>1, <1>3, <1>5 DEF StatementFails, RowStep, PoolStep, TypeOK, Rows, PoolRows
<1> QED
  BY <1>4, <1>5 DEF Apply

\* Applying a transaction keeps the invariant.
LEMMA ApplyKeeps ==
  ASSUME BookInv, NEW w \in Workers, Apply(w)
  PROVE  BookInv'
<1> USE DEF BookInv
<1> DEFINE l == work[w].ledger
           tx == history[l][work[w].tx]
<1>0. /\ history' = history /\ carried' = carried /\ saved' = saved /\ todo' = todo
      /\ crashes' = crashes /\ lapses' = lapses /\ reread' = reread
      /\ Ledgers' = Ledgers /\ CreatedStatus' = CreatedStatus
      /\ work' = [work EXCEPT ![w].tx = @ + 1]
      /\ Busy(w)
  BY DEF Apply, Ledgers, network, faults, CreatedStatus
<1>1. /\ l \in Ledgers /\ tx \in Transactions /\ Holds(l, tx)
      /\ work[w].tx \in 1..Len(history[l])
      /\ offers' \in [Offers -> Rows] /\ pools' \in [Accounts -> PoolRows]
      /\ \A o \in Offers : RowStep(o, tx, l)
      /\ \A a \in Accounts : PoolStep(a, tx)
      /\ \/ failed' = failed \cup {tx}
         \/ /\ failed' = failed \ {tx}
            /\ \A o \in Offers : tx = OfferCreate(o) =>
                 offers'[o] = [status |-> CreatedStatus, ledger |-> l]
  BY ApplyStep
<1>2. Len(history[l]) \in Nat /\ 0 \notin Ledgers
  BY <1>1, LedgerShape
<1>3. \A v \in Workers : /\ work'[v].ledger = work[v].ledger
                         /\ Busy(v)' => Busy(v)
                         /\ v # w => work'[v] = work[v]
  BY <1>0 DEF Busy, TypeOK
<1>4. work'[w].tx = work[w].tx + 1
  BY <1>0 DEF TypeOK
<1>5. TypeOK'
  <2>1. work' \in [Workers -> [ledger : Ledgers \cup {0}, tx : Nat]]
    <3>1. work \in [Workers -> [ledger : Ledgers \cup {0}, tx : Nat]]
      BY DEF TypeOK
    <3>2. [work[w] EXCEPT !.tx = @ + 1] \in [ledger : Ledgers \cup {0}, tx : Nat]
      BY <3>1
    <3>3. work' = [work EXCEPT ![w] = [work[w] EXCEPT !.tx = @ + 1]]
      BY <1>0
    <3> QED
      BY <3>1, <3>2, <3>3
  <2>2. \A v \in Workers : Busy(v)' => /\ work'[v].ledger \in Ledgers \ (saved \ reread)
                                      /\ work'[v].tx \in 1..Len(history[work'[v].ledger]) + 1
    BY <1>0, <1>1, <1>2, <1>3, <1>4 DEF TypeOK
  <2> QED
    BY <1>0, <1>1, <2>1, <2>2 DEF TypeOK, Rows, PoolRows
<1>6. ASSUME NEW o \in Offers, Settled(o) PROVE Settled(o)'
  <2>1. \A k, x : Holds(k, x)' <=> Holds(k, x)
    BY <1>0 DEF Holds
  <2>2. Cancelled(o)' <=> Cancelled(o)
    BY <1>0, <2>1 DEF Cancelled, Cancels
  <2>3. CASE Listed(o)
    <3>1. offers'[o] # NoOffer
      BY <2>3, <1>1, <1>2 DEF RowStep, NoOffer, Listed
    <3>2. ASSUME ~Cancelled(o) PROVE offers'[o].status = CreatedStatus
      BY <2>3, <3>2, <1>1 DEF RowStep, Listed, Cancelled, Cancels
    <3>3. Listed(o)'
      BY <3>1, <3>2, <2>2, <1>0 DEF Listed, NoOffer
    <3> QED
      BY <3>3 DEF Settled
  <2>4. CASE OfferCreate(o) \in failed /\ OfferCreate(o) \notin failed'
    <3>1. offers'[o] = [status |-> CreatedStatus, ledger |-> l]
      BY <2>4, <1>1
    <3> QED
      BY <3>1, <1>0, <1>1, <1>2 DEF Settled, Listed, NoOffer
  <2>5. CASE OfferCreate(o) \in failed'
    BY <2>5 DEF Settled, OfferCreate
  <2> QED
    BY <1>6, <2>3, <2>4, <2>5 DEF Settled
<1>12. ASSUME NEW o \in Offers, tx = OfferCreate(o) PROVE Settled(o)'
  <2>1. CASE failed' = failed \cup {tx}
    BY <2>1, <1>12 DEF Settled
  <2>2. CASE offers'[o] = [status |-> CreatedStatus, ledger |-> l]
    BY <2>2, <1>0, <1>1, <1>2 DEF Settled, Listed, NoOffer
  <2> QED
    BY <2>1, <2>2, <1>1, <1>12
<1>7. RowsAreHistory'
  <2>1. \A k, x : Holds(k, x)' <=> Holds(k, x)
    BY <1>0 DEF Holds
  <2>2. ASSUME NEW o \in Offers, offers'[o] # NoOffer
        PROVE  IF offers'[o].status = "cancelled" THEN Cancels(offers'[o].ledger, o)
               ELSE \/ Holds(offers'[o].ledger, OfferCreate(o))
                    \/ Holds(offers'[o].ledger, DustCreate(o))
    <3>1. CASE offers'[o] = offers[o]
      BY <2>2, <3>1 DEF RowsAreHistory
    <3>2. CASE /\ offers'[o] = [status |-> CreatedStatus, ledger |-> l]
               /\ tx = OfferCreate(o) \/ tx = DustCreate(o)
      BY <3>2, <1>1 DEF CreatedStatus
    <3>3. CASE /\ offers'[o] = [status |-> "cancelled", ledger |-> l]
               /\ tx = OfferCancel(o) \/ tx = MarkedCancel(o)
      BY <3>3, <1>1 DEF Cancels
    <3> QED
      BY <3>1, <3>2, <3>3, <1>1 DEF RowStep
  <2>3. ASSUME NEW a \in Accounts, pools'[a] # NoPool
        PROVE  \E j, k \in Ledgers : /\ Holds(j, AMMCreate(a, pools'[a].pair))
                                     /\ Holds(k, AMMCreate(a, pools'[a].reserves))
    <3>1. CASE pools'[a] = pools[a]
      BY <2>3, <3>1 DEF RowsAreHistory
    <3>2. CASE \E p \in Pairs : tx = AMMCreate(a, p) /\ pools'[a] = [pair |-> p, reserves |-> p]
      BY <3>2, <1>1
    <3>3. CASE \E p \in Pairs : /\ tx = AMMCreate(a, p) /\ pools[a] # NoPool
                                /\ pools'[a] = [pair |-> pools[a].pair, reserves |-> p]
      <4>1. PICK p \in Pairs : /\ tx = AMMCreate(a, p) /\ pools[a] # NoPool
                               /\ pools'[a] = [pair |-> pools[a].pair, reserves |-> p]
        BY <3>3
      <4>2. PICK j \in Ledgers : Holds(j, AMMCreate(a, pools[a].pair))
        BY <4>1 DEF RowsAreHistory
      <4> QED
        BY <4>1, <4>2, <1>1
    <3> QED
      BY <3>1, <3>2, <3>3, <1>1 DEF PoolStep
  <2> QED
    BY <1>0, <2>1, <2>2, <2>3 DEF RowsAreHistory, Cancels
<1>8. OpenIsListed'
  BY <1>0, <1>6 DEF OpenIsListed, Holds, Settled
<1>9. PassedIsListed'
  <2> SUFFICES ASSUME NEW v \in Workers, Busy(v)', NEW i \in 1..work'[v].tx - 1, NEW o \in Offers,
                      history[work'[v].ledger][i] = OfferCreate(o)
               PROVE  Settled(o)'
    BY <1>0 DEF PassedIsListed
  <2>1. CASE v = w /\ i = work[w].tx
    BY <2>1, <1>12, <1>3
  <2>2. CASE ~(v = w /\ i = work[w].tx)
    <3>1. i \in 1..work[v].tx - 1
      BY <2>2, <1>1, <1>3, <1>4
    <3> QED
      BY <3>1, <1>3, <1>6 DEF PassedIsListed
  <2> QED
    BY <2>1, <2>2
<1>10. BackfillBehind'
  BY <1>0, <1>3 DEF BackfillBehind, Reach, Workers
<1> QED
  BY <1>5, <1>7, <1>8, <1>9, <1>10

\* A checkpoint is written when the loop has passed every transaction
LEMMA SaveKeeps ==
  ASSUME BookInv, NEW w \in Workers, Save(w)
  PROVE  BookInv'
<1> USE DEF BookInv
<1> DEFINE l == work[w].ledger
<1>0. /\ history' = history /\ carried' = carried /\ offers' = offers /\ pools' = pools
      /\ todo' = todo /\ crashes' = crashes /\ reread' = reread /\ failed' = failed
      /\ Ledgers' = Ledgers /\ CreatedStatus' = CreatedStatus
      /\ saved' = saved \cup {l} \/ saved' = saved
      /\ lapses' = lapses \/ (lapses < MaxLapses /\ lapses' = lapses + 1)
      /\ work' = [work EXCEPT ![w] = Idle]
      /\ Busy(w) /\ work[w].tx > Len(history[l])
  BY DEF Save, LoopDone, Lapse, Ledgers, network, CreatedStatus
<1>1. l \in Ledgers /\ work[w].tx \in Nat
  BY <1>0 DEF TypeOK
<1>2. Len(history[l]) \in Nat /\ DOMAIN history[l] = 1..Len(history[l]) /\ Ledgers \subseteq Nat
  BY <1>1, LedgerShape
<1>3. \A v \in Workers : Busy(v)' => v # w /\ Busy(v) /\ work'[v] = work[v]
  BY <1>0 DEF Busy, TypeOK, Idle
<1>4. \A v \in Workers : Busy(v)' => work[v].ledger # l
  <2> SUFFICES ASSUME NEW v \in Workers, Busy(v)' PROVE work[v].ledger # l
    OBVIOUS
  <2>1. v # w /\ Busy(v)
    BY <1>3
  <2>2. work[v].ledger \in Ledgers
    BY <2>1 DEF TypeOK
  <2>3. work[v].ledger \in Nat /\ l \in Nat
    BY <2>2, <1>1, <1>2
  <2>4. work[v].ledger \in Reach(v) /\ l \in Reach(w)
    BY <2>1, <1>0 DEF Reach
  <2>5. work[v].ledger < l \/ l < work[v].ledger
    BY <2>1, <2>4 DEF BackfillBehind, Workers
  <2> QED
    BY <2>3, <2>5
<1>5. TypeOK'
  <2>1. work' \in [Workers -> [ledger : Ledgers \cup {0}, tx : Nat]]
    BY <1>0 DEF TypeOK, Idle
  <2>2. \A v \in Workers : Busy(v)' =>
          /\ work'[v].ledger \in Ledgers \ (saved' \ reread)
          /\ work'[v].tx \in 1..Len(history[work'[v].ledger]) + 1
    BY <1>0, <1>3, <1>4 DEF TypeOK
  <2>3. lapses' \in 0..MaxLapses
    BY <1>0, OrderbookAssumption DEF TypeOK
  <2> QED
    BY <1>0, <1>1, <2>1, <2>2, <2>3 DEF TypeOK
<1>6. RowsAreHistory'
  BY <1>0 DEF RowsAreHistory, Cancels, Holds
<1>7. OpenIsListed'
  <2>1. \A o \in Offers : Holds(l, OfferCreate(o)) => Settled(o)
    BY <1>0, <1>1, <1>2 DEF PassedIsListed, Holds
  <2> QED
    BY <1>0, <2>1 DEF OpenIsListed, Holds, Settled, Listed, Cancelled, Cancels
<1>8. PassedIsListed'
  BY <1>0, <1>3 DEF PassedIsListed, Settled, Listed, Cancelled, Cancels, Holds
<1>9. BackfillBehind'
  BY <1>0, <1>3 DEF BackfillBehind, Reach, Workers
<1> QED
  BY <1>5, <1>6, <1>7, <1>8, <1>9

\* A crash and the next start keep the invariant.
LEMMA CrashKeeps ==
  ASSUME BookInv, Crash
  PROVE  BookInv'
<1> USE DEF BookInv
<1>0. /\ history' = history /\ carried' = carried /\ offers' = offers /\ pools' = pools
      /\ saved' = saved /\ lapses' = lapses /\ reread' = reread /\ failed' = failed
      /\ Ledgers' = Ledgers /\ CreatedStatus' = CreatedStatus
      /\ work' = [w \in Workers |-> Idle]
      /\ crashes' = crashes + 1 /\ crashes < MaxCrashes
  BY DEF Crash, Ledgers, network, CreatedStatus
<1>1. PICK current \in Ledgers :
        todo' = [w \in Workers |->
            IF w = "live" THEN {l \in Ledgers : l >= current}
            ELSE {l \in Ledgers : saved # {} /\ l > Max(saved) /\ l < current}]
  BY DEF Crash
<1>2. Ledgers \subseteq Nat
  BY <1>1, LedgerShape
<1>3. \A w \in Workers : ~Busy(w)'
  BY <1>0 DEF Busy
<1>4. TypeOK'
  BY <1>0, <1>1, <1>3, OrderbookAssumption DEF TypeOK, Idle
<1>5. RowsAreHistory' /\ OpenIsListed' /\ PassedIsListed'
  BY <1>0, <1>3 DEF RowsAreHistory, OpenIsListed, PassedIsListed, Holds, Cancels, Listed, Cancelled
<1>6. BackfillBehind'
  <2>1. \A w \in Workers : Reach(w)' = todo'[w]
    BY <1>3 DEF Reach
  <2>2. /\ \A l \in todo'["live"] : l \in Nat /\ l >= current
        /\ \A b \in todo'["backfill"] : b \in Nat /\ b < current
    BY <1>1, <1>2 DEF Workers
  <2>3. current \in Nat
    BY <1>2
  <2>4. \A b \in todo'["backfill"], l \in todo'["live"] : b < l
    BY <2>2, <2>3
  <2> QED
    BY <2>1, <2>4 DEF BackfillBehind, Workers
<1> QED
  BY <1>4, <1>5, <1>6

\* Every step keeps the invariant: one case for each action.
LEMMA BookNext == BookInv /\ [Next]_vars => BookInv'
<1> SUFFICES ASSUME BookInv, [Next]_vars PROVE BookInv'
  OBVIOUS
<1>1. CASE \E w \in Workers : \E l \in todo[w] : Miss(w, l) \/ Take(w, l)
  BY <1>1, TakeKeeps
<1>2. CASE \E w \in Workers : Apply(w)
  BY <1>2, ApplyKeeps
<1>3. CASE \E w \in Workers : Save(w)
  BY <1>3, SaveKeeps
<1>4. CASE Crash
  BY <1>4, CrashKeeps
<1>5. CASE UNCHANGED vars
  <2>1. /\ history' = history /\ carried' = carried /\ offers' = offers /\ pools' = pools
        /\ saved' = saved /\ todo' = todo /\ work' = work /\ crashes' = crashes
        /\ lapses' = lapses /\ reread' = reread /\ failed' = failed
    BY <1>5 DEF vars, network, faults
  <2>2. TypeOK'
    BY <2>1 DEF BookInv, TypeOK, Busy, Ledgers
  <2>3. \A k, x : Holds(k, x)' <=> Holds(k, x)
    BY <2>1 DEF Holds
  <2>4. RowsAreHistory'
    BY <2>1, <2>3 DEF BookInv, RowsAreHistory, Cancels, Ledgers
  <2>5. \A o \in Offers : /\ Listed(o)' <=> Listed(o)
                          /\ Settled(o)' <=> Settled(o)
    BY <2>1, <2>3 DEF Settled, Listed, Cancelled, Cancels, Ledgers, CreatedStatus
  <2>6. OpenIsListed' /\ PassedIsListed'
    BY <2>1, <2>3, <2>5 DEF BookInv, OpenIsListed, PassedIsListed, Busy
  <2>7. BackfillBehind'
    BY <2>1 DEF BookInv, BackfillBehind, Reach, Busy
  <2> QED
    BY <2>2, <2>4, <2>6, <2>7 DEF BookInv
<1> QED
  BY <1>1, <1>2, <1>3, <1>4, <1>5 DEF Next

-----------------------------------------------------------------------------
\* Whatever the ledgers hold, and however often the process is stopped, no row
\* claims what no ledger says.
THEOREM RowsAlwaysHistory == Spec => []RowsAreHistory
<1>1. BookInv => RowsAreHistory
  BY DEF BookInv
<1> QED
  BY BookInit, BookNext, <1>1, PTL DEF Spec

\* A checkpoint always vouches for the offers its ledger created: the
\* duplicate check may rely on it.
THEOREM OpenAlwaysListed == Spec => []OpenIsListed
<1>1. BookInv => OpenIsListed
  BY DEF BookInv
<1> QED
  BY BookInit, BookNext, <1>1, PTL DEF Spec

\* Rows and workers keep their types; a worker is at a ledger that has a checkpoint
\* only if the query for it has failed, whichever ledgers are announced again.
THEOREM BookTypeCorrect == Spec => []TypeOK
<1>1. BookInv => TypeOK
  BY DEF BookInv
<1> QED
  BY BookInit, BookNext, <1>1, PTL DEF Spec
\* No ledger is in the hands of both workers.
LEMMA OneWorker ==
  ASSUME BookInv, NEW v \in Workers, NEW w \in Workers, Busy(w),
         work[w].ledger \in Reach(v)
  PROVE  v = w
<1>1. work[w].ledger \in Ledgers
  BY DEF BookInv, TypeOK
<1>2. work[w].ledger \in Nat
  BY <1>1, LedgerShape DEF BookInv
<1>3. work[w].ledger \in Reach(w)
  BY DEF Reach
<1>4. CASE v # w
  <2>1. work[w].ledger < work[w].ledger
    BY <1>3, <1>4 DEF BookInv, BackfillBehind, Workers
  <2> QED
    BY <2>1, <1>2
<1> QED
  BY <1>4

-----------------------------------------------------------------------------
(* Payments settle their quotes: Settlement                                *)

SettleTypeOK ==
  /\ registry \in [Quotes -> Partners \cup {NoPartner}]
  /\ requested \subseteq Partners \X Quotes
  /\ trades \subseteq Payments /\ cleaned \subseteq Payments
  /\ usage \in [Payments -> Seq(Partners)]
  /\ stage \in [Workers -> Stages]
  /\ unsettled \subseteq Payments

Started(w) == stage[w] # AtStart

\* A worker is in the middle of a payment only where it stands at one
AtWork == \A w \in Workers : Started(w) => AtPayment(w)

Base == BookInv /\ SettleTypeOK /\ AtWork

\* The steps of the API and of the clean-up functions, away from the indexer
OutsideStep ==
  \/ \E q \in Quotes : Expire(q) \/ \E p \in Partners : Quote(p, q)
  \/ \E t \in trades : CleanUpTrade(t)

\* A settlement runs the transaction loop: its steps are steps or stutters of it.
LEMMA StepIsBookStep ==
  ASSUME [SettleNext]_allVars
  PROVE  \/ Restart
         \/ \E w \in Workers : Apply(w) \/ Save(w) \/ \E l \in todo[w] : Miss(w, l) \/ Take(w, l)
         \/ UNCHANGED vars
<1>1. CASE OutsideStep
  BY <1>1 DEF OutsideStep, Quote, Expire, CleanUpTrade
<1>2. ASSUME NEW w \in Workers, SettlePayment(w) \/ ApplyOther(w)
      PROVE  Apply(w) \/ UNCHANGED vars
  BY <1>2 DEF SettlePayment, Ignore, LookupFails, GetQuoteRegistryEntry, InsertCompletedTrade,
              InsertUsageEvent, DeleteQuoteRegistryEntry, NextTransaction, ApplyOther
<1>3. CASE UNCHANGED allVars
  BY <1>3 DEF allVars
<1> QED
  BY <1>1, <1>2, <1>3 DEF SettleNext, OutsideStep, TakeLedger

\* The payment a worker stands at is one of its ledger.
LEMMA PaymentAt ==
  ASSUME TypeOK, NEW w \in Workers, AtPayment(w)
  PROVE  /\ Hash(w) \in Payments
         /\ work[w].ledger \in Ledgers
         /\ work[w].tx \in DOMAIN history[work[w].ledger]
         /\ history[work[w].ledger][work[w].tx] = Payment(Hash(w))
<1> DEFINE l == work[w].ledger
           i == work[w].tx
<1>1. l \in Ledgers /\ i \in 1..Len(history[l]) + 1 /\ ~(i > Len(history[l]))
  BY DEF TypeOK, AtPayment, LoopDone
<1>2. history[l] \in Seq(Transactions) /\ Len(history[l]) \in Nat
      /\ DOMAIN history[l] = 1..Len(history[l])
  BY <1>1, LedgerShape
<1>3. i \in DOMAIN history[l] /\ history[l][i] \in Transactions
  BY <1>1, <1>2
<1>4. history[l][i].type = "Payment"
  BY DEF AtPayment
<1>5. \E t \in Payments : history[l][i] = Payment(t)
  BY <1>3, <1>4, TransactionTypes
<1>6. PICK t \in Payments : history[l][i] = Payment(t)
  BY <1>5
<1>7. Hash(w) = t
  BY <1>6 DEF Hash, Payment
<1> QED
  BY <1>1, <1>3, <1>6, <1>7

\* A payment is at one place of the history.
LEMMA OnePlace ==
  ASSUME TypeOK, NEW t, NEW l \in Ledgers, NEW k \in Ledgers,
         NEW i \in DOMAIN history[l], NEW j \in DOMAIN history[k],
         history[l][i] = Payment(t), history[k][j] = Payment(t)
  PROVE  l = k /\ i = j
<1>1. SingleOccurrence(history)
  BY SettlementAssumption DEF TypeOK
<1>2. history[l][i].type = "Payment"
  BY DEF Payment
<1> QED
  BY <1>1, <1>2 DEF SingleOccurrence, Ledgers

\* A payment is in the hands of one worker, like its ledger.
LEMMA OneSettler ==
  ASSUME BookInv, NEW v \in Workers, NEW w \in Workers, AtPayment(v), AtPayment(w),
         Hash(v) = Hash(w)
  PROVE  v = w
<1>1. /\ work[v].ledger \in Ledgers /\ work[w].ledger \in Ledgers
      /\ work[v].tx \in DOMAIN history[work[v].ledger]
      /\ work[w].tx \in DOMAIN history[work[w].ledger]
      /\ history[work[v].ledger][work[v].tx] = Payment(Hash(w))
      /\ history[work[w].ledger][work[w].tx] = Payment(Hash(w))
  BY PaymentAt DEF BookInv
<1>2. work[v].ledger = work[w].ledger
  BY <1>1, OnePlace DEF BookInv
<1> QED
  BY <1>2, OneWorker DEF AtPayment, Reach

-----------------------------------------------------------------------------
(* The base: types, and where the workers stand                            *)

\* Where a step leaves a worker in the middle of a payment, it was at that payment.
LEMMA Kept ==
  ASSUME Base, [SettleNext]_allVars, NEW v \in Workers, Started(v)'
  PROVE  AtPayment(v) /\ AtPayment(v)' /\ Hash(v)' = Hash(v)
<1> USE DEF Base
<1>0. ASSUME AtPayment(v), work'[v] = work[v], history' = history
      PROVE  AtPayment(v) /\ AtPayment(v)' /\ Hash(v)' = Hash(v)
  BY <1>0 DEF AtPayment, Hash, Busy, LoopDone
<1>1. ASSUME UNCHANGED vars, stage'[v] # stage[v] => AtPayment(v)
      PROVE  AtPayment(v) /\ AtPayment(v)' /\ Hash(v)' = Hash(v)
  BY <1>0, <1>1 DEF vars, network, Started, AtWork
<1>2. CASE OutsideStep
  BY <1>1, <1>2 DEF OutsideStep, Quote, Expire, CleanUpTrade
<1>3. ASSUME NEW w \in Workers,
             GetQuoteRegistryEntry(w) \/ InsertCompletedTrade(w) \/ InsertUsageEvent(w)
      PROVE  AtPayment(v) /\ AtPayment(v)' /\ Hash(v)' = Hash(v)
  <2>1. UNCHANGED vars /\ AtPayment(w)
    BY <1>3 DEF GetQuoteRegistryEntry, InsertCompletedTrade, InsertUsageEvent, AtStage
  <2>2. v # w => stage'[v] = stage[v]
    BY <1>3 DEF GetQuoteRegistryEntry, InsertCompletedTrade, InsertUsageEvent, Goto, SettleTypeOK
  <2> QED
    BY <1>1, <2>1, <2>2
<1>4. ASSUME NEW w \in Workers, Apply(w),
             stage' = [stage EXCEPT ![w] = AtStart] \/ (~AtPayment(w) /\ stage' = stage)
      PROVE  AtPayment(v) /\ AtPayment(v)' /\ Hash(v)' = Hash(v)
  <2>1. v # w /\ stage'[v] = stage[v]
    BY <1>4 DEF Started, SettleTypeOK, AtWork
  <2>2. work'[v] = work[v] /\ history' = history
    BY <1>4, <2>1 DEF Apply, network, BookInv, TypeOK
  <2> QED
    BY <1>0, <2>1, <2>2 DEF Started, AtWork
<1>5. ASSUME NEW w \in Workers, Ignore(w) \/ LookupFails(w) \/ DeleteQuoteRegistryEntry(w)
      PROVE  AtPayment(v) /\ AtPayment(v)' /\ Hash(v)' = Hash(v)
  BY <1>4, <1>5 DEF Ignore, LookupFails, DeleteQuoteRegistryEntry, NextTransaction
<1>6. ASSUME NEW w \in Workers, ApplyOther(w)
      PROVE  AtPayment(v) /\ AtPayment(v)' /\ Hash(v)' = Hash(v)
  BY <1>4, <1>6 DEF ApplyOther, billing
<1>7. ASSUME NEW w \in Workers, UNCHANGED billing,
             Save(w) \/ \E l \in todo[w] : Take(w, l) \/ Miss(w, l)
      PROVE  AtPayment(v) /\ AtPayment(v)' /\ Hash(v)' = Hash(v)
  <2>1. AtPayment(v)
    BY <1>7 DEF billing, Started, AtWork
  <2>2. Busy(v) /\ ~LoopDone(v)
    BY <2>1 DEF AtPayment
  <2>3. work'[v] = work[v] /\ history' = history
    BY <1>7, <2>2 DEF Save, Take, Begin, Miss, network, BookInv, TypeOK
  <2> QED
    BY <1>0, <2>1, <2>3
<1>8. CASE Restart
  BY <1>8 DEF Restart, Started
<1>9. CASE UNCHANGED allVars
  BY <1>1, <1>9 DEF allVars, billing
<1> QED
  BY <1>2, <1>3, <1>5, <1>6, <1>7, <1>8, <1>9 DEF SettleNext, OutsideStep, SettlePayment, TakeLedger

\* What a step may do to the tables of the payments: one of the statements, or
\* nothing, with or without an error.
LEMMA TableSteps ==
  ASSUME Base, [SettleNext]_allVars
  PROVE  \/ OutsideStep
         \/ \E w \in Workers : \/ GetQuoteRegistryEntry(w) \/ InsertCompletedTrade(w)
                               \/ InsertUsageEvent(w) \/ DeleteQuoteRegistryEntry(w)
         \/ /\ UNCHANGED <<registry, requested, trades, cleaned, usage>>
            /\ \/ unsettled' = unsettled
               \/ \E w \in Workers : AtPayment(w) /\ unsettled' = unsettled \cup {Hash(w)}
            /\ stage' \in [Workers -> Stages]
            /\ \A v \in Workers : stage'[v] \in {stage[v], AtStart}
<1> USE DEF Base
<1>0. AtStart \in Stages
  BY DEF Stages
<1>1. ASSUME NEW w \in Workers, Ignore(w) \/ LookupFails(w)
      PROVE  /\ UNCHANGED <<registry, requested, trades, cleaned, usage>>
             /\ \/ unsettled' = unsettled
                \/ AtPayment(w) /\ unsettled' = unsettled \cup {Hash(w)}
             /\ stage' \in [Workers -> Stages]
             /\ \A v \in Workers : stage'[v] \in {stage[v], AtStart}
  BY <1>0, <1>1 DEF Ignore, LookupFails, NextTransaction, Fails, AtStage, SettleTypeOK
<1>2. CASE UNCHANGED billing
  BY <1>2 DEF billing, SettleTypeOK
<1>3. CASE Restart
  BY <1>0, <1>3 DEF Restart
<1>4. CASE UNCHANGED allVars
  BY <1>2, <1>4 DEF allVars
<1> QED
  BY <1>1, <1>2, <1>3, <1>4 DEF SettleNext, OutsideStep, SettlePayment, TakeLedger, ApplyOther

\* The empty tables satisfy the base.
LEMMA BaseInit == SettleInit => Base
<1> SUFFICES ASSUME SettleInit PROVE Base
  OBVIOUS
<1>1. BookInv
  BY BookInit DEF SettleInit
<1>2. SettleTypeOK
  BY DEF SettleInit, SettleTypeOK, Stages
<1>3. AtWork
  BY DEF SettleInit, AtWork, Started
<1> QED
  BY <1>1, <1>2, <1>3 DEF Base

\* Each statement writes rows of the right shape.
LEMMA SettleTypeKept ==
  ASSUME Base, [SettleNext]_allVars
  PROVE  SettleTypeOK'
<1> USE DEF Base
<1>0. NoPartner \notin Partners /\ QuoteOf \in [Payments -> Quotes] /\ AtStart \in Stages
  BY SettlementAssumption DEF Stages
<1>1. ASSUME NEW p \in Partners, NEW q \in Quotes, Quote(p, q) PROVE SettleTypeOK'
  <2>1. registry' \in [Quotes -> Partners \cup {NoPartner}]
    BY <1>1 DEF Quote, Register, SettleTypeOK
  <2>2. requested' \subseteq Partners \X Quotes
    BY <1>1 DEF Quote, SettleTypeOK
  <2>3. UNCHANGED <<trades, cleaned, usage, stage, unsettled>>
    BY <1>1 DEF Quote
  <2> QED
    BY <2>1, <2>2, <2>3 DEF SettleTypeOK
<1>6. ASSUME NEW q \in Quotes, Expire(q) PROVE SettleTypeOK'
  BY <1>6 DEF Expire, SettleTypeOK
<1>7. ASSUME NEW t \in trades, CleanUpTrade(t) PROVE SettleTypeOK'
  BY <1>7 DEF CleanUpTrade, SettleTypeOK
<1>2. ASSUME NEW w \in Workers, GetQuoteRegistryEntry(w) PROVE SettleTypeOK'
  <2>1. Hash(w) \in Payments
    BY <1>2, PaymentAt DEF GetQuoteRegistryEntry, AtStage, BookInv
  <2>2. registry[QuoteOf[Hash(w)]] \in Partners
    BY <1>0, <1>2, <2>1 DEF GetQuoteRegistryEntry, SettleTypeOK
  <2>3. [pc |-> "trade", partner |-> registry[QuoteOf[Hash(w)]]] \in Stages
    BY <2>2 DEF Stages
  <2> QED
    BY <1>2, <2>3 DEF GetQuoteRegistryEntry, SettleTypeOK
<1>3. ASSUME NEW w \in Workers, InsertCompletedTrade(w) \/ InsertUsageEvent(w) PROVE SettleTypeOK'
  <2>1. Hash(w) \in Payments /\ stage[w].pc \in {"trade", "usage"}
    BY <1>3, PaymentAt DEF InsertCompletedTrade, InsertUsageEvent, AtStage, BookInv
  <2>2. /\ stage[w].partner \in Partners
        /\ [stage[w] EXCEPT !.pc = "usage"] \in Stages
        /\ [stage[w] EXCEPT !.pc = "delete"] \in Stages
    BY <2>1 DEF SettleTypeOK, Stages, AtStart
  <2>3. stage' \in [Workers -> Stages]
    BY <1>3, <2>2 DEF InsertCompletedTrade, InsertUsageEvent, Goto, SettleTypeOK
  <2>7. usage[Hash(w)] \in Seq(Partners)
    BY <2>1 DEF SettleTypeOK
  <2>8. Append(usage[Hash(w)], stage[w].partner) \in Seq(Partners)
    BY <2>2, <2>7
  <2>4. usage' \in [Payments -> Seq(Partners)]
    BY <1>3, <2>1, <2>8 DEF InsertCompletedTrade, InsertUsageEvent, SettleTypeOK
  <2>5. trades' \subseteq Payments /\ unsettled' \subseteq Payments
    BY <1>3, <2>1 DEF InsertCompletedTrade, InsertUsageEvent, Fails, SettleTypeOK
  <2>6. registry' = registry /\ requested' = requested /\ cleaned' = cleaned
    BY <1>3 DEF InsertCompletedTrade, InsertUsageEvent
  <2> QED
    BY <2>3, <2>4, <2>5, <2>6 DEF SettleTypeOK
<1>4. ASSUME NEW w \in Workers, DeleteQuoteRegistryEntry(w) PROVE SettleTypeOK'
  BY <1>0, <1>4 DEF DeleteQuoteRegistryEntry, NextTransaction, SettleTypeOK
<1>5. CASE /\ UNCHANGED <<registry, requested, trades, cleaned, usage>>
           /\ \/ unsettled' = unsettled
              \/ \E w \in Workers : AtPayment(w) /\ unsettled' = unsettled \cup {Hash(w)}
           /\ stage' \in [Workers -> Stages]
  <2>1. unsettled' \subseteq Payments
    BY <1>5, PaymentAt DEF SettleTypeOK, BookInv
  <2> QED
    BY <1>5, <2>1 DEF SettleTypeOK
<1> QED
  BY <1>1, <1>2, <1>3, <1>4, <1>5, <1>6, <1>7, TableSteps DEF OutsideStep

\* Every step keeps the base.
LEMMA BaseNext == Base /\ [SettleNext]_allVars => Base'
<1> SUFFICES ASSUME Base, [SettleNext]_allVars PROVE Base'
  OBVIOUS
<1>0. [Next]_vars
  BY StepIsBookStep DEF Next, Restart
<1>1. BookInv'
  BY <1>0, BookNext DEF Base
<1>2. SettleTypeOK'
  BY SettleTypeKept
<1>3. AtWork'
  BY Kept DEF AtWork
<1> QED
  BY <1>1, <1>2, <1>3 DEF Base

-----------------------------------------------------------------------------
(* Who is billed                                                           *)

\* Whoever is registered, or about to be billed, has asked for the quote
Asked ==
  /\ \A q \in Quotes : registry[q] # NoPartner => <<registry[q], q>> \in requested
  /\ \A w \in Workers : Started(w) => <<stage[w].partner, QuoteOf[Hash(w)]>> \in requested
  /\ BilledHasAsked

\* Every step keeps that.
LEMMA AskedNext ==
  ASSUME Base, Asked, [SettleNext]_allVars
  PROVE  Asked'
<1>1. requested \subseteq requested'
  <2>1. ASSUME NEW p \in Partners, NEW q \in Quotes, Quote(p, q) PROVE requested \subseteq requested'
    BY <2>1 DEF Quote
  <2>3. CASE (\E q \in Quotes : Expire(q)) \/ \E t \in trades : CleanUpTrade(t)
    BY <2>3 DEF Expire, CleanUpTrade
  <2>2. ASSUME NEW w \in Workers,
               \/ GetQuoteRegistryEntry(w) \/ InsertCompletedTrade(w)
               \/ InsertUsageEvent(w) \/ DeleteQuoteRegistryEntry(w)
        PROVE requested \subseteq requested'
    BY <2>2 DEF GetQuoteRegistryEntry, InsertCompletedTrade, InsertUsageEvent,
                DeleteQuoteRegistryEntry
  <2> QED
    BY <2>1, <2>2, <2>3, TableSteps DEF OutsideStep
<1>2. \A v \in Workers : AtPayment(v) => Hash(v) \in Payments
  BY PaymentAt DEF Base, BookInv
<1>3. ASSUME NEW v \in Workers, Started(v)', stage'[v] = stage[v]
      PROVE  <<stage'[v].partner, QuoteOf[Hash(v)']>> \in requested'
  BY <1>1, <1>3, Kept DEF Asked, Started
<1>4. ASSUME registry' = registry, usage' = usage, \A v \in Workers : stage'[v] \in {stage[v], AtStart}
      PROVE  Asked'
  BY <1>1, <1>3, <1>4 DEF Asked, BilledHasAsked, Started
<1>5. ASSUME NEW p \in Partners, NEW q \in Quotes, Quote(p, q) PROVE Asked'
  <2>1. \A r \in Quotes : registry'[r] # NoPartner => <<registry'[r], r>> \in requested'
    BY <1>5 DEF Quote, Register, Asked, Base, SettleTypeOK
  <2> QED
    BY <1>1, <1>3, <1>5, <2>1 DEF Quote, Asked, BilledHasAsked
<1>9. ASSUME NEW q \in Quotes, Expire(q) PROVE Asked'
  <2>1. /\ usage' = usage /\ requested' = requested /\ stage' = stage
        /\ \A r \in Quotes : registry'[r] \in {registry[r], NoPartner}
    BY <1>9 DEF Expire, Base, SettleTypeOK
  <2> QED
    BY <1>3, <2>1 DEF Asked, BilledHasAsked
<1>10. ASSUME NEW t \in trades, CleanUpTrade(t) PROVE Asked'
  BY <1>4, <1>10 DEF CleanUpTrade
<1>6. ASSUME NEW w \in Workers, GetQuoteRegistryEntry(w) PROVE Asked'
  <2>1. /\ registry' = registry /\ usage' = usage /\ requested' = requested
        /\ \A v \in Workers : v # w => stage'[v] = stage[v]
        /\ stage'[w].partner = registry[QuoteOf[Hash(w)]]
        /\ registry[QuoteOf[Hash(w)]] # NoPartner /\ AtPayment(w)
    BY <1>6 DEF GetQuoteRegistryEntry, AtStage, Base, SettleTypeOK
  <2>2. QuoteOf[Hash(w)] \in Quotes
    BY <1>2, <2>1, SettlementAssumption
  <2>3. <<stage'[w].partner, QuoteOf[Hash(w)]>> \in requested'
    BY <2>1, <2>2 DEF Asked
  <2>4. Hash(w)' = Hash(w)
    BY <1>6 DEF GetQuoteRegistryEntry, vars, network, Hash
  <2>5. \A v \in Workers : Started(v)' => <<stage'[v].partner, QuoteOf[Hash(v)']>> \in requested'
    BY <1>3, <2>1, <2>3, <2>4
  <2> QED
    BY <2>1, <2>5 DEF Asked, BilledHasAsked
<1>7. ASSUME NEW w \in Workers, InsertCompletedTrade(w) \/ InsertUsageEvent(w) PROVE Asked'
  <2>1. /\ registry' = registry /\ requested' = requested
        /\ \A v \in Workers : stage'[v].partner = stage[v].partner
        /\ \A v \in Workers : v # w => stage'[v] = stage[v]
        /\ stage[w].pc \in {"trade", "usage"} /\ AtPayment(w)
    <3>1. stage[w].pc \in {"trade", "usage"} /\ AtPayment(w)
      BY <1>7 DEF InsertCompletedTrade, InsertUsageEvent, AtStage
    <3>2. stage \in [Workers -> Stages]
      BY DEF Base, SettleTypeOK
    <3>3. stage[w] \in [pc : {"trade", "usage", "delete"}, partner : Partners]
      BY <3>1, <3>2 DEF Stages, AtStart
    <3>4. PICK c : stage' = [stage EXCEPT ![w] = [stage[w] EXCEPT !.pc = c]]
      BY <1>7 DEF InsertCompletedTrade, InsertUsageEvent, Goto
    <3>5. stage'[w].partner = stage[w].partner
      BY <3>2, <3>3, <3>4
    <3> QED
      BY <1>7, <3>1, <3>2, <3>4, <3>5 DEF InsertCompletedTrade, InsertUsageEvent
  <2>2. Started(w)
    BY <2>1 DEF Started, AtStart
  <2>3. <<stage[w].partner, QuoteOf[Hash(w)]>> \in requested
    BY <2>2 DEF Asked
  <2>4. Hash(w)' = Hash(w)
    BY <1>7 DEF InsertCompletedTrade, InsertUsageEvent, vars, network, Hash
  <2>5. \A v \in Workers : Started(v)' => <<stage'[v].partner, QuoteOf[Hash(v)']>> \in requested'
    BY <1>3, <2>1, <2>3, <2>4
  <2>6. BilledHasAsked'
    <3>1. CASE usage' = usage
      BY <2>1, <3>1 DEF Asked, BilledHasAsked
    <3>2. CASE usage' = [usage EXCEPT ![Hash(w)] = Append(@, stage[w].partner)]
      <4> SUFFICES ASSUME NEW t \in Payments, NEW i \in DOMAIN usage'[t]
                   PROVE  <<usage'[t][i], QuoteOf[t]>> \in requested
        BY <2>1 DEF BilledHasAsked
      <4>1. usage[t] \in Seq(Partners) /\ Hash(w) \in Payments
        BY <1>2, <2>1 DEF Base, SettleTypeOK
      <4>2. CASE t = Hash(w)
        <5>1. usage'[t] = Append(usage[t], stage[w].partner)
          BY <3>2, <4>1, <4>2 DEF Base, SettleTypeOK
        <5>2. \/ i \in DOMAIN usage[t] /\ usage'[t][i] = usage[t][i]
              \/ usage'[t][i] = stage[w].partner
          BY <4>1, <5>1
        <5> QED
          BY <5>2, <2>3, <4>2 DEF Asked, BilledHasAsked
      <4>3. CASE t # Hash(w)
        BY <3>2, <4>3 DEF Asked, BilledHasAsked, Base, SettleTypeOK
      <4> QED
        BY <4>2, <4>3
    <3> QED
      BY <1>7, <3>1, <3>2 DEF InsertCompletedTrade, InsertUsageEvent
  <2> QED
    BY <2>1, <2>5, <2>6 DEF Asked
<1>8. ASSUME NEW w \in Workers, DeleteQuoteRegistryEntry(w) PROVE Asked'
  <2>1. /\ usage' = usage /\ requested' = requested
        /\ \A q \in Quotes : registry'[q] \in {registry[q], NoPartner}
        /\ \A v \in Workers : stage'[v] \in {stage[v], AtStart}
    BY <1>8 DEF DeleteQuoteRegistryEntry, NextTransaction, Base, SettleTypeOK
  <2> QED
    BY <1>3, <2>1 DEF Asked, BilledHasAsked, Started
<1> QED
  BY <1>4, <1>5, <1>6, <1>7, <1>8, <1>9, <1>10, TableSteps DEF OutsideStep

\* A worker goes on to the next statement, or is where it was, or starts over.
LEMMA StageSteps ==
  ASSUME Base, [SettleNext]_allVars, NEW v \in Workers
  PROVE  \/ stage'[v] \in {stage[v], AtStart}
         \/ GetQuoteRegistryEntry(v) /\ stage'[v].pc = "trade"
         \/ InsertCompletedTrade(v) /\ stage'[v].pc = "usage"
         \/ InsertUsageEvent(v) /\ stage'[v].pc = "delete"
<1>1. ASSUME NEW w \in Workers, GetQuoteRegistryEntry(w)
      PROVE  stage'[v] = stage[v] \/ (v = w /\ stage'[v].pc = "trade")
  BY <1>1 DEF GetQuoteRegistryEntry, Base, SettleTypeOK
<1>2. ASSUME NEW w \in Workers, NEW pc, Goto(w, pc), AtPayment(w), stage[w].pc \in {"trade", "usage"}
      PROVE  stage'[v] = stage[v] \/ (v = w /\ stage'[v].pc = pc)
  <2>1. stage \in [Workers -> Stages]
    BY DEF Base, SettleTypeOK
  <2>2. stage[w] \in [pc : {"trade", "usage", "delete"}, partner : Partners]
    BY <1>2, <2>1 DEF Stages, AtStart
  <2>3. stage' = [stage EXCEPT ![w] = [stage[w] EXCEPT !.pc = pc]]
    BY <1>2 DEF Goto
  <2> QED
    BY <2>1, <2>2, <2>3
<1>3. ASSUME NEW w \in Workers, InsertCompletedTrade(w)
      PROVE  stage'[v] = stage[v] \/ (v = w /\ stage'[v].pc = "usage")
  BY <1>2, <1>3 DEF InsertCompletedTrade, AtStage
<1>4. ASSUME NEW w \in Workers, InsertUsageEvent(w)
      PROVE  stage'[v] = stage[v] \/ (v = w /\ stage'[v].pc = "delete")
  BY <1>2, <1>4 DEF InsertUsageEvent, AtStage
<1>5. ASSUME NEW w \in Workers, DeleteQuoteRegistryEntry(w)
      PROVE  stage'[v] \in {stage[v], AtStart}
  BY <1>5 DEF DeleteQuoteRegistryEntry, NextTransaction, Base, SettleTypeOK
<1>6. CASE OutsideStep
  BY <1>6 DEF OutsideStep, Quote, Expire, CleanUpTrade
<1> QED
  BY <1>1, <1>3, <1>4, <1>5, <1>6, TableSteps

\* Records are added, and trades taken away only by the clean-up; a bill is added
\* only by the worker at that payment.
LEMMA RecordsGrow ==
  ASSUME Base, [SettleNext]_allVars
  PROVE  /\ trades \cup cleaned \subseteq trades' \cup cleaned' /\ unsettled \subseteq unsettled'
         /\ ~(trades' \subseteq trades) => \E w \in Workers :
              InsertCompletedTrade(w) /\ trades' = trades \cup {Hash(w)}
         /\ \A t \in Payments :
              \/ usage'[t] = usage[t]
              \/ \E w \in Workers : /\ InsertUsageEvent(w) /\ Hash(w) = t
                                    /\ Billed(t)' /\ Len(usage'[t]) = Len(usage[t]) + 1
<1>1. ASSUME OutsideStep
      PROVE  /\ UNCHANGED <<usage, unsettled>> /\ trades' \subseteq trades
             /\ trades \cup cleaned \subseteq trades' \cup cleaned'
  BY <1>1 DEF OutsideStep, Quote, Expire, CleanUpTrade
<1>2. ASSUME NEW w \in Workers, GetQuoteRegistryEntry(w) \/ DeleteQuoteRegistryEntry(w)
      PROVE  UNCHANGED <<trades, cleaned, usage, unsettled>>
  BY <1>2 DEF GetQuoteRegistryEntry, DeleteQuoteRegistryEntry
<1>3. ASSUME NEW w \in Workers, InsertCompletedTrade(w)
      PROVE  /\ usage' = usage /\ cleaned' = cleaned
             /\ trades' \in {trades, trades \cup {Hash(w)}}
             /\ unsettled' \in {unsettled, unsettled \cup {Hash(w)}}
  BY <1>3 DEF InsertCompletedTrade, Fails
<1>4. ASSUME NEW w \in Workers, InsertUsageEvent(w)
      PROVE  /\ trades' = trades /\ cleaned' = cleaned
             /\ unsettled' \in {unsettled, unsettled \cup {Hash(w)}}
             /\ \A t \in Payments :
                  \/ usage'[t] = usage[t]
                  \/ Hash(w) = t /\ Billed(t)' /\ Len(usage'[t]) = Len(usage[t]) + 1
  <2>1. Hash(w) \in Payments /\ usage \in [Payments -> Seq(Partners)] /\ stage[w].partner \in Partners
    BY <1>4, PaymentAt DEF InsertUsageEvent, AtStage, Base, BookInv, SettleTypeOK, Stages, AtStart
  <2>2. CASE usage' = usage
    BY <1>4, <2>2 DEF InsertUsageEvent, Fails
  <2>3. CASE usage' = [usage EXCEPT ![Hash(w)] = Append(@, stage[w].partner)] /\ unsettled' = unsettled
    <3> SUFFICES ASSUME NEW t \in Payments
                 PROVE  \/ usage'[t] = usage[t]
                        \/ Hash(w) = t /\ Billed(t)' /\ Len(usage'[t]) = Len(usage[t]) + 1
      BY <1>4, <2>3 DEF InsertUsageEvent
    <3>1. CASE t = Hash(w)
      <4>1. usage[t] \in Seq(Partners)
        BY <2>1
      <4>2. usage'[t] = Append(usage[t], stage[w].partner)
        BY <2>1, <2>3, <3>1
      <4>3. Len(usage'[t]) = Len(usage[t]) + 1 /\ Len(usage[t]) \in Nat
        BY <2>1, <4>1, <4>2
      <4>4. usage'[t] # <<>>
        BY <4>3
      <4> QED
        BY <3>1, <4>3, <4>4 DEF Billed
    <3>2. CASE t # Hash(w)
      BY <2>1, <2>3, <3>2
    <3> QED
      BY <3>1, <3>2
  <2> QED
    BY <1>4, <2>2, <2>3 DEF InsertUsageEvent
<1> QED
  BY <1>1, <1>2, <1>3, <1>4, TableSteps

-----------------------------------------------------------------------------
(* What is billed has its trade                                            *)

\* A worker leaves a statement behind only with its row, or its error
Recorded ==
  /\ \A w \in Workers :
       /\ stage[w].pc \in {"usage", "delete"} => Hash(w) \in trades \cup cleaned \cup unsettled
       /\ stage[w].pc = "delete" => Billed(Hash(w)) \/ Hash(w) \in unsettled
  /\ BilledIsRecorded

\* Every step keeps that.
LEMMA RecordedNext ==
  ASSUME Base, Recorded, [SettleNext]_allVars
  PROVE  Recorded'
<1>1. \A v \in Workers : AtPayment(v) => Hash(v) \in Payments
  BY PaymentAt DEF Base, BookInv
<1>2. \A t \in Payments : Billed(t) => Billed(t)'
  BY RecordsGrow DEF Billed
<1>3. ASSUME NEW v \in Workers, stage'[v].pc \in {"usage", "delete"}
      PROVE  /\ Hash(v)' \in trades' \cup cleaned' \cup unsettled'
             /\ stage'[v].pc = "delete" => Billed(Hash(v))' \/ Hash(v)' \in unsettled'
  <2>0. Started(v)'
    BY <1>3 DEF Started, AtStart
  <2>1. Hash(v)' = Hash(v) /\ Hash(v) \in Payments
    BY <1>1, <2>0, Kept
  <2>2. CASE stage'[v] = stage[v]
    BY <1>2, <1>3, <2>1, <2>2, RecordsGrow DEF Recorded, Billed
  <2>3. CASE InsertCompletedTrade(v) /\ stage'[v].pc = "usage"
    BY <2>1, <2>3 DEF InsertCompletedTrade, Fails
  <2>4. CASE InsertUsageEvent(v) /\ stage'[v].pc = "delete"
    <3>1. Hash(v) \in trades \cup cleaned \cup unsettled
      BY <2>4 DEF InsertUsageEvent, AtStage, Recorded
    <3>2. Billed(Hash(v))' \/ Hash(v) \in unsettled'
      <4>1. CASE Fails(v)
        BY <4>1 DEF Fails
      <4>2. CASE usage' = [usage EXCEPT ![Hash(v)] = Append(@, stage[v].partner)]
        <5>1. usage[Hash(v)] \in Seq(Partners) /\ stage[v].partner \in Partners
          BY <2>1, <2>4 DEF InsertUsageEvent, AtStage, Base, SettleTypeOK, Stages, AtStart
        <5>2. usage'[Hash(v)] = Append(usage[Hash(v)], stage[v].partner)
          BY <2>1, <4>2 DEF Base, SettleTypeOK
        <5>3. usage'[Hash(v)] # <<>>
          BY <5>1, <5>2
        <5> QED
          BY <2>1, <5>3 DEF Billed
      <4> QED
        BY <2>4, <4>1, <4>2 DEF InsertUsageEvent
    <3> QED
      BY <2>1, <3>1, <3>2, RecordsGrow DEF Billed
  <2> QED
    BY <1>3, <2>2, <2>3, <2>4, StageSteps DEF AtStart
<1>4. BilledIsRecorded'
  <2> SUFFICES ASSUME NEW t \in Payments, Billed(t)'
               PROVE  t \in trades' \cup cleaned' \cup unsettled'
    BY DEF BilledIsRecorded
  <2>1. CASE usage'[t] = usage[t]
    BY <2>1, RecordsGrow DEF Recorded, BilledIsRecorded, Billed
  <2>2. CASE \E w \in Workers : InsertUsageEvent(w) /\ Hash(w) = t
    BY <2>2, RecordsGrow DEF InsertUsageEvent, AtStage, Recorded
  <2> QED
    BY <2>1, <2>2, RecordsGrow
<1> QED
  BY <1>3, <1>4 DEF Recorded

-----------------------------------------------------------------------------
(* How often a payment is billed                                           *)

\* Worker w has passed the bill of the payment at place i of ledger l
Passed(w, l, i) ==
  /\ Busy(w) /\ work[w].ledger = l
  /\ work[w].tx > i \/ (work[w].tx = i /\ stage[w].pc = "delete")

\* Only a crash or a lapse lets a worker come to that bill once more
Spent(l, i) ==
  \/ \E w \in Workers : Passed(w, l, i)
  \/ l \in saved /\ \A w \in Workers : ~(Busy(w) /\ work[w].ledger = l)

\* A crash or a lapse gives each payment one more chance, a bill uses it
Counted ==
  \A t \in Payments :
    /\ \A l \in Ledgers : \A i \in DOMAIN history[l] :
         history[l][i] = Payment(t) =>
           Len(usage[t]) <= crashes + lapses + (IF Spent(l, i) THEN 1 ELSE 0)
    /\ (\A l \in Ledgers : ~Holds(l, Payment(t))) => ~Billed(t)

\* A settlement begins anew only with the next transaction, or after a crash.
LEMMA StartsOver ==
  ASSUME Base, [SettleNext]_allVars, NEW v \in Workers, Started(v), work'[v] = work[v]
  PROVE  Started(v)'
<1> USE DEF Base
<1>0. AtPayment(v) /\ Busy(v) /\ work[v].tx \in Nat
  BY DEF AtWork, AtPayment, BookInv, TypeOK
<1>1. CASE Restart
  BY <1>0, <1>1 DEF Restart, Crash, Busy
<1>2. CASE Apply(v)
  <2>1. work'[v].tx = work[v].tx + 1
    BY <1>2 DEF Apply, BookInv, TypeOK
  <2> QED
    BY <1>0, <2>1
<1>3. ASSUME stage'[v] = stage[v] PROVE Started(v)'
  BY <1>3 DEF Started
<1>4. ASSUME NEW w \in Workers, Ignore(w) \/ LookupFails(w) \/ DeleteQuoteRegistryEntry(w)
      PROVE  Started(v)'
  BY <1>2, <1>3, <1>4 DEF Ignore, LookupFails, DeleteQuoteRegistryEntry, NextTransaction,
                          SettleTypeOK
<1>5. ASSUME NEW w \in Workers,
             GetQuoteRegistryEntry(w) \/ InsertCompletedTrade(w) \/ InsertUsageEvent(w)
      PROVE  Started(v)'
  <2>1. stage'[v] = stage[v] \/ v = w
    BY <1>5 DEF GetQuoteRegistryEntry, InsertCompletedTrade, InsertUsageEvent, Goto, SettleTypeOK
  <2>2. CASE v = w
    BY <1>5, <2>2, <1>3, StageSteps DEF GetQuoteRegistryEntry, InsertCompletedTrade,
                                        InsertUsageEvent, AtStage, Goto, SettleTypeOK, Started, AtStart
  <2> QED
    BY <1>3, <2>1, <2>2
<1>6. CASE UNCHANGED billing \/ OutsideStep
  BY <1>3, <1>6 DEF billing, OutsideStep, Quote, Expire, CleanUpTrade
<1> QED
  BY <1>1, <1>4, <1>5, <1>6 DEF SettleNext, OutsideStep, SettlePayment, ApplyOther, TakeLedger, allVars

\* The history stays, and crashes and lapses are not forgotten.
LEMMA FaultsGrow ==
  ASSUME Base, [SettleNext]_allVars
  PROVE  /\ history' = history /\ carried' = carried /\ reread \subseteq reread'
         /\ crashes \in Nat /\ lapses \in Nat /\ crashes' \in Nat /\ lapses' \in Nat
         /\ crashes <= crashes' /\ lapses <= lapses'
<1> USE DEF Base, BookInv
<1>1. crashes \in Nat /\ lapses \in Nat
  BY DEF TypeOK
<1>2. CASE Restart
  BY <1>1, <1>2 DEF Restart, Crash, network
<1>3. CASE \E w \in Workers : Apply(w) \/ Save(w) \/ \E l \in todo[w] : Miss(w, l) \/ Take(w, l)
  BY <1>1, <1>3 DEF Apply, Save, Miss, Take, Lapse, faults, network
<1>4. CASE UNCHANGED vars
  BY <1>1, <1>4 DEF vars, faults, network
<1> QED
  BY <1>2, <1>3, <1>4, StepIsBookStep

\* Without a crash or a lapse, no worker comes back to the bill of a payment.
LEMMA SpentKept ==
  ASSUME Base, [SettleNext]_allVars, NEW l \in Ledgers, NEW i \in DOMAIN history[l], Spent(l, i),
         crashes' = crashes, lapses' = lapses
  PROVE  Spent(l, i)'
<1> USE DEF Base
<1>1. i \in Nat /\ crashes \in Nat /\ lapses \in Nat
  BY LedgerShape DEF BookInv, TypeOK
<1>2. ASSUME NEW w \in Workers, Passed(w, l, i), work'[w] = work[w] PROVE Spent(l, i)'
  <2>1. CASE work[w].tx > i
    BY <1>2, <2>1 DEF Spent, Passed, Busy
  <2>2. CASE stage[w].pc = "delete"
    <3>1. Started(w)
      BY <2>2 DEF Started, AtStart
    <3>2. Started(w)'
      BY <1>2, <3>1, StartsOver
    <3>3. stage'[w] = stage[w]
      BY <2>2, <3>2, StageSteps DEF Started, GetQuoteRegistryEntry, InsertCompletedTrade,
                                    InsertUsageEvent, AtStage
    <3> QED
      BY <1>2, <3>3 DEF Spent, Passed, Busy
  <2> QED
    BY <1>2, <2>1, <2>2 DEF Passed
<1>3. ASSUME NEW w \in Workers, Passed(w, l, i), Apply(w) PROVE Spent(l, i)'
  <2>1. work'[w].ledger = l /\ work'[w].tx = work[w].tx + 1 /\ work[w].tx \in Nat
    BY <1>3 DEF Apply, Passed, BookInv, TypeOK
  <2>2. work'[w].tx > i /\ Busy(w)'
    BY <1>1, <1>3, <2>1 DEF Passed, Busy, Idle
  <2> QED
    BY <2>1, <2>2 DEF Spent, Passed
<1>4. ASSUME NEW w \in Workers, Passed(w, l, i), Save(w) PROVE Spent(l, i)'
  <2>1. saved' = saved \cup {l} /\ work' = [work EXCEPT ![w] = Idle]
    BY <1>1, <1>4 DEF Save, Lapse, Passed
  <2>2. ASSUME NEW v \in Workers, Busy(v)', work'[v].ledger = l PROVE FALSE
    <3>1. v # w /\ work'[v] = work[v]
      BY <2>1, <2>2 DEF Busy, BookInv, TypeOK
    <3>2. Busy(v) /\ l \in Reach(w)
      BY <1>4, <2>2, <3>1 DEF Busy, Reach, Passed
    <3> QED
      BY <2>2, <3>1, <3>2, OneWorker
  <2> QED
    BY <2>1, <2>2 DEF Spent
<1>5. ASSUME l \in saved, \A w \in Workers : ~(Busy(w) /\ work[w].ledger = l),
             saved \subseteq saved',
             \A w \in Workers : Busy(w)' => \/ Busy(w) /\ work'[w].ledger = work[w].ledger
                                            \/ work'[w].ledger # l
      PROVE  Spent(l, i)'
  BY <1>5 DEF Spent
<1>6. ASSUME NEW w \in Workers, Apply(w) PROVE Spent(l, i)'
  <2>1. /\ saved' = saved /\ Busy(w) /\ work'[w].ledger = work[w].ledger
        /\ \A v \in Workers : v # w => work'[v] = work[v]
    BY <1>6 DEF Apply, BookInv, TypeOK
  <2>2. \A v \in Workers : Busy(v)' => Busy(v) /\ work'[v].ledger = work[v].ledger
    BY <2>1 DEF Busy
  <2> QED
    BY <1>2, <1>3, <1>5, <1>6, <2>1, <2>2 DEF Spent
<1>7. ASSUME NEW w \in Workers, Save(w) PROVE Spent(l, i)'
  <2>1. /\ saved \subseteq saved' /\ work'[w] = Idle
        /\ \A v \in Workers : v # w => work'[v] = work[v]
    BY <1>7 DEF Save, BookInv, TypeOK
  <2>2. \A v \in Workers : Busy(v)' => Busy(v) /\ work'[v].ledger = work[v].ledger
    BY <2>1 DEF Busy
  <2> QED
    BY <1>2, <1>4, <1>5, <1>7, <2>1, <2>2 DEF Spent
<1>8. ASSUME NEW w \in Workers, NEW k \in todo[w], Take(w, k) \/ Miss(w, k) PROVE Spent(l, i)'
  <2>1. /\ saved' = saved /\ \A v \in Workers : v # w => work'[v] = work[v]
        /\ \/ work'[w] = work[w]
           \/ ~Busy(w) /\ k \notin saved /\ work'[w].ledger = k
    BY <1>1, <1>8 DEF Take, Miss, Begin, Lapse, Processed, BookInv, TypeOK
  <2>2. \A v \in Workers : Busy(v) => work'[v] = work[v]
    BY <2>1
  <2>3. ASSUME l \in saved, NEW v \in Workers, Busy(v)'
        PROVE  (Busy(v) /\ work'[v].ledger = work[v].ledger) \/ work'[v].ledger # l
    BY <2>1, <2>3 DEF Busy
  <2> QED
    BY <1>2, <1>5, <2>1, <2>2, <2>3 DEF Spent, Passed
<1>9. CASE UNCHANGED vars
  BY <1>2, <1>5, <1>9 DEF vars, Spent, Busy
<1>10. CASE Restart
  BY <1>1, <1>10 DEF Restart, Crash
<1> QED
  BY <1>6, <1>7, <1>8, <1>9, <1>10, StepIsBookStep

\* The bill of a payment is the last until then.
LEMMA BillSpends ==
  ASSUME Base, NEW w \in Workers, InsertUsageEvent(w), stage'[w].pc = "delete",
         NEW l \in Ledgers, NEW i \in DOMAIN history[l], history[l][i] = Payment(Hash(w))
  PROVE  ~Spent(l, i) /\ Spent(l, i)'
<1> USE DEF Base
<1>1. AtPayment(w) /\ stage[w].pc = "usage" /\ UNCHANGED vars
  BY DEF InsertUsageEvent, AtStage
<1>2. l = work[w].ledger /\ i = work[w].tx /\ Busy(w)
  BY <1>1, PaymentAt, OnePlace DEF BookInv, AtPayment
<1>3. i \in Nat
  BY LedgerShape DEF BookInv
<1>4. ASSUME NEW v \in Workers, Passed(v, l, i) PROVE FALSE
  <2>1. v = w
    BY <1>2, <1>4, OneWorker DEF Passed, Reach
  <2> QED
    BY <1>1, <1>2, <1>3, <1>4, <2>1 DEF Passed
<1>5. ~Spent(l, i)
  BY <1>2, <1>4 DEF Spent
<1>6. Spent(l, i)'
  BY <1>1, <1>2 DEF Spent, Passed, Busy, vars
<1> QED
  BY <1>5, <1>6

\* Every step keeps the count.
LEMMA CountedNext ==
  ASSUME Base, Counted, [SettleNext]_allVars
  PROVE  Counted'
<1> USE DEF Base
<1>1. /\ history' = history /\ Ledgers' = Ledgers
      /\ crashes \in Nat /\ lapses \in Nat /\ crashes' \in Nat /\ lapses' \in Nat
      /\ crashes <= crashes' /\ lapses <= lapses'
  BY FaultsGrow DEF Ledgers
<1> SUFFICES ASSUME NEW t \in Payments
             PROVE  /\ \A l \in Ledgers : \A i \in DOMAIN history[l] :
                         history[l][i] = Payment(t) =>
                           Len(usage'[t]) <= crashes' + lapses' + (IF Spent(l, i)' THEN 1 ELSE 0)
                    /\ (\A l \in Ledgers : ~Holds(l, Payment(t))) => ~Billed(t)'
  BY <1>1 DEF Counted, Holds, Payment
<1>2. usage[t] \in Seq(Partners) /\ Len(usage[t]) \in Nat
  BY DEF SettleTypeOK
<1>3. CASE usage'[t] = usage[t]
  <2>1. ASSUME NEW l \in Ledgers, NEW i \in DOMAIN history[l], history[l][i] = Payment(t)
        PROVE  Len(usage'[t]) <= crashes' + lapses' + (IF Spent(l, i)' THEN 1 ELSE 0)
    <3>1. Len(usage[t]) <= crashes + lapses + (IF Spent(l, i) THEN 1 ELSE 0)
      BY <2>1 DEF Counted
    <3>2. CASE Spent(l, i) /\ ~Spent(l, i)'
      <4>1. crashes' # crashes \/ lapses' # lapses
        BY <3>2, SpentKept
      <4> QED
        BY <1>1, <1>2, <1>3, <3>1, <3>2, <4>1
    <3> QED
      BY <1>1, <1>2, <1>3, <3>1, <3>2
  <2> QED
    BY <1>3, <2>1 DEF Counted, Billed
<1>4. CASE usage'[t] # usage[t]
  <2>1. PICK w \in Workers :
          InsertUsageEvent(w) /\ Hash(w) = t /\ Len(usage'[t]) = Len(usage[t]) + 1
    BY <1>4, RecordsGrow
  <2>2. AtStage(w, "usage") /\ Goto(w, "delete")
    BY <2>1 DEF InsertUsageEvent
  <2>3. stage'[w].pc = "delete"
    BY <2>2 DEF AtStage, Goto, SettleTypeOK, Stages, AtStart
  <2>4. /\ work[w].ledger \in Ledgers
        /\ Holds(work[w].ledger, Payment(t))
    BY <2>1, <2>2, PaymentAt DEF AtStage, BookInv, Holds
  <2>5. ASSUME NEW l \in Ledgers, NEW i \in DOMAIN history[l], history[l][i] = Payment(t)
        PROVE  Len(usage'[t]) <= crashes' + lapses' + (IF Spent(l, i)' THEN 1 ELSE 0)
    <3>1. Len(usage[t]) <= crashes + lapses + (IF Spent(l, i) THEN 1 ELSE 0)
      BY <2>5 DEF Counted
    <3>2. ~Spent(l, i) /\ Spent(l, i)'
      BY <2>1, <2>3, <2>5, BillSpends
    <3> QED
      BY <1>1, <1>2, <2>1, <3>1, <3>2
  <2> QED
    BY <2>4, <2>5
<1> QED
  BY <1>3, <1>4

-----------------------------------------------------------------------------
(* What has its trade is billed                                            *)

\* Nobody else takes the registration of t away, and every bill t may still
\* need is found by the next attempt
Owed(t) == t \in trades \ unsettled /\ Sole(t)

Due ==
  /\ \A w \in Workers : Started(w) =>
       /\ "Memos" \in carried
       /\ Sole(Hash(w)) => registry[QuoteOf[Hash(w)]] # NoPartner
  /\ trades # {} => "Memos" \in carried
  /\ \A t \in Payments : Owed(t) => Billed(t) \/ registry[QuoteOf[t]] # NoPartner
  /\ \A w \in Workers : Busy(w) =>
       \A i \in 1..work[w].tx - 1, t \in Payments :
         history[work[w].ledger][i] = Payment(t) /\ Owed(t) => Billed(t)
  /\ RecordedIsBilled

\* What the clean-up has met it is not forgotten.
LEMMA ExpiredGrows ==
  ASSUME [SettleNext]_allVars
  PROVE  expired \subseteq expired'
  BY DEF SettleNext, Quote, Expire, CleanUpTrade, SettlePayment, Ignore, LookupFails, GetQuoteRegistryEntry,
         InsertCompletedTrade, InsertUsageEvent, DeleteQuoteRegistryEntry, ApplyOther,
         TakeLedger, Restart, billing, allVars

\* A registration is removed only by the clean-up, or by a worker at the end of a
\* payment of that quote.
LEMMA RegistrationKept ==
  ASSUME Base, [SettleNext]_allVars, NEW q \in Quotes, registry[q] # NoPartner
  PROVE  \/ registry'[q] # NoPartner \/ q \in expired'
         \/ \E w \in Workers : DeleteQuoteRegistryEntry(w) /\ QuoteOf[Hash(w)] = q
<1>1. ASSUME NEW p \in Partners, NEW r \in Quotes, Quote(p, r) PROVE registry'[q] # NoPartner
  BY <1>1 DEF Quote, Register, Base, SettleTypeOK
<1>4. ASSUME NEW r \in Quotes, Expire(r) PROVE registry'[q] # NoPartner \/ q \in expired'
  BY <1>4 DEF Expire, Base, SettleTypeOK
<1>5. ASSUME NEW t \in trades, CleanUpTrade(t) PROVE registry' = registry
  BY <1>5 DEF CleanUpTrade
<1>2. ASSUME NEW w \in Workers,
             GetQuoteRegistryEntry(w) \/ InsertCompletedTrade(w) \/ InsertUsageEvent(w)
      PROVE  registry' = registry
  BY <1>2 DEF GetQuoteRegistryEntry, InsertCompletedTrade, InsertUsageEvent
<1>3. ASSUME NEW w \in Workers, DeleteQuoteRegistryEntry(w)
      PROVE  registry'[q] # NoPartner \/ QuoteOf[Hash(w)] = q
  BY <1>3 DEF DeleteQuoteRegistryEntry, Base, SettleTypeOK
<1> QED
  BY <1>1, <1>2, <1>3, <1>4, <1>5, TableSteps DEF OutsideStep

\* A payment that is owed was owed before, or has just been recorded.
LEMMA OwedBefore ==
  ASSUME Base, [SettleNext]_allVars, NEW t \in Payments, Owed(t)'
  PROVE  Owed(t) \/ \E w \in Workers : InsertCompletedTrade(w) /\ Hash(w) = t
<1>1. Sole(t)
  BY ExpiredGrows DEF Owed, Sole
<1> QED
  BY <1>1, RecordsGrow DEF Owed

\* A worker leaves a payment behind only billed, if it is owed.
LEMMA LeftBilled ==
  ASSUME Base, Recorded, Due, [SettleNext]_allVars, NEW w \in Workers, AtPayment(w),
         NEW t \in Payments, Hash(w) = t, Apply(w), Owed(t)'
  PROVE  Billed(t)
<1> USE DEF Base
<1>0. work'[w] # work[w] /\ work'[w].tx = work[w].tx + 1 /\ work'[w].ledger = work[w].ledger
  BY DEF Apply, BookInv, TypeOK
<1>1. Owed(t)
  <2>1. ASSUME NEW v \in Workers, InsertCompletedTrade(v) PROVE FALSE
    BY <1>0, <2>1 DEF InsertCompletedTrade, vars
  <2> QED
    BY <2>1, OwedBefore
<1>2. Busy(w)
  BY DEF AtPayment
<1>3. ASSUME NEW v \in Workers, Ignore(v) \/ LookupFails(v) \/ DeleteQuoteRegistryEntry(v)
      PROVE  v = w
  BY <1>0, <1>3 DEF Ignore, LookupFails, DeleteQuoteRegistryEntry, NextTransaction, Apply,
                    BookInv, TypeOK
<1>4. CASE Ignore(w)
  <2>1. "Memos" \in carried
    BY <1>1 DEF Owed, Due
  <2>2. HasQuoteHash(Payment(t))
    BY <2>1 DEF HasQuoteHash, Payment
  <2> QED
    BY <1>1, <1>4, <2>2 DEF Ignore, Due
<1>5. CASE LookupFails(w)
  BY <1>5 DEF LookupFails, Fails, Owed
<1>6. CASE DeleteQuoteRegistryEntry(w)
  BY <1>1, <1>6 DEF DeleteQuoteRegistryEntry, AtStage, Recorded, Owed
<1>7. ASSUME NEW v \in Workers, ApplyOther(v) PROVE FALSE
  BY <1>0, <1>7 DEF ApplyOther, Apply, BookInv, TypeOK
<1>8. ASSUME NEW v \in Workers, Save(v) \/ \E l \in todo[v] : Take(v, l) \/ Miss(v, l)
      PROVE  FALSE
  <2>1. v = w
    BY <1>0, <1>8 DEF Save, Take, Begin, Miss, BookInv, TypeOK
  <2> QED
    BY <1>0, <1>2, <1>8, <2>1 DEF Save, LoopDone, AtPayment, Take, Miss
<1>9. CASE Restart
  BY <1>0, <1>9, <1>2 DEF Restart, Crash, Idle, BookInv, TypeOK, Apply
<1>10. UNCHANGED work => FALSE
  BY <1>0
<1> QED
  BY <1>3, <1>4, <1>5, <1>6, <1>7, <1>8, <1>9, <1>10
     DEF SettleNext, SettlePayment, TakeLedger, Quote, Expire, CleanUpTrade, GetQuoteRegistryEntry,
         InsertCompletedTrade, InsertUsageEvent, vars, allVars

\* Every step keeps what is due.
LEMMA DueNext ==
  ASSUME Base, Recorded, Due, [SettleNext]_allVars
  PROVE  Due'
<1> USE DEF Base
<1>0. /\ QuoteOf \in [Payments -> Quotes]
      /\ \A v \in Workers : AtPayment(v) => Hash(v) \in Payments
  BY SettlementAssumption, PaymentAt DEF BookInv
<1>1. \A t \in Payments : Billed(t) => Billed(t)'
  BY RecordsGrow DEF Billed
<1>2. \A t \in Payments : Sole(t)' => Sole(t) /\ QuoteOf[t] \notin expired'
  BY ExpiredGrows DEF Sole
<1>3. ASSUME NEW w \in Workers, Started(w)'
      PROVE  "Memos" \in carried /\ (Sole(Hash(w))' => registry'[QuoteOf[Hash(w)']] # NoPartner)
  <2>1. AtPayment(w) /\ Hash(w)' = Hash(w) /\ Hash(w) \in Payments
    BY <1>0, <1>3, Kept
  <2>4. Sole(Hash(w))' => Sole(Hash(w)) /\ QuoteOf[Hash(w)] \notin expired'
    BY <2>1, ExpiredGrows DEF Sole
  <2>2. CASE Started(w)
    <3>1. "Memos" \in carried /\ (Sole(Hash(w)) => registry[QuoteOf[Hash(w)]] # NoPartner)
      BY <2>2 DEF Due
    <3>2. ASSUME NEW v \in Workers, DeleteQuoteRegistryEntry(v),
                 QuoteOf[Hash(v)] = QuoteOf[Hash(w)], Sole(Hash(w))
          PROVE  FALSE
      <4>1. AtPayment(v) /\ Hash(v) \in Payments
        BY <1>0, <3>2 DEF DeleteQuoteRegistryEntry, AtStage
      <4>2. v = w
        BY <2>1, <3>2, <4>1, OneSettler DEF Sole
      <4> QED
        BY <1>3, <3>2, <4>2 DEF DeleteQuoteRegistryEntry, NextTransaction, Started, SettleTypeOK
    <3>3. QuoteOf[Hash(w)] \in Quotes
      BY <1>0, <2>1
    <3>4. Sole(Hash(w))' => registry'[QuoteOf[Hash(w)]] # NoPartner
      BY <2>4, <3>1, <3>2, <3>3, RegistrationKept
    <3> QED
      BY <2>1, <3>1, <3>4
  <2>3. CASE ~Started(w)
    <3>1. GetQuoteRegistryEntry(w)
      BY <1>3, <2>3, StageSteps DEF Started, InsertCompletedTrade, InsertUsageEvent, AtStage, AtStart
    <3>2. registry' = registry /\ registry[QuoteOf[Hash(w)]] # NoPartner /\ "Memos" \in carried
      BY <3>1 DEF GetQuoteRegistryEntry, HasQuoteHash
    <3> QED
      BY <2>1, <3>2
  <2> QED
    BY <2>2, <2>3
<1>4. ASSUME NEW w \in Workers, InsertCompletedTrade(w)
      PROVE  /\ "Memos" \in carried /\ AtPayment(w) /\ UNCHANGED <<vars, registry>>
             /\ Sole(Hash(w)) => registry[QuoteOf[Hash(w)]] # NoPartner
  BY <1>4 DEF InsertCompletedTrade, AtStage, Started, AtStart, Due
<1>5. trades' # {} => "Memos" \in carried
  BY <1>4, RecordsGrow DEF Due
<1>6. ASSUME NEW t \in Payments, Owed(t)' PROVE Billed(t)' \/ registry'[QuoteOf[t]] # NoPartner
  <2>1. CASE \E w \in Workers : InsertCompletedTrade(w) /\ Hash(w) = t
    BY <1>2, <1>4, <1>6, <2>1 DEF Owed
  <2>2. CASE Owed(t)
    <3>1. ASSUME NEW w \in Workers, DeleteQuoteRegistryEntry(w), QuoteOf[Hash(w)] = QuoteOf[t]
          PROVE  Billed(t)
      <4>1. AtStage(w, "delete") /\ Hash(w) \in Payments
        BY <1>0, <3>1 DEF DeleteQuoteRegistryEntry, AtStage
      <4>2. Hash(w) = t
        BY <2>2, <3>1, <4>1 DEF Owed, Sole
      <4> QED
        BY <2>2, <4>1, <4>2 DEF AtStage, Recorded, Owed
    <3>2. Billed(t) \/ registry[QuoteOf[t]] # NoPartner
      BY <2>2 DEF Due
    <3>3. QuoteOf[t] \in Quotes /\ QuoteOf[t] \notin expired'
      BY <1>0, <1>6 DEF Owed, Sole
    <3> QED
      BY <1>1, <3>1, <3>2, <3>3, RegistrationKept
  <2> QED
    BY <1>6, <2>1, <2>2, OwedBefore
<1>7. ASSUME NEW v \in Workers, Busy(v)', NEW t \in Payments, Owed(t)',
             NEW i \in 1..work'[v].tx - 1, history'[work'[v].ledger][i] = Payment(t)
      PROVE  Billed(t)'
  <2>1. history' = history
    BY FaultsGrow
  <2>2. CASE work'[v] = work[v]
    <3>1. Busy(v) /\ i \in 1..work[v].tx - 1 /\ history[work[v].ledger][i] = Payment(t)
      BY <1>7, <2>1, <2>2 DEF Busy
    <3>2. /\ work[v].ledger \in Ledgers /\ work[v].tx \in 1..Len(history[work[v].ledger]) + 1
      BY <3>1 DEF BookInv, TypeOK
    <3>3. i \in DOMAIN history[work[v].ledger]
      BY <3>1, <3>2, LedgerShape DEF BookInv
    <3>4. ASSUME NEW w \in Workers, InsertCompletedTrade(w), Hash(w) = t PROVE FALSE
      <4>1. AtPayment(w)
        BY <1>4, <3>4
      <4>2. /\ work[w].ledger \in Ledgers
            /\ work[w].tx \in DOMAIN history[work[w].ledger]
            /\ history[work[w].ledger][work[w].tx] = Payment(t)
        BY <3>4, <4>1, PaymentAt DEF BookInv
      <4>3. work[v].ledger = work[w].ledger /\ i = work[w].tx
        BY <3>1, <3>2, <3>3, <4>2, OnePlace DEF BookInv
      <4>4. v = w
        BY <3>1, <4>1, <4>3, OneWorker DEF Reach, AtPayment
      <4> QED
        BY <3>1, <3>2, <4>3, <4>4
    <3>5. Owed(t)
      BY <1>7, <3>4, OwedBefore
    <3> QED
      BY <1>1, <3>1, <3>5 DEF Due
  <2>3. CASE Apply(v)
    <3>1. Busy(v) /\ work'[v].ledger = work[v].ledger /\ work'[v].tx = work[v].tx + 1
      BY <2>3 DEF Apply, BookInv, TypeOK
    <3>2. work[v].tx \in Nat
      BY DEF BookInv, TypeOK
    <3>3. CASE i = work[v].tx
      <4>1. AtPayment(v) /\ Hash(v) = t
        <5>1. work[v].ledger \in Ledgers /\ work[v].tx <= Len(history[work[v].ledger])
          BY <2>3 DEF Apply, BookInv, TypeOK
        <5>2. Len(history[work[v].ledger]) \in Nat
          BY <5>1, LedgerShape DEF BookInv
        <5>3. history[work[v].ledger][work[v].tx] = Payment(t)
          BY <1>7, <2>1, <3>1, <3>3
        <5> QED
          BY <3>1, <3>2, <5>1, <5>2, <5>3 DEF AtPayment, Hash, LoopDone, Payment
      <4> QED
        BY <1>1, <1>7, <2>3, <4>1, LeftBilled
    <3>4. CASE i # work[v].tx
      <4>1. i \in 1..work[v].tx - 1 /\ history[work[v].ledger][i] = Payment(t)
        BY <1>7, <2>1, <3>1, <3>2, <3>4
      <4>2. ~\E w \in Workers : InsertCompletedTrade(w)
        BY <2>3, <3>1, <3>2, <1>4 DEF vars
      <4>3. Owed(t)
        BY <1>7, <4>2, OwedBefore
      <4> QED
        BY <1>1, <3>1, <4>1, <4>3 DEF Due
    <3> QED
      BY <3>3, <3>4
  <2>4. ASSUME work'[v] # work[v], ~Apply(v) PROVE FALSE
    <3>1. ASSUME NEW w \in Workers, NEW k \in todo[w], Take(w, k) PROVE work'[v].tx = 1
      BY <2>4, <3>1 DEF Take, Begin, BookInv, TypeOK
    <3>2. ASSUME NEW w \in Workers, Apply(w) \/ Save(w) PROVE ~Busy(v)'
      BY <2>4, <3>2 DEF Apply, Save, Busy, BookInv, TypeOK
    <3>3. ASSUME Restart PROVE ~Busy(v)'
      BY <3>3 DEF Restart, Crash, Busy
    <3> QED
      BY <1>7, <2>4, <3>1, <3>2, <3>3, StepIsBookStep DEF Miss, vars
  <2> QED
    BY <2>2, <2>3, <2>4
<1>8. ASSUME NEW l \in saved' \ reread', NEW t \in Payments, Owed(t)', Holds(l, Payment(t))' PROVE Billed(t)'
  <2>1. history' = history
    BY FaultsGrow
  <2>2. Holds(l, Payment(t))
    BY <1>8, <2>1 DEF Holds, Payment
  <2>5. l \notin reread
    BY <1>8, FaultsGrow
  <2>3. CASE l \in saved
    <3>1. ASSUME NEW w \in Workers, InsertCompletedTrade(w), Hash(w) = t PROVE FALSE
      <4>1. AtPayment(w) /\ Busy(w)
        BY <1>4, <3>1 DEF AtPayment
      <4>2. /\ work[w].ledger \in Ledgers \ (saved \ reread)
            /\ work[w].tx \in DOMAIN history[work[w].ledger]
            /\ history[work[w].ledger][work[w].tx] = Payment(t)
        BY <3>1, <4>1, PaymentAt DEF BookInv, TypeOK
      <4>3. l \in Ledgers
        BY <2>3 DEF BookInv, TypeOK
      <4>4. PICK j \in DOMAIN history[l] : history[l][j] = Payment(t)
        BY <2>2 DEF Holds
      <4> QED
        BY <2>3, <2>5, <4>2, <4>3, <4>4, OnePlace DEF BookInv
    <3>2. Owed(t)
      BY <1>8, <3>1, OwedBefore
    <3>3. Billed(t)
      BY <2>2, <2>3, <2>5, <3>2 DEF Due, RecordedIsBilled, Owed, Sole
    <3> QED
      BY <1>1, <3>3
  <2>4. CASE l \notin saved
    <3>1. PICK w \in Workers : Save(w)
      BY <1>8, <2>4, StepIsBookStep DEF vars, Take, Miss, Apply, Restart, Crash
    <3>2. work[w].ledger = l /\ Busy(w) /\ work[w].tx > Len(history[l])
      BY <1>8, <2>4, <3>1 DEF Save, LoopDone
    <3>3. l \in Ledgers /\ work[w].tx \in Nat
      BY <3>2 DEF BookInv, TypeOK
    <3>4. PICK j \in DOMAIN history[l] : history[l][j] = Payment(t)
      BY <2>2 DEF Holds
    <3>5. j \in 1..work[w].tx - 1
      BY <3>2, <3>3, <3>4, LedgerShape DEF BookInv
    <3>6. ~\E v \in Workers : InsertCompletedTrade(v)
      BY <1>4, <1>8, <2>4 DEF vars
    <3>7. Owed(t)
      BY <1>8, <3>6, OwedBefore
    <3> QED
      BY <1>1, <3>2, <3>4, <3>5, <3>7 DEF Due
  <2> QED
    BY <2>3, <2>4
<1>9. RecordedIsBilled'
  <2>1. trades' \subseteq Payments
    BY SettleTypeKept DEF SettleTypeOK
  <2> QED
    BY <1>8, <2>1 DEF RecordedIsBilled, Owed, Sole
<1>10. carried' = carried
  BY FaultsGrow
<1> QED
  BY <1>3, <1>5, <1>6, <1>7, <1>9, <1>10 DEF Due

-----------------------------------------------------------------------------
(* What is lost with the fields                                            *)

\* Without the fields of an offer, a cancel and a pool, a transaction leaves at most
\* the row of a bad offer.
LEMMA LostStep ==
  ASSUME TypeOK, carried = TransactionFields, NEW w \in Workers, Apply(w)
  PROVE  /\ pools' = pools
         /\ \/ offers' = offers
            \/ \E o \in Offers, l \in Ledgers :
                 offers' = [offers EXCEPT ![o] = [status |-> "invalid_parse", ledger |-> l]]
<1> DEFINE l == work[w].ledger
           tx == history[l][work[w].tx]
<1>1. l \in Ledgers /\ tx \in Transactions
  BY ApplyStep
<1>2. CreatedStatus = "invalid_parse"
  BY DEF CreatedStatus, TransactionFields
<1>3. CASE StatementFails(tx)
  BY <1>3 DEF StatementFails
<1>4. CASE Execute(tx, l)
  <2>1. pools' = pools
    BY <1>4 DEF Execute, UpsertAMMPool, TransactionFields
  <2>2. \/ offers' = offers
        \/ /\ tx.type \in {"OfferCreate", "DustCreate"}
           /\ offers' = [offers EXCEPT ![tx.id] = [status |-> "invalid_parse", ledger |-> l]]
    BY <1>2, <1>4 DEF Execute, UpsertDust, UpsertOffer, CancelOffer, TransactionFields
  <2>3. tx.type \in {"OfferCreate", "DustCreate"} => tx.id \in Offers
    BY <1>1, TransactionTypes
  <2> QED
    BY <1>1, <2>1, <2>2, <2>3
<1> QED
  BY <1>3, <1>4 DEF Apply

\* Every step keeps that nothing that counts is stored.
LEMMA LostNext ==
  ASSUME Base, Due, FieldsAreLost, [SettleNext]_allVars
  PROVE  FieldsAreLost'
<1> SUFFICES ASSUME carried = TransactionFields
             PROVE  /\ \A o \in Offers : offers'[o].status \in {"none", "invalid_parse"}
                    /\ \A a \in Accounts : pools'[a] = NoPool
                    /\ trades' = {} /\ \A t \in Payments : ~Billed(t)'
  BY FaultsGrow DEF FieldsAreLost
<1>1. "Memos" \notin carried
  BY DEF TransactionFields
<1>2. \A w \in Workers : ~Started(w)
  BY <1>1 DEF Due
<1>3. trades' = {}
  <2>1. trades = {}
    BY DEF FieldsAreLost
  <2>2. ~\E w \in Workers : InsertCompletedTrade(w)
    BY <1>2 DEF InsertCompletedTrade, AtStage, Started, AtStart
  <2> QED
    BY <2>1, <2>2, RecordsGrow
<1>4. \A t \in Payments : ~Billed(t)'
  <2>1. ~\E w \in Workers : InsertUsageEvent(w)
    BY <1>2 DEF InsertUsageEvent, AtStage, Started, AtStart
  <2> QED
    BY <2>1, RecordsGrow DEF FieldsAreLost, Billed
<1>5. ASSUME offers' = offers, pools' = pools
      PROVE  /\ \A o \in Offers : offers'[o].status \in {"none", "invalid_parse"}
             /\ \A a \in Accounts : pools'[a] = NoPool
  BY <1>5 DEF FieldsAreLost
<1>6. ASSUME NEW w \in Workers, Apply(w)
      PROVE  /\ \A o \in Offers : offers'[o].status \in {"none", "invalid_parse"}
             /\ \A a \in Accounts : pools'[a] = NoPool
  <2>1. TypeOK
    BY DEF Base, BookInv
  <2>2. CASE \E o \in Offers, l \in Ledgers :
               offers' = [offers EXCEPT ![o] = [status |-> "invalid_parse", ledger |-> l]]
    BY <1>6, <2>1, <2>2, LostStep DEF FieldsAreLost, TypeOK
  <2> QED
    BY <1>5, <1>6, <2>1, <2>2, LostStep
<1>7. ASSUME \A w \in Workers : ~Apply(w)
      PROVE  /\ \A o \in Offers : offers'[o].status \in {"none", "invalid_parse"}
             /\ \A a \in Accounts : pools'[a] = NoPool
  <2>1. offers' = offers /\ pools' = pools
    BY <1>7, StepIsBookStep DEF Restart, Crash, Save, Miss, Take, vars
  <2> QED
    BY <1>5, <2>1
<1> QED
  BY <1>3, <1>4, <1>6, <1>7

-----------------------------------------------------------------------------
SettleInv == Base /\ Asked /\ Recorded /\ Counted /\ Due /\ FieldsAreLost

\* The empty tables satisfy the invariant.
LEMMA SettleInitInv == SettleInit => SettleInv
<1> SUFFICES ASSUME SettleInit PROVE SettleInv
  OBVIOUS
<1>1. Base
  BY BaseInit
<1>2. \A t \in Payments : usage[t] = <<>>
  BY DEF SettleInit
<1>3. Asked
  BY <1>2, SettlementAssumption DEF SettleInit, Asked, BilledHasAsked, Started
<1>4. Recorded
  BY <1>2 DEF SettleInit, Recorded, BilledIsRecorded, Billed, AtStart
<1>5. Counted
  <2>1. crashes = 0 /\ lapses = 0 /\ saved = {} /\ \A w \in Workers : ~Busy(w)
    BY DEF SettleInit, Init, Busy
  <2> QED
    BY <1>2, <2>1 DEF Counted, Billed
<1>6. Due
  BY DEF SettleInit, Init, Due, RecordedIsBilled, Started, Busy, Owed
<1>7. FieldsAreLost
  BY <1>2 DEF SettleInit, Init, FieldsAreLost, Billed, NoOffer
<1> QED
  BY <1>1, <1>3, <1>4, <1>5, <1>6, <1>7 DEF SettleInv

\* Every step keeps the invariant.
LEMMA SettleNextInv == SettleInv /\ [SettleNext]_allVars => SettleInv'
<1> SUFFICES ASSUME SettleInv, [SettleNext]_allVars PROVE SettleInv'
  OBVIOUS
<1> USE DEF SettleInv
<1>1. Base'
  BY BaseNext
<1>2. Asked' /\ Recorded' /\ Counted' /\ Due' /\ FieldsAreLost'
  BY AskedNext, RecordedNext, CountedNext, DueNext, LostNext
<1> QED
  BY <1>1, <1>2

\* Every settlement is a run of the transaction loop.
THEOREM SettlementRunsLoop == SettleSpec => Spec
<1>1. SettleInit => Init
  BY DEF SettleInit
<1>2. [SettleNext]_allVars => [Next]_vars
  BY StepIsBookStep DEF Next, Restart
<1> QED
  BY <1>1, <1>2, PTL DEF SettleSpec, Spec

\* A partner pays only for trades that were recorded, and are deleted by nothing but
\* the clean-up.
THEOREM BilledAlwaysRecorded == SettleSpec => []BilledIsRecorded
<1>1. SettleInv => BilledIsRecorded
  BY DEF SettleInv, Recorded
<1> QED
  BY SettleInitInv, SettleNextInv, <1>1, PTL DEF SettleSpec

\* A trade on record is billed once its ledger has a checkpoint, if its statements
\* did not fail, no other payment carries its quote, no clean-up met it and the ledger
\* was not applied again under its checkpoint.
THEOREM RecordedAlwaysBilled == SettleSpec => []RecordedIsBilled
<1>1. SettleInv => RecordedIsBilled
  BY DEF SettleInv, Due
<1> QED
  BY SettleInitInv, SettleNextInv, <1>1, PTL DEF SettleSpec

\* Only a crash, or a failure to save or to read a checkpoint, lets a payment be
\* billed once more.
THEOREM BillingBounded == SettleSpec => []BillingBound
<1>1. SettleInv => BillingBound
  <2> SUFFICES ASSUME SettleInv, NEW t \in Payments
               PROVE  Len(usage[t]) <= 1 + crashes + lapses
    BY DEF BillingBound
  <2>1. Len(usage[t]) \in Nat /\ usage[t] \in Seq(Partners) /\ crashes \in Nat /\ lapses \in Nat
    BY DEF SettleInv, Base, SettleTypeOK, BookInv, TypeOK
  <2>2. CASE \A l \in Ledgers : ~Holds(l, Payment(t))
    <3>1. usage[t] = <<>>
      BY <2>2 DEF SettleInv, Counted, Billed
    <3> QED
      BY <2>1, <3>1
  <2>3. CASE \E l \in Ledgers : Holds(l, Payment(t))
    <3>1. PICK l \in Ledgers : \E i \in DOMAIN history[l] : history[l][i] = Payment(t)
      BY <2>3 DEF Holds
    <3>2. PICK i \in DOMAIN history[l] : history[l][i] = Payment(t)
      BY <3>1
    <3>3. Len(usage[t]) <= crashes + lapses + (IF Spent(l, i) THEN 1 ELSE 0)
      BY <3>2 DEF SettleInv, Counted
    <3> QED
      BY <2>1, <3>3
  <2> QED
    BY <2>2, <2>3
<1> QED
  BY SettleInitInv, SettleNextInv, <1>1, PTL DEF SettleSpec

\* Whoever is billed has asked for the quote.
THEOREM BilledAlwaysAsked == SettleSpec => []BilledHasAsked
<1>1. SettleInv => BilledHasAsked
  BY DEF SettleInv, Asked
<1> QED
  BY SettleInitInv, SettleNextInv, <1>1, PTL DEF SettleSpec

\* With the fields that the code hands on, no ledger ever leaves an active offer, a
\* cancelled one, a pool, a recorded trade or a bill.
THEOREM FieldsAlwaysLost == SettleSpec => []FieldsAreLost
<1>1. SettleInv => FieldsAreLost
  BY DEF SettleInv
<1> QED
  BY SettleInitInv, SettleNextInv, <1>1, PTL DEF SettleSpec
=============================================================================
