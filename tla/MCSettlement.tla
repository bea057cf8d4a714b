---------------------------- MODULE MCSettlement ----------------------------
(***************************************************************************)
(* Small instances of Orderbook and Settlement: histories of at most three *)
(* ledgers, with offers, with pools or with payments.                      *)
(***************************************************************************)
EXTENDS Settlement, TLC

CONSTANTS o1, o2, d1, a1, a2, p1, p2, t1, t2, t3, q1, q2, alice, bob

MCOffers == {o1, o2, d1}
MCAccounts == {a1, a2}
MCPairs == {p1, p2}
MCPayments == {t1, t2, t3}
MCQuotes == {q1, q2}
MCPartners == {alice, bob}

\* Two payments for one quote and one for the other
MCQuoteOf == (t1 :> q1) @@ (t2 :> q1) @@ (t3 :> q2)

Ordered(h) == h[1] \o h[2] \o h[3]

\* What the ledger allows: each transaction once, an offer cancelled after
\* it was created
Legal(h) ==
  LET s == Ordered(h) IN
  /\ \A i, j \in DOMAIN s : i # j => s[i] # s[j]
  /\ \A o \in MCOffers, j \in DOMAIN s : s[j] \in {OfferCancel(o), MarkedCancel(o)} =>
       \E i \in 1..j - 1 : s[i] \in {OfferCreate(o), DustCreate(o)}

Blocks(txs, n) == UNION {[1..k -> txs] : k \in 0..n}
LegalBlocks(txs, n) == {h \in [1..3 -> Blocks(txs, n)] : Legal(h)}

\* One of each, or two in a ledger so that a crash may come between them
PlainHistories ==
  LegalBlocks({OfferCreate(o1), OfferCancel(o1), DustCreate(d1)}, 1)
    \cup {h \in LegalBlocks({OfferCreate(o1), OfferCancel(o1), OfferCreate(o2)}, 2) : h[1] = <<>>}

\* A cancel that carries the memo of a quote; it is not followed by another
MarkedHistories ==
  LegalBlocks({OfferCreate(o1), MarkedCancel(o1), OfferCreate(o2)}, 1)

PoolHistories == LegalBlocks({AMMCreate(a1, p1), AMMCreate(a1, p2), AMMCreate(a2, p1)}, 1)

\* Two payments with one quote in the ledgers that backfill and main loop can have
\* in hand together after a restart, or one payment that has its quote to itself
PaymentHistories ==
  {<< <<>>, <<Payment(t1)>>, <<Payment(t2)>> >>, << <<>>, <<Payment(t3)>>, <<>> >>}

AllHistories == PlainHistories \cup MarkedHistories \cup PoolHistories \cup PaymentHistories

\* Partners differ in nothing but their name
Symmetry == Permutations(MCPartners)
=============================================================================
