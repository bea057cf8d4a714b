SPECIFICATION SettleSpec
CONSTANTS
  o1 = o1
  o2 = o2
  d1 = d1
  a1 = a1
  a2 = a2
  p1 = p1
  p2 = p2
  t1 = t1
  t2 = t2
  t3 = t3
  q1 = q1
  q2 = q2
  alice = alice
  bob = bob
  NoPartner = NoPartner
  Offers <- MCOffers
  Accounts <- MCAccounts
  Pairs <- MCPairs
  Payments <- MCPayments
  Quotes <- MCQuotes
  QuoteOf <- MCQuoteOf
  Partners <- MCPartners
  Overtake = 0
  Histories <- PlainHistories
  MaxCrashes = 0
  MaxFailures = 0
  MaxLapses = 0
INVARIANT TableIsCurrent
CHECK_DEADLOCK FALSE
