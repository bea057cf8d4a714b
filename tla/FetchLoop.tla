----------------------------- MODULE FetchLoop -----------------------------
(***************************************************************************)
(* What cmd/indexer relies on when it backfills: FetchLedgerSync is called *)
(* for one ledger after another, and each call either delivers the ledger  *)
(* it was asked for or fails; a failed ledger is skipped for good.         *)
(***************************************************************************)
EXTENDS Naturals

CONSTANT Last   \* the last ledger of the gap

ASSUME LastAssumption == Last \in Nat

VARIABLES
  next,       \* i, the ledger to fetch
  delivered   \* what each call returned; 0: nothing, or an error

loopVars == <<next, delivered>>

LoopInit == next = 1 /\ delivered = [l \in 1..Last |-> 0]

Deliver ==
  /\ next <= Last
  /\ next' = next + 1
  /\ delivered' = [delivered EXCEPT ![next] = next]

Skip ==
  /\ next <= Last
  /\ next' = next + 1
  /\ UNCHANGED delivered

LoopNext == Deliver \/ Skip

LoopSafety == LoopInit /\ [][LoopNext]_loopVars

LoopSpec == LoopSafety /\ WF_loopVars(LoopNext)
=============================================================================
