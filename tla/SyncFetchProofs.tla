-------------------------- MODULE SyncFetchProofs --------------------------
(***************************************************************************)
(* For a gap of any length, FetchLedgerSync implements FetchLoop: each     *)
(* call delivers the ledger it was asked for, or fails.                    *)
(***************************************************************************)
EXTENDS SyncFetch, TLAPS

\* A call in progress is within the gap, and what is in its channel is the
\* ledger it asked for: the filter of the callback and the channel made
\* afresh for each call keep older answers out.
FetchInv ==
  /\ TypeOK
  /\ caller # "ready" => next <= Last
  /\ response # 0 => caller = "waiting" /\ response = next

\* The invariant holds before the first call.
LEMMA InitFetchInv == Init => FetchInv
<1> SUFFICES ASSUME Init PROVE FetchInv
  OBVIOUS
<1>1. next \in 1..Last + 1 /\ delivered \in [Ledgers -> 0..Last]
  BY LastAssumption DEF Init, LoopInit, Ledgers
<1>2. asked \subseteq Ledgers /\ callback \in 0..Last /\ response \in 0..Last
  BY LastAssumption DEF Init
<1>3. TypeOK
  BY <1>1, <1>2 DEF Init, TypeOK
<1>4. QED
  BY <1>3 DEF Init, FetchInv

\* The caller's steps keep the invariant.
LEMMA CallerKeepsFetchInv == FetchInv /\ CallerStep => FetchInv'
<1> SUFFICES ASSUME FetchInv, CallerStep PROVE FetchInv'
  OBVIOUS
<1> USE LastAssumption DEF FetchInv, TypeOK, Ledgers
<1>1. CASE WriteRequest
  BY <1>1 DEF WriteRequest
<1>2. CASE RequestFails
  BY <1>2 DEF RequestFails
<1>3. CASE InstallCallback
  BY <1>3 DEF InstallCallback
<1>4. CASE Return
  BY <1>4 DEF Return
<1>5. CASE Timeout
  BY <1>5 DEF Timeout
<1>6. QED
  BY <1>1, <1>2, <1>3, <1>4, <1>5 DEF CallerStep

\* So do the reader's.
LEMMA ReaderKeepsFetchInv ==
  ASSUME FetchInv,
         (\E l \in Ledgers : ReceiveLedger(l) \/ ReceiveError(l)) \/ LoadCallback \/ RunCallback
  PROVE  FetchInv'
<1> USE LastAssumption DEF FetchInv, TypeOK, Ledgers, Reading
<1>1. ASSUME NEW l \in Ledgers, ReceiveLedger(l) PROVE FetchInv'
  BY <1>1 DEF ReceiveLedger
<1>2. ASSUME NEW l \in Ledgers, ReceiveError(l) PROVE FetchInv'
  BY <1>2 DEF ReceiveError
<1>3. CASE LoadCallback
  <2>1. reader \in [pc : {"tested", "loaded"}, ledger : Ledgers, run : 0..Last]
    BY <1>3 DEF LoadCallback
  <2>2. reader' \in [pc : {"tested", "loaded"}, ledger : Ledgers, run : 0..Last]
    BY <1>3, <2>1 DEF LoadCallback
  <2>3. QED
    BY <1>3, <2>2 DEF LoadCallback
<1>4. CASE RunCallback
  BY <1>4 DEF RunCallback, IsRequested
<1>5. QED
  BY <1>1, <1>2, <1>3, <1>4

\* The caller's and the reader's steps keep the invariant.
LEMMA NextFetchInv == FetchInv /\ [Next]_vars => FetchInv'
<1> SUFFICES ASSUME FetchInv, [Next]_vars PROVE FetchInv'
  OBVIOUS
<1>1. CASE Disconnect \/ Reconnect
  BY <1>1 DEF Disconnect, Reconnect, FetchInv, TypeOK, Ledgers, Reading
<1>2. CASE UNCHANGED vars
  BY <1>2 DEF vars, FetchInv, TypeOK, Ledgers, Reading
<1>3. QED
  BY <1>1, <1>2, CallerKeepsFetchInv, ReaderKeepsFetchInv DEF Next

\* Only the caller's returns move the loop; each is a Deliver or a Skip.
LEMMA StepIsLoopStep == FetchInv /\ [Next]_vars => [LoopNext]_loopVars
<1> SUFFICES ASSUME FetchInv, [Next]_vars PROVE [LoopNext]_loopVars
  OBVIOUS
<1>1. CASE Return
  <2>1. response = next /\ next <= Last
    BY <1>1 DEF Return, FetchInv
  <2>2. Deliver
    BY <1>1, <2>1 DEF Return, Deliver
  <2>3. QED
    BY <2>2 DEF LoopNext
<1>2. CASE RequestFails \/ Timeout
  <2>1. Skip
    BY <1>2 DEF RequestFails, Timeout, Skip, FetchInv
  <2>2. QED
    BY <2>1 DEF LoopNext
<1>3. CASE WriteRequest \/ InstallCallback
  BY <1>3 DEF WriteRequest, InstallCallback, loopVars
<1>4. CASE \E l \in Ledgers : ReceiveLedger(l) \/ ReceiveError(l)
  BY <1>4 DEF ReceiveLedger, ReceiveError, loopVars
<1>5. CASE LoadCallback \/ RunCallback
  BY <1>5 DEF LoadCallback, RunCallback, loopVars
<1>6. CASE Disconnect \/ Reconnect \/ UNCHANGED vars
  BY <1>6 DEF Disconnect, Reconnect, vars, loopVars
<1>7. QED
  BY <1>1, <1>2, <1>3, <1>4, <1>5, <1>6 DEF Next, CallerStep

\* A filled response channel always holds the answer to the call in progress.
THEOREM SpecFetchInv == Spec => []FetchInv
<1>1. QED
  BY InitFetchInv, NextFetchInv, PTL DEF Spec

\* Types of the calls and of the reader, for a gap of any length.
THEOREM FetchTypeCorrect == Spec => []TypeOK
<1>1. FetchInv => TypeOK
  BY DEF FetchInv
<1>2. QED
  BY <1>1, SpecFetchInv, PTL

\* FetchLedgerSync never returns another ledger than the one asked for, and
\* never the answer to an earlier call: the calls of the backfill loop are a
\* behaviour of FetchLoop, for a gap of any length.
THEOREM FetchImplementsLoop == Spec => ImplementsFetchLoop
<1>1. Init => LoopInit
  BY DEF Init
<1>2. QED
  BY <1>1, SpecFetchInv, StepIsLoopStep, PTL DEF Spec, ImplementsFetchLoop, LoopSafety
=============================================================================
