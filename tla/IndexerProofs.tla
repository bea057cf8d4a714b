--------------------------- MODULE IndexerProofs ---------------------------
(***************************************************************************)
(* Theorems about Indexer, for every bound and every capacity, and, at the *)
(* end, about the ledger numbers that the API and the router get from it.  *)
(***************************************************************************)
EXTENDS Freshness, FiniteSetTheorems, TLAPS

(***************************************************************************)
(* A bounded, nonempty set of naturals has a greatest element.  Among the  *)
(* sets of what lies above some k \in S one is minimal under inclusion; it *)
(* is empty, for an element m of it would give a smaller one.              *)
(***************************************************************************)
LEMMA GreatestElement ==
  ASSUME NEW S \in SUBSET Nat, NEW n \in Nat, \A s \in S : s <= n, S # {}
  PROVE  \E m \in S : \A k \in S : k <= m
<1> DEFINE Above(k) == {x \in S : x > k}
           T == {Above(k) : k \in S}
           R == StrictSubsetOrdering(S)
<1>1. IsFiniteSet(S)
  BY FS_BoundedSetOfNaturals
<1>2. T \subseteq FiniteSubsetsOf(S)
  BY <1>1, FS_Subset DEF FiniteSubsetsOf
<1>3. T # {}
  OBVIOUS
<1>4. IsWellFoundedOn(R, FiniteSubsetsOf(S))
  BY FS_StrictSubsetOrderingWellFounded
<1>5. PICK U \in T : \A V \in T : ~ (<<V, U>> \in R)
  BY ONLY <1>2, <1>3, <1>4, WFMin, Zenon
<1>6. PICK k \in S : U = Above(k)
  BY <1>5
<1>7. ASSUME NEW m \in U PROVE FALSE
  <2>1. m \in S /\ m > k
    BY <1>6, <1>7
  <2>2. Above(m) \subseteq U
    <3>1. \A x \in S : x > m => x > k
      BY <2>1
    <3>. QED
      BY <1>6, <3>1
  <2>3. m \notin Above(m)
    BY <2>1
  <2>4. <<Above(m), U>> \in R
    BY <1>6, <1>7, <2>2, <2>3 DEF StrictSubsetOrdering
  <2>. QED
    BY <1>5, <2>1, <2>4
<1>8. \A x \in S : x <= k
  BY <1>6, <1>7
<1>. QED
  BY <1>8

\* The newest checkpoint is the greatest one, and 0 stands for none.
LEMMA LastCheckpointIsGreatest ==
  ASSUME checkpoints \subseteq Ledgers, MaxLedger \in Nat
  PROVE  /\ checkpoints # {} => LastCheckpoint \in checkpoints
         /\ checkpoints = {} => LastCheckpoint = 0
         /\ \A k \in checkpoints : k <= LastCheckpoint
<1>1. CASE checkpoints = {}
  BY <1>1 DEF LastCheckpoint
<1>2. CASE checkpoints # {}
  <2>1. checkpoints \in SUBSET Nat /\ \A l \in checkpoints : l <= MaxLedger
    BY DEF Ledgers
  <2>2. \E m \in checkpoints : \A k \in checkpoints : k <= m
    BY <1>2, <2>1, GreatestElement
  <2>. QED
    BY <1>2, <2>2 DEF LastCheckpoint
<1>. QED
  BY <1>1, <1>2

-----------------------------------------------------------------------------
(***************************************************************************)
(* The inductive invariant.  TypeOK and the properties alone are not       *)
(* inductive: that the two workers cannot meet depends on a history, which *)
(* LiveFloor and BackfillCeiling put into the state.                       *)
(***************************************************************************)

\* A ledger the subscription can have delivered in this run
Announced(l) == resumeFrom <= l /\ current <= l /\ l <= validated

Anchors == resumeFrom <= validated /\ current <= validated /\ checkpoints \subseteq 1..validated

LiveFloor ==
  /\ \A l \in toFetch \cup asked : Announced(l)
  /\ \A i \in DOMAIN ledgerChan : Announced(ledgerChan[i])
  /\ job["live"].pc # "idle" => Announced(job["live"].ledger)

BackfillCeiling ==
  /\ backfill.end <= current
  /\ Backfilling => resumeFrom < backfill.next
  /\ job["backfill"].pc # "idle" =>
       /\ resumeFrom < job["backfill"].ledger
       /\ job["backfill"].ledger < current

\* Nothing is under way before Subscribe
QuietUntilRunning ==
  phase # "running" =>
    /\ ~connected
    /\ toFetch = {} /\ asked = {} /\ ledgerChan = <<>>
    /\ backfill = NoBackfill
    /\ job = [w \in Workers |-> Idle]

IdleJobs == \A w \in Workers : job[w].pc = "idle" <=> job[w] = Idle

\* What processLedger has established about its ledger at each point
JobFacts ==
  \A w \in Workers :
    /\ job[w].pc = "save" => job[w].ledger \in applied
    /\ (job[w].pc = "apply" /\ ~job[w].blind) => job[w].ledger \notin checkpoints

IInv ==
  /\ TypeOK
  /\ Anchors
  /\ LiveFloor
  /\ BackfillCeiling
  /\ QuietUntilRunning
  /\ IdleJobs
  /\ JobFacts
  /\ CheckpointedIsApplied

-----------------------------------------------------------------------------
\* The invariant holds before the first start.
LEMMA InitIInv == Init => IInv
<1> SUFFICES ASSUME Init PROVE IInv
  OBVIOUS
<1> USE IndexerAssumption
<1>1. /\ <<>> \in Seq(Ledgers)
      /\ NoBackfill \in [next : Nat, end : Nat]
      /\ 0 \in 0..MaxLedger /\ 1 \in 0..MaxLedger /\ 0 \in 0..MaxRestarts
      /\ [w \in Workers |-> Idle] \in [Workers -> Jobs \cup {Idle}]
  BY DEF NoBackfill
<1>2. TypeOK
  BY <1>1 DEF Init, TypeOK
<1>3. Anchors /\ LiveFloor /\ BackfillCeiling
  BY DEF Init, Anchors, LiveFloor, BackfillCeiling, Backfilling, Workers, Idle, NoBackfill
<1>4. QuietUntilRunning /\ IdleJobs /\ JobFacts /\ CheckpointedIsApplied
  BY DEF Init, QuietUntilRunning, IdleJobs, JobFacts, CheckpointedIsApplied, Idle
<1>. QED
  BY <1>2, <1>3, <1>4 DEF IInv

\* Whatever ledger a worker holds lies between the resume point and the tip.
LEMMA JobBounds ==
  ASSUME IInv, NEW w \in Workers, job[w].pc # "idle"
  PROVE  /\ job[w] \in Jobs /\ job[w].ledger \in Ledgers
         /\ resumeFrom <= job[w].ledger /\ job[w].ledger <= validated
<1>1. job[w] \in Jobs
  BY DEF IInv, TypeOK, Idle
<1>2. job[w].ledger \in Ledgers
  BY <1>1 DEF Jobs
<1>3. resumeFrom \in Int /\ current \in Int /\ validated \in Int /\ job[w].ledger \in Int
  BY <1>2 DEF IInv, TypeOK, Ledgers
<1>4. CASE w = "live"
  BY <1>1, <1>2, <1>4 DEF IInv, LiveFloor, Announced
<1>5. CASE w = "backfill"
  <2>1. /\ resumeFrom < job[w].ledger /\ job[w].ledger < current /\ current <= validated
    BY <1>5 DEF IInv, BackfillCeiling, Anchors
  <2>. QED
    BY <1>1, <1>2, <1>3, <2>1
<1>. QED
  BY <1>4, <1>5 DEF Workers

\* Steps of the ledger stream leave the workers and the database alone; only
\* what they announce, and that it fits its type, is left to show.
LEMMA StreamStep ==
  ASSUME IInv, TypeOK', validated <= validated',
         UNCHANGED <<mainVars, backfill, job, dbVars>>,
         \A l \in toFetch' \cup asked' : Announced(l)',
         \A i \in DOMAIN ledgerChan' : Announced(ledgerChan'[i]),
         phase # "running" =>
           ~connected' /\ toFetch' = {} /\ asked' = {} /\ ledgerChan' = <<>>
  PROVE  IInv'
<1> USE DEF IInv, mainVars, dbVars
<1>1. Anchors'
  BY DEF Anchors, TypeOK, Ledgers
<1>2. LiveFloor'
  <2>1. ASSUME job["live"].pc # "idle" PROVE Announced(job["live"].ledger)'
    <3>1. job["live"].ledger \in Ledgers /\ Announced(job["live"].ledger)
      BY <2>1, JobBounds DEF LiveFloor, Workers
    <3>2. validated \in Int /\ validated' \in Int /\ job["live"].ledger \in Int
      BY <3>1 DEF TypeOK, Ledgers
    <3>. QED
      BY <3>1, <3>2 DEF Announced
  <2>2. \A i \in DOMAIN ledgerChan' : Announced(ledgerChan[i])'
    <3>1. ASSUME NEW i \in DOMAIN ledgerChan' PROVE Announced(ledgerChan[i])'
      <4>1. ledgerChan' \in Seq(Ledgers) /\ validated \in Int /\ validated' \in Int
        BY DEF TypeOK
      <4>2. ledgerChan'[i] \in Ledgers
        BY <3>1, <4>1
      <4>3. ledgerChan'[i] \in Int
        BY <4>2 DEF Ledgers
      <4>. QED
        BY <3>1, <4>1, <4>3 DEF Announced
    <3>. QED
      BY <3>1
  <2>. QED
    BY <2>1, <2>2 DEF LiveFloor
<1>3. BackfillCeiling' /\ QuietUntilRunning'
  BY DEF BackfillCeiling, Backfilling, QuietUntilRunning
<1>4. IdleJobs' /\ JobFacts' /\ CheckpointedIsApplied'
  BY DEF IdleJobs, JobFacts, CheckpointedIsApplied
<1>. QED
  BY <1>1, <1>2, <1>3, <1>4

\* A step inside processLedger: worker w keeps its ledger or becomes idle.
LEMMA WorkerStep ==
  ASSUME IInv, NEW w \in Workers, job[w].pc # "idle",
         NEW j \in Jobs \cup {Idle}, j # Idle => j.ledger = job[w].ledger,
         job' = [job EXCEPT ![w] = j],
         UNCHANGED <<validated, mainVars, connected, networkVars, ledgerChan, backfill>>
  PROVE  LiveFloor' /\ BackfillCeiling' /\ QuietUntilRunning' /\ IdleJobs'
<1> USE DEF IInv, mainVars, networkVars
<1>1. phase = "running"
  BY DEF QuietUntilRunning, Idle
<1>2. /\ job'[w] = j
      /\ \A v \in Workers \ {w} : job'[v] = job[v]
      /\ j.pc # "idle" <=> j # Idle
  BY DEF TypeOK, Jobs, Idle
<1>3. LiveFloor'
  BY <1>2 DEF LiveFloor, Announced, Workers, Idle
<1>4. BackfillCeiling'
  BY <1>2 DEF BackfillCeiling, Backfilling, Workers, Idle
<1>5. QuietUntilRunning'
  BY <1>1 DEF QuietUntilRunning
<1>6. IdleJobs'
  BY <1>2 DEF IdleJobs
<1>. QED
  BY <1>3, <1>4, <1>5, <1>6

\* Every step keeps the invariant: one case for each action.
LEMMA NextIInv == IInv /\ [Next]_vars => IInv'
<1> SUFFICES ASSUME IInv, [Next]_vars PROVE IInv'
  OBVIOUS
<1> USE IndexerAssumption DEF IInv, mainVars, networkVars, dbVars
<1>1. CASE Start
  <2>1. resumeFrom' \in 0..MaxLedger /\ resumeFrom' <= validated
    <3>1. checkpoints \subseteq Ledgers /\ validated \in 0..MaxLedger
      BY DEF TypeOK
    <3>2. LastCheckpoint = 0 \/ LastCheckpoint \in checkpoints
      BY <3>1, LastCheckpointIsGreatest
    <3>3. resumeFrom' = LastCheckpoint
      BY <1>1 DEF Start
    <3>4. CASE LastCheckpoint = 0
      BY <3>1, <3>3, <3>4
    <3>5. CASE LastCheckpoint \in checkpoints
      <4>1. LastCheckpoint \in 1..validated
        BY <3>5 DEF Anchors
      <4>. QED
        BY <3>1, <3>3, <4>1
    <3>. QED
      BY <3>2, <3>4, <3>5
  <2>2. TypeOK'
    BY <1>1, <2>1 DEF Start, TypeOK
  <2>3. Anchors'
    BY <1>1, <2>1 DEF Start, Anchors
  <2>4. LiveFloor' /\ BackfillCeiling' /\ QuietUntilRunning'
    BY <1>1 DEF Start, LiveFloor, BackfillCeiling, Backfilling, QuietUntilRunning,
                Workers, Idle, NoBackfill
  <2>5. IdleJobs' /\ JobFacts' /\ CheckpointedIsApplied'
    BY <1>1 DEF Start, IdleJobs, JobFacts, CheckpointedIsApplied
  <2>. QED
    BY <2>2, <2>3, <2>4, <2>5
<1>2. CASE GetServerInfo
  <2>1. current' \in 0..MaxLedger /\ current' <= validated
    <3>1. current' \in ServerInfoAnswers /\ validated \in 0..MaxLedger
      BY <1>2 DEF GetServerInfo, TypeOK
    <3>2. current' = 0 \/ (current' \in Ledgers /\ current' <= validated)
      BY <3>1 DEF ServerInfoAnswers
    <3>. QED
      BY <3>1, <3>2 DEF Ledgers
  <2>2. TypeOK'
    BY <1>2, <2>1 DEF GetServerInfo, TypeOK
  <2>3. Anchors'
    BY <1>2, <2>1 DEF GetServerInfo, Anchors
  <2>4. LiveFloor' /\ QuietUntilRunning'
    BY <1>2 DEF GetServerInfo, LiveFloor, QuietUntilRunning, Workers, Idle
  <2>5. BackfillCeiling'
    BY <1>2, <2>1 DEF GetServerInfo, BackfillCeiling, Backfilling, QuietUntilRunning,
                      Workers, Idle, NoBackfill
  <2>6. IdleJobs' /\ JobFacts' /\ CheckpointedIsApplied'
    BY <1>2 DEF GetServerInfo, IdleJobs, JobFacts, CheckpointedIsApplied
  <2>. QED
    BY <2>2, <2>3, <2>4, <2>5, <2>6
<1>3. CASE ConnectAndSubscribe
  <2>1. \/ backfill' = NoBackfill
        \/ backfill' = [next |-> resumeFrom + 1, end |-> current]
    BY <1>3 DEF ConnectAndSubscribe, DetectGap
  <2>2. /\ backfill' \in [next : Nat, end : Nat]
        /\ backfill'.end <= current
        /\ backfill'.next < backfill'.end => resumeFrom < backfill'.next
    BY <2>1 DEF NoBackfill, TypeOK
  <2>3. TypeOK'
    BY <1>3, <2>2 DEF ConnectAndSubscribe, TypeOK
  <2>4. Anchors' /\ LiveFloor' /\ QuietUntilRunning'
    BY <1>3 DEF ConnectAndSubscribe, Anchors, LiveFloor, Announced, QuietUntilRunning
  <2>5. BackfillCeiling'
    BY <1>3, <2>2 DEF ConnectAndSubscribe, BackfillCeiling, Backfilling
  <2>6. IdleJobs' /\ JobFacts' /\ CheckpointedIsApplied'
    BY <1>3 DEF ConnectAndSubscribe, IdleJobs, JobFacts, CheckpointedIsApplied
  <2>. QED
    BY <2>3, <2>4, <2>5, <2>6
<1>4. CASE Stop
  <2>1. TypeOK'
    <3>1. <<>> \in Seq(Ledgers) /\ NoBackfill \in [next : Nat, end : Nat]
      BY DEF NoBackfill
    <3>2. [w \in Workers |-> Idle] \in [Workers -> Jobs \cup {Idle}]
      OBVIOUS
    <3>3. 0 \in 0..MaxLedger
      OBVIOUS
    <3>. QED
      BY <1>4, <3>1, <3>2, <3>3 DEF Stop, TypeOK
  <2>2. Anchors' /\ LiveFloor' /\ BackfillCeiling' /\ QuietUntilRunning'
    BY <1>4 DEF Stop, Anchors, LiveFloor, BackfillCeiling, Backfilling,
                QuietUntilRunning, TypeOK, Workers, Idle, NoBackfill
  <2>3. IdleJobs' /\ JobFacts' /\ CheckpointedIsApplied'
    BY <1>4 DEF Stop, IdleJobs, JobFacts, CheckpointedIsApplied, Idle
  <2>. QED
    BY <2>1, <2>2, <2>3
<1>5. CASE CloseLedger
  <2>1. TypeOK' /\ validated <= validated'
    BY <1>5 DEF CloseLedger, TypeOK, Ledgers
  <2>2. \A l \in toFetch' \cup asked' : Announced(l)'
    BY <1>5 DEF CloseLedger, LiveFloor, Announced, Anchors, TypeOK, Ledgers
  <2>3. \A i \in DOMAIN ledgerChan' : Announced(ledgerChan'[i])
    BY <1>5 DEF CloseLedger, LiveFloor
  <2>. QED
    BY <1>5, <2>1, <2>2, <2>3, StreamStep DEF CloseLedger, QuietUntilRunning
<1>6. CASE AnnounceAgain
  <2>1. TypeOK'
    BY <1>6 DEF AnnounceAgain, TypeOK, Ledgers
  <2>2. \A l \in toFetch' \cup asked' : Announced(l)'
    BY <1>6 DEF AnnounceAgain, LiveFloor, Announced, Anchors, TypeOK
  <2>. QED
    BY <1>6, <2>1, <2>2, StreamStep
       DEF AnnounceAgain, LiveFloor, QuietUntilRunning, TypeOK
<1>7. ASSUME NEW l \in Ledgers, FetchLedger(l) PROVE IInv'
  <2>1. TypeOK'
    BY <1>7 DEF FetchLedger, TypeOK
  <2>2. \A k \in toFetch' \cup asked' : Announced(k)'
    BY <1>7 DEF FetchLedger, LiveFloor, Announced
  <2>. QED
    BY <1>7, <2>1, <2>2, StreamStep
       DEF FetchLedger, LiveFloor, QuietUntilRunning, TypeOK
<1>8. ASSUME NEW l \in Ledgers, ReceiveLedger(l) PROVE IInv'
  <2>1. Announced(l) /\ phase = "running"
    BY <1>8 DEF ReceiveLedger, LiveFloor, QuietUntilRunning
  <2>2. \/ ledgerChan' = ledgerChan
        \/ ledgerChan' = Append(ledgerChan, l)
    BY <1>8 DEF ReceiveLedger
  <2>3. TypeOK'
    BY <1>8, <2>2 DEF ReceiveLedger, TypeOK
  <2>4. \A i \in DOMAIN ledgerChan' : Announced(ledgerChan'[i])
    <3>1. ledgerChan \in Seq(Ledgers) /\ \A i \in DOMAIN ledgerChan : Announced(ledgerChan[i])
      BY DEF LiveFloor, TypeOK
    <3>2. CASE ledgerChan' = ledgerChan
      BY <3>1, <3>2
    <3>3. CASE ledgerChan' = Append(ledgerChan, l)
      <4>1. \A i \in DOMAIN Append(ledgerChan, l) :
              \/ i \in DOMAIN ledgerChan /\ Append(ledgerChan, l)[i] = ledgerChan[i]
              \/ Append(ledgerChan, l)[i] = l
        BY <3>1
      <4>2. QED
        BY <2>1, <3>1, <3>3, <4>1
    <3>4. QED
      BY <2>2, <3>2, <3>3
  <2>5. \A k \in toFetch' \cup asked' : Announced(k)'
    BY <1>8 DEF ReceiveLedger, LiveFloor, Announced
  <2>. QED
    BY <1>8, <2>1, <2>3, <2>4, <2>5, StreamStep DEF ReceiveLedger, TypeOK
<1>9. ASSUME NEW l \in Ledgers, ReceiveError(l) PROVE IInv'
  <2>1. TypeOK'
    BY <1>9 DEF ReceiveError, TypeOK
  <2>2. \A k \in toFetch' \cup asked' : Announced(k)'
    BY <1>9 DEF ReceiveError, LiveFloor, Announced
  <2>. QED
    BY <1>9, <2>1, <2>2, StreamStep
       DEF ReceiveError, LiveFloor, QuietUntilRunning, TypeOK
<1>10. CASE Disconnect
  <2>1. TypeOK'
    BY <1>10 DEF Disconnect, TypeOK
  <2>2. \A k \in toFetch' \cup asked' : Announced(k)'
    BY <1>10 DEF Disconnect, LiveFloor, Announced
  <2>. QED
    BY <1>10, <2>1, <2>2, StreamStep DEF Disconnect, LiveFloor, QuietUntilRunning, TypeOK
<1>11. CASE Reconnect
  <2>1. TypeOK'
    BY <1>11 DEF Reconnect, TypeOK
  <2>2. \A k \in toFetch' \cup asked' : Announced(k)'
    BY <1>11 DEF Reconnect, LiveFloor, Announced
  <2>. QED
    BY <1>11, <2>1, <2>2, StreamStep DEF Reconnect, LiveFloor, QuietUntilRunning, TypeOK
<1>12. CASE TakeLedger
  <2>1. Announced(Head(ledgerChan)) /\ Head(ledgerChan) \in Ledgers
    BY <1>12 DEF TakeLedger, LiveFloor, TypeOK
  <2>2. TypeOK'
    BY <1>12, <2>1 DEF TakeLedger, TypeOK, Jobs, Workers
  <2>3. LiveFloor'
    <3>1. \A i \in DOMAIN ledgerChan' : Announced(ledgerChan'[i])
      BY <1>12 DEF TakeLedger, LiveFloor, TypeOK
    <3>. QED
      BY <1>12, <2>1, <3>1 DEF TakeLedger, LiveFloor, Announced, TypeOK, Workers
  <2>4. Anchors' /\ BackfillCeiling' /\ QuietUntilRunning'
    BY <1>12 DEF TakeLedger, Anchors, BackfillCeiling, Backfilling, QuietUntilRunning,
                 TypeOK, Workers
  <2>5. IdleJobs' /\ JobFacts' /\ CheckpointedIsApplied'
    BY <1>12 DEF TakeLedger, IdleJobs, JobFacts, CheckpointedIsApplied, TypeOK, Workers, Idle
  <2>. QED
    BY <2>2, <2>3, <2>4, <2>5
<1>13. CASE BackfillFetch
  <2>1. /\ backfill.next \in Ledgers /\ resumeFrom < backfill.next
        /\ backfill.next < backfill.end /\ backfill.end <= current
        /\ backfill' = [next |-> backfill.next + 1, end |-> backfill.end]
    <3>1. /\ backfill \in [next : Nat, end : Nat]
          /\ resumeFrom \in 0..MaxLedger /\ current \in 0..MaxLedger
      BY DEF TypeOK
    <3>2. /\ resumeFrom < backfill.next /\ backfill.next < backfill.end
          /\ backfill.end <= current
      BY <1>13 DEF BackfillFetch, Backfilling, BackfillCeiling
    <3>. QED
      BY <1>13, <3>1, <3>2 DEF BackfillFetch, Ledgers
  <2>2. TypeOK'
    <3>1. backfill' \in [next : Nat, end : Nat]
      BY <2>1 DEF TypeOK, Ledgers
    <3>2. [pc |-> "check", ledger |-> backfill.next, blind |-> FALSE] \in Jobs
      BY <2>1 DEF Jobs
    <3>. QED
      BY <1>13, <3>1, <3>2 DEF BackfillFetch, TypeOK
  <2>3. BackfillCeiling'
    BY <1>13, <2>1 DEF BackfillFetch, BackfillCeiling, Backfilling, TypeOK, Workers
  <2>4. Anchors' /\ LiveFloor' /\ QuietUntilRunning'
    BY <1>13 DEF BackfillFetch, Anchors, LiveFloor, Announced, Backfilling,
                 QuietUntilRunning, NoBackfill, TypeOK, Workers
  <2>5. IdleJobs' /\ JobFacts' /\ CheckpointedIsApplied'
    BY <1>13 DEF BackfillFetch, IdleJobs, JobFacts, CheckpointedIsApplied, TypeOK, Workers, Idle
  <2>. QED
    BY <2>2, <2>3, <2>4, <2>5
<1>14. CASE BackfillSkip
  <2>1. /\ resumeFrom < backfill.next /\ backfill.end <= current
        /\ backfill' = [next |-> backfill.next + 1, end |-> backfill.end]
    BY <1>14 DEF BackfillSkip, Backfilling, BackfillCeiling, TypeOK
  <2>2. TypeOK'
    <3>1. backfill' \in [next : Nat, end : Nat]
      BY <2>1 DEF TypeOK
    <3>. QED
      BY <1>14, <3>1 DEF BackfillSkip, TypeOK
  <2>3. BackfillCeiling'
    BY <1>14, <2>1 DEF BackfillSkip, BackfillCeiling, Backfilling, TypeOK
  <2>4. Anchors' /\ LiveFloor' /\ QuietUntilRunning'
    BY <1>14 DEF BackfillSkip, Anchors, LiveFloor, Announced, Backfilling,
                 QuietUntilRunning, NoBackfill
  <2>5. IdleJobs' /\ JobFacts' /\ CheckpointedIsApplied'
    BY <1>14 DEF BackfillSkip, IdleJobs, JobFacts, CheckpointedIsApplied
  <2>. QED
    BY <2>2, <2>3, <2>4, <2>5
<1>15. ASSUME NEW w \in Workers, CheckDuplicate(w) PROVE IInv'
  <2>1. PICK j : job' = [job EXCEPT ![w] = j] /\
                 \/ j \in {Idle, [job[w] EXCEPT !.pc = "publish"]}
                 \/ j = [job[w] EXCEPT !.pc = "apply", !.blind = TRUE]
                 \/ j = [job[w] EXCEPT !.pc = "apply", !.blind = FALSE]
                    /\ job[w].ledger \notin checkpoints
    BY <1>15 DEF CheckDuplicate, Finished
  <2>2. job[w] \in Jobs
    BY <1>15 DEF CheckDuplicate, TypeOK, Idle
  <2>3. /\ j \in Jobs \cup {Idle}
        /\ j # Idle => j.ledger = job[w].ledger
        /\ j.pc # "save"
        /\ (j.pc = "apply" /\ ~j.blind) => j.ledger \notin checkpoints
    <3>1. CASE j = Idle
      BY <3>1 DEF Idle
    <3>2. CASE j = [job[w] EXCEPT !.pc = "publish"]
      BY <2>2, <3>2 DEF Jobs
    <3>3. CASE j = [job[w] EXCEPT !.pc = "apply", !.blind = TRUE]
      BY <2>2, <3>3 DEF Jobs
    <3>4. CASE /\ j = [job[w] EXCEPT !.pc = "apply", !.blind = FALSE]
               /\ job[w].ledger \notin checkpoints
      BY <2>2, <3>4 DEF Jobs
    <3>. QED
      BY <2>1, <3>1, <3>2, <3>3, <3>4
  <2>4. TypeOK'
    BY <1>15, <2>1, <2>3 DEF CheckDuplicate, TypeOK
  <2>5. LiveFloor' /\ BackfillCeiling' /\ QuietUntilRunning' /\ IdleJobs'
    BY <1>15, <2>1, <2>3, WorkerStep DEF CheckDuplicate
  <2>6. Anchors' /\ CheckpointedIsApplied'
    BY <1>15 DEF CheckDuplicate, Anchors, CheckpointedIsApplied
  <2>7. JobFacts'
    BY <1>15, <2>1, <2>3 DEF CheckDuplicate, JobFacts, TypeOK
  <2>. QED
    BY <2>4, <2>5, <2>6, <2>7
<1>16. ASSUME NEW w \in Workers, ApplyTransactions(w) PROVE IInv'
  <2> DEFINE j == [job[w] EXCEPT !.pc = "save"]
  <2>1. /\ job' = [job EXCEPT ![w] = j]
        /\ job[w] \in Jobs /\ j \in Jobs /\ j.ledger = job[w].ledger /\ j.pc = "save"
    <3>1. job[w].pc = "apply" /\ job' = [job EXCEPT ![w] = j]
      BY <1>16 DEF ApplyTransactions
    <3>2. job[w] \in Jobs
      BY <3>1, JobBounds
    <3>3. j \in Jobs /\ j.ledger = job[w].ledger /\ j.pc = "save"
      BY <3>2 DEF Jobs
    <3>. QED
      BY <3>1, <3>2, <3>3
  <2>2. TypeOK'
    BY <1>16, <2>1 DEF ApplyTransactions, TypeOK, Jobs
  <2>3. LiveFloor' /\ BackfillCeiling' /\ QuietUntilRunning' /\ IdleJobs'
    <3> HIDE DEF j
    <3>. QED
      BY <1>16, <2>1, WorkerStep DEF ApplyTransactions
  <2>4. Anchors' /\ CheckpointedIsApplied'
    BY <1>16 DEF ApplyTransactions, Anchors, CheckpointedIsApplied
  <2>5. JobFacts'
    BY <1>16, <2>1 DEF ApplyTransactions, JobFacts, TypeOK
  <2>. QED
    BY <2>2, <2>3, <2>4, <2>5
<1>17. ASSUME NEW w \in Workers, SaveCheckpoint(w) PROVE IInv'
  <2>1. PICK j \in {Idle, [job[w] EXCEPT !.pc = "publish"]} : job' = [job EXCEPT ![w] = j]
    BY <1>17 DEF SaveCheckpoint, Finished
  <2>2. job[w] \in Jobs
    BY <1>17 DEF SaveCheckpoint, TypeOK, Idle
  <2>3. /\ j \in Jobs \cup {Idle}
        /\ j # Idle => j.ledger = job[w].ledger
        /\ j.pc \notin {"apply", "save"}
    BY <2>1, <2>2 DEF Jobs, Idle
  <2>4. /\ checkpoints' \subseteq checkpoints \cup {job[w].ledger}
        /\ job[w].ledger \in applied /\ job[w].ledger \in Ledgers
    BY <1>17, <2>2 DEF SaveCheckpoint, JobFacts, Jobs
  <2>5. TypeOK'
    BY <1>17, <2>1, <2>3, <2>4 DEF SaveCheckpoint, TypeOK
  <2>6. LiveFloor' /\ BackfillCeiling' /\ QuietUntilRunning' /\ IdleJobs'
    BY <1>17, <2>1, <2>3, WorkerStep DEF SaveCheckpoint
  <2>7. Anchors'
    <3>1. job[w].ledger <= validated
      BY <1>17, JobBounds DEF SaveCheckpoint
    <3>. QED
      BY <1>17, <2>4, <3>1 DEF SaveCheckpoint, Anchors, Ledgers, TypeOK
  <2>8. CheckpointedIsApplied'
    BY <1>17, <2>4 DEF SaveCheckpoint, CheckpointedIsApplied
  <2>9. JobFacts'
    <3>1. ASSUME NEW v \in Workers, v # w, job[v].pc = "apply"
          PROVE  job[v].ledger # job[w].ledger
      BY <1>17, <3>1 DEF SaveCheckpoint, LiveFloor, BackfillCeiling, Announced, TypeOK,
                         Workers, Jobs, Idle, Ledgers
    <3>. QED
      BY <1>17, <2>1, <2>3, <2>4, <3>1 DEF SaveCheckpoint, JobFacts, TypeOK
  <2>. QED
    BY <2>5, <2>6, <2>7, <2>8, <2>9
<1>18. CASE Publish
  <2>1. job["live"].pc # "idle" /\ "live" \in Workers /\ job' = [job EXCEPT !["live"] = Idle]
    BY <1>18 DEF Publish, Workers
  <2>2. TypeOK' /\ Anchors' /\ CheckpointedIsApplied'
    BY <1>18 DEF Publish, TypeOK, Anchors, CheckpointedIsApplied
  <2>3. LiveFloor' /\ BackfillCeiling' /\ QuietUntilRunning' /\ IdleJobs'
    BY <1>18, <2>1, WorkerStep DEF Publish
  <2>4. JobFacts'
    BY <1>18 DEF Publish, JobFacts, TypeOK, Idle
  <2>. QED
    BY <2>2, <2>3, <2>4
<1>19. CASE UNCHANGED vars
  BY <1>19 DEF vars, TypeOK, Anchors, LiveFloor, BackfillCeiling, QuietUntilRunning,
       IdleJobs, JobFacts, CheckpointedIsApplied, Announced, Backfilling
<1>. QED
  BY <1>1, <1>2, <1>3, <1>4, <1>5, <1>6, <1>7, <1>8, <1>9, <1>10, <1>11, <1>12, <1>13,
     <1>14, <1>15, <1>16, <1>17, <1>18, <1>19
     DEF Next, Work, Stream, ProcessLedger

\* IInv holds in every reachable state.
LEMMA SpecIInv == Spec => []IInv
BY InitIInv, NextIInv, PTL DEF Spec

-----------------------------------------------------------------------------
\* Every variable keeps its type, whatever the bounds are.
THEOREM TypeCorrect == Spec => []TypeOK
<1>1. IInv => TypeOK
  BY DEF IInv
<1>. QED
  BY <1>1, SpecIInv, PTL

\* A checkpoint is never ahead of the transactions it stands for.
THEOREM CheckpointsAreApplied == Spec => []CheckpointedIsApplied
<1>1. IInv => CheckpointedIsApplied
  BY DEF IInv
<1>. QED
  BY <1>1, SpecIInv, PTL

\* The main loop and the backfill goroutine never hold the same ledger: one is
\* at or above currentLedger, the other below it.
LEMMA IInvDisjoint == IInv => WorkersDisjoint
<1> SUFFICES ASSUME IInv, job["live"] # Idle, job["backfill"] # Idle
             PROVE  job["live"].ledger # job["backfill"].ledger
  BY DEF WorkersDisjoint
<1>1. job["live"] \in Jobs /\ job["backfill"] \in Jobs
  BY DEF IInv, TypeOK, Workers
<1>2. current <= job["live"].ledger /\ job["backfill"].ledger < current
  BY <1>1 DEF IInv, LiveFloor, BackfillCeiling, Announced, Jobs
<1>. QED
  BY <1>1, <1>2 DEF IInv, TypeOK, Jobs, Ledgers

\* The main loop and the backfill goroutine never hold the same ledger.
THEOREM WorkersAreDisjoint == Spec => []WorkersDisjoint
BY IInvDisjoint, SpecIInv, PTL

\* What the main loop holds, or is on its way to it
LiveReach ==
  toFetch \cup asked \cup {ledgerChan[i] : i \in DOMAIN ledgerChan}
  \cup (IF job["live"] = Idle THEN {} ELSE {job["live"].ledger})

\* What the backfill goroutine holds, or has yet to fetch
BackfillReach ==
  (backfill.next..backfill.end - 1)
  \cup (IF job["backfill"] = Idle THEN {} ELSE {job["backfill"].ledger})

\* Everything the backfill goroutine has before it lies above the checkpoint it
\* resumed from and below everything the main loop may get: what Orderbook says
\* of the two workers' ledgers.
BackfillBehind == \A b \in BackfillReach, l \in LiveReach : resumeFrom < b /\ b < l

\* The backfill goroutine stays behind the main loop through announcements,
\* late answers, a full channel and restarts, and so the two cannot come to the
\* same ledger later either.
THEOREM BackfillStaysBehind == Spec => []BackfillBehind
<1>1. IInv => BackfillBehind
  <2> SUFFICES ASSUME IInv, NEW b \in BackfillReach, NEW l \in LiveReach
               PROVE  resumeFrom < b /\ b < l
    BY DEF BackfillBehind
  <2>0. \A w \in Workers : job[w] # Idle => job[w] \in Jobs /\ job[w].pc # "idle"
    BY DEF IInv, TypeOK, Jobs
  <2>1. /\ current \in Nat /\ resumeFrom \in Nat
        /\ toFetch \subseteq Nat /\ asked \subseteq Nat
        /\ \A i \in DOMAIN ledgerChan : ledgerChan[i] \in Nat
        /\ \A j \in Jobs : j.ledger \in Nat
        /\ backfill.next \in Nat /\ backfill.end \in Nat
    BY IndexerAssumption DEF IInv, TypeOK, Ledgers, Jobs
  <2>2. l \in Nat /\ current <= l
    <3>1. CASE l \in toFetch \cup asked
      BY <2>1, <3>1 DEF IInv, LiveFloor, Announced
    <3>2. CASE l \in {ledgerChan[i] : i \in DOMAIN ledgerChan}
      BY <2>1, <3>2 DEF IInv, LiveFloor, Announced
    <3>3. CASE job["live"] # Idle /\ l = job["live"].ledger
      BY <2>0, <2>1, <3>3 DEF IInv, LiveFloor, Announced, Workers
    <3>4. QED
      BY <3>1, <3>2, <3>3 DEF LiveReach
  <2>3. b \in Nat /\ resumeFrom < b /\ b < current
    <3>1. CASE b \in backfill.next..backfill.end - 1
      <4>1. Backfilling /\ b \in Nat /\ backfill.next <= b /\ b < backfill.end
        BY <2>1, <3>1 DEF Backfilling
      <4>2. QED
        BY <2>1, <4>1 DEF IInv, BackfillCeiling
    <3>2. CASE job["backfill"] # Idle /\ b = job["backfill"].ledger
      BY <2>0, <2>1, <3>2 DEF IInv, BackfillCeiling, Workers
    <3>3. QED
      BY <3>1, <3>2 DEF BackfillReach
  <2>4. QED
    BY <2>1, <2>2, <2>3
<1>. QED
  BY <1>1, SpecIInv, PTL

\* A checkpointed ledger is applied again only after a failed duplicate check,
\* although neither worker locks anything between the check and the checkpoint.
THEOREM NeverReappliedHolds == Spec => NeverReapplied
<1>1. IInv => \A w \in Workers :
                (ApplyTransactions(w) /\ job[w].ledger \in checkpoints) => job[w].blind
  BY DEF IInv, JobFacts, ApplyTransactions
<1>. QED
  BY <1>1, SpecIInv, PTL DEF Spec, NeverReapplied

\* What a run resumed above without indexing is never indexed.
LEMMA HolesStay ==
  ASSUME IInv, [Next]_vars, NEW l \in Ledgers, l < resumeFrom, l \notin checkpoints
  PROVE  l \notin checkpoints'
<1>1. ASSUME NEW w \in Workers, SaveCheckpoint(w) PROVE l \notin checkpoints'
  <2>1. resumeFrom <= job[w].ledger
    BY <1>1, JobBounds DEF SaveCheckpoint
  <2>2. job[w].ledger # l
    BY <2>1 DEF IInv, TypeOK, Ledgers
  <2>. QED
    BY <1>1, <2>2 DEF SaveCheckpoint
<1>2. ASSUME ~ \E w \in Workers : SaveCheckpoint(w) PROVE UNCHANGED checkpoints
  BY <1>2 DEF Next, Work, Stream, ProcessLedger, vars, dbVars, Start, GetServerInfo,
     ConnectAndSubscribe, Stop, CloseLedger, AnnounceAgain, FetchLedger, ReceiveLedger,
     ReceiveError, Disconnect, Reconnect, TakeLedger, BackfillFetch, BackfillSkip,
     CheckDuplicate, ApplyTransactions, Publish
<1>. QED
  BY <1>1, <1>2

\* No later step indexes a ledger that a start has resumed above.
THEOREM HolesAreFinalHolds == Spec => HolesAreFinal
<1>1. IInv /\ [Next]_vars =>
        \A l \in Ledgers : (l < resumeFrom /\ l \notin checkpoints) => l \notin checkpoints'
  BY HolesStay
<1>. QED
  BY <1>1, SpecIInv, PTL DEF Spec, HolesAreFinal

-----------------------------------------------------------------------------
(* The published ledger and the API's: Freshness                            *)

\* The indexer inside this system behaves as Indexer says.
THEOREM FreshnessContainsIndexer == FreshSpec => Spec
<1>1. FreshInit => Init
  BY DEF FreshInit
<1>2. [FreshNext]_freshVars => [Next]_vars
  BY DEF FreshNext, IndexerWork, PublishLedgerIndex, LedgerUpdate, SetCurrentLedgerIndex,
         UpdateNetworkLedger, ApiRestart, Next, freshVars
<1>. QED
  BY <1>1, <1>2, PTL DEF FreshSpec, Spec

-----------------------------------------------------------------------------
\* The main loop publishes only what has a checkpoint.  With it,
\* PublishedIsCheckpointed is inductive.
PublishesCheckpointed ==
  job["live"].pc = "publish" => job["live"].ledger \in checkpoints

FreshIInv == PublishesCheckpointed /\ PublishedIsCheckpointed

\* No step of the indexer removes a checkpoint.
LEMMA WorkKeepsCheckpoints == Work \/ Publish => checkpoints \subseteq checkpoints'
BY DEF Work, Stream, ProcessLedger, dbVars, Start, GetServerInfo, ConnectAndSubscribe,
   Stop, CloseLedger, AnnounceAgain, FetchLedger, ReceiveLedger, ReceiveError, Disconnect,
   Reconnect, TakeLedger, BackfillFetch, BackfillSkip, CheckDuplicate, ApplyTransactions,
   SaveCheckpoint, Publish

\* A step of the indexer brings a job to "publish" only with its checkpoint.
LEMMA WorkPublishes ==
  ASSUME TypeOK, PublishesCheckpointed, Work \/ Publish
  PROVE  PublishesCheckpointed'
<1> USE DEF PublishesCheckpointed, TypeOK, Workers
<1>1. CASE Start \/ GetServerInfo \/ ConnectAndSubscribe \/ Stream \/ BackfillSkip
  <2>1. UNCHANGED <<job, checkpoints>>
    BY <1>1 DEF Stream, dbVars, Start, GetServerInfo, ConnectAndSubscribe, CloseLedger,
       AnnounceAgain, FetchLedger, ReceiveLedger, ReceiveError, Disconnect, Reconnect,
       BackfillSkip
  <2>. QED
    BY <2>1
<1>2. CASE Stop \/ TakeLedger \/ Publish
  BY <1>2 DEF Stop, TakeLedger, Publish, Idle
<1>3. CASE BackfillFetch
  BY <1>3 DEF BackfillFetch, dbVars
<1>4. ASSUME NEW w \in Workers, CheckDuplicate(w) PROVE PublishesCheckpointed'
  BY <1>4 DEF CheckDuplicate, Finished, Idle, dbVars
<1>5. ASSUME NEW w \in Workers, ApplyTransactions(w) PROVE PublishesCheckpointed'
  BY <1>5 DEF ApplyTransactions
<1>6. ASSUME NEW w \in Workers, SaveCheckpoint(w) PROVE PublishesCheckpointed'
  BY <1>6 DEF SaveCheckpoint, Finished, Idle
<1>. QED
  BY <1>1, <1>2, <1>3, <1>4, <1>5, <1>6 DEF Work, ProcessLedger

\* Every step of the composition keeps the invariant.
LEMMA FreshStep == TypeOK /\ FreshIInv /\ [FreshNext]_freshVars => FreshIInv'
<1> SUFFICES ASSUME TypeOK, FreshIInv, [FreshNext]_freshVars PROVE FreshIInv'
  OBVIOUS
<1> USE DEF FreshIInv, PublishedIsCheckpointed
<1>1. CASE IndexerWork
  BY <1>1, WorkKeepsCheckpoints, WorkPublishes DEF IndexerWork, apiVars
<1>2. CASE PublishLedgerIndex
  <2>1. job["live"].ledger \in checkpoints
    BY <1>2 DEF PublishLedgerIndex, Publish, PublishesCheckpointed
  <2>. QED
    BY <1>2, <2>1, WorkKeepsCheckpoints, WorkPublishes DEF PublishLedgerIndex
<1>3. ASSUME NEW l \in Ledgers, SetCurrentLedgerIndex(l) PROVE FreshIInv'
  BY <1>3 DEF SetCurrentLedgerIndex, PublishesCheckpointed, vars
<1>4. ASSUME NEW l \in Ledgers, UpdateNetworkLedger(l) PROVE FreshIInv'
  BY <1>4 DEF UpdateNetworkLedger, PublishesCheckpointed, vars
<1>5. CASE ApiRestart
  BY <1>5 DEF ApiRestart, PublishesCheckpointed, vars
<1>6. CASE UNCHANGED freshVars
  BY <1>6 DEF freshVars, apiVars, PublishesCheckpointed, vars
<1>. QED
  BY <1>1, <1>2, <1>3, <1>4, <1>5, <1>6 DEF FreshNext, LedgerUpdate

\* Whatever the API has heard of the ledger names a ledger with a checkpoint.
THEOREM PublishedIsAlwaysCheckpointed == FreshSpec => []PublishedIsCheckpointed
<1>1. FreshInit => FreshIInv
  BY DEF FreshInit, Init, FreshIInv, PublishesCheckpointed, PublishedIsCheckpointed,
         Workers, Idle
<1>2. FreshIInv => PublishedIsCheckpointed
  BY DEF FreshIInv
<1>. QED
  BY <1>1, <1>2, FreshStep, FreshnessContainsIndexer, TypeCorrect, PTL DEF FreshSpec

-----------------------------------------------------------------------------
\* The lag that GET /health computes is 0 in every reachable state, so its
\* status is "ok" whatever the limits and however far the indexer is behind.
LEMMA NoLag == TypeOK /\ PublishedIsCheckpointed => HealthIsBlind
<1> SUFFICES ASSUME TypeOK, PublishedIsCheckpointed PROVE HealthIsBlind
  OBVIOUS
<1>1. checkpoints \subseteq Ledgers
  BY DEF TypeOK
<1>2. LastCheckpoint \in Nat /\ networkLedger \in Nat
  <2>1. \A l \in checkpoints : l \in Nat
    BY <1>1 DEF Ledgers
  <2>2. networkLedger = 0 \/ networkLedger \in checkpoints
    BY DEF PublishedIsCheckpointed
  <2>3. LastCheckpoint = 0 \/ LastCheckpoint \in checkpoints
    BY <1>1, LastCheckpointIsGreatest, IndexerAssumption
  <2>. QED
    BY <2>1, <2>2, <2>3
<1>3. networkLedger <= LastCheckpoint
  <2>1. CASE networkLedger = 0
    BY <2>1, <1>2
  <2>2. CASE networkLedger # 0
    BY <2>2, <1>1, LastCheckpointIsGreatest, IndexerAssumption DEF PublishedIsCheckpointed
  <2>. QED
    BY <2>1, <2>2
<1>4. IndexerLag = 0
  BY <1>2, <1>3 DEF IndexerLag
<1>. QED
  BY <1>4, FreshnessAssumption DEF HealthIsBlind, Status

\* The health endpoint answers "ok" in every state, whatever its two limits are.
THEOREM HealthIsAlwaysOk == FreshSpec => []HealthIsBlind
BY NoLag, PublishedIsAlwaysCheckpointed, FreshnessContainsIndexer, TypeCorrect, PTL
=============================================================================
