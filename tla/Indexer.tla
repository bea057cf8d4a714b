------------------------------ MODULE Indexer ------------------------------
(***************************************************************************)
(* cmd/indexer: the process that follows the XRP Ledger.  At start it      *)
(* reads its newest checkpoint, asks rippled for the validated ledger over *)
(* HTTP, subscribes over WebSocket and, if it is behind, starts a          *)
(* background goroutine that fetches the missing ledgers.  From then on    *)
(* two workers run processLedger concurrently on the same database: the    *)
(* main loop, fed by a bounded channel that drops when full, and the       *)
(* backfill goroutine.  What survives a crash is the database.             *)
(*                                                                         *)
(* Simplifications: the HTTP and the WebSocket endpoint are one rippled    *)
(* node, whose HTTP answer may trail by HttpLag ledgers; a ledger is its   *)
(* index, and its transactions are written in one step (Orderbook models   *)
(* them one by one); the connection is up or down (XrplClient models how   *)
(* it gets there).                                                         *)
(***************************************************************************)
EXTENDS Integers, Sequences

CONSTANTS
  MaxLedger,     \* bound: the last ledger the network validates
  MaxRestarts,   \* bound: how often the process may be started again
  ChanCap,       \* capacity of client.ledgerChan (100)
  Retention,     \* historyRetention, the longest gap that is backfilled (2048)
  HttpLag,       \* how far server_info may trail the validated ledger
  Modulus        \* 2^64: the subtraction of uint64 values wraps

ASSUME IndexerAssumption ==
  /\ MaxLedger \in Nat \ {0} /\ MaxRestarts \in Nat
  /\ ChanCap \in Nat /\ Retention \in Nat /\ HttpLag \in Nat
  /\ Modulus \in Nat /\ Modulus > MaxLedger + Retention + 1

Ledgers == 1..MaxLedger
Workers == {"live", "backfill"}

VARIABLES
  validated,     \* rippled: index of the last validated ledger
  phase,         \* how far main() has come
  restarts,      \* times main() was started
  resumeFrom,    \* checkpoint.LedgerIndex read at start; 0: no checkpoint
  current,       \* currentLedger; 0: the HTTP request failed
  connected,     \* the live client has a subscribed connection
  toFetch,       \* ledgers a notified fetchLedger goroutine is about to request
  asked,         \* ledgers requested on the open connection, not yet answered
  ledgerChan,    \* client.ledgerChan
  backfill,      \* the loop of the backfill goroutine: next index and its end
  job,           \* what each worker is doing in processLedger
  applied,       \* database: ledgers whose transaction loop has run
  checkpoints    \* database: core.ledger_checkpoints

networkVars == <<toFetch, asked>>
mainVars == <<phase, restarts, resumeFrom, current>>
dbVars == <<applied, checkpoints>>
vars == <<validated, phase, restarts, resumeFrom, current, connected, toFetch,
          asked, ledgerChan, backfill, job, applied, checkpoints>>

Idle == [pc |-> "idle", ledger |-> 0, blind |-> FALSE]
NoBackfill == [next |-> 0, end |-> 0]
Backfilling == backfill.next < backfill.end

\* ORDER BY ledger_index DESC LIMIT 1; no row is checkpoint == nil
LastCheckpoint ==
  IF checkpoints = {} THEN 0
  ELSE CHOOSE l \in checkpoints : \A k \in checkpoints : k <= l

Jobs == [pc : {"check", "apply", "save", "publish"}, ledger : Ledgers, blind : BOOLEAN]

\* Types, of the channel, the two loops and the database.
TypeOK ==
  /\ validated \in 0..MaxLedger
  /\ phase \in {"down", "loaded", "informed", "running"}
  /\ restarts \in 0..MaxRestarts
  /\ resumeFrom \in 0..MaxLedger
  /\ current \in 0..MaxLedger
  /\ connected \in BOOLEAN
  /\ toFetch \subseteq Ledgers
  /\ asked \subseteq Ledgers
  /\ ledgerChan \in Seq(Ledgers)
  /\ backfill \in [next : Nat, end : Nat]
  /\ job \in [Workers -> Jobs \cup {Idle}]
  /\ applied \subseteq Ledgers
  /\ checkpoints \subseteq Ledgers

Init ==
  /\ validated = 1
  /\ phase = "down"
  /\ restarts = 0
  /\ resumeFrom = 0 /\ current = 0
  /\ connected = FALSE
  /\ toFetch = {} /\ asked = {}
  /\ ledgerChan = <<>>
  /\ backfill = NoBackfill
  /\ job = [w \in Workers |-> Idle]
  /\ applied = {} /\ checkpoints = {}

-----------------------------------------------------------------------------
(* The process: start, gap detection, crash                                *)

Start ==
  /\ phase = "down"
  /\ restarts < MaxRestarts
  /\ restarts' = restarts + 1
  /\ resumeFrom' = LastCheckpoint
  /\ phase' = "loaded"
  /\ UNCHANGED <<validated, current, connected, networkVars, ledgerChan,
                 backfill, job, dbVars>>

\* Mutant: the index of the open ledger instead of the validated one
ServerInfoAnswersMutant == {0, validated + 1}

\* The validated ledger as rippled's server_info reports it; 0 on an error
ServerInfoAnswers == {0} \cup {l \in Ledgers : validated - HttpLag <= l /\ l <= validated}

GetServerInfo ==
  /\ phase = "loaded"
  /\ current' \in ServerInfoAnswers
  /\ phase' = "informed"
  /\ UNCHANGED <<validated, restarts, resumeFrom, connected, networkVars,
                 ledgerChan, backfill, job, dbVars>>

\* gap := currentLedger - uint64(checkpoint.LedgerIndex), on uint64
Gap == (current - resumeFrom) % Modulus

CanDetectGap == resumeFrom > 0 /\ current > 0

\* Mutant: i <= currentLedger
DetectGapMutant ==
  IF CanDetectGap /\ Gap > 1 /\ Gap - 1 <= Retention
  THEN [next |-> resumeFrom + 1, end |-> current + 1]
  ELSE NoBackfill

\* Mutant: the backfill covers what the node retains, not only the gap
DetectGapRescanMutant ==
  IF CanDetectGap /\ current > Retention + 1
  THEN [next |-> current - Retention - 1, end |-> current]
  ELSE NoBackfill

\* The ledgers the backfill goroutine is started for: i < currentLedger
DetectGap ==
  IF CanDetectGap /\ Gap > 1 /\ Gap - 1 <= Retention
  THEN [next |-> resumeFrom + 1, end |-> current]
  ELSE NoBackfill

\* Connect, Subscribe, then the gap detection.  The backfill goroutine may
\* fail to connect a client of its own, and then returns at once.
ConnectAndSubscribe ==
  /\ phase = "informed"
  /\ connected' = TRUE
  /\ backfill' \in {DetectGap, NoBackfill}
  /\ phase' = "running"
  /\ UNCHANGED <<validated, restarts, resumeFrom, current, networkVars,
                 ledgerChan, job, dbVars>>

\* A signal, log.Fatal or a crash: every goroutine and channel is gone
Stop ==
  /\ phase # "down"
  /\ phase' = "down"
  /\ resumeFrom' = 0 /\ current' = 0
  /\ connected' = FALSE
  /\ toFetch' = {} /\ asked' = {}
  /\ ledgerChan' = <<>>
  /\ backfill' = NoBackfill
  /\ job' = [w \in Workers |-> Idle]
  /\ UNCHANGED <<validated, restarts, dbVars>>

-----------------------------------------------------------------------------
(* The ledger stream: notifications, requests, answers                     *)

\* The network validates a ledger.  rippled announces it on an open
\* subscription and handleMessage starts a fetchLedger goroutine for it.
CloseLedger ==
  /\ validated < MaxLedger
  /\ validated' = validated + 1
  /\ toFetch' = IF connected THEN toFetch \cup {validated + 1} ELSE toFetch
  /\ UNCHANGED <<mainVars, connected, asked, ledgerChan, backfill, job, dbVars>>

\* The duplicate the check at the head of processLedger is there for: the
\* latest ledger is announced once more
AnnounceAgain ==
  /\ connected /\ validated > 0
  /\ toFetch' = toFetch \cup {validated}
  /\ UNCHANGED <<validated, mainVars, connected, asked, ledgerChan, backfill,
                 job, dbVars>>

\* fetchLedger writes the request, or finds no connection and gives up
FetchLedger(l) ==
  /\ l \in toFetch
  /\ toFetch' = toFetch \ {l}
  /\ asked' = IF connected THEN asked \cup {l} ELSE asked
  /\ UNCHANGED <<validated, mainVars, connected, ledgerChan, backfill, job, dbVars>>

\* An answer for a validated ledger is sent to the channel without blocking
ReceiveLedger(l) ==
  /\ l \in asked
  /\ asked' = asked \ {l}
  /\ ledgerChan' = IF Len(ledgerChan) < ChanCap THEN Append(ledgerChan, l) ELSE ledgerChan
  /\ UNCHANGED <<validated, mainVars, connected, toFetch, backfill, job, dbVars>>

\* An error answer: handleMessage finds no validated ledger in it
ReceiveError(l) ==
  /\ l \in asked
  /\ asked' = asked \ {l}
  /\ UNCHANGED <<validated, mainVars, connected, toFetch, ledgerChan, backfill,
                 job, dbVars>>

Disconnect ==
  /\ connected
  /\ connected' = FALSE
  /\ asked' = {}
  /\ UNCHANGED <<validated, mainVars, toFetch, ledgerChan, backfill, job, dbVars>>

\* The reconnect loop; what was announced meanwhile is not asked for
Reconnect ==
  /\ phase = "running" /\ ~connected
  /\ connected' = TRUE
  /\ UNCHANGED <<validated, mainVars, networkVars, ledgerChan, backfill, job, dbVars>>

-----------------------------------------------------------------------------
(* processLedger, run by either worker                                     *)

\* Mutant: the main loop waits for the reconnection
TakeLedgerMutant ==
  /\ phase = "running" /\ connected
  /\ job["live"] = Idle
  /\ ledgerChan # <<>>
  /\ job' = [job EXCEPT !["live"] = [pc |-> "check", ledger |-> Head(ledgerChan), blind |-> FALSE]]
  /\ ledgerChan' = Tail(ledgerChan)
  /\ UNCHANGED <<validated, mainVars, connected, networkVars, backfill, dbVars>>

\* case ledger := <-client.LedgerChan()
TakeLedger ==
  /\ phase = "running"
  /\ job["live"] = Idle
  /\ ledgerChan # <<>>
  /\ job' = [job EXCEPT !["live"] = [pc |-> "check", ledger |-> Head(ledgerChan), blind |-> FALSE]]
  /\ ledgerChan' = Tail(ledgerChan)
  /\ UNCHANGED <<validated, mainVars, connected, networkVars, backfill, dbVars>>

\* Mutant: the loop variable is not advanced
BackfillFetchMutant ==
  /\ Backfilling
  /\ job["backfill"] = Idle
  /\ job' = [job EXCEPT !["backfill"] = [pc |-> "check", ledger |-> backfill.next, blind |-> FALSE]]
  /\ UNCHANGED <<validated, mainVars, connected, networkVars, ledgerChan, backfill, dbVars>>

\* FetchLedgerSync answered
BackfillFetch ==
  /\ Backfilling
  /\ job["backfill"] = Idle
  /\ job' = [job EXCEPT !["backfill"] = [pc |-> "check", ledger |-> backfill.next, blind |-> FALSE]]
  /\ backfill' = [backfill EXCEPT !.next = @ + 1]
  /\ UNCHANGED <<validated, mainVars, connected, networkVars, ledgerChan, dbVars>>

\* FetchLedgerSync timed out or has no connection: continue with the next one
BackfillSkip ==
  /\ Backfilling
  /\ job["backfill"] = Idle
  /\ backfill' = [backfill EXCEPT !.next = @ + 1]
  /\ UNCHANGED <<validated, mainVars, connected, networkVars, ledgerChan, job, dbVars>>

\* processLedger returned: the main loop publishes after a nil error
Finished(w, err) ==
  IF w = "live" /\ ~err THEN [job[w] EXCEPT !.pc = "publish"] ELSE Idle

\* Mutant: no duplicate prevention
CheckDuplicateMutant(w) ==
  /\ job[w].pc = "check"
  /\ job' = [job EXCEPT ![w].pc = "apply"]
  /\ UNCHANGED <<validated, mainVars, connected, networkVars, ledgerChan,
                 backfill, dbVars>>

\* Duplicate prevention.  A failed query counts as "not processed yet".
CheckDuplicate(w) ==
  /\ job[w].pc = "check"
  /\ \E failed \in BOOLEAN :
       job' = [job EXCEPT ![w] =
                 IF ~failed /\ job[w].ledger \in checkpoints
                 THEN Finished(w, FALSE)
                 ELSE [job[w] EXCEPT !.pc = "apply", !.blind = failed]]
  /\ UNCHANGED <<validated, mainVars, connected, networkVars, ledgerChan,
                 backfill, dbVars>>

ApplyTransactions(w) ==
  /\ job[w].pc = "apply"
  /\ applied' = applied \cup {job[w].ledger}
  /\ job' = [job EXCEPT ![w].pc = "save"]
  /\ UNCHANGED <<validated, mainVars, connected, networkVars, ledgerChan,
                 backfill, checkpoints>>

\* Mutant: the checkpoint is written at the head of the transaction loop
SaveCheckpointMutant(w) ==
  /\ job[w].pc \in {"apply", "save"}
  /\ checkpoints' = checkpoints \cup {job[w].ledger}
  /\ job' = [job EXCEPT ![w] = IF @.pc = "apply" THEN @ ELSE Finished(w, FALSE)]
  /\ UNCHANGED <<validated, mainVars, connected, networkVars, ledgerChan,
                 backfill, applied>>

SaveCheckpoint(w) ==
  /\ job[w].pc = "save"
  /\ \E err \in BOOLEAN :
       /\ checkpoints' = IF err THEN checkpoints ELSE checkpoints \cup {job[w].ledger}
       /\ job' = [job EXCEPT ![w] = Finished(w, err)]
  /\ UNCHANGED <<validated, mainVars, connected, networkVars, ledgerChan,
                 backfill, applied>>

\* publishLedgerIndex returns, after the answer or its 3 s timeout (what the
\* request does is in Freshness)
Publish ==
  /\ job["live"].pc = "publish"
  /\ job' = [job EXCEPT !["live"] = Idle]
  /\ UNCHANGED <<validated, mainVars, connected, networkVars, ledgerChan,
                 backfill, dbVars>>

ProcessLedger(w) == CheckDuplicate(w) \/ ApplyTransactions(w) \/ SaveCheckpoint(w)

Stream ==
  \/ CloseLedger \/ AnnounceAgain \/ Disconnect \/ Reconnect
  \/ \E l \in Ledgers : FetchLedger(l) \/ ReceiveLedger(l) \/ ReceiveError(l)

\* Every step but Publish, which Freshness extends
Work ==
  \/ Start \/ GetServerInfo \/ ConnectAndSubscribe \/ Stop
  \/ Stream
  \/ TakeLedger \/ BackfillFetch \/ BackfillSkip
  \/ \E w \in Workers : ProcessLedger(w)

Next == Work \/ Publish

\* The two workers never block for ever: every call they make has a timeout
\* or a database behind it
LiveWorker == TakeLedger \/ ProcessLedger("live") \/ Publish
BackfillWorker == BackfillFetch \/ BackfillSkip \/ ProcessLedger("backfill")

Spec == Init /\ [][Next]_vars
FairSpec == Spec /\ WF_vars(LiveWorker) /\ WF_vars(BackfillWorker)

-----------------------------------------------------------------------------
(* Properties                                                              *)

\* A checkpoint is never ahead of the work it stands for, whatever order
\* ledgers arrive in and wherever the process is killed (main.go:575 runs
\* after the transaction loop).
CheckpointedIsApplied == checkpoints \subseteq applied

\* The two workers never hold the same ledger, so that the unlocked
\* check-then-act of processLedger cannot apply one ledger twice in parallel.
\* Nothing in the code locks: it rests on HTTP being read before Subscribe and
\* on the bound of the backfill loop.
WorkersDisjoint ==
  (job["live"] # Idle /\ job["backfill"] # Idle) =>
    job["live"].ledger # job["backfill"].ledger

\* The transactions of a checkpointed ledger are applied again only when the
\* duplicate check itself could not read the database.
NeverReapplied ==
  [][\A w \in Workers :
       (ApplyTransactions(w) /\ job[w].ledger \in checkpoints) => job[w].blind]_vars

\* A hole below the newest checkpoint is final: once the process has resumed
\* above a ledger it never indexed, no later step of any run indexes it
\* (GetLastCheckpoint looks at the maximum only, main.go:124).
HolesAreFinal ==
  [][\A l \in Ledgers : (l < resumeFrom /\ l \notin checkpoints) => l \notin checkpoints']_vars

\* A full ledger channel, where every answer is dropped, frees a slot or the
\* process stops.
FullChannelDrains ==
  (phase = "running" /\ Len(ledgerChan) = ChanCap) ~>
     (phase # "running" \/ Len(ledgerChan) < ChanCap)

\* The backfill goroutine comes to an end even when ledgers cannot be fetched.
BackfillEnds == Backfilling ~> ~Backfilling

\* "No gap detected - resuming from ledger <checkpoint+1>" (main.go:210): then
\* no later ledger is checkpointed while checkpoint+1 has not been.
NoGapResumes ==
  (phase = "running" /\ CanDetectGap /\ Gap <= 1 /\ connected /\ job["live"] = Idle
     /\ toFetch \cup asked = {} /\ ledgerChan = <<>>)
    => (\A l \in checkpoints : l > resumeFrom => (resumeFrom + 1) \in checkpoints)
=============================================================================
