----------------------------- MODULE SyncFetch -----------------------------
(***************************************************************************)
(* FetchLedgerSync: a request and its answer, made synchronous with a      *)
(* temporary c.onLedger callback.  Two goroutines share that field without *)
(* a lock: the caller, which writes the request first and installs the     *)
(* callback afterwards, and the reader, which tests the field and then     *)
(* calls through it.  rippled answers in any order, late, with an error or *)
(* not at all.  XrplClient models how the connection is replaced.          *)
(***************************************************************************)
EXTENDS FetchLoop

VARIABLES
  connected,   \* c.conn # nil, and the connection works
  asked,       \* requests written on it and not yet answered
  caller,      \* where FetchLedgerSync(next) is
  callback,    \* c.onLedger: the call whose callback it is; 0: nil
  response,    \* responseChan of the current call; 0: empty
  reader,      \* handleMessage: the answer in hand and the callback it runs
  panicked     \* a nil callback was called

vars == <<next, delivered, connected, asked, caller, callback, response, reader, panicked>>

Ledgers == 1..Last
Reading == [pc |-> "reading", ledger |-> 0, run |-> 0]

\* Types; the loop stays within the gap (main.go: i < currentLedger).
TypeOK ==
  /\ next \in 1..Last + 1
  /\ delivered \in [Ledgers -> 0..Last]
  /\ connected \in BOOLEAN
  /\ asked \subseteq Ledgers
  /\ caller \in {"ready", "written", "waiting"}
  /\ callback \in 0..Last
  /\ response \in 0..Last
  /\ reader \in [pc : {"tested", "loaded"}, ledger : Ledgers, run : 0..Last] \cup {Reading}
  /\ panicked \in BOOLEAN

Init ==
  /\ LoopInit
  /\ connected = TRUE /\ asked = {}
  /\ caller = "ready"
  /\ callback = 0 /\ response = 0
  /\ reader = Reading
  /\ panicked = FALSE

-----------------------------------------------------------------------------
(* The caller                                                              *)

WriteRequest ==
  /\ caller = "ready" /\ next <= Last
  /\ connected
  /\ asked' = asked \cup {next}
  /\ caller' = "written" /\ response' = 0
  /\ UNCHANGED <<next, delivered, connected, callback, reader, panicked>>

\* "not connected", or WriteJSON fails: the next ledger at once
RequestFails ==
  /\ caller = "ready" /\ next <= Last
  /\ next' = next + 1
  /\ UNCHANGED <<delivered, connected, asked, caller, callback, response, reader, panicked>>

InstallCallback ==
  /\ caller = "written"
  /\ callback' = next
  /\ caller' = "waiting"
  /\ UNCHANGED <<next, delivered, connected, asked, response, reader, panicked>>

\* Both returns run the deferred c.onLedger = originalCallback, which is nil
Return ==
  /\ caller = "waiting" /\ response # 0
  /\ delivered' = [delivered EXCEPT ![next] = response]
  /\ next' = next + 1
  /\ caller' = "ready" /\ callback' = 0 /\ response' = 0
  /\ UNCHANGED <<connected, asked, reader, panicked>>

\* Mutant: a timed-out ledger is requested again
TimeoutMutant ==
  /\ caller = "waiting"
  /\ caller' = "ready" /\ callback' = 0 /\ response' = 0
  /\ UNCHANGED <<next, delivered, connected, asked, reader, panicked>>

Timeout ==
  /\ caller = "waiting"
  /\ next' = next + 1
  /\ caller' = "ready" /\ callback' = 0 /\ response' = 0
  /\ UNCHANGED <<delivered, connected, asked, reader, panicked>>

-----------------------------------------------------------------------------
(* The reader                                                              *)

\* A validated ledger: if c.onLedger != nil
ReceiveLedger(l) ==
  /\ reader = Reading
  /\ l \in asked
  /\ asked' = asked \ {l}
  /\ reader' = IF callback = 0 THEN Reading ELSE [pc |-> "tested", ledger |-> l, run |-> 0]
  /\ UNCHANGED <<next, delivered, connected, caller, callback, response, panicked>>

\* An error answer carries no validated ledger
ReceiveError(l) ==
  /\ reader = Reading
  /\ l \in asked
  /\ asked' = asked \ {l}
  /\ UNCHANGED <<next, delivered, connected, caller, callback, response, reader, panicked>>

\* c.onLedger(ledger): the field is loaded a second time
LoadCallback ==
  /\ reader.pc = "tested"
  /\ IF callback = 0
       THEN panicked' = TRUE /\ UNCHANGED reader
       ELSE reader' = [reader EXCEPT !.pc = "loaded", !.run = callback] /\ UNCHANGED panicked
  /\ UNCHANGED <<next, delivered, connected, asked, caller, callback, response>>

\* Mutant: any ledger will do
IsRequestedMutant == TRUE

\* if ledger.LedgerIndex == ledgerIndex
IsRequested == reader.ledger = reader.run

\* A callback of an earlier call sends into a channel nobody reads any more
RunCallback ==
  /\ reader.pc = "loaded"
  /\ response' = IF IsRequested /\ reader.run = next /\ caller = "waiting" /\ response = 0
                   THEN reader.ledger ELSE response
  /\ reader' = Reading
  /\ UNCHANGED <<next, delivered, connected, asked, caller, callback, panicked>>

-----------------------------------------------------------------------------
(* The connection: what was asked on a broken one is never answered        *)

Disconnect ==
  /\ connected
  /\ connected' = FALSE /\ asked' = {}
  /\ UNCHANGED <<next, delivered, caller, callback, response, reader, panicked>>

Reconnect ==
  /\ ~connected
  /\ connected' = TRUE
  /\ UNCHANGED <<next, delivered, asked, caller, callback, response, reader, panicked>>

-----------------------------------------------------------------------------
CallerStep == WriteRequest \/ RequestFails \/ InstallCallback \/ Return \/ Timeout

Next ==
  /\ ~panicked
  /\ \/ CallerStep
     \/ \E l \in Ledgers : ReceiveLedger(l) \/ ReceiveError(l)
     \/ LoadCallback \/ RunCallback
     \/ Disconnect \/ Reconnect

Spec == Init /\ [][Next]_vars

\* The caller is scheduled, and its timer fires
FairSpec == Spec /\ WF_vars(~panicked /\ CallerStep)

-----------------------------------------------------------------------------
\* A late answer to an earlier, timed-out request never comes back as the
\* result of a later one, and no call is made twice: as a backfill loop,
\* the exchange of requests, callbacks and answers is FetchLoop.
ImplementsFetchLoop == LoopSafety

\* Whatever the network loses, the loop over the gap comes to its end, if a
\* nil callback does not end the process first.
LoopEnds == <>(next > Last \/ panicked)

\* client.go: "Set up a temporary callback to catch this ledger".  An answer
\* rippled has sent to the waiting call is there, on its way, or was an
\* error; it does not get lost between the two goroutines.
AnswerIsCaught ==
  [][\A l \in Ledgers : ReceiveLedger(l) /\ l = next /\ caller # "ready" => reader'.ledger = l]_vars

\* "No panics in production code"
NoPanic == ~panicked
=============================================================================
