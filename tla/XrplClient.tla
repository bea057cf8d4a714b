---------------------------- MODULE XrplClient ----------------------------
(***************************************************************************)
(* internal/xrpl Client: one WebSocket connection kept alive by the        *)
(* goroutine that reads it.  Connect starts a reader; a reader that stops  *)
(* closes whatever connection the client then holds and reconnects unless  *)
(* another goroutine is at it or the client was closed.  c.mu guards the   *)
(* steps below that are one action; c.conn in the read loop and            *)
(* c.reconnecting in the deferred function are read without it.            *)
(*                                                                         *)
(* A goroutine may be delayed anywhere, so the reconnect delay of 5 s is   *)
(* no step of its own.  The owner is cmd/indexer: main() subscribes and    *)
(* dies if that fails, the backfill goroutine only connects and closes.    *)
(* An owner whose first Connect fails has no client to speak of.           *)
(***************************************************************************)
EXTENDS Naturals, FiniteSets

CONSTANTS
  Conns,     \* connections; one nobody refers to any more is used again
  Readers,   \* goroutines running readMessages; likewise
  NoConn     \* nil

ASSUME ClientAssumption == NoConn \notin Conns

VARIABLES
  conn,          \* c.conn
  open,          \* connections neither closed here nor broken
  subscribed,    \* connections a subscribe request was written to
  reconnecting,  \* c.reconnecting
  cancelled,     \* c.ctx.Err() # nil
  pc,            \* where each reader is
  reads,         \* the connection its ReadMessage was called on
  owner,         \* how far the owner of the client has come
  panicked       \* a nil connection was dereferenced: the process is gone

vars == <<conn, open, subscribed, reconnecting, cancelled, pc, reads, owner, panicked>>

Reconnecting == {"retrying", "dialing", "subscribing", "dropping", "leaving"}
Labels == {"idle", "check", "read", "reading", "closing", "deciding", "entering"}
            \cup Reconnecting

\* Types, of the flags and of the place where each goroutine is.
TypeOK ==
  /\ conn \in Conns \cup {NoConn}
  /\ open \subseteq Conns
  /\ subscribed \subseteq Conns
  /\ reconnecting \in BOOLEAN
  /\ cancelled \in BOOLEAN
  /\ pc \in [Readers -> Labels]
  /\ reads \in [Readers -> Conns \cup {NoConn}]
  /\ owner \in {"new", "connected", "running", "fatal", "closing", "closed"}
  /\ panicked \in BOOLEAN

Init ==
  /\ conn = NoConn /\ open = {} /\ subscribed = {}
  /\ reconnecting = FALSE /\ cancelled = FALSE
  /\ pc = [r \in Readers |-> "idle"]
  /\ reads = [r \in Readers |-> NoConn]
  /\ owner = "new" /\ panicked = FALSE

\* log.Fatalf and an unrecovered panic take every goroutine with them
Alive == ~panicked /\ owner # "fatal"

Goto(r, label) == pc' = [pc EXCEPT ![r] = label]

-----------------------------------------------------------------------------
(* Critical sections of c.mu                                               *)

\* Connections whose identity may be given to a new one
Unused == Conns \ (open \cup {conn} \cup {reads[r] : r \in Readers})

\* Connect without an error: a new connection, a new reader s
Dial(s) ==
  /\ conn = NoConn
  /\ pc[s] = "idle"
  /\ \E c \in Unused : conn' = c /\ open' = open \cup {c} /\ subscribed' = subscribed \ {c}

\* Mutant: the connection is forgotten without being closed
DropConnMutant == conn' = NoConn /\ open' = open

\* if c.conn != nil { c.conn.Close(); c.conn = nil }
DropConn == conn' = NoConn /\ open' = open \ {conn}

\* WriteJSON on a broken connection fails, or fills a buffer nobody empties
CanSubscribe == conn # NoConn

SubscribeFails == conn \notin open

-----------------------------------------------------------------------------
(* readMessages                                                            *)

CheckContext(r) ==
  /\ pc[r] = "check"
  /\ Goto(r, IF cancelled THEN "closing" ELSE "read")
  /\ UNCHANGED <<conn, open, subscribed, reconnecting, cancelled, reads, owner, panicked>>

\* c.conn.ReadMessage(): the receiver is read without the lock
CallRead(r) ==
  /\ pc[r] = "read"
  /\ IF conn = NoConn
       THEN panicked' = TRUE /\ UNCHANGED <<pc, reads>>
       ELSE Goto(r, "reading") /\ reads' = [reads EXCEPT ![r] = conn] /\ UNCHANGED panicked
  /\ UNCHANGED <<conn, open, subscribed, reconnecting, cancelled, owner>>

ReceiveMessage(r) ==
  /\ pc[r] = "reading" /\ reads[r] \in open
  /\ Goto(r, "check")
  /\ reads' = [reads EXCEPT ![r] = NoConn]
  /\ UNCHANGED <<conn, open, subscribed, reconnecting, cancelled, owner, panicked>>

\* Mutant: the deferred function does not close the connection
ReadFailsMutant(r) ==
  /\ pc[r] = "reading" /\ reads[r] \notin open
  /\ Goto(r, "deciding")
  /\ reads' = [reads EXCEPT ![r] = NoConn]
  /\ UNCHANGED <<conn, open, subscribed, reconnecting, cancelled, owner, panicked>>

ReadFails(r) ==
  /\ pc[r] = "reading" /\ reads[r] \notin open
  /\ Goto(r, "closing")
  /\ reads' = [reads EXCEPT ![r] = NoConn]
  /\ UNCHANGED <<conn, open, subscribed, reconnecting, cancelled, owner, panicked>>

\* The deferred function closes the client's connection, whichever it is
DeferClose(r) ==
  /\ pc[r] = "closing"
  /\ DropConn
  /\ Goto(r, "deciding")
  /\ UNCHANGED <<subscribed, reconnecting, cancelled, reads, owner, panicked>>

\* if !c.reconnecting && c.ctx.Err() == nil, without the lock
DeferCheck(r) ==
  /\ pc[r] = "deciding"
  /\ Goto(r, IF reconnecting \/ cancelled THEN "idle" ELSE "entering")
  /\ UNCHANGED <<conn, open, subscribed, reconnecting, cancelled, reads, owner, panicked>>

-----------------------------------------------------------------------------
(* reconnect                                                               *)

\* Mutant: the flag is set without being tested again under the lock
EnterReconnectMutant(r) ==
  /\ pc[r] = "entering"
  /\ Goto(r, "retrying") /\ reconnecting' = TRUE
  /\ UNCHANGED <<conn, open, subscribed, cancelled, reads, owner, panicked>>

EnterReconnect(r) ==
  /\ pc[r] = "entering"
  /\ IF reconnecting
       THEN Goto(r, "idle") /\ UNCHANGED reconnecting
       ELSE Goto(r, "retrying") /\ reconnecting' = TRUE
  /\ UNCHANGED <<conn, open, subscribed, cancelled, reads, owner, panicked>>

\* Mutant: the retry loop does not look at the context
RetryMutant(r) ==
  /\ pc[r] = "retrying"
  /\ Goto(r, "dialing")
  /\ UNCHANGED <<conn, open, subscribed, reconnecting, cancelled, reads, owner, panicked>>

Retry(r) ==
  /\ pc[r] = "retrying"
  /\ Goto(r, IF cancelled THEN "leaving" ELSE "dialing")
  /\ UNCHANGED <<conn, open, subscribed, reconnecting, cancelled, reads, owner, panicked>>

\* Mutant: the new connection is not subscribed
ReDialMutant(r) ==
  /\ pc[r] = "dialing"
  /\ \E s \in Readers : Dial(s) /\ pc' = [pc EXCEPT ![r] = "leaving", ![s] = "check"]
  /\ UNCHANGED <<reconnecting, cancelled, reads, owner, panicked>>

ReDial(r) ==
  /\ pc[r] = "dialing"
  /\ \E s \in Readers : Dial(s) /\ pc' = [pc EXCEPT ![r] = "subscribing", ![s] = "check"]
  /\ UNCHANGED <<reconnecting, cancelled, reads, owner, panicked>>

\* Mutant: a failed attempt is the last one
ReDialFailsMutant(r) ==
  /\ pc[r] = "dialing"
  /\ Goto(r, "leaving")
  /\ UNCHANGED <<conn, open, subscribed, reconnecting, cancelled, reads, owner, panicked>>

\* "already connected", or the dial fails; maxRetries is -1
ReDialFails(r) ==
  /\ pc[r] = "dialing"
  /\ Goto(r, "retrying")
  /\ UNCHANGED <<conn, open, subscribed, reconnecting, cancelled, reads, owner, panicked>>

ReSubscribe(r) ==
  /\ pc[r] = "subscribing"
  /\ \/ CanSubscribe /\ Goto(r, "leaving") /\ subscribed' = subscribed \cup {conn}
     \/ SubscribeFails /\ Goto(r, "dropping") /\ UNCHANGED subscribed
  /\ UNCHANGED <<conn, open, reconnecting, cancelled, reads, owner, panicked>>

DropFailed(r) ==
  /\ pc[r] = "dropping"
  /\ DropConn
  /\ Goto(r, "retrying")
  /\ UNCHANGED <<subscribed, reconnecting, cancelled, reads, owner, panicked>>

LeaveReconnect(r) ==
  /\ pc[r] = "leaving"
  /\ Goto(r, "idle") /\ reconnecting' = FALSE
  /\ UNCHANGED <<conn, open, subscribed, cancelled, reads, owner, panicked>>

-----------------------------------------------------------------------------
(* The owner, and the network                                              *)

Connect ==
  /\ owner = "new"
  /\ owner' = "connected"
  /\ \E s \in Readers : Dial(s) /\ Goto(s, "check")
  /\ UNCHANGED <<reconnecting, cancelled, reads, panicked>>

\* main() subscribes; an error is fatal
Subscribe ==
  /\ owner = "connected"
  /\ \/ CanSubscribe /\ owner' = "running" /\ subscribed' = subscribed \cup {conn}
     \/ SubscribeFails /\ owner' = "fatal" /\ UNCHANGED subscribed
  /\ UNCHANGED <<conn, open, reconnecting, cancelled, pc, reads, panicked>>

\* Close, before the lock and under it
Cancel ==
  /\ owner \in {"connected", "running"}
  /\ owner' = "closing" /\ cancelled' = TRUE
  /\ UNCHANGED <<conn, open, subscribed, reconnecting, pc, reads, panicked>>

CloseConn ==
  /\ owner = "closing"
  /\ owner' = "closed"
  /\ DropConn
  /\ UNCHANGED <<subscribed, reconnecting, cancelled, pc, reads, panicked>>

Break(c) ==
  /\ c \in open
  /\ open' = open \ {c}
  /\ UNCHANGED <<conn, subscribed, reconnecting, cancelled, pc, reads, owner, panicked>>

-----------------------------------------------------------------------------
\* What a reader does without waiting for the peer
ReaderStep(r) ==
  \/ CheckContext(r) \/ CallRead(r) \/ ReadFails(r)
  \/ DeferClose(r) \/ DeferCheck(r)
  \/ EnterReconnect(r) \/ Retry(r) \/ ReDial(r) \/ ReDialFails(r)
  \/ ReSubscribe(r) \/ DropFailed(r) \/ LeaveReconnect(r)

Next ==
  /\ Alive
  /\ \/ \E r \in Readers : ReaderStep(r) \/ ReceiveMessage(r)
     \/ Connect \/ Subscribe \/ Cancel \/ CloseConn
     \/ \E c \in Conns : Break(c)

Spec == Init /\ [][Next]_vars

\* Goroutines are scheduled, a Close that began goes on, and a dial tried
\* again and again succeeds once
Fairness ==
  /\ WF_vars(Alive /\ CloseConn)
  /\ \A r \in Readers : WF_vars(Alive /\ ReaderStep(r)) /\ SF_vars(Alive /\ ReDial(r))

FairSpec == Spec /\ Fairness

-----------------------------------------------------------------------------
(* Safety                                                                  *)

\* Only one goroutine is in the reconnect loop, and the flag says whether
\* one is, however many stale readers raced past the unlocked test.
ReconnectExclusive ==
  /\ \A r, s \in Readers : pc[r] \in Reconnecting /\ pc[s] \in Reconnecting => r = s
  /\ reconnecting <=> \E r \in Readers : pc[r] \in Reconnecting

\* A reader the current connection has, or one that is about to close it
Watches(r) ==
  \/ pc[r] \in {"check", "read", "closing"}
  \/ pc[r] = "reading" /\ reads[r] = conn

\* A stale reader may close a connection it never read, and a new reader may
\* pick up a later connection than its own: the current one is never left
\* without a reader, so its breaking never goes unnoticed.
ConnIsWatched == conn # NoConn => \E r \in Readers : Watches(r)

\* Once main() has subscribed, no connection is left silent: it has a
\* subscription or the goroutine that will subscribe it or drop it.
ConnIsSubscribed ==
  owner = "running" /\ conn # NoConn =>
    conn \in subscribed \/ \E r \in Readers : pc[r] \in {"subscribing", "dropping"}

\* No connection is forgotten: what is open is the client's connection.
NoLeak == open \subseteq {conn}

(* Liveness                                                                *)

\* Retries are infinite: once a goroutine is in the reconnect loop, a lost
\* connection is replaced sooner or later, unless the client is closed.
ReconnectSucceeds ==
  (\E r \in Readers : pc[r] \in Reconnecting \ {"leaving"}) /\ conn = NoConn
    ~> conn # NoConn \/ cancelled \/ ~Alive

\* After Close every goroutine ends and nothing is left open, though a
\* reconnect that had passed its context check may dial once more.
CloseReleases ==
  cancelled ~> ~Alive \/ (open = {} /\ \A r \in Readers : pc[r] = "idle")

(* What the code does not do                                               *)

\* "Attempt reconnection if not manually closed": a client that was not
\* closed and has lost its connection has a goroutine left to notice.
ReconnectsUnlessClosed ==
  owner = "running" /\ Alive /\ conn = NoConn => \E r \in Readers : pc[r] # "idle"

\* "No panics in production code", in a client nobody has closed
NoPanic == panicked => cancelled
=============================================================================
