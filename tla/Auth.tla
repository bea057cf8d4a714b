-------------------------------- MODULE Auth --------------------------------
(***************************************************************************)
(* AuthMiddleware and the table request_ids: how a call of the partner API *)
(* is recognised as the repetition of an earlier one.  Look-up and insert  *)
(* are two statements with the rest of the middleware between them, and a  *)
(* row is deleted after its expiry time, so that it takes the primary key, *)
(* the time window of a request and the life of a row together to serve    *)
(* each request once.  The handlers run on goroutines of their own.        *)
(*                                                                         *)
(* A request has one id, partner and timestamp; clients and the network    *)
(* may repeat it at any time.  Partner, key and signature are only read.   *)
(* Time counts in units of the tolerated drift of a client's clock; API    *)
(* and database have one clock.                                            *)
(***************************************************************************)
EXTENDS Integers

CONSTANTS
  Requests,  \* records of an id, a partner and a stamp, the time of the client's clock
  Calls,     \* bound: calls the API serves at the same time
  None,      \* no request, or no partner
  Drift,     \* a timestamp may be as far away: 60 seconds
  Keep,      \* life of a row: 2 minutes
  MaxTime    \* bound

ASSUME AuthAssumption ==
  /\ \A r \in Requests : r.stamp \in Int
  /\ None \notin Requests /\ \A r \in Requests : None # r.partner
  /\ Drift \in Nat /\ Keep \in Nat /\ MaxTime \in Nat
  /\ Keep >= 2 * Drift

VARIABLES
  now,
  rows,     \* request_ids: partner_id and expires_at of each request_id
  calls,    \* the request of each call and the next step of the middleware
  served,   \* observed only: how often the handler was run for a request
  overdue   \* observed only: requests with a call past the time check at the
            \* moment their row was deleted

authVars == <<now, rows, calls, served, overdue>>

RequestIds == {r.id : r \in Requests}
Partners == {r.partner : r \in Requests}
NoRow == [partner |-> None, expires |-> 0]
Idle == [request |-> None, pc |-> "idle"]
Steps == {"check", "verify", "store", "serve"}

TypeOK ==
  /\ now \in 0..MaxTime
  /\ rows \in [RequestIds -> {NoRow} \cup [partner : Partners, expires : Nat]]
  /\ calls \in [Calls -> {Idle} \cup [request : Requests, pc : Steps]]
  /\ served \in [Requests -> Nat]
  /\ overdue \subseteq Requests

Init ==
  /\ now = 0
  /\ rows = [i \in RequestIds |-> NoRow]
  /\ calls = [c \in Calls |-> Idle]
  /\ served = [r \in Requests |-> 0]
  /\ overdue = {}

At(c, pc) == calls[c].pc = pc
Goto(c, pc) == calls' = [calls EXCEPT ![c].pc = pc]
End(c) == calls' = [calls EXCEPT ![c] = Idle]

\* The row of the request's id is one of its partner
Recorded(r) == rows[r.id].partner = r.partner

NewRow(r) == [partner |-> r.partner, expires |-> now + Keep]

-----------------------------------------------------------------------------
(* Middleware                                                              *)

\* Within the window of its timestamp; else 401
Fresh(r) == now - r.stamp <= Drift /\ r.stamp - now <= Drift

Arrive(c, r) ==
  /\ calls[c] = Idle /\ Fresh(r)
  /\ calls' = [calls EXCEPT ![c] = [request |-> r, pc |-> "check"]]
  /\ UNCHANGED <<now, rows, served, overdue>>

\* By id and partner; the row of another partner is not seen here
CheckRequestID(c) ==
  /\ At(c, "check")
  /\ ~Recorded(calls[c].request)
  /\ Goto(c, "verify")
  /\ UNCHANGED <<now, rows, served, overdue>>

\* GetPartnerByID, the partner's status, GetActiveAPIKey and the signature
Verify(c) ==
  /\ At(c, "verify")
  /\ Goto(c, "store")
  /\ UNCHANGED <<now, rows, served, overdue>>

\* Mutant: ON CONFLICT (request_id) DO UPDATE the partner's own row
StoreRequestIDMutant(c) ==
  LET r == calls[c].request IN
  /\ At(c, "store")
  /\ rows[r.id] = NoRow \/ Recorded(r)
  /\ rows' = [rows EXCEPT ![r.id] = NewRow(r)]
  /\ Goto(c, "serve")
  /\ UNCHANGED <<now, served, overdue>>

\* The id is the primary key
StoreRequestID(c) ==
  LET r == calls[c].request IN
  /\ At(c, "store")
  /\ rows[r.id] = NoRow
  /\ rows' = [rows EXCEPT ![r.id] = NewRow(r)]
  /\ Goto(c, "serve")
  /\ UNCHANGED <<now, served, overdue>>

\* The row is written, but the answer is an error: the client has gone, or the
\* connection to the database
StoreUnanswered(c) ==
  LET r == calls[c].request IN
  /\ At(c, "store")
  /\ rows[r.id] = NoRow
  /\ rows' = [rows EXCEPT ![r.id] = NewRow(r)]
  /\ End(c)
  /\ UNCHANGED <<now, served, overdue>>

\* 401, 403 or 500 at any step: a row found, a check that fails, a conflict
\* of the insert or an error of the database
Refuse(c) ==
  /\ calls[c].pc \in {"check", "verify", "store"}
  /\ End(c)
  /\ UNCHANGED <<now, rows, served, overdue>>

\* next.ServeHTTP
Serve(c) ==
  /\ At(c, "serve")
  /\ served' = [served EXCEPT ![calls[c].request] = @ + 1]
  /\ End(c)
  /\ UNCHANGED <<now, rows, overdue>>

\* The API stops anywhere, and with it its calls
Restart ==
  /\ calls' = [c \in Calls |-> Idle]
  /\ UNCHANGED <<now, rows, served, overdue>>

-----------------------------------------------------------------------------
(* The database                                                            *)

\* Mutant: expires_at <= now()
ExpiredMutant(i) == rows[i] # NoRow /\ rows[i].expires <= now

Expired(i) == rows[i] # NoRow /\ rows[i].expires < now

\* The requests of calls past the time check
InFlight == {calls[c].request : c \in {d \in Calls : calls[d] # Idle}}

\* cleanup_expired_quotes, whenever someone calls it
Cleanup ==
  /\ rows' = [i \in RequestIds |-> IF Expired(i) THEN NoRow ELSE rows[i]]
  /\ overdue' = overdue \cup {r \in InFlight : Expired(r.id)}
  /\ UNCHANGED <<now, calls, served>>

Tick ==
  /\ now < MaxTime
  /\ now' = now + 1
  /\ UNCHANGED <<rows, calls, served, overdue>>

Next ==
  \/ \E c \in Calls :
       \/ \E r \in Requests : Arrive(c, r)
       \/ CheckRequestID(c) \/ Verify(c) \/ StoreRequestID(c) \/ StoreUnanswered(c)
       \/ Refuse(c) \/ Serve(c)
  \/ Restart \/ Cleanup \/ Tick

Spec == Init /\ [][Next]_authVars

-----------------------------------------------------------------------------
Once == INSTANCE OnceOnly WITH times <- served, void <- overdue

\* A request is served once, however often it arrives, whatever its calls do at
\* the same time and whether or not the table is cleaned up meanwhile; except
\* one with a call that took longer than the row of an earlier one lived.
ServedOnce == Once!Spec

\* The row of a served request outlives its time window on either side: when
\* it is gone, or stands for another request, a repetition fails the time check.
RowOutlivesWindow ==
  \A r \in Requests : served[r] > 0 => Recorded(r) \/ now > r.stamp + Drift
=============================================================================
