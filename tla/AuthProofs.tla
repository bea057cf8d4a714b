----------------------------- MODULE AuthProofs -----------------------------
(***************************************************************************)
(* For any requests, any number of simultaneous calls and any drift the    *)
(* middleware implements OnceOnly, provided that a row lives for twice the *)
(* drift.  The argument needs both halves: as long as the row is there,    *)
(* the primary key stops a second call; when it is gone, the time check    *)
(* lets no new one in, and a call that was in before is overdue.           *)
(***************************************************************************)
EXTENDS Auth, TLAPS

Serving(r, c) == calls[c] = [request |-> r, pc |-> "serve"]
Taken(r) == served[r] > 0 \/ \E c \in Calls : Serving(r, c)

\* A call past the time check is not too early
NotEarly == \A c \in Calls : calls[c] # Idle => calls[c].request.stamp - now <= Drift

\* The row of a request that was let through lives as long as its window
Lasting ==
  \A r \in Requests : Taken(r) =>
    \/ Recorded(r) /\ rows[r.id].expires >= r.stamp + Drift
    \/ now > r.stamp + Drift

\* No other call is on its way to the insert once the row has gone
NoneBehind ==
  \A r \in Requests \ overdue, c \in Calls :
    Taken(r) /\ ~Recorded(r) /\ calls[c].request = r => calls[c].pc = "serve"

\* One call was let through
OneThrough ==
  \A r \in Requests \ overdue, c \in Calls : Serving(r, c) =>
    served[r] = 0 /\ \A d \in Calls : Serving(r, d) => d = c

AuthInv == TypeOK /\ NotEarly /\ Lasting /\ NoneBehind /\ OneThrough

\* No call, no row: the invariant holds.
LEMMA AuthInitInv == Init => AuthInv
<1> SUFFICES ASSUME Init PROVE AuthInv
  OBVIOUS
<1> USE DEF Init
<1>1. TypeOK
  BY AuthAssumption DEF TypeOK
<1>2. \A r \in Requests : ~Taken(r)
  <2>1. \A r \in Requests, c \in Calls : ~Serving(r, c)
    BY DEF Serving, Idle
  <2>2. ASSUME NEW r \in Requests PROVE ~(served[r] > 0)
    <3>1. served[r] = 0
      OBVIOUS
    <3> QED
      BY <3>1
  <2> QED
    BY <2>1, <2>2 DEF Taken
<1> QED
  BY <1>1, <1>2 DEF AuthInv, NotEarly, Lasting, NoneBehind, OneThrough, Taken

\* What the record of a call looks like.
LEMMA CallShape ==
  ASSUME TypeOK, NEW c \in Calls, calls[c] # Idle
  PROVE  /\ calls[c].request \in Requests /\ calls[c].pc \in Steps
         /\ calls[c].request.id \in RequestIds
         /\ \A pc : [calls[c] EXCEPT !.pc = pc] = [request |-> calls[c].request, pc |-> pc]
<1>1. calls[c] \in [request : Requests, pc : Steps]
  BY DEF TypeOK
<1>2. PICK r \in Requests, p \in Steps : calls[c] = [request |-> r, pc |-> p]
  BY <1>1
<1> QED
  BY <1>2 DEF RequestIds

\* A step that changes the call c only, to something that is not "serve", and
\* no table.
LEMMA MoveKeeps ==
  ASSUME AuthInv, UNCHANGED <<now, rows, served, overdue>>, NEW c \in Calls,
         NEW new \in {Idle} \cup [request : Requests, pc : {"check", "verify", "store"}],
         calls' = [calls EXCEPT ![c] = new],
         new = Idle \/ calls[c].request = new.request
           \/ ~Taken(new.request) \/ Recorded(new.request),
         new = Idle \/ new.request.stamp - now <= Drift,
         calls[c].pc # "serve"
  PROVE  AuthInv'
<1> USE DEF AuthInv
<1>1. TypeOK'
  BY DEF TypeOK, Steps
<1>2. NotEarly'
  BY DEF NotEarly, TypeOK
<1>3. \A r \in Requests, d \in Calls : Serving(r, d)' <=> Serving(r, d)
  BY DEF Serving, TypeOK, Idle
<1>4. \A r \in Requests : /\ Taken(r)' <=> Taken(r)
                          /\ Recorded(r)' <=> Recorded(r)
  BY <1>3 DEF Taken, Recorded
<1>5. Lasting' /\ OneThrough'
  BY <1>3, <1>4 DEF Lasting, OneThrough
<1>6. NoneBehind'
  <2> SUFFICES ASSUME NEW r \in Requests, r \notin overdue, NEW d \in Calls,
                      Taken(r), ~Recorded(r), calls'[d].request = r
               PROVE  calls'[d].pc = "serve"
    BY <1>4 DEF NoneBehind
  <2>1. CASE d # c
    BY <2>1 DEF NoneBehind, TypeOK
  <2>2. CASE d = c
    <3>1. calls'[c] = new
      BY DEF TypeOK
    <3>2. new # Idle
      BY <2>2, <3>1, AuthAssumption DEF Idle
    <3>3. calls[c].request = r
      BY <2>2, <3>1, <3>2
    <3> QED
      BY <3>3 DEF NoneBehind
  <2> QED
    BY <2>1, <2>2
<1> QED
  BY <1>1, <1>2, <1>5, <1>6

\* A call arrives, passes a check or ends before its insert.
LEMMA ChecksKeep ==
  ASSUME AuthInv, NEW c \in Calls,
         (\E r \in Requests : Arrive(c, r)) \/ CheckRequestID(c) \/ Verify(c) \/ Refuse(c)
  PROVE  AuthInv'
<1> USE DEF AuthInv
<1>1. ASSUME NEW r \in Requests, Arrive(c, r) PROVE AuthInv'
  <2>1. calls' = [calls EXCEPT ![c] = [request |-> r, pc |-> "check"]]
        /\ UNCHANGED <<now, rows, served, overdue>>
    BY <1>1 DEF Arrive
  <2>2. [request |-> r, pc |-> "check"] \in [request : Requests, pc : {"check", "verify", "store"}]
    OBVIOUS
  <2>3. now - r.stamp <= Drift /\ r.stamp - now <= Drift /\ now \in Int /\ Drift \in Int /\ r.stamp \in Int
    BY <1>1, AuthAssumption DEF Arrive, Fresh, TypeOK
  <2>4. ~Taken(r) \/ Recorded(r)
    BY <2>3 DEF Lasting
  <2>5. calls[c].pc # "serve"
    BY <1>1 DEF Arrive, Idle
  <2> QED
    BY <2>1, <2>2, <2>3, <2>4, <2>5, MoveKeeps
<1>2. ASSUME NEW pc \in {"check", "verify", "store"}, Goto(c, pc), calls[c].pc \in {"check", "verify"},
             UNCHANGED <<now, rows, served, overdue>>
      PROVE  AuthInv'
  <2>1. calls[c] # Idle
    BY <1>2 DEF Idle
  <2>5. [calls[c] EXCEPT !.pc = pc] = [request |-> calls[c].request, pc |-> pc]
    BY <2>1, CallShape
  <2>2. calls' = [calls EXCEPT ![c] = [request |-> calls[c].request, pc |-> pc]]
    BY <1>2, <2>5 DEF Goto
  <2>3. [request |-> calls[c].request, pc |-> pc] \in [request : Requests, pc : {"check", "verify", "store"}]
    BY <2>1, CallShape
  <2>4. calls[c].request.stamp - now <= Drift
    BY <2>1 DEF NotEarly
  <2> QED
    BY <1>2, <2>2, <2>3, <2>4, MoveKeeps
<1>3. CASE Refuse(c)
  BY <1>3, MoveKeeps DEF Refuse, End
<1> QED
  BY <1>1, <1>2, <1>3 DEF CheckRequestID, Verify, At

\* The insert: the request's first, and the last while its row is there.
LEMMA StoreKeeps ==
  ASSUME AuthInv, NEW c \in Calls, StoreRequestID(c) \/ StoreUnanswered(c),
         NEW r, calls[c].request = r
  PROVE  AuthInv'
<1> USE DEF AuthInv
<1>0. /\ rows[r.id] = NoRow /\ rows' = [rows EXCEPT ![r.id] = NewRow(r)]
      /\ UNCHANGED <<now, served, overdue>> /\ calls[c].pc = "store"
  BY DEF StoreRequestID, StoreUnanswered, At
<1>1. calls[c] # Idle /\ r \in Requests /\ r.id \in RequestIds
  <2>1. calls[c] # Idle
    BY <1>0 DEF Idle
  <2> QED
    BY <2>1, CallShape
<1>2. \/ calls' = [calls EXCEPT ![c] = [request |-> r, pc |-> "serve"]]
      \/ calls' = [calls EXCEPT ![c] = Idle]
  <2>1. [calls[c] EXCEPT !.pc = "serve"] = [request |-> r, pc |-> "serve"]
    BY <1>1, CallShape
  <2> QED
    BY <2>1 DEF StoreRequestID, StoreUnanswered, Goto, End
<1>3. /\ now \in Int /\ Keep \in Int /\ Drift \in Int /\ r.stamp \in Int
      /\ r.stamp - now <= Drift /\ Keep >= 2 * Drift
  BY <1>1, AuthAssumption DEF TypeOK, NotEarly
<1>4. TypeOK'
  <2>1. NewRow(r) \in [partner : Partners, expires : Nat]
    BY <1>1, AuthAssumption DEF NewRow, Partners, TypeOK
  <2>2. rows' \in [RequestIds -> {NoRow} \cup [partner : Partners, expires : Nat]]
    BY <1>0, <2>1 DEF TypeOK
  <2>3. calls' \in [Calls -> {Idle} \cup [request : Requests, pc : Steps]]
    BY <1>1, <1>2 DEF TypeOK, Steps
  <2> QED
    BY <1>0, <2>2, <2>3 DEF TypeOK
<1>5. NotEarly'
  BY <1>0, <1>1, <1>2 DEF NotEarly, TypeOK
<1>6. Recorded(r)' /\ rows'[r.id].expires >= r.stamp + Drift
  BY <1>0, <1>1, <1>3 DEF Recorded, NewRow, TypeOK
<1>7. ~Recorded(r)
  BY <1>0, <1>1, AuthAssumption DEF Recorded, NoRow
<1>8. r \notin overdue => ~Taken(r)
  BY <1>0, <1>1, <1>7 DEF NoneBehind
<1>9. \A x \in Requests : x # r => \A d \in Calls : Serving(x, d)' <=> Serving(x, d)
  BY <1>0, <1>2 DEF Serving, TypeOK, Idle
<1>10. \A x \in Requests : x # r => (Taken(x)' <=> Taken(x))
  BY <1>0, <1>9 DEF Taken
<1>11. \A x \in Requests : Recorded(x) => Recorded(x)' /\ rows'[x.id] = rows[x.id]
  <2> SUFFICES ASSUME NEW x \in Requests, Recorded(x)
               PROVE  Recorded(x)' /\ rows'[x.id] = rows[x.id]
    OBVIOUS
  <2>1. x.id \in RequestIds /\ x.id # r.id
    BY <1>0, AuthAssumption DEF RequestIds, Recorded, NoRow
  <2> QED
    BY <1>0, <2>1 DEF Recorded, TypeOK
<1>12. Lasting'
  <2> SUFFICES ASSUME NEW x \in Requests, Taken(x)'
               PROVE  \/ Recorded(x)' /\ rows'[x.id].expires >= x.stamp + Drift
                      \/ now > x.stamp + Drift
    BY <1>0 DEF Lasting
  <2>1. CASE x = r
    BY <1>6, <2>1
  <2>2. CASE x # r
    BY <1>10, <1>11, <2>2 DEF Lasting
  <2> QED
    BY <2>1, <2>2
<1>13. NoneBehind'
  <2> SUFFICES ASSUME NEW x \in Requests, x \notin overdue, NEW d \in Calls,
                      Taken(x)', ~Recorded(x)', calls'[d].request = x
               PROVE  calls'[d].pc = "serve"
    BY <1>0 DEF NoneBehind
  <2>1. x # r
    BY <1>6
  <2>2. Taken(x) /\ ~Recorded(x)
    BY <1>10, <1>11, <2>1
  <2>3. d # c
    BY <1>2, <2>1, AuthAssumption DEF TypeOK, Idle
  <2> QED
    BY <1>2, <2>2, <2>3 DEF NoneBehind, TypeOK
<1>14. OneThrough'
  <2> SUFFICES ASSUME NEW x \in Requests, x \notin overdue, NEW d \in Calls, Serving(x, d)'
               PROVE  served[x] = 0 /\ \A e \in Calls : Serving(x, e)' => e = d
    BY <1>0 DEF OneThrough
  <2>1. CASE x = r
    <3>1. ~Taken(r)
      BY <1>8, <2>1
    <3>2. served[r] = 0
      BY <1>1, <3>1 DEF Taken, TypeOK
    <3>3. \A e \in Calls : Serving(r, e)' => e = c
      BY <1>2, <3>1 DEF Taken, Serving, TypeOK
    <3> QED
      BY <2>1, <3>2, <3>3
  <2>2. CASE x # r
    BY <1>9, <2>2 DEF OneThrough
  <2> QED
    BY <2>1, <2>2
<1> QED
  BY <1>4, <1>5, <1>12, <1>13, <1>14

\* The handler runs: the request was not served before, unless it is overdue.
LEMMA ServeKeeps ==
  ASSUME AuthInv, NEW c \in Calls, Serve(c), NEW r, calls[c].request = r
  PROVE  /\ AuthInv'
         /\ r \in Requests /\ served' = [served EXCEPT ![r] = @ + 1]
         /\ served[r] = 0 \/ r \in overdue
<1> USE DEF AuthInv
<1>0. /\ UNCHANGED <<now, rows, overdue>> /\ calls[c].pc = "serve"
      /\ served' = [served EXCEPT ![r] = @ + 1] /\ calls' = [calls EXCEPT ![c] = Idle]
  BY DEF Serve, At, End
<1>1. calls[c] # Idle
  BY <1>0 DEF Idle
<1>2. r \in Requests /\ served[r] \in Nat
  BY <1>1, CallShape DEF TypeOK
<1>3. Serving(r, c)
  <2>1. calls[c] \in [request : Requests, pc : Steps]
    BY <1>1 DEF TypeOK
  <2> QED
    BY <1>0, <2>1 DEF Serving
<1>4. served[r] = 0 \/ r \in overdue
  BY <1>2, <1>3 DEF OneThrough
<1>5. TypeOK'
  <2>1. served' \in [Requests -> Nat]
    BY <1>0, <1>2 DEF TypeOK
  <2>2. calls' \in [Calls -> {Idle} \cup [request : Requests, pc : Steps]]
    BY <1>0 DEF TypeOK
  <2> QED
    BY <1>0, <2>1, <2>2 DEF TypeOK
<1>6. NotEarly'
  BY <1>0 DEF NotEarly, TypeOK
<1>7. \A x \in Requests, d \in Calls : Serving(x, d)' => Serving(x, d) /\ d # c
  BY <1>0 DEF Serving, TypeOK, Idle
<1>8. \A x \in Requests : Taken(x)' => Taken(x)
  <2>1. ASSUME NEW x \in Requests, Taken(x)', x # r PROVE Taken(x)
    BY <1>0, <1>7, <2>1 DEF Taken, TypeOK
  <2>2. Taken(r)
    BY <1>3 DEF Taken
  <2> QED
    BY <2>1, <2>2
<1>9. \A x \in Requests : Recorded(x)' <=> Recorded(x)
  BY <1>0 DEF Recorded
<1>10. Lasting'
  BY <1>0, <1>8, <1>9 DEF Lasting
<1>11. NoneBehind'
  <2> SUFFICES ASSUME NEW x \in Requests, x \notin overdue, NEW d \in Calls,
                      Taken(x)', ~Recorded(x)', calls'[d].request = x
               PROVE  calls'[d].pc = "serve"
    BY <1>0 DEF NoneBehind
  <2>1. d # c
    BY <1>0, AuthAssumption DEF TypeOK, Idle
  <2> QED
    BY <1>0, <1>8, <1>9, <2>1 DEF NoneBehind, TypeOK
<1>12. OneThrough'
  <2> SUFFICES ASSUME NEW x \in Requests, x \notin overdue, NEW d \in Calls, Serving(x, d)'
               PROVE  served'[x] = 0 /\ \A e \in Calls : Serving(x, e)' => e = d
    BY <1>0 DEF OneThrough
  <2>1. Serving(x, d) /\ d # c
    BY <1>7
  <2>2. x # r
    BY <1>3, <2>1 DEF OneThrough
  <2> QED
    BY <1>0, <1>7, <2>1, <2>2 DEF OneThrough, TypeOK
<1> QED
  BY <1>0, <1>2, <1>4, <1>5, <1>6, <1>10, <1>11, <1>12

\* The calls are dropped.
LEMMA RestartKeeps ==
  ASSUME AuthInv, Restart
  PROVE  AuthInv'
<1> USE DEF AuthInv, Restart
<1>1. TypeOK' /\ NotEarly'
  BY DEF TypeOK, NotEarly
<1>2. \A x \in Requests, d \in Calls : ~Serving(x, d)'
  BY DEF Serving, Idle
<1>3. \A x \in Requests : Taken(x)' => Taken(x)
  BY <1>2 DEF Taken
<1>4. Lasting' /\ OneThrough'
  BY <1>2, <1>3 DEF Lasting, OneThrough, Recorded
<1>5. NoneBehind'
  BY AuthAssumption DEF NoneBehind, Idle
<1> QED
  BY <1>1, <1>4, <1>5

\* A row goes when the window of the request is over; a call that is still
\* on its way is overdue.
LEMMA CleanupKeeps ==
  ASSUME AuthInv, Cleanup
  PROVE  AuthInv'
<1> USE DEF AuthInv
<1>0. /\ UNCHANGED <<now, calls, served>>
      /\ rows' = [i \in RequestIds |-> IF Expired(i) THEN NoRow ELSE rows[i]]
      /\ overdue' = overdue \cup {r \in InFlight : Expired(r.id)}
  BY DEF Cleanup
<1>1. TypeOK'
  <2>1. InFlight \subseteq Requests
    BY CallShape DEF InFlight
  <2> QED
    BY <1>0, <2>1 DEF TypeOK
<1>2. NotEarly'
  BY <1>0 DEF NotEarly
<1>3. \A x \in Requests : /\ Taken(x)' <=> Taken(x)
                          /\ \A d \in Calls : Serving(x, d)' <=> Serving(x, d)
  BY <1>0 DEF Taken, Serving
<1>4. ASSUME NEW x \in Requests, Recorded(x)
      PROVE  \/ Recorded(x)' /\ rows'[x.id] = rows[x.id]
             \/ Expired(x.id) /\ rows[x.id].expires < now
  BY <1>0, <1>4 DEF Recorded, RequestIds, Expired
<1>5. Lasting'
  <2> SUFFICES ASSUME NEW x \in Requests, Taken(x)'
               PROVE  \/ Recorded(x)' /\ rows'[x.id].expires >= x.stamp + Drift
                      \/ now > x.stamp + Drift
    BY <1>0 DEF Lasting
  <2>1. \/ Recorded(x) /\ rows[x.id].expires >= x.stamp + Drift
        \/ now > x.stamp + Drift
    BY <1>3 DEF Lasting
  <2>2. CASE Recorded(x) /\ rows[x.id].expires < now /\ rows[x.id].expires >= x.stamp + Drift
    <3>1. x.id \in RequestIds
      BY DEF RequestIds
    <3>2. rows[x.id].expires \in Int /\ now \in Int
      BY <3>1 DEF TypeOK, NoRow
    <3>3. x.stamp + Drift \in Int
      BY AuthAssumption
    <3> QED
      BY <2>2, <3>2, <3>3
  <2> QED
    BY <1>4, <2>1, <2>2
<1>6. NoneBehind'
  <2> SUFFICES ASSUME NEW x \in Requests, x \notin overdue', NEW d \in Calls,
                      Taken(x)', ~Recorded(x)', calls[d].request = x
               PROVE  calls[d].pc = "serve"
    BY <1>0 DEF NoneBehind
  <2>1. x \in InFlight
    BY AuthAssumption DEF InFlight, Idle
  <2>2. ~Recorded(x)
    BY <1>0, <1>4, <2>1
  <2> QED
    BY <1>0, <1>3, <2>2 DEF NoneBehind
<1>7. OneThrough'
  BY <1>0, <1>3 DEF OneThrough
<1> QED
  BY <1>1, <1>2, <1>5, <1>6, <1>7

\* Time goes on.
LEMMA TickKeeps ==
  ASSUME AuthInv, Tick
  PROVE  AuthInv'
<1> USE DEF AuthInv
<1>0. UNCHANGED <<rows, calls, served, overdue>> /\ now' = now + 1 /\ now < MaxTime
  BY DEF Tick
<1>1. now \in Int /\ Drift \in Int /\ \A r \in Requests : r.stamp \in Int
  BY AuthAssumption DEF TypeOK
<1>2. TypeOK'
  BY <1>0, AuthAssumption DEF TypeOK
<1>3. NotEarly'
  <2> SUFFICES ASSUME NEW c \in Calls, calls[c] # Idle
               PROVE  calls[c].request.stamp - (now + 1) <= Drift
    BY <1>0 DEF NotEarly
  <2>1. calls[c].request.stamp - now <= Drift /\ calls[c].request.stamp \in Int
    BY <1>1, CallShape DEF NotEarly
  <2> QED
    BY <1>1, <2>1
<1>4. \A x \in Requests : /\ Taken(x)' <=> Taken(x)
                          /\ Recorded(x)' <=> Recorded(x)
                          /\ \A d \in Calls : Serving(x, d)' <=> Serving(x, d)
  BY <1>0 DEF Taken, Serving, Recorded
<1>5. Lasting'
  BY <1>0, <1>1, <1>4 DEF Lasting
<1>6. NoneBehind' /\ OneThrough'
  BY <1>0, <1>4 DEF NoneBehind, OneThrough
<1> QED
  BY <1>2, <1>3, <1>5, <1>6

\* Every step keeps the invariant: one case for each group of actions.
LEMMA AuthNextInv == AuthInv /\ [Next]_authVars => AuthInv'
<1> SUFFICES ASSUME AuthInv, [Next]_authVars PROVE AuthInv'
  OBVIOUS
<1>1. ASSUME NEW c \in Calls,
             (\E r \in Requests : Arrive(c, r)) \/ CheckRequestID(c) \/ Verify(c) \/ Refuse(c)
      PROVE  AuthInv'
  BY <1>1, ChecksKeep
<1>2. ASSUME NEW c \in Calls, StoreRequestID(c) \/ StoreUnanswered(c) PROVE AuthInv'
  BY <1>2, StoreKeeps
<1>3. ASSUME NEW c \in Calls, Serve(c) PROVE AuthInv'
  BY <1>3, ServeKeeps
<1>4. CASE Restart \/ Cleanup \/ Tick
  BY <1>4, RestartKeeps, CleanupKeeps, TickKeeps
<1>5. CASE UNCHANGED authVars
  BY <1>5 DEF authVars, AuthInv, TypeOK, NotEarly, Lasting, NoneBehind, OneThrough, Taken,
              Serving, Recorded
<1> QED
  BY <1>1, <1>2, <1>3, <1>4, <1>5 DEF Next

-----------------------------------------------------------------------------
\* The middleware implements OnceOnly: each request is served once, unless one
\* of its calls was overdue.
THEOREM ServesOnce == Spec => ServedOnce
<1>1. Init => Once!Init
  BY DEF Init, Once!Init
<1>2. AuthInv /\ [Next]_authVars => [Once!Next]_<<served, overdue>>
  <2> SUFFICES ASSUME AuthInv, [Next]_authVars PROVE [Once!Next]_<<served, overdue>>
    OBVIOUS
  <2>1. ASSUME NEW c \in Calls, Serve(c) PROVE Once!Next
    <3>1. PICK r : calls[c].request = r
      OBVIOUS
    <3>2. /\ r \in Requests /\ served' = [served EXCEPT ![r] = @ + 1]
          /\ served[r] = 0 \/ r \in overdue
      BY <2>1, <3>1, ServeKeeps
    <3>3. UNCHANGED overdue
      BY <2>1 DEF Serve
    <3> QED
      BY <3>2, <3>3 DEF Once!Next, Once!Execute
  <2>2. CASE Cleanup
    <3>1. {r \in InFlight : Expired(r.id)} \in SUBSET Requests
      BY CallShape DEF InFlight, AuthInv
    <3> QED
      BY <2>2, <3>1 DEF Cleanup, Once!Next, Once!Renounce
  <2>3. CASE UNCHANGED <<served, overdue>>
    BY <2>3
  <2> QED
    BY <2>1, <2>2, <2>3 DEF Next, Arrive, CheckRequestID, Verify, StoreRequestID,
       StoreUnanswered, Refuse, Restart, Tick, authVars
<1> QED
  BY <1>1, <1>2, AuthInitInv, AuthNextInv, PTL DEF Spec, ServedOnce, Once!Spec, Once!onceVars

\* The row of a served request is there until its time window is over.
THEOREM RowsOutliveWindows == Spec => []RowOutlivesWindow
<1>1. AuthInv => RowOutlivesWindow
  BY DEF AuthInv, Lasting, RowOutlivesWindow, Taken
<1> QED
  BY <1>1, AuthInitInv, AuthNextInv, PTL DEF Spec

\* Rows and calls keep their types.
THEOREM AuthTypeCorrect == Spec => []TypeOK
<1>1. AuthInv => TypeOK
  BY DEF AuthInv
<1> QED
  BY <1>1, AuthInitInv, AuthNextInv, PTL DEF Spec
=============================================================================
