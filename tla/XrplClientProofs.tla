-------------------------- MODULE XrplClientProofs --------------------------
(***************************************************************************)
(* The safety of the client for any number of goroutines and connections.  *)
(* Each property below is preserved by every step given the types; only    *)
(* the flag of the reconnect loop needs nothing else to be exclusive.      *)
(***************************************************************************)
EXTENDS XrplClient, TLAPS

ClientInv ==
  /\ TypeOK
  /\ ReconnectExclusive
  /\ ConnIsWatched
  /\ ConnIsSubscribed
  /\ NoLeak

\* The invariant holds for a client that was never connected.
LEMMA InitClientInv == Init => ClientInv
  BY DEF Init, ClientInv, TypeOK, Labels, Reconnecting, ReconnectExclusive,
         ConnIsWatched, ConnIsSubscribed, NoLeak

\* Every step keeps the types.
LEMMA TypeReader ==
  ASSUME TypeOK, NEW r \in Readers, ReaderStep(r) \/ ReceiveMessage(r)
  PROVE  TypeOK'
<1> USE ClientAssumption DEF TypeOK, Labels, Reconnecting, Goto
<1>1. CASE CheckContext(r)
  BY <1>1 DEF CheckContext
<1>2. CASE CallRead(r)
  BY <1>2 DEF CallRead
<1>3. CASE ReceiveMessage(r)
  BY <1>3 DEF ReceiveMessage
<1>4. CASE ReadFails(r)
  BY <1>4 DEF ReadFails
<1>5. CASE DeferClose(r)
  BY <1>5 DEF DeferClose, DropConn
<1>6. CASE DeferCheck(r)
  BY <1>6 DEF DeferCheck
<1>7. CASE EnterReconnect(r)
  BY <1>7 DEF EnterReconnect
<1>8. CASE Retry(r)
  BY <1>8 DEF Retry
<1>9. CASE ReDial(r)
  BY <1>9 DEF ReDial, Dial, Unused
<1>10. CASE ReDialFails(r)
  BY <1>10 DEF ReDialFails
<1>11. CASE ReSubscribe(r)
  BY <1>11 DEF ReSubscribe, CanSubscribe, SubscribeFails
<1>12. CASE DropFailed(r)
  BY <1>12 DEF DropFailed, DropConn
<1>13. CASE LeaveReconnect(r)
  BY <1>13 DEF LeaveReconnect
<1>14. QED
  BY <1>1, <1>2, <1>3, <1>4, <1>5, <1>6, <1>7, <1>8, <1>9, <1>10, <1>11, <1>12, <1>13 DEF ReaderStep

\* The owner's steps and the network keep the types.
LEMMA TypeOwner ==
  ASSUME TypeOK, Connect \/ Subscribe \/ Cancel \/ CloseConn \/ UNCHANGED vars
         \/ \E c \in Conns : Break(c)
  PROVE  TypeOK'
<1> USE ClientAssumption DEF TypeOK, Labels, Reconnecting, Goto
<1>1. CASE Connect
  BY <1>1 DEF Connect, Dial, Unused
<1>2. CASE Subscribe
  BY <1>2 DEF Subscribe, CanSubscribe, SubscribeFails
<1>3. CASE Cancel
  BY <1>3 DEF Cancel
<1>4. CASE CloseConn
  BY <1>4 DEF CloseConn, DropConn
<1>5. CASE \E c \in Conns : Break(c)
  BY <1>5 DEF Break
<1>6. CASE UNCHANGED vars
  BY <1>6 DEF vars
<1>7. QED
  BY <1>1, <1>2, <1>3, <1>4, <1>5, <1>6

\* The flag is tested and set under the lock, and only its holder resets it.
LEMMA ExclusiveReader ==
  ASSUME TypeOK, ReconnectExclusive, NEW r \in Readers, ReaderStep(r) \/ ReceiveMessage(r)
  PROVE  ReconnectExclusive'
<1> USE ClientAssumption DEF TypeOK, ReconnectExclusive, Reconnecting, Goto
<1>1. CASE CheckContext(r)
  BY <1>1 DEF CheckContext
<1>2. CASE CallRead(r)
  BY <1>2 DEF CallRead
<1>3. CASE ReceiveMessage(r)
  BY <1>3 DEF ReceiveMessage
<1>4. CASE ReadFails(r)
  BY <1>4 DEF ReadFails
<1>5. CASE DeferClose(r)
  BY <1>5 DEF DeferClose, DropConn
<1>6. CASE DeferCheck(r)
  BY <1>6 DEF DeferCheck
<1>7. CASE EnterReconnect(r)
  BY <1>7 DEF EnterReconnect
<1>8. CASE Retry(r)
  BY <1>8 DEF Retry
<1>9. CASE ReDial(r)
  BY <1>9 DEF ReDial, Dial, Unused
<1>10. CASE ReDialFails(r)
  BY <1>10 DEF ReDialFails
<1>11. CASE ReSubscribe(r)
  BY <1>11 DEF ReSubscribe, CanSubscribe, SubscribeFails
<1>12. CASE DropFailed(r)
  BY <1>12 DEF DropFailed, DropConn
<1>13. CASE LeaveReconnect(r)
  BY <1>13 DEF LeaveReconnect
<1>14. QED
  BY <1>1, <1>2, <1>3, <1>4, <1>5, <1>6, <1>7, <1>8, <1>9, <1>10, <1>11, <1>12, <1>13 DEF ReaderStep

\* The owner's steps and the network touch neither flag nor loop.
LEMMA ExclusiveOwner ==
  ASSUME TypeOK, ReconnectExclusive, Connect \/ Subscribe \/ Cancel \/ CloseConn \/ UNCHANGED vars
         \/ \E c \in Conns : Break(c)
  PROVE  ReconnectExclusive'
<1> USE ClientAssumption DEF TypeOK, ReconnectExclusive, Reconnecting, Goto
<1>1. CASE Connect
  BY <1>1 DEF Connect, Dial, Unused
<1>2. CASE Subscribe
  BY <1>2 DEF Subscribe, CanSubscribe, SubscribeFails
<1>3. CASE Cancel
  BY <1>3 DEF Cancel
<1>4. CASE CloseConn
  BY <1>4 DEF CloseConn, DropConn
<1>5. CASE \E c \in Conns : Break(c)
  BY <1>5 DEF Break
<1>6. CASE UNCHANGED vars
  BY <1>6 DEF vars
<1>7. QED
  BY <1>1, <1>2, <1>3, <1>4, <1>5, <1>6

\* A connection comes with a reader, and a reader that stops drops the connection.
LEMMA WatchedReader ==
  ASSUME TypeOK, ConnIsWatched, NEW r \in Readers, ReaderStep(r) \/ ReceiveMessage(r)
  PROVE  ConnIsWatched'
<1> USE ClientAssumption DEF TypeOK, ConnIsWatched, Watches, Goto
<1>1. CASE CheckContext(r)
  BY <1>1 DEF CheckContext
<1>2. CASE CallRead(r)
  BY <1>2 DEF CallRead
<1>3. CASE ReceiveMessage(r)
  BY <1>3 DEF ReceiveMessage
<1>4. CASE ReadFails(r)
  BY <1>4 DEF ReadFails
<1>5. CASE DeferClose(r)
  BY <1>5 DEF DeferClose, DropConn
<1>6. CASE DeferCheck(r)
  BY <1>6 DEF DeferCheck
<1>7. CASE EnterReconnect(r)
  BY <1>7 DEF EnterReconnect
<1>8. CASE Retry(r)
  BY <1>8 DEF Retry
<1>9. CASE ReDial(r)
  BY <1>9 DEF ReDial, Dial, Unused
<1>10. CASE ReDialFails(r)
  BY <1>10 DEF ReDialFails
<1>11. CASE ReSubscribe(r)
  BY <1>11 DEF ReSubscribe, CanSubscribe, SubscribeFails
<1>12. CASE DropFailed(r)
  BY <1>12 DEF DropFailed, DropConn
<1>13. CASE LeaveReconnect(r)
  BY <1>13 DEF LeaveReconnect
<1>14. QED
  BY <1>1, <1>2, <1>3, <1>4, <1>5, <1>6, <1>7, <1>8, <1>9, <1>10, <1>11, <1>12, <1>13 DEF ReaderStep

\* The owner and the network leave no connection without a reader.
LEMMA WatchedOwner ==
  ASSUME TypeOK, ConnIsWatched, Connect \/ Subscribe \/ Cancel \/ CloseConn \/ UNCHANGED vars
         \/ \E c \in Conns : Break(c)
  PROVE  ConnIsWatched'
<1> USE ClientAssumption DEF TypeOK, ConnIsWatched, Watches, Goto
<1>1. CASE Connect
  BY <1>1 DEF Connect, Dial, Unused
<1>2. CASE Subscribe
  BY <1>2 DEF Subscribe, CanSubscribe, SubscribeFails
<1>3. CASE Cancel
  BY <1>3 DEF Cancel
<1>4. CASE CloseConn
  BY <1>4 DEF CloseConn, DropConn
<1>5. CASE \E c \in Conns : Break(c)
  BY <1>5 DEF Break
<1>6. CASE UNCHANGED vars
  BY <1>6 DEF vars
<1>7. QED
  BY <1>1, <1>2, <1>3, <1>4, <1>5, <1>6

\* A connection made by the reconnect loop is subscribed or dropped by it.
LEMMA SubscribedReader ==
  ASSUME TypeOK, ConnIsSubscribed, NEW r \in Readers, ReaderStep(r) \/ ReceiveMessage(r)
  PROVE  ConnIsSubscribed'
<1> USE ClientAssumption DEF TypeOK, ConnIsSubscribed, Goto
<1>1. CASE CheckContext(r)
  BY <1>1 DEF CheckContext
<1>2. CASE CallRead(r)
  BY <1>2 DEF CallRead
<1>3. CASE ReceiveMessage(r)
  BY <1>3 DEF ReceiveMessage
<1>4. CASE ReadFails(r)
  BY <1>4 DEF ReadFails
<1>5. CASE DeferClose(r)
  BY <1>5 DEF DeferClose, DropConn
<1>6. CASE DeferCheck(r)
  BY <1>6 DEF DeferCheck
<1>7. CASE EnterReconnect(r)
  BY <1>7 DEF EnterReconnect
<1>8. CASE Retry(r)
  BY <1>8 DEF Retry
<1>9. CASE ReDial(r)
  BY <1>9 DEF ReDial, Dial, Unused
<1>10. CASE ReDialFails(r)
  BY <1>10 DEF ReDialFails
<1>11. CASE ReSubscribe(r)
  BY <1>11 DEF ReSubscribe, CanSubscribe, SubscribeFails
<1>12. CASE DropFailed(r)
  BY <1>12 DEF DropFailed, DropConn
<1>13. CASE LeaveReconnect(r)
  BY <1>13 DEF LeaveReconnect
<1>14. QED
  BY <1>1, <1>2, <1>3, <1>4, <1>5, <1>6, <1>7, <1>8, <1>9, <1>10, <1>11, <1>12, <1>13 DEF ReaderStep

\* The owner runs only once its connection is subscribed.
LEMMA SubscribedOwner ==
  ASSUME TypeOK, ConnIsSubscribed, Connect \/ Subscribe \/ Cancel \/ CloseConn \/ UNCHANGED vars
         \/ \E c \in Conns : Break(c)
  PROVE  ConnIsSubscribed'
<1> USE ClientAssumption DEF TypeOK, ConnIsSubscribed, Goto
<1>1. CASE Connect
  BY <1>1 DEF Connect, Dial, Unused
<1>2. CASE Subscribe
  BY <1>2 DEF Subscribe, CanSubscribe, SubscribeFails
<1>3. CASE Cancel
  BY <1>3 DEF Cancel
<1>4. CASE CloseConn
  BY <1>4 DEF CloseConn, DropConn
<1>5. CASE \E c \in Conns : Break(c)
  BY <1>5 DEF Break
<1>6. CASE UNCHANGED vars
  BY <1>6 DEF vars
<1>7. QED
  BY <1>1, <1>2, <1>3, <1>4, <1>5, <1>6

\* A connection is closed before it is replaced.
LEMMA LeakReader ==
  ASSUME TypeOK, NoLeak, NEW r \in Readers, ReaderStep(r) \/ ReceiveMessage(r)
  PROVE  NoLeak'
<1> USE ClientAssumption DEF TypeOK, NoLeak, Goto
<1>1. CASE CheckContext(r)
  BY <1>1 DEF CheckContext
<1>2. CASE CallRead(r)
  BY <1>2 DEF CallRead
<1>3. CASE ReceiveMessage(r)
  BY <1>3 DEF ReceiveMessage
<1>4. CASE ReadFails(r)
  BY <1>4 DEF ReadFails
<1>5. CASE DeferClose(r)
  BY <1>5 DEF DeferClose, DropConn
<1>6. CASE DeferCheck(r)
  BY <1>6 DEF DeferCheck
<1>7. CASE EnterReconnect(r)
  BY <1>7 DEF EnterReconnect
<1>8. CASE Retry(r)
  BY <1>8 DEF Retry
<1>9. CASE ReDial(r)
  BY <1>9 DEF ReDial, Dial, Unused
<1>10. CASE ReDialFails(r)
  BY <1>10 DEF ReDialFails
<1>11. CASE ReSubscribe(r)
  BY <1>11 DEF ReSubscribe, CanSubscribe, SubscribeFails
<1>12. CASE DropFailed(r)
  BY <1>12 DEF DropFailed, DropConn
<1>13. CASE LeaveReconnect(r)
  BY <1>13 DEF LeaveReconnect
<1>14. QED
  BY <1>1, <1>2, <1>3, <1>4, <1>5, <1>6, <1>7, <1>8, <1>9, <1>10, <1>11, <1>12, <1>13 DEF ReaderStep

\* The owner and the network open no connection but the client's.
LEMMA LeakOwner ==
  ASSUME TypeOK, NoLeak, Connect \/ Subscribe \/ Cancel \/ CloseConn \/ UNCHANGED vars
         \/ \E c \in Conns : Break(c)
  PROVE  NoLeak'
<1> USE ClientAssumption DEF TypeOK, NoLeak, Goto
<1>1. CASE Connect
  BY <1>1 DEF Connect, Dial, Unused
<1>2. CASE Subscribe
  BY <1>2 DEF Subscribe, CanSubscribe, SubscribeFails
<1>3. CASE Cancel
  BY <1>3 DEF Cancel
<1>4. CASE CloseConn
  BY <1>4 DEF CloseConn, DropConn
<1>5. CASE \E c \in Conns : Break(c)
  BY <1>5 DEF Break
<1>6. CASE UNCHANGED vars
  BY <1>6 DEF vars
<1>7. QED
  BY <1>1, <1>2, <1>3, <1>4, <1>5, <1>6

\* Every step keeps the invariant.
LEMMA NextClientInv == ClientInv /\ [Next]_vars => ClientInv'
<1> SUFFICES ASSUME ClientInv, [Next]_vars PROVE ClientInv'
  OBVIOUS
<1>1. CASE \E r \in Readers : ReaderStep(r) \/ ReceiveMessage(r)
  BY <1>1, TypeReader, ExclusiveReader, WatchedReader, SubscribedReader, LeakReader
     DEF ClientInv
<1>2. CASE Connect \/ Subscribe \/ Cancel \/ CloseConn \/ UNCHANGED vars
             \/ \E c \in Conns : Break(c)
  BY <1>2, TypeOwner, ExclusiveOwner, WatchedOwner, SubscribedOwner, LeakOwner
     DEF ClientInv
<1>3. QED
  BY <1>1, <1>2 DEF Next

\* The four safety properties of the client hold together in every state.
THEOREM SpecClientInv == Spec => []ClientInv
<1>1. QED
  BY InitClientInv, NextClientInv, PTL DEF Spec

\* Types of the client, for any number of connections.
THEOREM ClientTypeCorrect == Spec => []TypeOK
<1>1. ClientInv => TypeOK
  BY DEF ClientInv
<1>2. QED
  BY <1>1, SpecClientInv, PTL

\* At most one goroutine reconnects, and c.reconnecting says whether one
\* does, for any number of stale readers.
THEOREM ReconnectIsExclusive == Spec => []ReconnectExclusive
<1>1. ClientInv => ReconnectExclusive
  BY DEF ClientInv
<1>2. QED
  BY <1>1, SpecClientInv, PTL

\* The current connection always has a reader that will notice its end.
THEOREM ConnectionsAreWatched == Spec => []ConnIsWatched
<1>1. ClientInv => ConnIsWatched
  BY DEF ClientInv
<1>2. QED
  BY <1>1, SpecClientInv, PTL

\* A running owner's connection has its subscription, or the goroutine that
\* is about to subscribe it.
THEOREM ConnectionsAreSubscribed == Spec => []ConnIsSubscribed
<1>1. ClientInv => ConnIsSubscribed
  BY DEF ClientInv
<1>2. QED
  BY <1>1, SpecClientInv, PTL

\* No open connection is ever forgotten.
THEOREM NothingLeaks == Spec => []NoLeak
<1>1. ClientInv => NoLeak
  BY DEF ClientInv
<1>2. QED
  BY <1>1, SpecClientInv, PTL
=============================================================================
