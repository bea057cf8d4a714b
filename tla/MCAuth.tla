------------------------------- MODULE MCAuth -------------------------------
(***************************************************************************)
(* Two partners that use one id, and a partner that uses its id again: the *)
(* first two requests may be served one after the other, the last two not  *)
(* while the row is there.                                                 *)
(***************************************************************************)
EXTENDS Auth

MCRequests ==
  { [id |-> "i", partner |-> "alice", stamp |-> 1],
    [id |-> "i", partner |-> "alice", stamp |-> 4],
    [id |-> "i", partner |-> "bob", stamp |-> 2],
    [id |-> "j", partner |-> "bob", stamp |-> 1] }
=============================================================================
