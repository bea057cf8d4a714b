------------------------------ MODULE OnceOnly ------------------------------
(***************************************************************************)
(* What a client that repeats its requests relies on: however often a      *)
(* request arrives, it is executed once.  The promise is void for requests *)
(* that were held up past their time.                                      *)
(***************************************************************************)
EXTENDS Naturals

CONSTANT Requests

VARIABLES
  times,   \* how often each request has been executed
  void     \* the requests without the promise

onceVars == <<times, void>>

Init == times = [r \in Requests |-> 0] /\ void = {}

Execute(r) ==
  /\ times[r] = 0 \/ r \in void
  /\ times' = [times EXCEPT ![r] = @ + 1]
  /\ UNCHANGED void

Renounce == \E late \in SUBSET Requests : void' = void \cup late /\ UNCHANGED times

Next == Renounce \/ \E r \in Requests : Execute(r)

Spec == Init /\ [][Next]_onceVars
=============================================================================
