----------------------------- MODULE Freshness -----------------------------
(***************************************************************************)
(* How the API learns of the ledger.  After every ledger the indexer's     *)
(* main loop POSTs its index to the API, which keeps it in the router's KV *)
(* store and in core.network_state; GET /partner/v1/health compares that   *)
(* row with the newest checkpoint.  The POST has a 3 s timeout, after      *)
(* which the indexer goes on while the request may still be served: two    *)
(* updates can overlap and overtake each other.                            *)
(***************************************************************************)
EXTENDS Indexer

CONSTANTS
  DegradedLag,   \* lag beyond which the status is "degraded" (10)
  DownLag        \* lag beyond which the status is "down" (50)

ASSUME FreshnessAssumption == DegradedLag \in Nat /\ DownLag \in Nat /\ DegradedLag <= DownLag

VARIABLES
  posts,          \* ledger updates sent to the API and not yet handled
  updating,       \* updates whose handler is between its two writes
  routerLedger,   \* KV store of the API process, system/ledger_index; 0: none
  networkLedger   \* core.network_state.validated_ledger; the row starts with 0

apiVars == <<posts, updating, routerLedger, networkLedger>>
freshVars == <<vars, apiVars>>

FreshInit ==
  /\ Init
  /\ posts = {} /\ updating = {}
  /\ routerLedger = 0 /\ networkLedger = 0

\* Mutant: the ledger is announced to the API when it is taken from the channel
IndexerWorkMutant ==
  /\ Work
  /\ posts' = posts \cup (IF job'["live"].pc = "check" THEN {job'["live"].ledger} ELSE {})
  /\ UNCHANGED <<updating, routerLedger, networkLedger>>

IndexerWork == Work /\ UNCHANGED apiVars

\* publishLedgerIndex: the request is on its way, or could not be sent
PublishLedgerIndex ==
  /\ Publish
  /\ posts' \in {posts, posts \cup {job["live"].ledger}}
  /\ UNCHANGED <<updating, routerLedger, networkLedger>>

\* LedgerUpdateHandler up to SetCurrentLedgerIndex
SetCurrentLedgerIndex(l) ==
  /\ l \in posts
  /\ posts' = posts \ {l}
  /\ routerLedger' = l
  /\ updating' = updating \cup {l}
  /\ UNCHANGED <<vars, networkLedger>>

\* ... and its UpdateNetworkLedger, which may fail
UpdateNetworkLedger(l) ==
  /\ l \in updating
  /\ updating' = updating \ {l}
  /\ networkLedger' \in {networkLedger, l}
  /\ UNCHANGED <<vars, posts, routerLedger>>

\* The API process restarts: its KV store is in memory
ApiRestart ==
  /\ posts' = {} /\ updating' = {}
  /\ routerLedger' = 0
  /\ UNCHANGED <<vars, networkLedger>>

LedgerUpdate(l) == SetCurrentLedgerIndex(l) \/ UpdateNetworkLedger(l)

FreshNext ==
  \/ IndexerWork
  \/ PublishLedgerIndex
  \/ \E l \in Ledgers : LedgerUpdate(l)
  \/ ApiRestart

FreshSpec == FreshInit /\ [][FreshNext]_freshVars

-----------------------------------------------------------------------------
(* GET /partner/v1/health                                                  *)

\* GREATEST(network.validated_ledger - latest.indexed, 0)
IndexerLag == IF networkLedger > LastCheckpoint THEN networkLedger - LastCheckpoint ELSE 0

Status ==
  IF IndexerLag > DownLag THEN "down"
  ELSE IF IndexerLag > DegradedLag THEN "degraded" ELSE "ok"

-----------------------------------------------------------------------------
(* Properties                                                              *)

\* Whatever the API was told, is being told or has stored names a ledger with
\* a checkpoint: a quote is never stamped with a ledger the database does not
\* hold, though updates are delayed, lost, repeated and overtake each other.
PublishedIsCheckpointed ==
  posts \cup updating \cup ({routerLedger, networkLedger} \ {0}) \subseteq checkpoints

\* The health endpoint cannot report anything but "ok": the validated ledger it
\* compares with is fed by the indexer alone, after its checkpoint
\* (main.go:243, handlers.go:272-278).
HealthIsBlind == Status = "ok"

\* openapi.yaml:395, "Indexer lag in ledgers": once the API has heard of a
\* ledger, an indexer that is behind the network by more than the limit of
\* "down" is not reported as "ok".
HealthShowsLag ==
  (networkLedger > 0 /\ validated - LastCheckpoint > DownLag) => Status # "ok"
=============================================================================
