----------------------------- MODULE Pathfinder -----------------------------
(***************************************************************************)
(* internal/router Pathfinder: FindBestRoute builds a graph of the pools   *)
(* and offers, runs Dijkstra's algorithm over a heap, cuts routes that are *)
(* too long and turns the path into hops.                                  *)
(*                                                                         *)
(* An edge is what buildGraph makes of a pool, once in each direction, or  *)
(* of an offer.  Its weight is 1 - fee of a pool and the Quality of an     *)
(* offer, as a number of decimal units of which the decimal 1 has One; its *)
(* cost, 1 - weight, is negative when an offer pays out more than it takes *)
(* in.  Amounts are left out: the search does not look at them.            *)
(***************************************************************************)
EXTENDS Integers, Sequences, FiniteSets, FiniteSetsExt, SequencesExt

CONSTANTS
  Assets,
  Start, End,     \* req.In and req.Out, which the validator keeps apart
  One,            \* the decimal 1, in the unit of the weights
  PoolWeights,    \* 1 - fee
  OfferWeights,   \* Quality
  Max64,          \* math.MaxFloat64
  MaxMarket,      \* bound: pools and offers together
  MaxHops         \* 3

ASSUME PathfinderAssumption ==
  /\ IsFiniteSet(Assets) /\ Start \in Assets /\ End \in Assets /\ Start # End
  /\ One \in Nat /\ PoolWeights \subseteq 0..One /\ OfferWeights \subseteq Nat
  /\ Max64 \in Nat /\ MaxMarket \in Nat /\ MaxHops \in Nat \ {0}

\* A path without a repeated asset and without negative costs does not cost as
\* much as math.MaxFloat64.
ASSUME PathsAreFinite == One * Cardinality(Assets) < Max64

VARIABLES
  pools,     \* pf.pools: [from, to, weight]
  offers,    \* pf.offers
  dist, prev, visited,   \* the maps of dijkstra; dist and prev are partial
  queue,     \* the heap: [asset, cost]
  done       \* the loop has ended

liquidity == <<pools, offers>>
vars == <<pools, offers, dist, prev, visited, queue, done>>

Edge(weights) == {e \in [from : Assets, to : Assets, weight : weights] : e.from # e.to}
Reversed(e) == [e EXCEPT !.from = e.to, !.to = e.from]
Cost(e) == One - e.weight

\* buildGraph
Graph == ToSet(pools) \cup {Reversed(e) : e \in ToSet(pools)} \cup ToSet(offers)
EdgesBetween(a, b) == {e \in Graph : e.from = a /\ e.to = b}

-----------------------------------------------------------------------------
\* The assets dijkstra gives an infinite distance: the keys of the graph
Known == {e.from : e \in Graph}

Init ==
  /\ pools \in SeqOf(Edge(PoolWeights), MaxMarket)
  /\ offers \in SeqOf(Edge(OfferWeights), MaxMarket - Len(pools))
  /\ dist = [a \in Known \cup {Start} |-> IF a = Start THEN 0 ELSE Max64]
  /\ prev = [a \in {} |-> Start]
  /\ visited = {}
  /\ queue = {[asset |-> Start, cost |-> 0]}
  /\ done = FALSE

\* The zero value of a Go map: an asset without outgoing edges is at 0
Dist(a) == IF a \in DOMAIN dist THEN dist[a] ELSE 0

\* Mutant: the heap is the wrong way round
CheapestMutant == {n \in queue : \A m \in queue : n.cost >= m.cost}

\* heap.Pop; the order of equal costs is open
Cheapest == {n \in queue : \A m \in queue : n.cost <= m.cost}

\* The least cost at which an edge leads from the asset to another
EdgeCost(a, b) == Min({Cost(e) : e \in EdgesBetween(a, b)})

\* Mutant: visited assets are not left out
ImprovedMutant(n) ==
  {b \in Assets \ {n.asset} :
     EdgesBetween(n.asset, b) # {} /\ n.cost + EdgeCost(n.asset, b) < Dist(b)}

\* The neighbours that n brings nearer
Improved(n) ==
  {b \in Assets \ (visited \cup {n.asset}) :
     EdgesBetween(n.asset, b) # {} /\ n.cost + EdgeCost(n.asset, b) < Dist(b)}

\* The body of the loop for a node that is not visited.  Of parallel edges
\* the cheapest counts: the entries of the others only come up when their
\* asset has been visited.
Visit(n) ==
  /\ n \in Cheapest /\ n.asset \notin visited /\ ~done
  /\ visited' = visited \cup {n.asset}
  /\ done' = (n.asset = End)
  /\ LET better == IF n.asset = End THEN {} ELSE Improved(n)
         cost == [b \in better |-> n.cost + EdgeCost(n.asset, b)]
     IN /\ dist' = [b \in DOMAIN dist \cup better |-> IF b \in better THEN cost[b] ELSE dist[b]]
        /\ prev' = [b \in DOMAIN prev \cup better |-> IF b \in better THEN n.asset ELSE prev[b]]
        /\ queue' = (queue \ {n}) \cup {[asset |-> b, cost |-> cost[b]] : b \in better}
  /\ UNCHANGED liquidity

\* An entry of a visited asset is dropped
Drop(n) ==
  /\ n \in Cheapest /\ n.asset \in visited /\ ~done
  /\ queue' = queue \ {n}
  /\ UNCHANGED <<liquidity, dist, prev, visited, done>>

Exhaust ==
  /\ queue = {} /\ ~done
  /\ done' = TRUE
  /\ UNCHANGED <<liquidity, dist, prev, visited, queue>>

Next == (\E n \in queue : Visit(n) \/ Drop(n)) \/ Exhaust

Spec == Init /\ [][Next]_vars

-----------------------------------------------------------------------------
(* What FindBestRoute returns when the search is done                      *)

\* The assets from the given one back along prev to Start; a walk that comes
\* to no end is cut off, longer than any path
Path(asset) ==
  LET walk[n \in 0..Cardinality(Assets)] ==
        IF n = 0 THEN <<asset>>
        ELSE LET path == walk[n - 1]
             IN IF Head(path) = Start \/ Head(path) \notin DOMAIN prev THEN path
                ELSE <<prev[Head(path)]>> \o path
  IN walk[Cardinality(Assets)]

Found == End \in DOMAIN prev /\ Len(Path(End)) <= MaxHops + 1

Joins(e, a, b) == (e.from = a /\ e.to = b) \/ (e.from = b /\ e.to = a)

\* Mutant: any offer that takes the first asset will do
HopMutant(a, b) ==
  LET direct == {i \in DOMAIN pools : Joins(pools[i], a, b)}
      offered == {i \in DOMAIN offers : offers[i].from = a}
  IN IF direct # {} THEN pools[Min(direct)] ELSE offers[Min(offered)]

\* findHop: the first pool of the pair, then the first offer
Hop(a, b) ==
  LET direct == {i \in DOMAIN pools : Joins(pools[i], a, b)}
      offered == {i \in DOMAIN offers : offers[i].from = a /\ offers[i].to = b}
  IN IF direct # {} THEN pools[Min(direct)] ELSE offers[Min(offered)]

RouteCost(path) ==
  SumFunction([i \in 1..Len(path) - 1 |-> Cost(Hop(path[i], path[i + 1]))])

-----------------------------------------------------------------------------
\* The reference: every path without a repeated asset
Paths ==
  {p \in SeqOf(Assets, Cardinality(Assets)) :
     /\ Len(p) > 1 /\ p[1] = Start /\ p[Len(p)] = End /\ IsInjective(p)
     /\ \A i \in 1..Len(p) - 1 : EdgesBetween(p[i], p[i + 1]) # {}}

PathCost(p) == SumFunction([i \in 1..Len(p) - 1 |-> EdgeCost(p[i], p[i + 1])])

\* At every step the maps describe real paths: the walk back along prev ends
\* at Start, also where offers make costs negative and a cheaper way round in
\* a circle exists, and the distance of an asset is the cost of that walk.
PathsAreReal ==
  \A b \in DOMAIN prev :
    LET path == Path(b)
    IN /\ Head(path) = Start /\ IsInjective(path)
       /\ \A i \in 1..Len(path) - 1 :
            path[i] \in visited /\ EdgesBetween(path[i], path[i + 1]) # {}
       /\ dist[b] = PathCost(path)

\* Without negative costs the path found is a cheapest one, and one is found
\* whenever a path leads to End, on the condition that an edge leaves End,
\* too: else dijkstra takes End to be at distance 0 already.
CheapestIsFound ==
  done /\ (\A e \in Graph : Cost(e) >= 0) =>
    /\ End \in DOMAIN prev <=> Paths # {} /\ End \in Known
    /\ End \in DOMAIN prev => dist[End] = Min({PathCost(p) : p \in Paths})

\* The hops are looked up again after the search, by the names of two assets
\* and not by the edge that was taken.  Each of them is there and connects its
\* two assets, and together they never cost less than the search has found.
RouteIsUsable ==
  done /\ Found =>
    LET path == Path(End)
        Links(e, a, b) ==
          \/ e \in ToSet(pools) /\ {e.from, e.to} = {a, b}
          \/ e \in ToSet(offers) /\ e.from = a /\ e.to = b
    IN /\ \A i \in 1..Len(path) - 1 : Links(Hop(path[i], path[i + 1]), path[i], path[i + 1])
       /\ RouteCost(path) >= dist[End]

(* What the code does not do                                               *)

\* FindBestRoute is to "find best output" (white-paper.md:184): no route of at
\* most MaxHops hops is cheaper than the hops it returns.
BestRouteIsFound ==
  done /\ Found =>
    \A p \in Paths : Len(p) <= MaxHops + 1 => RouteCost(Path(End)) <= PathCost(p)

\* ErrNoRoute, "no route found", is the answer only if no route of at most
\* MaxHops hops exists.
NoRouteMeansNone ==
  done /\ ~Found => \A p \in Paths : Len(p) > MaxHops + 1
=============================================================================
