---------------------------- MODULE RouterProofs ----------------------------
(***************************************************************************)
(* The two parts of the router that keep a state.                          *)
(*                                                                         *)
(* Pathfinder, for any market of any size: SearchInv holds the maps, the   *)
(* heap and a rank of the assets together, from which PathsAreReal and     *)
(* RouteIsUsable follow; CheapInv adds Dijkstra's argument, for costs that *)
(* are not negative, and CheapestIsFound follows.                          *)
(*                                                                         *)
(* CircuitBreaker, for any prices, limits and durations: the breaker       *)
(* counts its failures right, the caution mode always has a timer that     *)
(* ends it, and no price that is accepted brings a positive average back   *)
(* to zero.                                                                *)
(***************************************************************************)
EXTENDS Pathfinder, CircuitBreaker, SumLemmas

-----------------------------------------------------------------------------
(* The search of the pathfinder                                            *)

SearchTypes ==
  /\ pools \in Seq(Edge(PoolWeights)) /\ offers \in Seq(Edge(OfferWeights))
  /\ DOMAIN dist \subseteq Assets /\ dist \in [DOMAIN dist -> Int]
  /\ DOMAIN prev \subseteq Assets /\ prev \in [DOMAIN prev -> Assets]
  /\ visited \subseteq Assets
  /\ queue \subseteq [asset : Assets, cost : Int]

\* The search begins at Start, where no edge leads back to
FromStart ==
  /\ Start \in DOMAIN dist /\ dist[Start] = 0 /\ Start \notin DOMAIN prev
  /\ \/ Start \in visited
     \/ visited = {} /\ DOMAIN prev = {} /\ queue = {[asset |-> Start, cost |-> 0]}

\* What is reached, and not visited, waits in the queue at its distance
Waiting ==
  /\ DOMAIN prev \subseteq DOMAIN dist
  /\ visited \subseteq DOMAIN prev \cup {Start}
  /\ \A n \in queue :
       /\ n.asset \in DOMAIN prev \cup {Start}
       /\ n.asset \notin visited => dist[n.asset] <= n.cost
  /\ \A b \in DOMAIN prev \ visited : [asset |-> b, cost |-> dist[b]] \in queue

\* An asset is reached by an edge from a visited one, at its cost
ByEdge ==
  \A b \in DOMAIN prev :
    /\ prev[b] \in visited /\ prev[b] # b /\ EdgesBetween(prev[b], b) # {}
    /\ dist[b] = dist[prev[b]] + EdgeCost(prev[b], b)

\* prev leads to assets visited earlier: a rank for each asset, those that
\* are not visited at the top
RankedBy(rank, top) ==
  /\ \A a \in visited : rank[a] < top
  /\ \A a \in Assets \ visited : rank[a] = top
  /\ \A b \in DOMAIN prev : rank[prev[b]] < rank[b]
Ranked == \E rank \in [Assets -> Nat], top \in Nat : RankedBy(rank, top)

SearchInv == SearchTypes /\ FromStart /\ Waiting /\ ByEdge /\ Ranked

\* What Dijkstra's argument needs: no cost is negative
NonNegative == \A e \in Graph : Cost(e) >= 0

CheapInv ==
  NonNegative =>
    /\ DOMAIN dist = Known \cup {Start}
    /\ \A a \in DOMAIN dist : dist[a] >= 0 /\ (a = Start \/ a \in DOMAIN prev \/ dist[a] = Max64)
    /\ \A a \in visited, n \in queue : dist[a] <= n.cost
    /\ \A n \in queue : n.cost >= 0
    /\ \A a \in visited \ {End}, b \in Assets :
         EdgesBetween(a, b) # {} => Dist(b) <= dist[a] + EdgeCost(a, b)
    /\ done => End \in visited \/ queue = {}

-----------------------------------------------------------------------------
\* The edges of the market, and the cheapest between two assets.
LEMMA GraphFacts ==
  ASSUME SearchTypes
  PROVE  /\ IsFiniteSet(Graph)
         /\ Graph \subseteq [from : Assets, to : Assets, weight : Nat]
         /\ \A e \in Graph : e.from # e.to
<1>0. PoolWeights \subseteq Nat /\ OfferWeights \subseteq Nat
  BY PathfinderAssumption
<1>1. /\ ToSet(pools) \subseteq Edge(PoolWeights) /\ IsFiniteSet(ToSet(pools))
      /\ ToSet(offers) \subseteq Edge(OfferWeights) /\ IsFiniteSet(ToSet(offers))
  <2>1. ASSUME NEW S, NEW s \in Seq(S) PROVE ToSet(s) \subseteq S /\ IsFiniteSet(ToSet(s))
    <3>1. ToSet(s) \subseteq S /\ DOMAIN s = 1..Len(s)
      BY DEF ToSet
    <3>2. IsFiniteSet(DOMAIN s)
      BY <3>1, FS_Interval
    <3>3. IsFiniteSet({s[i] : i \in DOMAIN s})
      BY <3>2, FiniteImage
    <3>4. QED
      BY <3>1, <3>3 DEF ToSet
  <2>2. QED
    BY <2>1 DEF SearchTypes
<1> DEFINE back == {Reversed(e) : e \in ToSet(pools)}
<1>2. IsFiniteSet(back)
  <2> DEFINE reversed == [e \in ToSet(pools) |-> Reversed(e)]
  <2>1. IsFiniteSet({reversed[e] : e \in ToSet(pools)})
    BY <1>1, FiniteImage
  <2>2. QED
    BY <2>1
<1>3. IsFiniteSet(Graph)
  <2> HIDE DEF back
  <2>1. IsFiniteSet(ToSet(pools) \cup back)
    BY <1>1, <1>2, FS_Union
  <2>2. QED
    BY <1>1, <2>1, FS_Union DEF Graph, back
<1>4. \A e \in Edge(PoolWeights) \cup Edge(OfferWeights) :
        e \in [from : Assets, to : Assets, weight : Nat] /\ e.from # e.to
  BY <1>0 DEF Edge
<1>5. \A e \in [from : Assets, to : Assets, weight : Nat] : e.from # e.to =>
        Reversed(e) \in [from : Assets, to : Assets, weight : Nat] /\ Reversed(e).from # Reversed(e).to
  BY DEF Reversed
<1>6. QED
  BY <1>1, <1>3, <1>4, <1>5 DEF Graph

\* The cost of the cheapest edge between two assets is that of one of them.
LEMMA EdgeCostIsLeast ==
  ASSUME SearchTypes, NEW a, NEW b, EdgesBetween(a, b) # {}
  PROVE  /\ EdgeCost(a, b) \in Int
         /\ \E e \in EdgesBetween(a, b) : EdgeCost(a, b) = Cost(e)
         /\ \A e \in EdgesBetween(a, b) : EdgeCost(a, b) <= Cost(e)
         /\ a \in Assets /\ b \in Assets /\ a # b /\ a \in Known
<1> DEFINE E == EdgesBetween(a, b)
           C == {Cost(e) : e \in E}
<1>1. E \subseteq Graph /\ \A e \in E : e.from = a /\ e.to = b
  BY DEF EdgesBetween
<1>2. IsFiniteSet(E) /\ \A e \in E : e.weight \in Nat /\ e.from \in Assets /\ e.to \in Assets /\ e.from # e.to
  BY <1>1, GraphFacts, FS_Subset
<1>3. C \in SUBSET Int
  BY <1>2, PathfinderAssumption DEF Cost
<1>4. IsFiniteSet(C) /\ C # {}
  <2> DEFINE cost == [e \in E |-> Cost(e)]
  <2>1. IsFiniteSet({cost[e] : e \in E})
    BY <1>2, FiniteImage
  <2>2. {cost[e] : e \in E} = C
    OBVIOUS
  <2>3. QED
    BY <2>1, <2>2
<1>5. Min(C) \in C /\ \A x \in C : Min(C) <= x
  <2> HIDE DEF C
  <2> QED
    BY <1>3, <1>4, MinIsLeast
<1>6. EdgeCost(a, b) = Min(C)
  BY DEF EdgeCost
<1>7. a \in Assets /\ b \in Assets /\ a # b /\ a \in Known
  BY <1>1, <1>2 DEF Known
<1> HIDE DEF E
<1>8. QED
  BY <1>3, <1>5, <1>6, <1>7 DEF E

-----------------------------------------------------------------------------
\* The search starts with Start alone, reached at no cost.
LEMMA InitSearch == Init => SearchInv
<1> SUFFICES ASSUME Init PROVE SearchInv
  OBVIOUS
<1>0. Start \in Assets
  BY PathfinderAssumption
<1>1. pools \in Seq(Edge(PoolWeights)) /\ offers \in Seq(Edge(OfferWeights))
  BY PathfinderAssumption DEF Init, SeqOf
<1>2. Known \subseteq Assets
  <2>1. \A e \in Edge(PoolWeights) \cup Edge(OfferWeights) : e.from \in Assets /\ e.to \in Assets
    BY DEF Edge
  <2>2. ASSUME NEW e \in Graph PROVE e.from \in Assets
    <3>1. \A d \in ToSet(pools) \cup ToSet(offers) : d.from \in Assets /\ d.to \in Assets
      BY <1>1, <2>1 DEF ToSet
    <3>2. \A d \in ToSet(pools) : Reversed(d).from \in Assets
      <4>1. \A d \in Edge(PoolWeights) : Reversed(d).from = d.to
        BY DEF Edge, Reversed
      <4>2. QED
        BY <1>1, <2>1, <4>1 DEF ToSet
    <3>3. QED
      BY <3>1, <3>2 DEF Graph
  <2>3. QED
    BY <2>2 DEF Known
<1>3. /\ DOMAIN dist = Known \cup {Start} /\ dist \in [Known \cup {Start} -> Int]
      /\ dist[Start] = 0
  BY PathfinderAssumption DEF Init
<1>4. DOMAIN prev = {} /\ visited = {} /\ queue = {[asset |-> Start, cost |-> 0]}
  BY DEF Init
<1>5. prev \in [DOMAIN prev -> Assets]
  BY DEF Init
<1>6. SearchTypes
  BY <1>0, <1>1, <1>2, <1>3, <1>4, <1>5 DEF SearchTypes
<1>7. FromStart /\ Waiting /\ ByEdge
  BY <1>3, <1>4 DEF FromStart, Waiting, ByEdge
<1>8. Ranked
  <2>1. RankedBy([a \in Assets |-> 0], 0)
    BY <1>4 DEF RankedBy
  <2>2. QED
    BY <2>1 DEF Ranked
<1>9. QED
  BY <1>6, <1>7, <1>8 DEF SearchInv

-----------------------------------------------------------------------------
\* What is waiting at the front of the queue, and not visited, is there at
\* its distance.
LEMMA FrontIsNearest ==
  ASSUME SearchInv, NEW n \in queue, n \in Cheapest, n.asset \notin visited
  PROVE  /\ n.asset \in Assets /\ n.asset \in DOMAIN dist /\ n.cost \in Int
         /\ n.cost = dist[n.asset]
         /\ n.asset \in DOMAIN prev \cup {Start}
         /\ \A m \in queue : n.cost <= m.cost
<1>1. n \in [asset : Assets, cost : Int]
  BY DEF SearchInv, SearchTypes
<1>2. \A m \in queue : n.cost <= m.cost
  BY DEF Cheapest
<1>3. n.asset \in DOMAIN prev \cup {Start} /\ dist[n.asset] <= n.cost
  BY DEF SearchInv, Waiting
<1>4. n.asset \in DOMAIN dist /\ dist[n.asset] \in Int
  BY <1>3 DEF SearchInv, SearchTypes, Waiting, FromStart
<1>5. CASE n.asset \in DOMAIN prev
  <2>1. [asset |-> n.asset, cost |-> dist[n.asset]] \in queue
    BY <1>5 DEF SearchInv, Waiting
  <2>2. n.cost <= dist[n.asset]
    BY <1>2, <2>1
  <2>3. QED
    BY <1>1, <1>2, <1>3, <1>4, <2>2
<1>6. CASE n.asset = Start
  <2>1. n = [asset |-> Start, cost |-> 0] /\ dist[Start] = 0
    BY <1>6 DEF SearchInv, FromStart
  <2>2. QED
    BY <1>1, <1>2, <1>4, <1>6, <2>1
<1>7. QED
  BY <1>3, <1>5, <1>6

\* The assets that a visit brings nearer
Better(n) == IF n.asset = End THEN {} ELSE Improved(n)

\* A visit changes the maps for these assets alone, and queues each of them.
LEMMA VisitEffect ==
  ASSUME SearchInv, NEW n \in queue, Visit(n)
  PROVE  /\ Better(n) \subseteq Assets \ (visited \cup {n.asset})
         /\ \A b \in Better(n) :
              /\ EdgesBetween(n.asset, b) # {} /\ EdgeCost(n.asset, b) \in Int
              /\ dist'[b] = n.cost + EdgeCost(n.asset, b) /\ dist'[b] < Dist(b)
              /\ prev'[b] = n.asset
         /\ DOMAIN dist' = DOMAIN dist \cup Better(n) /\ dist' \in [DOMAIN dist' -> Int]
         /\ \A b \in DOMAIN dist \ Better(n) : dist'[b] = dist[b]
         /\ DOMAIN prev' = DOMAIN prev \cup Better(n) /\ prev' \in [DOMAIN prev' -> Assets]
         /\ \A b \in DOMAIN prev \ Better(n) : prev'[b] = prev[b]
         /\ queue' = (queue \ {n}) \cup {[asset |-> b, cost |-> dist'[b]] : b \in Better(n)}
         /\ visited' = visited \cup {n.asset} /\ done' = (n.asset = End)
         /\ UNCHANGED liquidity
<1> DEFINE better == Better(n)
           cost == [b \in better |-> n.cost + EdgeCost(n.asset, b)]
<1>0. n.asset \in Assets /\ n.cost \in Int
  BY FrontIsNearest DEF Visit
<1>1. /\ better \subseteq Assets \ (visited \cup {n.asset})
      /\ \A b \in better : EdgesBetween(n.asset, b) # {} /\ n.cost + EdgeCost(n.asset, b) < Dist(b)
  BY DEF Better, Improved
<1>2. \A b \in better : EdgeCost(n.asset, b) \in Int
  BY <1>1, EdgeCostIsLeast DEF SearchInv
<1>3. /\ dist' = [b \in DOMAIN dist \cup better |-> IF b \in better THEN cost[b] ELSE dist[b]]
      /\ prev' = [b \in DOMAIN prev \cup better |-> IF b \in better THEN n.asset ELSE prev[b]]
      /\ queue' = (queue \ {n}) \cup {[asset |-> b, cost |-> cost[b]] : b \in better}
  BY DEF Visit, Better
<1>4. visited' = visited \cup {n.asset} /\ done' = (n.asset = End) /\ UNCHANGED liquidity
  BY DEF Visit
<1> HIDE DEF better
<1>5. /\ DOMAIN dist' = DOMAIN dist \cup better
      /\ \A b \in better : dist'[b] = n.cost + EdgeCost(n.asset, b)
      /\ \A b \in DOMAIN dist \ better : dist'[b] = dist[b]
      /\ dist' = [b \in DOMAIN dist' |-> dist'[b]]
  BY <1>3
<1>6. /\ DOMAIN prev' = DOMAIN prev \cup better
      /\ \A b \in better : prev'[b] = n.asset
      /\ \A b \in DOMAIN prev \ better : prev'[b] = prev[b]
      /\ prev' = [b \in DOMAIN prev' |-> prev'[b]]
  BY <1>3
<1>7. dist \in [DOMAIN dist -> Int] /\ prev \in [DOMAIN prev -> Assets]
  BY DEF SearchInv, SearchTypes
<1>8. \A b \in DOMAIN dist' : dist'[b] \in Int
  BY <1>0, <1>2, <1>5, <1>7
<1>9. \A b \in DOMAIN prev' : prev'[b] \in Assets
  BY <1>0, <1>6, <1>7
<1>10. {[asset |-> b, cost |-> cost[b]] : b \in better} = {[asset |-> b, cost |-> dist'[b]] : b \in better}
  BY <1>5
<1>11. QED
  BY <1>1, <1>2, <1>3, <1>4, <1>5, <1>6, <1>8, <1>9, <1>10 DEF better

\* A visit keeps the maps, the queue and the ranks together.
LEMMA VisitSearch ==
  ASSUME SearchInv, NEW n \in queue, Visit(n)
  PROVE  SearchInv'
<1> DEFINE a == n.asset
           better == Better(n)
<1>1. /\ better \subseteq Assets \ (visited \cup {a})
      /\ \A b \in better :
           /\ EdgesBetween(a, b) # {} /\ EdgeCost(a, b) \in Int
           /\ dist'[b] = n.cost + EdgeCost(a, b) /\ dist'[b] < Dist(b)
           /\ prev'[b] = a
      /\ DOMAIN dist' = DOMAIN dist \cup better /\ dist' \in [DOMAIN dist' -> Int]
      /\ \A b \in DOMAIN dist \ better : dist'[b] = dist[b]
      /\ DOMAIN prev' = DOMAIN prev \cup better /\ prev' \in [DOMAIN prev' -> Assets]
      /\ \A b \in DOMAIN prev \ better : prev'[b] = prev[b]
      /\ queue' = (queue \ {n}) \cup {[asset |-> b, cost |-> dist'[b]] : b \in better}
      /\ visited' = visited \cup {a}
      /\ UNCHANGED liquidity
  BY VisitEffect
<1>2. /\ a \in Assets \ visited /\ a \in DOMAIN dist /\ n.cost = dist[a] /\ n.cost \in Int
      /\ a \in DOMAIN prev \cup {Start}
  BY FrontIsNearest DEF Visit
<1>3. SearchTypes /\ FromStart /\ Waiting /\ ByEdge /\ Ranked
  BY DEF SearchInv
<1> HIDE DEF better
<1>4. SearchTypes'
  <2>1. UNCHANGED pools /\ UNCHANGED offers
    BY <1>1 DEF liquidity
  <2>2. /\ DOMAIN dist' \subseteq Assets /\ DOMAIN prev' \subseteq Assets /\ visited' \subseteq Assets
    BY <1>1, <1>2, <1>3 DEF SearchTypes
  <2>3. queue' \subseteq [asset : Assets, cost : Int]
    <3>1. \A b \in better : [asset |-> b, cost |-> dist'[b]] \in [asset : Assets, cost : Int]
      BY <1>1
    <3>2. QED
      BY <1>1, <1>3, <3>1 DEF SearchTypes
  <2>4. QED
    BY <1>1, <1>3, <2>1, <2>2, <2>3 DEF SearchTypes
<1>5. Start \notin better
  <2>1. CASE Start \in visited
    BY <1>1, <2>1
  <2>2. CASE Start \notin visited
    <3>1. n = [asset |-> Start, cost |-> 0]
      BY <1>3, <2>2 DEF FromStart
    <3>2. QED
      BY <1>1, <3>1
  <2>3. QED
    BY <2>1, <2>2
<1>6. FromStart'
  <2>1. Start \in visited'
    <3>1. CASE Start \in visited
      BY <1>1, <3>1
    <3>2. CASE Start \notin visited
      <4>1. n = [asset |-> Start, cost |-> 0]
        BY <1>3, <3>2 DEF FromStart
      <4>2. QED
        BY <1>1, <4>1
    <3>3. QED
      BY <3>1, <3>2
  <2>2. QED
    BY <1>1, <1>3, <1>5, <2>1 DEF FromStart
<1>7. Waiting'
  <2>1. DOMAIN prev' \subseteq DOMAIN dist' /\ visited' \subseteq DOMAIN prev' \cup {Start}
    BY <1>1, <1>2, <1>3 DEF Waiting
  <2>2. ASSUME NEW m \in queue'
        PROVE  /\ m.asset \in DOMAIN prev' \cup {Start}
               /\ m.asset \notin visited' => dist'[m.asset] <= m.cost
    <3>1. CASE m \in queue
      <4>1. /\ m.asset \in DOMAIN prev \cup {Start}
            /\ m.asset \notin visited => dist[m.asset] <= m.cost
        BY <1>3, <3>1 DEF Waiting
      <4>2. m.asset \in DOMAIN dist /\ m.cost \in Int /\ dist[m.asset] \in Int
        BY <1>3, <3>1, <4>1 DEF Waiting, FromStart, SearchTypes
      <4>3. CASE m.asset \in better
        <5>1. dist'[m.asset] < dist[m.asset] /\ dist'[m.asset] \in Int
          BY <1>1, <4>2, <4>3 DEF Dist
        <5>2. QED
          BY <1>1, <4>1, <4>2, <5>1
      <4>4. CASE m.asset \notin better
        BY <1>1, <4>1, <4>2, <4>4
      <4>5. QED
        BY <4>3, <4>4
    <3>2. CASE m \notin queue
      <4>1. PICK b \in better : m = [asset |-> b, cost |-> dist'[b]]
        BY <1>1, <3>2
      <4>2. dist'[b] \in Int
        BY <1>1
      <4>3. QED
        BY <1>1, <4>1, <4>2
    <3>3. QED
      BY <3>1, <3>2
  <2>3. ASSUME NEW b \in DOMAIN prev' \ visited'
        PROVE  [asset |-> b, cost |-> dist'[b]] \in queue'
    <3>1. CASE b \in better
      BY <1>1, <3>1
    <3>2. CASE b \notin better
      <4>1. b \in DOMAIN prev \ visited /\ b # a
        BY <1>1, <3>2
      <4>2. dist'[b] = dist[b] /\ [asset |-> b, cost |-> dist[b]] \in queue
        BY <1>1, <1>3, <3>2, <4>1 DEF Waiting
      <4>3. [asset |-> b, cost |-> dist[b]] # n
        BY <4>1
      <4>4. QED
        BY <1>1, <4>2, <4>3
    <3>3. QED
      BY <3>1, <3>2
  <2>4. QED
    BY <2>1, <2>2, <2>3 DEF Waiting
<1>8. ByEdge'
  <2>1. Graph' = Graph
    BY <1>1 DEF Graph, liquidity
  <2> SUFFICES ASSUME NEW b \in DOMAIN prev'
               PROVE  /\ prev'[b] \in visited' /\ prev'[b] # b /\ EdgesBetween(prev'[b], b) # {}
                      /\ dist'[b] = dist'[prev'[b]] + EdgeCost(prev'[b], b)
    BY <2>1 DEF ByEdge, EdgesBetween, EdgeCost
  <2>2. CASE b \in better
    BY <1>1, <1>2, <2>2
  <2>3. CASE b \notin better
    <3>1. /\ b \in DOMAIN prev /\ prev'[b] = prev[b]
          /\ prev[b] \in visited /\ prev[b] # b /\ EdgesBetween(prev[b], b) # {}
          /\ dist[b] = dist[prev[b]] + EdgeCost(prev[b], b)
      BY <1>1, <1>3, <2>3 DEF ByEdge
    <3>2. dist'[b] = dist[b]
      BY <1>1, <1>3, <2>3, <3>1 DEF Waiting
    <3>3. dist'[prev[b]] = dist[prev[b]]
      BY <1>1, <1>3, <3>1 DEF Waiting, FromStart
    <3>4. QED
      BY <1>1, <3>1, <3>2, <3>3
  <2>4. QED
    BY <2>2, <2>3
<1>9. Ranked'
  <2>1. PICK rank \in [Assets -> Nat], top \in Nat : RankedBy(rank, top)
    BY <1>3 DEF Ranked
  <2> DEFINE higher == [x \in Assets |-> IF x \in visited' THEN rank[x] ELSE top + 1]
  <2>2. /\ \A x \in visited : rank[x] < top
        /\ \A x \in Assets \ visited : rank[x] = top
        /\ \A b \in DOMAIN prev : rank[prev[b]] < rank[b]
    BY <2>1 DEF RankedBy
  <2>3. visited \subseteq Assets /\ visited' \subseteq Assets
    BY <1>1, <1>2, <1>3 DEF SearchTypes
  <2>4. higher \in [Assets -> Nat] /\ \A x \in Assets : rank[x] <= higher[x] /\ rank[x] <= top
    BY <2>2
  <2>5. (\A x \in visited' : higher[x] < top + 1) /\ \A x \in Assets \ visited' : higher[x] = top + 1
    BY <1>1, <1>2, <2>2, <2>3
  <2>6. ASSUME NEW b \in DOMAIN prev' PROVE higher[prev'[b]] < higher[b]
    <3>1. CASE b \in better
      <4>1. prev'[b] = a /\ a \in visited' /\ b \in Assets \ visited'
        BY <1>1, <3>1
      <4>2. QED
        BY <2>3, <2>4, <2>5, <4>1
    <3>2. CASE b \notin better
      <4>1. b \in DOMAIN prev /\ prev'[b] = prev[b] /\ prev[b] \in visited /\ b \in Assets
        BY <1>1, <1>3, <3>2 DEF ByEdge, SearchTypes
      <4>2. higher[prev[b]] = rank[prev[b]] /\ rank[prev[b]] < rank[b] /\ rank[b] <= higher[b]
        BY <1>1, <2>2, <2>3, <2>4, <4>1
      <4>3. QED
        BY <2>3, <2>4, <4>1, <4>2
    <3>3. QED
      BY <3>1, <3>2
  <2> HIDE DEF higher
  <2>7. QED
    BY <2>4, <2>5, <2>6 DEF Ranked, RankedBy
<1>10. QED
  BY <1>4, <1>6, <1>7, <1>8, <1>9 DEF SearchInv

\* So does every step of the search.
LEMMA NextSearch == SearchInv /\ [Next]_vars => SearchInv'
<1> SUFFICES ASSUME SearchInv, [Next]_vars PROVE SearchInv'
  OBVIOUS
<1>1. ASSUME NEW n \in queue, Visit(n) PROVE SearchInv'
  BY <1>1, VisitSearch
<1>2. CASE UNCHANGED <<liquidity, dist, prev, visited>>
           /\ (UNCHANGED queue \/ \E n \in queue : n.asset \in visited /\ queue' = queue \ {n})
  <2>0. UNCHANGED <<pools, offers, dist, prev, visited>>
    BY <1>2 DEF liquidity
  <2>1. SearchTypes' /\ ByEdge' /\ Ranked'
    <3>1. SearchTypes'
      <4>1. queue' \subseteq queue
        BY <1>2
      <4>2. QED
        BY <2>0, <4>1 DEF SearchInv, SearchTypes
    <3>2. ByEdge'
      BY <2>0 DEF SearchInv, ByEdge, EdgesBetween, EdgeCost, Graph
    <3>3. Ranked'
      BY <2>0 DEF SearchInv, Ranked, RankedBy
    <3>4. QED
      BY <3>1, <3>2, <3>3
  <2>2. FromStart'
    BY <1>2, <2>0 DEF SearchInv, FromStart
  <2>3. Waiting'
    <3>1. \A b \in DOMAIN prev \ visited : [asset |-> b, cost |-> dist[b]] \in queue'
      BY <1>2 DEF SearchInv, Waiting
    <3>2. queue' \subseteq queue
      BY <1>2
    <3>3. QED
      BY <2>0, <3>1, <3>2 DEF SearchInv, Waiting
  <2>4. QED
    BY <2>1, <2>2, <2>3 DEF SearchInv
<1>3. ASSUME NEW n \in queue, Drop(n) PROVE SearchInv'
  BY <1>2, <1>3 DEF Drop
<1>4. CASE Exhaust \/ UNCHANGED vars
  BY <1>2, <1>4 DEF Exhaust, vars, liquidity
<1>5. QED
  BY <1>1, <1>3, <1>4 DEF Next

-----------------------------------------------------------------------------
(* The walk back along prev                                                *)

\* g[n] is the path after n steps back from the asset
IsWalk(g, asset, last) ==
  g = [n \in 0..last |->
         IF n = 0 THEN <<asset>>
         ELSE LET path == g[n - 1]
              IN IF Head(path) = Start \/ Head(path) \notin DOMAIN prev THEN path
                 ELSE <<prev[Head(path)]>> \o path]

\* The recursive function of Path exists.
LEMMA WalkExists ==
  ASSUME NEW asset, NEW last \in Nat
  PROVE  \E g : IsWalk(g, asset, last)
<1> DEFINE I == {n \in Nat : \E g : IsWalk(g, asset, n)}
           Back(path) == IF Head(path) = Start \/ Head(path) \notin DOMAIN prev THEN path
                         ELSE <<prev[Head(path)]>> \o path
<1>1. 0 \in I
  <2>1. IsWalk([n \in 0..0 |-> <<asset>>], asset, 0)
    BY DEF IsWalk
  <2>2. QED
    BY <2>1
<1>2. ASSUME NEW n \in Nat, n \in I PROVE n + 1 \in I
  <2>1. PICK g : IsWalk(g, asset, n)
    BY <1>2
  <2> DEFINE h == [m \in 0..n + 1 |-> IF m = n + 1 THEN Back(g[n]) ELSE g[m]]
  <2>2. g = [m \in 0..n |-> IF m = 0 THEN <<asset>> ELSE Back(g[m - 1])]
    BY <2>1 DEF IsWalk
  <2> HIDE DEF Back
  <2>3. \A m \in 0..n : h[m] = g[m]
    OBVIOUS
  <2>4. \A m \in 0..n + 1 : h[m] = IF m = 0 THEN <<asset>> ELSE Back(h[m - 1])
    <3> SUFFICES ASSUME NEW m \in 0..n + 1
                 PROVE  h[m] = IF m = 0 THEN <<asset>> ELSE Back(h[m - 1])
      OBVIOUS
    <3>1. CASE m = n + 1
      <4>1. h[m] = Back(g[n]) /\ m # 0 /\ m - 1 = n
        BY <3>1
      <4>2. QED
        BY <2>3, <4>1
    <3>2. CASE m \in 0..n
      <4>1. m # 0 => m - 1 \in 0..n
        BY <3>2
      <4>2. g[m] = IF m = 0 THEN <<asset>> ELSE Back(g[m - 1])
        BY <2>2, <3>2
      <4>3. QED
        BY <2>3, <3>2, <4>1, <4>2
    <3>3. QED
      BY <3>1, <3>2
  <2>5. h = [m \in 0..n + 1 |-> IF m = 0 THEN <<asset>> ELSE Back(h[m - 1])]
    <3> HIDE DEF h
    <3>1. h = [m \in 0..n + 1 |-> h[m]]
      BY DEF h
    <3>2. QED
      BY <2>4, <3>1
  <2>6. IsWalk(h, asset, n + 1)
    <3> HIDE DEF h
    <3> QED
      BY <2>5 DEF IsWalk, Back
  <2>7. QED
    BY <2>6
<1>3. Nat \subseteq I
  <2> HIDE DEF I
  <2> QED
    BY <1>1, <1>2, NatSetInduction
<1>4. QED
  BY <1>3

\* A path that prev leads back along, from the asset at its end
Leads(path, asset) ==
  /\ path \in Seq(Assets) /\ Len(path) > 0 /\ path[Len(path)] = asset
  /\ \A i \in 1..Len(path) - 1 : path[i + 1] \in DOMAIN prev /\ path[i] = prev[path[i + 1]]

\* A path without repeated assets is no longer than there are assets.
LEMMA PathLength ==
  ASSUME NEW path \in Seq(Assets), IsInjective(path)
  PROVE  Len(path) <= Cardinality(Assets)
<1>1. IsFiniteSet(Assets) /\ DOMAIN path = 1..Len(path) /\ Len(path) \in Nat
  BY PathfinderAssumption
<1>2. path \in Injection(1..Len(path), Assets)
  BY <1>1 DEF Injection, IsInjective
<1>3. Cardinality(1..Len(path)) <= Cardinality(Assets)
  BY <1>1, <1>2, FS_Injection
<1>4. Cardinality(1..Len(path)) = Len(path)
  BY <1>1, FS_Interval
<1>5. QED
  BY <1>3, <1>4

\* Along such a path the ranks ascend, so no asset comes twice.
LEMMA LeadsIsInjective ==
  ASSUME SearchInv, NEW asset, NEW path, Leads(path, asset)
  PROVE  IsInjective(path) /\ Len(path) <= Cardinality(Assets)
<1>1. PICK rank \in [Assets -> Nat], top \in Nat : RankedBy(rank, top)
  BY DEF SearchInv, Ranked
<1>2. /\ path \in Seq(Assets) /\ DOMAIN path = 1..Len(path) /\ Len(path) \in Nat
      /\ \A i \in 1..Len(path) : path[i] \in Assets /\ rank[path[i]] \in Nat
  BY DEF Leads
<1>3. \A i \in 1..Len(path) - 1 : rank[path[i]] < rank[path[i + 1]]
  BY <1>1 DEF RankedBy, Leads
<1> DEFINE I == {j \in Nat : \A i \in 1..Len(path) : i < j /\ j <= Len(path)
                               => rank[path[i]] < rank[path[j]]}
<1>4. 0 \in I
  OBVIOUS
<1>5. ASSUME NEW j \in Nat, j \in I PROVE j + 1 \in I
  <2> SUFFICES ASSUME NEW i \in 1..Len(path), i < j + 1, j + 1 <= Len(path)
               PROVE  rank[path[i]] < rank[path[j + 1]]
    OBVIOUS
  <2>1. j \in 1..Len(path) - 1 /\ j \in 1..Len(path) /\ j + 1 \in 1..Len(path)
    BY <1>2
  <2>2. rank[path[j]] < rank[path[j + 1]]
    BY <1>3, <2>1
  <2>3. CASE i = j
    BY <2>2, <2>3
  <2>4. CASE i < j
    <3>1. rank[path[i]] < rank[path[j]]
      BY <1>5, <2>1, <2>4
    <3>2. QED
      BY <1>2, <2>1, <2>2, <3>1
  <2>5. QED
    BY <2>1, <2>3, <2>4
<1>6. Nat \subseteq I
  <2> HIDE DEF I
  <2> QED
    BY <1>4, <1>5, NatSetInduction
<1>7. ASSUME NEW i \in 1..Len(path), NEW j \in 1..Len(path), i < j PROVE path[i] # path[j]
  <2>1. rank[path[i]] < rank[path[j]]
    BY <1>2, <1>6, <1>7
  <2>2. QED
    BY <1>2, <2>1
<1>8. IsInjective(path)
  <2> SUFFICES ASSUME NEW i \in 1..Len(path), NEW j \in 1..Len(path), path[i] = path[j], i # j
               PROVE  FALSE
    BY <1>2 DEF IsInjective
  <2>1. i < j \/ j < i
    BY <1>2
  <2>2. QED
    BY <1>7, <2>1
<1>9. Len(path) <= Cardinality(Assets)
  BY <1>8, PathLength, <1>2
<1>10. QED
  BY <1>8, <1>9

\* The path that Path returns leads from Start to the asset, whatever cheaper
\* ways round in a circle there are.
LEMMA PathLeads ==
  ASSUME SearchInv, NEW asset \in DOMAIN prev
  PROVE  /\ Leads(Path(asset), asset) /\ Path(asset)[1] = Start
         /\ IsInjective(Path(asset)) /\ Len(Path(asset)) <= Cardinality(Assets)
         /\ Len(Path(asset)) > 1
<1> DEFINE last == Cardinality(Assets)
           g == CHOOSE g : IsWalk(g, asset, last)
<1>0. last \in Nat
  BY PathfinderAssumption, FS_CardinalityType
<1>1. IsWalk(g, asset, last)
  BY <1>0, WalkExists
<1>2. Path(asset) = g[last]
  BY DEF Path, IsWalk
<1> HIDE DEF g, last
<1> DEFINE Reached(n) == Leads(g[n], asset) /\ (g[n][1] = Start \/ Len(g[n]) = n + 1)
           I == {n \in Nat : n <= last => Reached(n)}
<1>3. /\ DOMAIN prev \subseteq Assets /\ prev \in [DOMAIN prev -> Assets]
      /\ \A b \in DOMAIN prev : prev[b] \in DOMAIN prev \cup {Start}
  BY DEF SearchInv, SearchTypes, Waiting, ByEdge
<1>4. 0 \in I
  <2>1. g[0] = <<asset>>
    BY <1>0, <1>1 DEF IsWalk
  <2>2. Leads(<<asset>>, asset)
    BY <1>3 DEF Leads
  <2>3. QED
    BY <2>1, <2>2
<1>5. ASSUME NEW n \in Nat, n \in I PROVE n + 1 \in I
  <2> SUFFICES ASSUME n + 1 <= last PROVE Reached(n + 1)
    OBVIOUS
  <2> DEFINE p == g[n]
             q == g[n + 1]
  <2>1. Leads(p, asset) /\ (p[1] = Start \/ Len(p) = n + 1)
    BY <1>0, <1>5
  <2>2. q = IF Head(p) = Start \/ Head(p) \notin DOMAIN prev THEN p ELSE <<prev[Head(p)]>> \o p
    <3>1. n + 1 \in 0..last /\ n + 1 # 0 /\ (n + 1) - 1 = n
      BY <1>0
    <3>2. QED
      BY <1>1, <3>1 DEF IsWalk
  <2> HIDE DEF p, q
  <2>3. Head(p) = p[1] /\ p \in Seq(Assets) /\ Len(p) \in Nat \ {0}
    BY <2>1 DEF Leads
  <2>4. CASE p[1] = Start
    <3>1. q = p
      BY <2>2, <2>3, <2>4
    <3>2. QED
      BY <2>1, <2>4, <3>1 DEF p, q
  <2>5. CASE p[1] # Start
    <3>1. p[1] \in DOMAIN prev
      <4>1. CASE Len(p) = 1
        BY <2>1, <4>1 DEF Leads
      <4>2. CASE Len(p) # 1
        <5>0. \A i \in 1..Len(p) - 1 : p[i + 1] \in DOMAIN prev /\ p[i] = prev[p[i + 1]]
          BY <2>1 DEF Leads
        <5>1. 1 \in 1..Len(p) - 1
          <6>1. PICK k \in Nat \ {0} : k = Len(p)
            BY <2>3
          <6>2. k # 1
            BY <4>2, <6>1
          <6>3. 1 \in 1..k - 1
            BY <6>2
          <6>4. QED
            BY <6>1, <6>3
        <5>2. p[1 + 1] \in DOMAIN prev /\ p[1] = prev[p[1 + 1]]
          BY <5>0, <5>1
        <5>3. QED
          BY <1>3, <2>5, <5>2
      <4>3. QED
        BY <4>1, <4>2
    <3>2. q = <<prev[p[1]]>> \o p
      BY <2>2, <2>3, <2>5, <3>1
    <3>3. /\ q \in Seq(Assets) /\ Len(q) = Len(p) + 1 /\ q[1] = prev[p[1]]
          /\ \A i \in 1..Len(p) : q[i + 1] = p[i]
      BY <1>3, <2>3, <3>1, <3>2
    <3>4. Len(p) \in 1..Len(p) /\ q[Len(q)] = asset
      BY <2>1, <2>3, <3>3 DEF Leads
    <3>5. ASSUME NEW i \in 1..Len(q) - 1 PROVE q[i + 1] \in DOMAIN prev /\ q[i] = prev[q[i + 1]]
      <4>1. i \in 1..Len(p) /\ q[i + 1] = p[i]
        BY <2>3, <3>3
      <4>2. CASE i = 1
        BY <3>1, <3>3, <4>1, <4>2
      <4>3. CASE i # 1
        <5>1. i - 1 \in 1..Len(p) - 1 /\ (i - 1) + 1 = i /\ i - 1 \in 1..Len(p)
          BY <2>3, <4>1, <4>3
        <5>2. p[i] \in DOMAIN prev /\ p[i - 1] = prev[p[i]]
          BY <2>1, <5>1 DEF Leads
        <5>3. q[i] = p[i - 1]
          BY <3>3, <5>1
        <5>4. QED
          BY <4>1, <5>2, <5>3
      <4>4. QED
        BY <4>2, <4>3
    <3>6. Leads(q, asset)
      BY <2>3, <3>3, <3>4, <3>5 DEF Leads
    <3>7. Len(q) = (n + 1) + 1
      BY <2>1, <2>5, <3>3
    <3>8. QED
      BY <3>6, <3>7 DEF q
  <2>6. QED
    BY <2>4, <2>5
<1>6. Nat \subseteq I
  <2> HIDE DEF I
  <2> QED
    BY <1>4, <1>5, NatSetInduction
<1>7. Leads(g[last], asset) /\ (g[last][1] = Start \/ Len(g[last]) = last + 1)
  BY <1>0, <1>6
<1>8. IsInjective(g[last]) /\ Len(g[last]) <= last
  BY <1>7, LeadsIsInjective DEF last
<1>9. g[last][1] = Start
  BY <1>0, <1>7, <1>8
<1>10. Len(g[last]) > 1
  <2>1. asset # Start
    BY DEF SearchInv, FromStart
  <2>2. Len(g[last]) # 1
    BY <1>7, <1>9, <2>1 DEF Leads
  <2>3. Len(g[last]) \in Nat /\ Len(g[last]) > 0
    BY <1>7 DEF Leads
  <2>4. PICK k \in Nat : k = Len(g[last])
    BY <2>3
  <2>5. k # 1 /\ k > 0
    BY <2>2, <2>3, <2>4
  <2>6. k > 1
    BY <2>5
  <2>7. QED
    BY <2>4, <2>6
<1>11. QED
  BY <1>2, <1>7, <1>8, <1>9, <1>10 DEF last

\* The costs of the edges of a path, one after the other
CostsOf(p) == [i \in 1..Len(p) - 1 |-> EdgeCost(p[i], p[i + 1])]

\* The steps of such a path are edges, and the distance of each of its assets
\* is the cost of the steps up to it.
LEMMA LeadsCost ==
  ASSUME SearchInv, NEW asset, NEW p, Leads(p, asset), p[1] = Start
  PROVE  /\ \A i \in 1..Len(p) - 1 :
              /\ p[i] \in visited /\ EdgesBetween(p[i], p[i + 1]) # {}
              /\ EdgeCost(p[i], p[i + 1]) \in Int
         /\ dist[asset] = PathCost(p)
<1>1. /\ p \in Seq(Assets) /\ Len(p) \in Nat \ {0} /\ p[Len(p)] = asset
      /\ \A i \in 1..Len(p) - 1 : p[i + 1] \in DOMAIN prev /\ p[i] = prev[p[i + 1]]
  BY DEF Leads
<1>2. \A i \in 1..Len(p) - 1 :
        /\ p[i] \in visited /\ EdgesBetween(p[i], p[i + 1]) # {}
        /\ EdgeCost(p[i], p[i + 1]) \in Int
        /\ dist[p[i + 1]] = dist[p[i]] + EdgeCost(p[i], p[i + 1])
  <2> SUFFICES ASSUME NEW i \in 1..Len(p) - 1
               PROVE  /\ p[i] \in visited /\ EdgesBetween(p[i], p[i + 1]) # {}
                      /\ EdgeCost(p[i], p[i + 1]) \in Int
                      /\ dist[p[i + 1]] = dist[p[i]] + EdgeCost(p[i], p[i + 1])
    OBVIOUS
  <2>1. /\ p[i] \in visited /\ EdgesBetween(p[i], p[i + 1]) # {}
        /\ dist[p[i + 1]] = dist[p[i]] + EdgeCost(p[i], p[i + 1])
    BY <1>1 DEF SearchInv, ByEdge
  <2>2. QED
    BY <2>1, EdgeCostIsLeast DEF SearchInv
<1> DEFINE f == CostsOf(p)
           I == {n \in Nat : n < Len(p) => dist[p[n + 1]] = SumFunctionOnSet(f, 1..n)}
<1>3. \A i \in 1..Len(p) - 1 : f[i] \in Int /\ dist[p[i + 1]] = dist[p[i]] + f[i]
  BY <1>2 DEF CostsOf
<1> HIDE DEF f
<1>4. 0 \in I
  <2>1. dist[p[1]] = 0 /\ 1..0 = {}
    BY DEF SearchInv, FromStart
  <2>2. QED
    BY <2>1, SumEmpty
<1>5. ASSUME NEW n \in Nat, n \in I PROVE n + 1 \in I
  <2> SUFFICES ASSUME n + 1 < Len(p)
               PROVE  dist[p[n + 2]] = SumFunctionOnSet(f, 1..n + 1)
    OBVIOUS
  <2>1. dist[p[n + 1]] = SumFunctionOnSet(f, 1..n)
    BY <1>1, <1>5
  <2>2. n + 1 \in 1..Len(p) - 1 /\ n + 1 \notin 1..n /\ 1..n + 1 = (1..n) \cup {n + 1}
    BY <1>1
  <2>3. IsFiniteSet(1..n) /\ \A x \in (1..n) \cup {n + 1} : f[x] \in Int
    <3>1. IsFiniteSet(1..n)
      BY FS_Interval
    <3>2. \A x \in (1..n) \cup {n + 1} : x \in 1..Len(p) - 1
      BY <1>1
    <3>3. QED
      BY <1>3, <3>1, <3>2
  <2>4. SumFunctionOnSet(f, 1..n + 1) = f[n + 1] + SumFunctionOnSet(f, 1..n)
    BY <2>2, <2>3, SumAdd
  <2>5. SumFunctionOnSet(f, 1..n) \in Int
    BY <2>3, SumInt
  <2>6. dist[p[n + 2]] = dist[p[n + 1]] + f[n + 1] /\ f[n + 1] \in Int
    BY <1>3, <2>2
  <2>7. QED
    BY <2>1, <2>4, <2>5, <2>6
<1>6. Nat \subseteq I
  <2> HIDE DEF I
  <2> QED
    BY <1>4, <1>5, NatSetInduction
<1>7. dist[p[Len(p)]] = SumFunctionOnSet(f, 1..Len(p) - 1)
  <2>1. Len(p) - 1 \in Nat /\ Len(p) - 1 < Len(p) /\ (Len(p) - 1) + 1 = Len(p)
    BY <1>1
  <2>2. QED
    BY <1>6, <2>1
<1>8. PathCost(p) = SumFunctionOnSet(f, 1..Len(p) - 1)
  BY DEF PathCost, SumFunction, f, CostsOf
<1>9. QED
  BY <1>1, <1>2, <1>7, <1>8

\* The search only ever describes real paths: for every market, also where
\* costs are negative, the walk back from any asset reached ends at Start, comes
\* nowhere twice, and costs what the distance says.
THEOREM PathsAlwaysReal == Spec => []PathsAreReal
<1>1. SearchInv => PathsAreReal
  <2> SUFFICES ASSUME SearchInv, NEW b \in DOMAIN prev
               PROVE  /\ Head(Path(b)) = Start /\ IsInjective(Path(b))
                      /\ \A i \in 1..Len(Path(b)) - 1 :
                           /\ Path(b)[i] \in visited
                           /\ EdgesBetween(Path(b)[i], Path(b)[i + 1]) # {}
                      /\ dist[b] = PathCost(Path(b))
    BY DEF PathsAreReal
  <2>1. /\ Leads(Path(b), b) /\ Path(b)[1] = Start /\ IsInjective(Path(b))
    BY PathLeads
  <2>2. Head(Path(b)) = Path(b)[1]
    BY <2>1 DEF Leads
  <2>3. QED
    BY <2>1, <2>2, LeadsCost
<1>2. QED
  BY <1>1, InitSearch, NextSearch, PTL DEF Spec

-----------------------------------------------------------------------------
(* The hops of the route                                                   *)

\* Between two assets that an edge connects, findHop finds a pool or an offer
\* that does, and it is no cheaper than the cheapest.
LEMMA HopFacts ==
  ASSUME SearchInv, NEW a, NEW b, EdgesBetween(a, b) # {}
  PROVE  /\ \/ Hop(a, b) \in ToSet(pools) /\ {Hop(a, b).from, Hop(a, b).to} = {a, b}
            \/ Hop(a, b) \in ToSet(offers) /\ Hop(a, b).from = a /\ Hop(a, b).to = b
         /\ Cost(Hop(a, b)) \in Int /\ EdgeCost(a, b) <= Cost(Hop(a, b))
<1> DEFINE direct == {i \in DOMAIN pools : Joins(pools[i], a, b)}
           offered == {i \in DOMAIN offers : offers[i].from = a /\ offers[i].to = b}
<1>0. /\ pools \in Seq(Edge(PoolWeights)) /\ DOMAIN pools = 1..Len(pools) /\ Len(pools) \in Nat
      /\ offers \in Seq(Edge(OfferWeights)) /\ DOMAIN offers = 1..Len(offers) /\ Len(offers) \in Nat
  BY DEF SearchInv, SearchTypes
<1>1. /\ direct \in SUBSET Int /\ IsFiniteSet(direct)
      /\ offered \in SUBSET Int /\ IsFiniteSet(offered)
  <2>1. direct \subseteq 1..Len(pools) /\ offered \subseteq 1..Len(offers)
    BY <1>0
  <2>2. IsFiniteSet(1..Len(pools)) /\ IsFiniteSet(1..Len(offers))
    BY <1>0, FS_Interval
  <2>3. QED
    BY <1>0, <2>1, <2>2, FS_Subset
<1>2. /\ EdgeCost(a, b) \in Int
      /\ \A e \in EdgesBetween(a, b) : EdgeCost(a, b) <= Cost(e)
  BY EdgeCostIsLeast DEF SearchInv
<1>3. \A e \in Graph : Cost(e) \in Int
  BY GraphFacts, PathfinderAssumption DEF SearchInv, Cost
<1>4. Hop(a, b) = IF direct # {} THEN pools[Min(direct)] ELSE offers[Min(offered)]
  BY DEF Hop
<1>5. CASE direct # {}
  <2> DEFINE h == pools[Min(direct)]
  <2>1. Min(direct) \in direct
    <3> HIDE DEF direct
    <3> QED
      BY <1>1, <1>5, MinIsLeast
  <2>2. h \in ToSet(pools) /\ h \in Edge(PoolWeights) /\ Joins(h, a, b)
    <3>1. Min(direct) \in DOMAIN pools /\ Joins(h, a, b)
      BY <2>1
    <3>2. h \in ToSet(pools)
      BY <3>1 DEF ToSet
    <3>3. h \in Edge(PoolWeights)
      <4> HIDE DEF direct
      <4> QED
        BY <1>0, <3>1
    <3>4. QED
      BY <3>1, <3>2, <3>3
  <2> HIDE DEF h
  <2>3. {h.from, h.to} = {a, b}
    BY <2>2 DEF Joins
  <2>4. h \in Graph /\ Reversed(h) \in Graph
    BY <2>2 DEF Graph
  <2>5. Reversed(h).from = h.to /\ Reversed(h).to = h.from /\ Reversed(h).weight = h.weight
    BY <2>2 DEF Reversed, Edge
  <2>6. Cost(Reversed(h)) = Cost(h)
    BY <2>5 DEF Cost
  <2>7. h \in EdgesBetween(a, b) \/ Reversed(h) \in EdgesBetween(a, b)
    BY <2>2, <2>4, <2>5 DEF Joins, EdgesBetween
  <2>8. EdgeCost(a, b) <= Cost(h)
    BY <1>2, <2>6, <2>7
  <2>9. Hop(a, b) = h
    BY <1>4, <1>5 DEF h
  <2>10. QED
    BY <1>3, <2>2, <2>3, <2>4, <2>8, <2>9
<1>6. CASE direct = {}
  <2> DEFINE h == offers[Min(offered)]
  <2>1. PICK e \in Graph : e.from = a /\ e.to = b
    BY DEF EdgesBetween
  <2>2. e \notin ToSet(pools)
    BY <1>6, <2>1 DEF ToSet, Joins
  <2>3. e \notin {Reversed(d) : d \in ToSet(pools)}
    <3> SUFFICES ASSUME NEW d \in ToSet(pools), e = Reversed(d) PROVE FALSE
      OBVIOUS
    <3>1. PICK i \in DOMAIN pools : d = pools[i]
      BY DEF ToSet
    <3>2. d \in Edge(PoolWeights)
      BY <1>0, <3>1
    <3>3. d.from = b /\ d.to = a
      BY <2>1, <3>2 DEF Reversed, Edge
    <3>4. QED
      BY <1>6, <3>1, <3>3 DEF Joins
  <2>4. e \in ToSet(offers)
    BY <2>1, <2>2, <2>3 DEF Graph
  <2>5. offered # {}
    BY <2>1, <2>4 DEF ToSet
  <2>6. Min(offered) \in offered
    <3> HIDE DEF offered
    <3> QED
      BY <1>1, <2>5, MinIsLeast
  <2>7. h \in ToSet(offers) /\ h.from = a /\ h.to = b
    BY <2>6 DEF ToSet
  <2> HIDE DEF h
  <2>8. h \in Graph /\ h \in EdgesBetween(a, b)
    BY <2>7 DEF Graph, EdgesBetween
  <2>9. Hop(a, b) = h
    BY <1>4, <1>6 DEF h
  <2>10. QED
    BY <1>2, <1>3, <2>7, <2>8, <2>9
<1>7. QED
  BY <1>5, <1>6

\* The hops of an answer are looked up again by the names of their assets, for
\* every market with any number of parallel pools and offers: each is there and
\* connects its two assets, and together they never cost less than was found.
THEOREM RouteAlwaysUsable == Spec => []RouteIsUsable
<1>1. SearchInv => RouteIsUsable
  <2> SUFFICES ASSUME SearchInv, Found PROVE RouteIsUsable
    BY DEF RouteIsUsable
  <2> DEFINE p == Path(End)
             f == CostsOf(p)
             h == [i \in 1..Len(p) - 1 |-> Cost(Hop(p[i], p[i + 1]))]
  <2>1. Leads(p, End) /\ p[1] = Start
    BY PathLeads DEF Found
  <2> HIDE DEF p
  <2>2. \A i \in 1..Len(p) - 1 : EdgesBetween(p[i], p[i + 1]) # {} /\ EdgeCost(p[i], p[i + 1]) \in Int
    BY <2>1, LeadsCost
  <2>3. dist[End] = SumFunctionOnSet(f, 1..Len(p) - 1)
    BY <2>1, LeadsCost DEF PathCost, SumFunction, CostsOf
  <2>4. \A i \in 1..Len(p) - 1 :
          /\ \/ Hop(p[i], p[i + 1]) \in ToSet(pools)
                /\ {Hop(p[i], p[i + 1]).from, Hop(p[i], p[i + 1]).to} = {p[i], p[i + 1]}
             \/ /\ Hop(p[i], p[i + 1]) \in ToSet(offers)
                /\ Hop(p[i], p[i + 1]).from = p[i] /\ Hop(p[i], p[i + 1]).to = p[i + 1]
          /\ f[i] \in Int /\ h[i] \in Int /\ f[i] <= h[i]
    BY <2>2, HopFacts DEF CostsOf
  <2>5. IsFiniteSet(1..Len(p) - 1)
    BY FS_Interval, <2>1 DEF Leads
  <2>6. SumFunctionOnSet(f, 1..Len(p) - 1) <= SumFunctionOnSet(h, 1..Len(p) - 1)
    <3> HIDE DEF f, h
    <3> QED
      BY <2>4, <2>5, SumMonotone
  <2>7. SumFunctionOnSet(h, 1..Len(p) - 1) \in Int /\ SumFunctionOnSet(f, 1..Len(p) - 1) \in Int
    <3> HIDE DEF f, h
    <3> QED
      BY <2>4, <2>5, SumInt
  <2>8. RouteCost(p) = SumFunctionOnSet(h, 1..Len(p) - 1)
    BY DEF RouteCost, SumFunction
  <2>9. RouteCost(p) >= dist[End]
    BY <2>3, <2>6, <2>7, <2>8
  <2> HIDE DEF f, h
  <2>10. QED
    BY <2>4, <2>9 DEF RouteIsUsable, p
<1>2. QED
  BY <1>1, InitSearch, NextSearch, PTL DEF Spec

-----------------------------------------------------------------------------
(* Dijkstra's argument                                                     *)

\* Nothing is reached at the start but Start.
LEMMA InitCheap == Init => CheapInv
<1> SUFFICES ASSUME Init PROVE CheapInv
  OBVIOUS
<1>1. /\ DOMAIN dist = Known \cup {Start}
      /\ \A a \in DOMAIN dist : dist[a] = IF a = Start THEN 0 ELSE Max64
      /\ visited = {} /\ queue = {[asset |-> Start, cost |-> 0]} /\ done = FALSE
  BY DEF Init
<1>2. Max64 >= 0
  BY PathfinderAssumption
<1>3. QED
  BY <1>1, <1>2 DEF CheapInv

\* No edge that is not negative has a negative least cost.
LEMMA EdgeCostIsNatural ==
  ASSUME SearchTypes, NonNegative, NEW a, NEW b, EdgesBetween(a, b) # {}
  PROVE  EdgeCost(a, b) \in Nat /\ EdgeCost(a, b) <= One
<1>1. PICK e \in EdgesBetween(a, b) : EdgeCost(a, b) = Cost(e)
  BY EdgeCostIsLeast
<1>2. e \in Graph /\ e.weight \in Nat
  BY GraphFacts DEF EdgesBetween
<1>3. Cost(e) \in Int /\ Cost(e) >= 0 /\ Cost(e) <= One
  BY <1>2, PathfinderAssumption DEF NonNegative, Cost
<1>4. QED
  BY <1>1, <1>3

\* A visit takes the nearest asset that is left, and relaxes every edge from it.
LEMMA VisitCheap ==
  ASSUME SearchInv, CheapInv, NEW n \in queue, Visit(n)
  PROVE  CheapInv'
<1> DEFINE a == n.asset
           better == Better(n)
<1>1. /\ better \subseteq Assets \ (visited \cup {a})
      /\ \A b \in better :
           /\ EdgesBetween(a, b) # {} /\ EdgeCost(a, b) \in Int
           /\ dist'[b] = n.cost + EdgeCost(a, b) /\ dist'[b] < Dist(b)
      /\ DOMAIN dist' = DOMAIN dist \cup better /\ dist' \in [DOMAIN dist' -> Int]
      /\ \A b \in DOMAIN dist \ better : dist'[b] = dist[b]
      /\ DOMAIN prev' = DOMAIN prev \cup better
      /\ queue' = (queue \ {n}) \cup {[asset |-> b, cost |-> dist'[b]] : b \in better}
      /\ visited' = visited \cup {a} /\ done' = (a = End)
      /\ UNCHANGED liquidity
  BY VisitEffect
<1>2. /\ a \in Assets \ visited /\ a \in DOMAIN dist /\ n.cost = dist[a] /\ n.cost \in Int
      /\ \A m \in queue : n.cost <= m.cost
  BY FrontIsNearest DEF Visit
<1>3. Graph' = Graph
  BY <1>1 DEF Graph, liquidity
<1>4. Known' = Known /\ (NonNegative' <=> NonNegative)
  BY <1>3 DEF Known, NonNegative
<1> SUFFICES ASSUME NonNegative PROVE CheapInv'
  BY <1>4 DEF CheapInv
<1>5. /\ DOMAIN dist = Known \cup {Start}
      /\ \A x \in DOMAIN dist : dist[x] >= 0 /\ (x = Start \/ x \in DOMAIN prev \/ dist[x] = Max64)
      /\ \A x \in visited, m \in queue : dist[x] <= m.cost
      /\ \A m \in queue : m.cost >= 0
      /\ \A x \in visited \ {End}, b \in Assets :
           EdgesBetween(x, b) # {} => Dist(b) <= dist[x] + EdgeCost(x, b)
  BY DEF CheapInv
<1>6. /\ dist \in [DOMAIN dist -> Int] /\ visited \subseteq DOMAIN dist /\ visited \subseteq Assets
      /\ \A m \in queue : m.cost \in Int
  BY DEF SearchInv, SearchTypes, Waiting, FromStart
<1>7. \A x, b : EdgesBetween(x, b) # {} => EdgeCost(x, b) \in Nat /\ x # b
  BY EdgeCostIsNatural, EdgeCostIsLeast DEF SearchInv
<1>8. \A b \in better : /\ n.cost >= 0 /\ dist'[b] >= n.cost /\ b \in DOMAIN dist
                         /\ dist'[b] < dist[b] /\ dist'[b] \in Int
  <2> HIDE DEF better
  <2> SUFFICES ASSUME NEW b \in better
               PROVE  /\ n.cost >= 0 /\ dist'[b] >= n.cost /\ b \in DOMAIN dist
                      /\ dist'[b] < dist[b] /\ dist'[b] \in Int
    OBVIOUS
  <2>1. n.cost >= 0 /\ dist'[b] >= n.cost /\ dist'[b] \in Int
    BY <1>1, <1>2, <1>5, <1>7
  <2>2. b \in DOMAIN dist
    BY <1>1, <1>2, <2>1 DEF Dist
  <2>3. QED
    BY <1>1, <2>1, <2>2 DEF Dist
<1>9. \A x \in visited' : x \in DOMAIN dist /\ x \notin better /\ dist'[x] = dist[x]
  BY <1>1, <1>2, <1>6
<1>10. DOMAIN dist' = DOMAIN dist /\ \A b \in DOMAIN dist : dist'[b] <= dist[b] /\ dist'[b] \in Int
  BY <1>1, <1>6, <1>8
<1>11. DOMAIN dist' = Known' \cup {Start}
  BY <1>4, <1>5, <1>10
<1>12. \A x \in DOMAIN dist' : dist'[x] >= 0 /\ (x = Start \/ x \in DOMAIN prev' \/ dist'[x] = Max64)
  <2> SUFFICES ASSUME NEW x \in DOMAIN dist
               PROVE  dist'[x] >= 0 /\ (x = Start \/ x \in DOMAIN prev' \/ dist'[x] = Max64)
    BY <1>10
  <2> HIDE DEF better
  <2>1. CASE x \in better
    BY <1>1, <1>2, <1>8, <2>1
  <2>2. CASE x \notin better
    BY <1>1, <1>5, <2>2
  <2>3. QED
    BY <2>1, <2>2
<1>13. \A x \in visited', m \in queue' : dist'[x] <= m.cost
  <2> HIDE DEF better
  <2> SUFFICES ASSUME NEW x \in visited', NEW m \in queue' PROVE dist'[x] <= m.cost
    OBVIOUS
  <2>1. dist'[x] = dist[x] /\ dist[x] \in Int /\ dist[x] <= n.cost
    BY <1>1, <1>2, <1>5, <1>6, <1>9
  <2>2. CASE m \in queue
    BY <1>2, <1>6, <2>1, <2>2
  <2>3. CASE m \notin queue
    <3>1. PICK b \in better : m = [asset |-> b, cost |-> dist'[b]]
      BY <1>1, <2>3
    <3>2. m.cost = dist'[b] /\ dist'[b] >= n.cost /\ dist'[b] \in Int
      BY <1>8, <3>1
    <3>3. QED
      BY <1>2, <2>1, <3>2
  <2>4. QED
    BY <2>2, <2>3
<1>14. \A m \in queue' : m.cost >= 0
  <2> HIDE DEF better
  <2> SUFFICES ASSUME NEW m \in queue' PROVE m.cost >= 0
    OBVIOUS
  <2>1. CASE m \in queue
    BY <1>5, <2>1
  <2>2. CASE m \notin queue
    <3>1. PICK b \in better : m = [asset |-> b, cost |-> dist'[b]]
      BY <1>1, <2>2
    <3>2. m.cost = dist'[b] /\ dist'[b] >= n.cost /\ n.cost >= 0 /\ dist'[b] \in Int
      BY <1>8, <3>1
    <3>3. QED
      BY <1>2, <3>2
  <2>3. QED
    BY <2>1, <2>2
<1> DEFINE Near(b) == IF b \in DOMAIN dist' THEN dist'[b] ELSE 0
<1>15. \A b \in Assets : Near(b) \in Int /\ Dist(b) \in Int /\ Near(b) <= Dist(b)
  BY <1>6, <1>10 DEF Dist
<1>16. \A x \in visited' \ {End}, b \in Assets :
         EdgesBetween(x, b) # {} => Near(b) <= dist'[x] + EdgeCost(x, b)
  <2> SUFFICES ASSUME NEW x \in visited' \ {End}, NEW b \in Assets, EdgesBetween(x, b) # {}
               PROVE  Near(b) <= dist'[x] + EdgeCost(x, b)
    OBVIOUS
  <2>1. /\ EdgeCost(x, b) \in Nat /\ x # b
        /\ dist'[x] = dist[x] /\ dist[x] \in Int
        /\ Near(b) \in Int /\ Dist(b) \in Int /\ Near(b) <= Dist(b)
    BY <1>6, <1>7, <1>9, <1>15
  <2>2. CASE x \in visited
    <3>1. Dist(b) <= dist[x] + EdgeCost(x, b)
      BY <1>5, <2>2
    <3> HIDE DEF Near
    <3>2. QED
      BY <2>1, <3>1
  <2>3. CASE x = a
    <3>1. CASE b \in better
      <4>1. Near(b) = n.cost + EdgeCost(a, b)
        BY <1>1, <3>1
      <4>2. QED
        BY <1>2, <2>1, <2>3, <4>1
    <3>2. CASE b \in visited
      <4>1. dist[b] <= n.cost /\ Dist(b) = dist[b]
        BY <1>5, <1>6, <3>2 DEF Dist
      <4> HIDE DEF Near
      <4>2. QED
        BY <1>2, <2>1, <2>3, <4>1
    <3>3. CASE b \notin better /\ b \notin visited
      <4>1. ~(n.cost + EdgeCost(a, b) < Dist(b))
        BY <2>1, <2>3, <3>3 DEF Better, Improved
      <4> HIDE DEF Near
      <4>2. QED
        BY <1>2, <2>1, <2>3, <4>1
    <3>4. QED
      BY <3>1, <3>2, <3>3
  <2>4. QED
    BY <1>1, <2>2, <2>3
<1>17. \A x \in visited' \ {End}, b \in Assets :
         EdgesBetween(x, b)' # {} => Dist(b)' <= dist'[x] + EdgeCost(x, b)'
  BY <1>3, <1>16 DEF EdgesBetween, EdgeCost, Dist
<1>18. done' => End \in visited' \/ queue' = {}
  BY <1>1
<1>19. QED
  BY <1>11, <1>12, <1>13, <1>14, <1>17, <1>18 DEF CheapInv

\* So do the other steps, of which an exhausted queue is the last.
LEMMA NextCheap == SearchInv /\ CheapInv /\ [Next]_vars => CheapInv'
<1> SUFFICES ASSUME SearchInv, CheapInv, [Next]_vars PROVE CheapInv'
  OBVIOUS
<1>1. ASSUME NEW n \in queue, Visit(n) PROVE CheapInv'
  BY <1>1, VisitCheap
<1>2. ASSUME UNCHANGED <<liquidity, dist, prev, visited>>, queue' \subseteq queue,
             done' => (done /\ UNCHANGED queue) \/ queue' = {}
      PROVE  CheapInv'
  <2>1. /\ UNCHANGED <<dist, prev, visited>> /\ Graph' = Graph /\ Known' = Known
        /\ (NonNegative' <=> NonNegative)
    BY <1>2 DEF Graph, Known, NonNegative, liquidity
  <2>2. \A x \in visited \ {End}, b \in Assets :
          /\ EdgesBetween(x, b)' = EdgesBetween(x, b) /\ Dist(b)' = Dist(b)
          /\ EdgeCost(x, b)' = EdgeCost(x, b)
    BY <2>1 DEF EdgesBetween, EdgeCost, Dist
  <2> SUFFICES ASSUME NonNegative PROVE CheapInv'
    BY <2>1 DEF CheapInv
  <2>3. /\ DOMAIN dist' = Known' \cup {Start}
        /\ \A x \in DOMAIN dist' : dist'[x] >= 0 /\ (x = Start \/ x \in DOMAIN prev' \/ dist'[x] = Max64)
    BY <2>1 DEF CheapInv
  <2>4. /\ \A x \in visited', m \in queue' : dist'[x] <= m.cost
        /\ \A m \in queue' : m.cost >= 0
        /\ done' => End \in visited' \/ queue' = {}
    BY <1>2, <2>1 DEF CheapInv
  <2>5. \A x \in visited' \ {End}, b \in Assets :
          EdgesBetween(x, b)' # {} => Dist(b)' <= dist'[x] + EdgeCost(x, b)'
    BY <2>1, <2>2 DEF CheapInv
  <2>6. QED
    BY <2>3, <2>4, <2>5 DEF CheapInv
<1>3. ASSUME NEW n \in queue, Drop(n) PROVE CheapInv'
  BY <1>2, <1>3 DEF Drop
<1>4. CASE Exhaust
  BY <1>2, <1>4 DEF Exhaust
<1>5. CASE UNCHANGED vars
  BY <1>2, <1>5 DEF vars, liquidity
<1>6. QED
  BY <1>1, <1>3, <1>4, <1>5 DEF Next

\* A sequence of edges from Start through visited assets bounds the distance of
\* the asset it comes to.
LEMMA PrefixBound ==
  ASSUME SearchInv, CheapInv, NonNegative, NEW p \in Seq(Assets), p[1] = Start,
         \A i \in 1..Len(p) - 1 : EdgesBetween(p[i], p[i + 1]) # {},
         NEW j \in 1..Len(p), \A i \in 1..Len(p) : i < j => p[i] \in visited \ {End}
  PROVE  Dist(p[j]) <= SumFunctionOnSet(CostsOf(p), 1..j - 1)
<1> DEFINE f == CostsOf(p)
           I == {n \in Nat : n < j => Dist(p[n + 1]) <= SumFunctionOnSet(f, 1..n)}
<1>0. PICK len \in Nat : len = Len(p)
  OBVIOUS
<1>1. j \in Nat /\ j >= 1 /\ j <= len /\ \A i \in 1..len : p[i] \in Assets
  BY <1>0
<1>2. \A i \in 1..len - 1 : f[i] \in Nat /\ f[i] = EdgeCost(p[i], p[i + 1])
  BY <1>0, EdgeCostIsNatural DEF CostsOf, SearchInv
<1> HIDE DEF f
<1>3. 0 \in I
  <2>1. Dist(p[1]) = 0 /\ 1..0 = {}
    BY DEF SearchInv, FromStart, Dist
  <2>2. QED
    BY <2>1, SumEmpty
<1>4. ASSUME NEW n \in Nat, n \in I PROVE n + 1 \in I
  <2> SUFFICES ASSUME n + 1 < j
               PROVE  Dist(p[n + 2]) <= SumFunctionOnSet(f, 1..n + 1)
    OBVIOUS
  <2>1. Dist(p[n + 1]) <= SumFunctionOnSet(f, 1..n)
    BY <1>1, <1>4
  <2>2. /\ n + 1 \in 1..len - 1 /\ n + 1 \notin 1..n /\ 1..n + 1 = (1..n) \cup {n + 1}
        /\ n + 1 \in 1..len /\ n + 2 \in 1..len /\ (n + 1) + 1 = n + 2
    BY <1>1
  <2>3. IsFiniteSet(1..n) /\ \A x \in (1..n) \cup {n + 1} : f[x] \in Int
    <3>1. IsFiniteSet(1..n)
      BY FS_Interval
    <3>2. \A x \in (1..n) \cup {n + 1} : x \in 1..len - 1
      BY <1>1
    <3>3. \A x \in 1..len - 1 : f[x] \in Int
      BY <1>2
    <3>4. QED
      BY <3>1, <3>2, <3>3
  <2>4. SumFunctionOnSet(f, 1..n + 1) = f[n + 1] + SumFunctionOnSet(f, 1..n)
    BY <2>2, <2>3, SumAdd
  <2>5. SumFunctionOnSet(f, 1..n) \in Int
    BY <2>3, SumInt
  <2>6. /\ p[n + 1] \in visited \ {End} /\ p[n + 2] \in Assets
        /\ EdgesBetween(p[n + 1], p[n + 2]) # {}
        /\ f[n + 1] = EdgeCost(p[n + 1], p[n + 2]) /\ f[n + 1] \in Int
    BY <1>0, <1>1, <1>2, <2>2
  <2>7. Dist(p[n + 2]) <= dist[p[n + 1]] + f[n + 1]
    BY <2>6 DEF CheapInv
  <2>8. /\ p[n + 1] \in DOMAIN dist /\ Dist(p[n + 1]) = dist[p[n + 1]]
        /\ Dist(p[n + 1]) \in Int /\ Dist(p[n + 2]) \in Int
    BY <2>6 DEF SearchInv, SearchTypes, Waiting, FromStart, Dist
  <2>9. QED
    BY <2>1, <2>4, <2>5, <2>6, <2>7, <2>8
<1>5. Nat \subseteq I
  <2> HIDE DEF I
  <2> QED
    BY <1>3, <1>4, NatSetInduction
<1>6. j - 1 \in I /\ j - 1 < j /\ (j - 1) + 1 = j
  BY <1>1, <1>5
<1>7. QED
  BY <1>6 DEF f

\* What the paths of the reference cost.
LEMMA PathsCost ==
  ASSUME SearchInv, NonNegative, NEW p \in Paths
  PROVE  /\ p \in Seq(Assets) /\ Len(p) > 1 /\ p[1] = Start /\ p[Len(p)] = End
         /\ \A i \in 1..Len(p) - 1 : EdgesBetween(p[i], p[i + 1]) # {}
         /\ PathCost(p) \in Nat /\ PathCost(p) < Max64
         /\ \A j \in 1..Len(p) : SumFunctionOnSet(CostsOf(p), 1..j - 1) <= PathCost(p)
         /\ \A j \in 1..Len(p) : SumFunctionOnSet(CostsOf(p), 1..j - 1) \in Nat
<1> DEFINE f == CostsOf(p)
           S == 1..Len(p) - 1
<1>1. /\ p \in Seq(Assets) /\ Len(p) > 1 /\ p[1] = Start /\ p[Len(p)] = End /\ IsInjective(p)
      /\ \A i \in 1..Len(p) - 1 : EdgesBetween(p[i], p[i + 1]) # {}
  <2>1. \A q \in SeqOf(Assets, Cardinality(Assets)) : q \in Seq(Assets)
    BY DEF SeqOf
  <2>2. QED
    BY <2>1 DEF Paths
<1>2. \A i \in S : f[i] \in Nat /\ f[i] <= One
  BY <1>1, EdgeCostIsNatural DEF SearchInv, CostsOf
<1>3. PathCost(p) = SumFunctionOnSet(f, S)
  BY DEF PathCost, SumFunction, CostsOf
<1> HIDE DEF f
<1>4. PICK len \in Nat : len = Len(p) /\ len > 1
  BY <1>1
<1>5. IsFiniteSet(S) /\ Cardinality(S) = len - 1
  BY <1>4, FS_Interval
<1>6. SumFunctionOnSet(f, S) <= One * (len - 1)
  <2>1. One \in Nat /\ \A x \in S : f[x] \in Int /\ f[x] <= One
    BY <1>2, PathfinderAssumption
  <2>2. SumFunctionOnSet(f, S) <= One * Cardinality(S)
    <3> HIDE DEF S
    <3> QED
      BY <1>5, <2>1, SumAtMost
  <2>3. QED
    BY <1>5, <2>2
<1>7. SumFunctionOnSet(f, S) \in Nat
  <2> HIDE DEF S
  <2> QED
    BY <1>2, <1>5, SumNat
<1>8. SumFunctionOnSet(f, S) < Max64
  <2>1. len <= Cardinality(Assets)
    BY <1>1, <1>4, PathLength
  <2>2. PICK k \in Nat : k = Cardinality(Assets)
    BY PathfinderAssumption, FS_CardinalityType
  <2>3. One * k < Max64
    BY <2>2, PathsAreFinite
  <2>4. len <= k
    BY <2>1, <2>2
  <2>5. PICK d \in Nat : k = (len - 1) + d
    <3>1. k - (len - 1) \in Nat /\ k = (len - 1) + (k - (len - 1))
      BY <1>4, <2>4
    <3>2. QED
      BY <3>1
  <2>6. One * k = One * (len - 1) + One * d /\ One * d \in Nat /\ One * (len - 1) \in Nat
    BY <1>4, <2>5, PathfinderAssumption
  <2>7. Max64 \in Nat
    BY PathfinderAssumption
  <2>8. QED
    BY <1>6, <1>7, <2>3, <2>6, <2>7
<1>9. ASSUME NEW j \in 1..Len(p)
      PROVE  /\ SumFunctionOnSet(f, 1..j - 1) <= SumFunctionOnSet(f, S)
             /\ SumFunctionOnSet(f, 1..j - 1) \in Nat
  <2>1. 1..j - 1 \in SUBSET S
    BY <1>4
  <2>2. IsFiniteSet(1..j - 1)
    BY <1>5, <2>1, FS_Subset
  <2>3. QED
    <3> HIDE DEF S
    <3> QED
      BY <1>2, <1>5, <2>1, <2>2, SumSubset, SumNat
<1>10. QED
  BY <1>1, <1>3, <1>7, <1>8, <1>9 DEF f

\* When the search is done and a path leads to End, End has been visited, and
\* its distance is no more than the path costs: where the path first leaves the
\* visited assets, its next asset would still be waiting.
LEMMA PathBound ==
  ASSUME SearchInv, CheapInv, NonNegative, done, End \in Known, NEW p \in Paths
  PROVE  End \in visited /\ dist[End] <= PathCost(p)
<1>1. /\ p \in Seq(Assets) /\ Len(p) > 1 /\ p[1] = Start /\ p[Len(p)] = End
      /\ \A i \in 1..Len(p) - 1 : EdgesBetween(p[i], p[i + 1]) # {}
      /\ PathCost(p) \in Nat /\ PathCost(p) < Max64
      /\ \A j \in 1..Len(p) : SumFunctionOnSet(CostsOf(p), 1..j - 1) <= PathCost(p)
      /\ \A j \in 1..Len(p) : SumFunctionOnSet(CostsOf(p), 1..j - 1) \in Nat
  BY PathsCost
<1>2. PICK len \in Nat : len = Len(p) /\ len > 1
  BY <1>1
<1> DEFINE Stops == {j \in 1..len : p[j] \notin visited \/ p[j] = End}
<1>3. PICK j \in Stops : \A i \in Stops : j <= i
  <2>1. len \in Stops
    BY <1>1, <1>2
  <2>2. Stops \in SUBSET Nat /\ Stops # {}
    BY <2>1
  <2> HIDE DEF Stops
  <2>3. QED
    BY <2>2, LeastNat
<1>4. j \in 1..Len(p) /\ \A i \in 1..Len(p) : i < j => p[i] \in visited \ {End}
  <2>1. \A i \in 1..len : i < j => i \notin Stops
    BY <1>3
  <2>2. QED
    BY <1>2, <2>1
<1> DEFINE x == p[j]
<1>5. x \in Assets /\ (x \notin visited \/ x = End)
  BY <1>1, <1>2, <1>3
<1>6. Dist(x) <= PathCost(p) /\ Dist(x) \in Int
  <2>1. Dist(x) <= SumFunctionOnSet(CostsOf(p), 1..j - 1)
    BY <1>1, <1>4, PrefixBound
  <2>2. Dist(x) \in Int
    BY DEF SearchInv, SearchTypes, Dist
  <2>3. /\ SumFunctionOnSet(CostsOf(p), 1..j - 1) <= PathCost(p)
        /\ SumFunctionOnSet(CostsOf(p), 1..j - 1) \in Nat
    BY <1>1, <1>4
  <2>4. QED
    BY <1>1, <2>1, <2>2, <2>3
<1>7. x \in Known
  <2>1. CASE j = len
    BY <1>1, <1>2, <2>1
  <2>2. CASE j # len
    <3>1. j \in 1..Len(p) - 1
      BY <1>2, <1>4, <2>2
    <3>2. EdgesBetween(p[j], p[j + 1]) # {}
      BY <1>1, <3>1
    <3>3. QED
      BY <3>2, EdgeCostIsLeast DEF SearchInv
  <2>3. QED
    BY <2>1, <2>2
<1> HIDE DEF x, Stops
<1>8. DOMAIN dist = Known \cup {Start} /\ Dist(x) = dist[x]
  BY <1>7 DEF CheapInv, Dist
<1>9. Start \in visited
  <2> SUFFICES ASSUME Start \notin visited PROVE FALSE
    OBVIOUS
  <2>1. visited = {} /\ queue = {[asset |-> Start, cost |-> 0]}
    BY DEF SearchInv, FromStart
  <2>2. QED
    BY <2>1 DEF CheapInv
<1>10. CASE x \in visited
  BY <1>5, <1>6, <1>8, <1>10
<1>11. CASE x \notin visited
  <2>1. x # Start /\ dist[x] # Max64
    BY <1>1, <1>6, <1>8, <1>9, <1>11, PathfinderAssumption
  <2>2. x \in DOMAIN prev
    BY <1>7, <1>8, <2>1 DEF CheapInv
  <2>3. [asset |-> x, cost |-> dist[x]] \in queue
    BY <1>11, <2>2 DEF SearchInv, Waiting
  <2>4. End \in visited
    BY <2>3 DEF CheapInv
  <2>5. dist[End] <= dist[x]
    BY <2>3, <2>4 DEF CheapInv
  <2>6. dist[End] \in Int
    BY <1>8 DEF SearchInv, SearchTypes
  <2>7. QED
    BY <1>1, <1>6, <1>8, <2>4, <2>5, <2>6
<1>12. QED
  BY <1>10, <1>11

\* The path back from End is one of the reference's.
LEMMA FoundIsPath ==
  ASSUME SearchInv, End \in DOMAIN prev
  PROVE  Path(End) \in Paths /\ dist[End] = PathCost(Path(End))
<1> DEFINE p == Path(End)
<1>1. /\ Leads(p, End) /\ p[1] = Start /\ IsInjective(p)
      /\ Len(p) <= Cardinality(Assets) /\ Len(p) > 1
  BY PathLeads
<1> HIDE DEF p
<1>2. /\ \A i \in 1..Len(p) - 1 : EdgesBetween(p[i], p[i + 1]) # {}
      /\ dist[End] = PathCost(p)
  BY <1>1, LeadsCost
<1>3. p \in Seq(Assets) /\ p[Len(p)] = End
  BY <1>1 DEF Leads
<1>4. p \in SeqOf(Assets, Cardinality(Assets))
  <2>1. Len(p) \in 0..Cardinality(Assets) /\ p \in [1..Len(p) -> Assets]
    BY <1>1, <1>3, PathfinderAssumption, FS_CardinalityType
  <2>2. QED
    BY <2>1 DEF SeqOf
<1>5. p \in Paths
  BY <1>1, <1>2, <1>3, <1>4 DEF Paths
<1>6. QED
  BY <1>2, <1>5 DEF p

\* Without negative costs the search finds a path whenever one leads to End and
\* an edge leaves End, and the one it finds is a cheapest: for every market of
\* every size, whatever order entries of equal cost come out of the heap.
THEOREM CheapestAlwaysFound == Spec => []CheapestIsFound
<1>1. SearchInv /\ CheapInv => CheapestIsFound
  <2> SUFFICES ASSUME SearchInv, CheapInv, done, NonNegative
               PROVE  /\ End \in DOMAIN prev <=> Paths # {} /\ End \in Known
                      /\ End \in DOMAIN prev => dist[End] = Min({PathCost(p) : p \in Paths})
    BY DEF CheapestIsFound, NonNegative
  <2>1. End # Start
    BY PathfinderAssumption
  <2>2. ASSUME End \in DOMAIN prev PROVE Path(End) \in Paths /\ End \in Known
    <3>1. End \in DOMAIN dist /\ DOMAIN dist = Known \cup {Start}
      BY <2>2 DEF SearchInv, Waiting, CheapInv
    <3>2. QED
      BY <2>1, <2>2, <3>1, FoundIsPath
  <2>3. ASSUME NEW p \in Paths, End \in Known PROVE End \in DOMAIN prev
    <3>1. End \in visited
      BY <2>3, PathBound
    <3>2. QED
      BY <2>1, <3>1 DEF SearchInv, Waiting
  <2>4. ASSUME End \in DOMAIN prev PROVE dist[End] = Min({PathCost(p) : p \in Paths})
    <3> DEFINE C == {PathCost(p) : p \in Paths}
    <3>1. C \subseteq Int
      BY PathsCost
    <3>2. dist[End] \in C
      BY <2>4, FoundIsPath
    <3>3. \A c \in C : dist[End] <= c
      BY <2>2, <2>4, PathBound
    <3> HIDE DEF C
    <3>4. ASSUME NEW c \in C, \A d \in C : c <= d PROVE c = dist[End]
      <4>1. c <= dist[End] /\ dist[End] <= c
        BY <3>2, <3>3, <3>4
      <4>2. c \in Int /\ dist[End] \in Int
        BY <3>1, <3>2
      <4>3. QED
        BY <4>1, <4>2
    <3>5. Min(C) = dist[End]
      BY <3>2, <3>3, <3>4 DEF Min
    <3>6. QED
      BY <3>5 DEF C
  <2>5. QED
    BY <2>2, <2>3, <2>4
<1>2. QED
  BY <1>1, InitSearch, InitCheap, NextSearch, NextCheap, PTL DEF Spec

-----------------------------------------------------------------------------
(* The circuit breaker                                                     *)

\* Every step of the breaker keeps the types and the count of the failures.
LEMMA NextTypeOK == TypeOK /\ [BreakerNext]_breakerVars => TypeOK'
<1> SUFFICES ASSUME TypeOK, [BreakerNext]_breakerVars PROVE TypeOK'
  OBVIOUS
<1>0. /\ MaxPrices \in Nat \ {0} /\ FailureLimit \in Nat \ {0} /\ OpenFor \in Nat
      /\ CautionFor \in Nat /\ Durations \subseteq Nat
  BY BreakerAssumption
<1> USE DEF TypeOK
<1>1. ASSUME NEW price \in Prices
      PROVE  Record(price) \in Seq(Prices) /\ Len(Record(price)) <= MaxPrices
  <2> DEFINE all == Append(recentPrices, price)
  <2>1. all \in Seq(Prices) /\ Len(all) = Len(recentPrices) + 1
    BY <1>1
  <2>2. Len(all) > MaxPrices => Len(Tail(all)) = Len(all) - 1 /\ Tail(all) \in Seq(Prices)
    BY <1>0, <2>1
  <2>3. QED
    BY <1>0, <2>1, <2>2 DEF Record
<1>2. CASE CheckPrice
  <2>1. Least(streak + 1, FailureLimit) \in 0..FailureLimit
    BY <1>0 DEF Least
  <2>2. CASE StillOpen
    BY <1>2, <2>1, <2>2 DEF CheckPrice, StillOpen, caution, breaker
  <2>3. CASE Panic
    BY <1>0, <1>2, <2>3 DEF CheckPrice, Panic, caution, Tried, Counted
  <2>4. CASE Reject
    BY <1>0, <1>2, <2>1, <2>4 DEF CheckPrice, Reject, caution, Tried, Counted, ReachesLimit
  <2>5. CASE Accept
    BY <1>0, <1>1, <1>2, <2>5 DEF CheckPrice, Accept, caution, Tried, Counted
  <2>6. QED
    BY <1>2, <2>2, <2>3, <2>4, <2>5 DEF CheckPrice
<1>3. CASE FireTimer
  <2>1. PICK i \in DOMAIN timers : timers' = RemoveAt(timers, i)
    BY <1>3 DEF FireTimer, OneFires
  <2>2. i \in 1..Len(timers) /\ Len(timers) \in Nat
    BY <2>1
  <2>3. SubSeq(timers, 1, i - 1) \in Seq(Nat) /\ SubSeq(timers, i + 1, Len(timers)) \in Seq(Nat)
    BY <2>2
  <2>4. \A s, u \in Seq(Nat) : s \o u \in Seq(Nat)
    OBVIOUS
  <2>6. timers' = SubSeq(timers, 1, i - 1) \o SubSeq(timers, i + 1, Len(timers))
    BY <2>1, Zenon DEF RemoveAt
  <2>7. timers' \in Seq(Nat)
    BY <2>3, <2>4, <2>6, Zenon
  <2>5. QED
    BY <1>3, <2>7 DEF FireTimer, breaker
<1>4. CASE Restart
  BY <1>0, <1>4 DEF Restart
<1>5. CASE Tick
  <2>1. Least(sinceOpened + 1, OpenFor + 1) \in 0..OpenFor + 1
    BY <1>0 DEF Least
  <2>2. \A n \in Nat : Minus1(n) \in Nat
    BY DEF Minus1
  <2>3. timers' \in Seq(Nat)
    <3>1. timers' = [i \in 1..Len(timers) |-> Minus1(timers[i])] /\ Len(timers) \in Nat
      BY <1>5 DEF Tick
    <3>2. \A i \in 1..Len(timers) : timers[i] \in Nat
      OBVIOUS
    <3>3. \A i \in 1..Len(timers) : Minus1(timers[i]) \in Nat
      BY <2>2, <3>2, Zenon
    <3>4. timers' \in [1..Len(timers) -> Nat]
      BY <3>1, <3>3
    <3>5. \A n \in Nat : \A s \in [1..n -> Nat] : s \in Seq(Nat)
      OBVIOUS
    <3>6. QED
      BY <3>1, <3>4, <3>5
  <2>4. QED
    BY <1>5, <2>1, <2>2, <2>3 DEF Tick
<1>6. ASSUME NEW price \in Prices, Move(price) PROVE TypeOK'
  BY <1>6 DEF Move, breaker, caution
<1>7. ASSUME NEW price \in Prices, RecordTrade(price) PROVE TypeOK'
  BY <1>1, <1>7 DEF RecordTrade, caution
<1>8. ASSUME NEW d \in Durations, EnableCautionMode(d) PROVE TypeOK'
  BY <1>0, <1>8 DEF EnableCautionMode, breaker
<1>9. CASE UNCHANGED breakerVars
  BY <1>9 DEF breakerVars, breaker, caution
<1>10. QED
  BY <1>2, <1>3, <1>4, <1>5, <1>6, <1>7, <1>8, <1>9 DEF BreakerNext, Service

\* A new breaker is closed and has seen no price.
LEMMA InitTypeOK == BreakerInit => TypeOK
<1> SUFFICES ASSUME BreakerInit PROVE TypeOK
  OBVIOUS
<1>1. /\ MaxPrices \in Nat \ {0} /\ FailureLimit \in Nat \ {0} /\ OpenFor \in Nat
      /\ CautionFor \in Nat
  BY BreakerAssumption
<1>2. <<>> \in Seq(Prices) /\ Len(<<>>) = 0
  OBVIOUS
<1>3. recentPrices \in Seq(Prices) /\ Len(recentPrices) <= MaxPrices
  BY <1>1, <1>2 DEF BreakerInit
<1>4. cautionMode \in BOOLEAN /\ panicked \in BOOLEAN
  BY Zenon DEF BreakerInit
<1>5. /\ failures \in 0..FailureLimit /\ (failures = FailureLimit <=> state = "open")
      /\ streak \in 0..FailureLimit
  BY <1>1 DEF BreakerInit
<1>6. sinceOpened \in 0..OpenFor + 1 /\ cautionLeft \in Nat /\ timers \in Seq(Nat)
  BY <1>1 DEF BreakerInit
<1>7. state \in {"closed", "open", "half-open"} /\ market \in Prices
  BY DEF BreakerInit
<1>8. QED
  BY <1>3, <1>4, <1>5, <1>6, <1>7 DEF TypeOK

\* The breaker is open exactly when as many prices were rejected as the limit
\* says, never more, and the window of prices never outgrows its maximum.
THEOREM BreakerTypeCorrect == BreakerSpec => []TypeOK
<1>1. QED
  BY InitTypeOK, NextTypeOK, PTL DEF BreakerSpec

\* The caution mode is never on without a timer that will end it, whatever
\* calls of EnableCautionMode overlap.
THEOREM CautionAlwaysEnds == BreakerSpec => []CautionEnds
<1>1. BreakerInit => CautionEnds
  BY DEF BreakerInit, CautionEnds, Range
<1>2. TypeOK /\ CautionEnds /\ [BreakerNext]_breakerVars => CautionEnds'
  <2> SUFFICES ASSUME TypeOK, CautionEnds, [BreakerNext]_breakerVars PROVE CautionEnds'
    OBVIOUS
  <2>1. CASE UNCHANGED caution
    BY <2>1 DEF CautionEnds, caution
  <2>2. CASE FireTimer \/ Restart
    BY <2>2 DEF CautionEnds, FireTimer, Restart, Range
  <2>3. CASE Tick
    BY <2>3 DEF CautionEnds, Tick, Range
  <2>5. ASSUME NEW d \in Durations, EnableCautionMode(d) PROVE CautionEnds'
    <3>1. timers' = Append(timers, d) /\ timers \in Seq(Nat) /\ d \in Nat /\ cautionLeft' = d
      BY <2>5, BreakerAssumption DEF EnableCautionMode, TypeOK
    <3>2. Len(timers) + 1 \in DOMAIN timers' /\ timers'[Len(timers) + 1] = d
      BY <3>1
    <3>3. QED
      BY <3>1, <3>2 DEF CautionEnds, Range
  <2>4. QED
    BY <2>1, <2>2, <2>3, <2>5 DEF BreakerNext, Service, CheckPrice, Move, RecordTrade, breakerVars, caution
<1>3. QED
  BY <1>1, <1>2, InitTypeOK, NextTypeOK, PTL DEF BreakerSpec

-----------------------------------------------------------------------------
\* The normal threshold is below 100 %, as DefaultThreshold, 5 %, is.
ThresholdBelowWhole == 2 * Threshold < 1000

\* The sum of the prices in a window is a natural number, zero only if all of
\* them are.
LEMMA TotalFacts ==
  ASSUME TypeOK
  PROVE  /\ Total \in Nat
         /\ \A i \in 1..Len(recentPrices) : recentPrices[i] > 0 => Total > 0
         /\ recentPrices = <<>> => Total = 0
<1>1. IsFiniteSet(1..Len(recentPrices)) /\ DOMAIN recentPrices = 1..Len(recentPrices)
  BY FS_Interval DEF TypeOK
<1>2. \A i \in 1..Len(recentPrices) : recentPrices[i] \in Nat
  <2>1. recentPrices \in Seq(Prices) /\ Prices \subseteq Nat
    BY BreakerAssumption DEF TypeOK
  <2>2. \A i \in 1..Len(recentPrices) : recentPrices[i] \in Prices
    BY <2>1
  <2>3. QED
    BY <2>1, <2>2
<1>3. Total = SumFunctionOnSet(recentPrices, 1..Len(recentPrices))
  BY <1>1 DEF Total, SumFunction
<1>4. Total \in Nat
  BY <1>1, <1>2, <1>3, SumNat
<1>5. ASSUME NEW i \in 1..Len(recentPrices), recentPrices[i] > 0 PROVE Total > 0
  <2> DEFINE others == (1..Len(recentPrices)) \ {i}
  <2>1. Total = recentPrices[i] + SumFunctionOnSet(recentPrices, others)
    BY <1>1, <1>2, <1>3, SumRemove
  <2>2. SumFunctionOnSet(recentPrices, others) \in Nat
    BY <1>1, <1>2, FS_RemoveElement, SumNat
  <2>3. QED
    BY <1>2, <1>5, <2>1, <2>2
<1>6. recentPrices = <<>> => Total = 0
  BY <1>1, <1>3, SumEmpty
<1>7. QED
  BY <1>4, <1>5, <1>6

\* A part of less than one is less than the whole.
LEMMA PartIsLess ==
  ASSUME NEW limit \in Nat, NEW total \in Nat, limit < 1000, total > 0
  PROVE  limit * total < 1000 * total
<1>1. PICK rest \in Nat : rest > 0 /\ 1000 = limit + rest
  <2>1. 1000 - limit \in Nat /\ 1000 - limit > 0 /\ 1000 = limit + (1000 - limit)
    OBVIOUS
  <2>2. QED
    BY <2>1
<1>2. 1000 * total = limit * total + rest * total
  BY <1>1
<1>3. rest * total > 0
  BY <1>1
<1>4. limit * total \in Nat
  OBVIOUS
<1>5. QED
  BY <1>2, <1>3, <1>4

\* A price of zero deviates from every positive average.
LEMMA AcceptedIsPositive ==
  ASSUME TypeOK, ThresholdBelowWhole, Total > 0, ~Deviates(market, Limit)
  PROVE  market > 0
<1>1. market \in Nat /\ Total \in Nat /\ Threshold \in Nat
  BY TotalFacts, BreakerAssumption DEF TypeOK
<1>2. Limit \in Nat /\ Limit < 1000
  BY <1>1 DEF Limit, ThresholdBelowWhole
<1>3. Limit * Total < 1000 * Total /\ Limit * Total \in Nat
  BY <1>1, <1>2, PartIsLess
<1>4. CASE market = 0
  <2>1. Off(market) = -Total
    BY <1>1, <1>4 DEF Off, TypeOK
  <2>2. 1000 * Off(market) < -(Limit * Total)
    BY <1>1, <1>3, <2>1
  <2>3. QED
    BY <2>2 DEF Deviates
<1>5. QED
  BY <1>1, <1>4

\* The window after a price has been recorded ends with that price.
LEMMA RecordEndsWith ==
  ASSUME TypeOK, NEW price \in Prices
  PROVE  /\ Record(price) \in Seq(Prices) /\ Record(price) # <<>>
         /\ Record(price)[Len(Record(price))] = price
<1> DEFINE all == Append(recentPrices, price)
<1>1. /\ all \in Seq(Prices) /\ Len(all) = Len(recentPrices) + 1 /\ all[Len(all)] = price
      /\ Len(recentPrices) \in Nat
  BY DEF TypeOK
<1>2. MaxPrices \in Nat \ {0}
  BY BreakerAssumption
<1>3. CASE Len(all) > MaxPrices
  <2> HIDE DEF all
  <2>1. /\ Tail(all) \in Seq(Prices) /\ Len(Tail(all)) = Len(all) - 1
        /\ \A i \in 1..Len(all) - 1 : Tail(all)[i] = all[i + 1]
    BY <1>1, <1>2, <1>3
  <2>2. Len(all) - 1 \in 1..Len(all) - 1
    BY <1>1, <1>2, <1>3
  <2>3. Tail(all)[Len(all) - 1] = all[Len(all)]
    BY <1>1, <2>1, <2>2
  <2>4. Record(price) = Tail(all)
    BY <1>3 DEF Record, all
  <2>5. QED
    BY <1>1, <2>1, <2>2, <2>3, <2>4
<1>4. CASE ~(Len(all) > MaxPrices)
  BY <1>1, <1>4 DEF Record
<1>5. QED
  BY <1>3, <1>4

\* No sequence of quotes brings the average back to zero, so CheckPrice does
\* not divide by zero after it has once accepted a price above zero.
THEOREM AverageAlwaysStaysPositive ==
  ASSUME ThresholdBelowWhole
  PROVE  BreakerSpec => AverageStaysPositive
<1>1. TypeOK /\ [BreakerNext]_breakerVars => [CheckPrice /\ Total > 0 => Total' > 0]_breakerVars
  <2> SUFFICES ASSUME TypeOK, [BreakerNext]_breakerVars, CheckPrice, Total > 0 PROVE Total' > 0
    OBVIOUS
  <2>0. TypeOK'
    BY NextTypeOK
  <2>1. CASE UNCHANGED recentPrices
    BY <2>1 DEF Total
  <2>2. CASE Accept
    <3>1. recentPrices # <<>>
      BY TotalFacts
    <3>2. ~Deviates(market, Limit) /\ recentPrices' = Record(market)
      BY <2>2, <3>1 DEF Accept
    <3>3. market \in Prices /\ market > 0
      BY <3>2, AcceptedIsPositive DEF TypeOK
    <3>4. /\ recentPrices' \in Seq(Prices) /\ recentPrices' # <<>>
          /\ recentPrices'[Len(recentPrices')] = market
      BY <3>2, <3>3, RecordEndsWith
    <3>5. Len(recentPrices') \in 1..Len(recentPrices')
      BY <3>4
    <3>6. (\A i \in 1..Len(recentPrices) : recentPrices[i] > 0 => Total > 0)'
      BY <2>0, TotalFacts, PTL
    <3>7. QED
      BY <3>3, <3>4, <3>5, <3>6
  <2>3. QED
    BY <2>1, <2>2 DEF CheckPrice, StillOpen, Panic, Reject, breaker
<1>2. QED
  BY <1>1, InitTypeOK, NextTypeOK, PTL DEF BreakerSpec, AverageStaysPositive
=============================================================================
