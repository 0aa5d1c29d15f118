---------------------------- MODULE NearestProofs ----------------------------
(***************************************************************************)
(* The search as Dispatch models it, without distances, against the search *)
(* as geo.service.js runs it, for every fleet and every budget.            *)
(***************************************************************************)
EXTENDS Dispatch, NearestDriver, FiniteSetTheorems, TLAPS

Fresh == {d \in Drivers : meta[d] = "fresh"}

LEMMA NearbyIsFresh ==
    ASSUME RedisType
    PROVE  Nearby = geo \cap Fresh
BY DEF RedisType, Nearby, Fresh

\* What is found is fresh and in reach.
LEMMA FoundAreFresh ==
    ASSUME NEW found, NEW reach, NEW fresh, NEW dist, NEW limit,
           IsFound(found, reach, fresh, dist, limit)
    PROVE  found \subseteq reach \cap fresh
BY DEF IsFound, IsClosest

\* findNearby and candidates.find: the driver dispatch picks is the nearest of
\* all the fresh drivers in reach it has not tried, not only of those found.
THEOREM NearestIsChosen ==
    ASSUME NEW reach, NEW fresh, NEW tries, NEW dist \in [reach -> Nat], NEW limit,
           NEW found, IsFound(found, reach, fresh, dist, limit),
           NEW d, IsChoice(d, found, tries, dist)
    PROVE  /\ d \in (reach \cap fresh) \ tries
           /\ \A e \in (reach \cap fresh) \ tries : dist[d] <= dist[e]
<1>1. PICK raw \in SUBSET reach :
        IsClosest(raw, reach, 3 * limit, dist) /\ IsClosest(found, raw \cap fresh, limit, dist)
  BY DEF IsFound
<1>2. d \in found \ tries /\ found \subseteq raw \cap fresh /\ raw \subseteq reach
  BY <1>1 DEF IsChoice, IsClosest
<1>3. ASSUME NEW e \in (reach \cap fresh) \ tries
      PROVE  dist[d] <= dist[e]
  <2>1. CASE e \notin raw
    BY <1>1, <1>2, <1>3, <2>1 DEF IsClosest
  <2>2. CASE e \in raw /\ e \notin found
    BY <1>1, <1>2, <1>3, <2>2 DEF IsClosest
  <2>3. CASE e \in found
    BY <1>3, <2>3 DEF IsChoice
  <2> QED
    BY <2>1, <2>2, <2>3
<1> QED
  BY <1>2, <1>3

\* A search asks for more drivers than have been tried.  If it finds none that
\* is new, there is none, or three times as many as it asks for stand in front.
LEMMA NothingNew ==
    ASSUME NEW reach, IsFiniteSet(reach), NEW fresh, NEW tries, IsFiniteSet(tries),
           NEW dist, NEW limit \in Nat, Cardinality(tries) < limit,
           NEW found, IsFound(found, reach, fresh, dist, limit),
           found \subseteq tries
    PROVE  \/ (reach \cap fresh) \ tries = {}
           \/ Cardinality(reach \ ((reach \cap fresh) \ tries)) >= 3 * limit
<1>1. PICK raw \in SUBSET reach :
        IsClosest(raw, reach, 3 * limit, dist) /\ IsClosest(found, raw \cap fresh, limit, dist)
  BY DEF IsFound
<1>2. Cardinality(found) < limit
  <2>1. IsFiniteSet(found) /\ Cardinality(found) <= Cardinality(tries)
    BY FS_Subset
  <2>2. Cardinality(found) \in Nat /\ Cardinality(tries) \in Nat
    BY <2>1, FS_CardinalityType
  <2> QED
    BY <2>1, <2>2
<1>3. raw \cap fresh \subseteq tries
  BY <1>1, <1>2 DEF IsClosest
<1>4. CASE raw = reach
  BY <1>3, <1>4
<1>5. CASE raw # reach
  <2> DEFINE front == reach \ ((reach \cap fresh) \ tries)
  <2>1. IsFiniteSet(raw) /\ IsFiniteSet(front)
    BY <1>1, FS_Subset
  <2>2. raw \subseteq front
    BY <1>1, <1>3
  <2>3. Cardinality(raw) <= Cardinality(front)
    BY <2>1, <2>2, FS_Subset
  <2>4. Cardinality(raw) \in Nat /\ Cardinality(front) \in Nat
    BY <2>1, FS_CardinalityType
  <2>5. Cardinality(raw) <= 3 * limit /\ ~(Cardinality(raw) < 3 * limit)
    BY <1>1, <1>5 DEF IsClosest
  <2> QED
    BY <2>3, <2>4, <2>5
<1> QED
  BY <1>4, <1>5

\* Whatever the distances, Dispatch allows what a search of findNearby leads
\* to: a driver it finds is a candidate of PickCandidate, and when it finds
\* none that is new the guard of RunOut holds.
THEOREM SearchIsAllowed ==
    ASSUME RedisType, DispatchType, NEW r \in Rides, NEW dist,
           NEW found, IsFound(found, geo, Fresh, dist, Cardinality(tried[r]) + Slack)
    PROVE  /\ found \ tried[r] \subseteq Candidates(r)
           /\ found \subseteq tried[r] => Candidates(r) = {} \/ AllHidden(r)
<1>1. Candidates(r) = (geo \cap Fresh) \ tried[r]
  BY NearbyIsFresh DEF Candidates
<1>2. found \subseteq geo \cap Fresh
  BY FoundAreFresh
<1>3. IsFiniteSet(geo) /\ IsFiniteSet(tried[r])
  <2>1. geo \subseteq Drivers /\ tried[r] \subseteq Drivers
    BY DEF RedisType, DispatchType
  <2> QED
    BY <2>1, FiniteAssumption, FS_Subset
<1>4. Cardinality(tried[r]) \in Nat /\ Slack \in Nat \ {0}
  BY <1>3, FS_CardinalityType, BudgetAssumption
<1>5. ASSUME found \subseteq tried[r]
      PROVE  Candidates(r) = {} \/ AllHidden(r)
  <2> DEFINE limit == Cardinality(tried[r]) + Slack
  <2>1. limit \in Nat /\ Cardinality(tried[r]) < limit
    BY <1>4
  <2>2. \/ (geo \cap Fresh) \ tried[r] = {}
        \/ Cardinality(geo \ ((geo \cap Fresh) \ tried[r])) >= 3 * limit
    <3> HIDE DEF limit
    <3> QED
      BY <1>3, <1>5, <2>1, NothingNew DEF limit
  <2> QED
    BY <1>1, <2>2 DEF AllHidden
<1> QED
  BY <1>1, <1>2, <1>5

\* The check of sim/verify-nearby.js, "membership matches brute force": a fleet
\* that is fresh and no larger than the limit is found whole.
THEOREM SmallFleetIsFoundWhole ==
    ASSUME NEW pool, IsFiniteSet(pool), NEW dist, NEW radius, NEW limit \in Nat,
           Cardinality(InReach(pool, dist, radius)) <= limit,
           NEW found, IsFound(found, InReach(pool, dist, radius), pool, dist, limit)
    PROVE  found = {d \in pool : dist[d] <= radius}
<1> DEFINE reach == InReach(pool, dist, radius)
<1>1. IsFiniteSet(reach) /\ reach \subseteq pool
  BY FS_Subset DEF InReach
<1>2. PICK raw \in SUBSET reach :
        IsClosest(raw, reach, 3 * limit, dist) /\ IsClosest(found, raw \cap pool, limit, dist)
  BY DEF IsFound
<1>3. ASSUME NEW T, NEW S, T \subseteq S, S \subseteq reach, NEW n \in Nat, limit <= n,
             IsClosest(T, S, n, dist)
      PROVE  T = S
  <2>1. IsFiniteSet(S) /\ IsFiniteSet(T)
    BY <1>1, <1>3, FS_Subset
  <2>2. CASE Cardinality(T) < n
    BY <1>3, <2>2 DEF IsClosest
  <2>3. CASE ~(Cardinality(T) < n)
    <3>1. Cardinality(T) <= Cardinality(S) /\ Cardinality(S) <= Cardinality(reach)
      BY <1>1, <1>3, <2>1, FS_Subset
    <3>2. Cardinality(T) \in Nat /\ Cardinality(S) \in Nat /\ Cardinality(reach) \in Nat
      BY <1>1, <2>1, FS_CardinalityType
    <3>3. Cardinality(T) = Cardinality(S)
      BY <1>3, <2>3, <3>1, <3>2
    <3> QED
      BY <1>3, <2>1, <3>3, FS_Subset
  <2> QED
    BY <2>2, <2>3
<1>4. raw = reach
  BY <1>2, <1>3
<1>5. found = reach
  BY <1>1, <1>2, <1>3, <1>4 DEF IsClosest
<1> QED
  BY <1>5 DEF InReach
=============================================================================
