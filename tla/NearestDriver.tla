---------------------------- MODULE NearestDriver ----------------------------
(***************************************************************************)
(* findNearby (geo.service.js) and the choice dispatch makes from its      *)
(* result, with the distances that Dispatch leaves out.  dist[d] is the    *)
(* distance of driver d from the pickup; ties may come in any order.       *)
(***************************************************************************)
EXTENDS Naturals, FiniteSets, Sequences, Functions

InReach(pool, dist, radius) == {d \in pool : dist[d] <= radius}

\* T is what "nearest n of S" may return.
IsClosest(T, S, n, dist) ==
    /\ T \subseteq S
    /\ Cardinality(T) <= n
    /\ Cardinality(T) < n => T = S
    /\ \A d \in T : \A e \in S \ T : dist[d] <= dist[e]

\* What findNearby may find among the members in reach: GEOSEARCH looks at the
\* nearest 3 * limit, and of those the nearest fresh ones are returned.
IsFound(found, reach, fresh, dist, limit) ==
    \E raw \in SUBSET reach :
        /\ IsClosest(raw, reach, 3 * limit, dist)
        /\ IsClosest(found, raw \cap fresh, limit, dist)

\* candidates.find((c) => !tried.has(c.driverId)).
IsChoice(d, found, tried, dist) ==
    /\ d \in found \ tried
    /\ \A e \in found \ tried : dist[d] <= dist[e]

----------------------------------------------------------------------------
(* The same as the code runs it, on lists.                                  *)

\* GEOSEARCH ... ASC COUNT n: every list it may return.
Searches(reach, n, dist) ==
    LET size == IF Cardinality(reach) < n THEN Cardinality(reach) ELSE n
    IN  {s \in [1..size -> reach] :
            /\ IsClosest(Range(s), reach, n, dist)
            /\ \A i \in 1..size : \A j \in 1..(i - 1) :
                s[i] # s[j] /\ dist[s[j]] <= dist[s[i]]}

\* The loop over the raw list: stale drivers are skipped, and it stops at limit.
FindNearby(raw, fresh, limit) ==
    LET kept == SelectSeq(raw, LAMBDA d : d \in fresh)
    IN  SubSeq(kept, 1, IF Len(kept) < limit THEN Len(kept) ELSE limit)

\* The first of the list not tried yet, as a set of one or none.
FirstUntried(found, tried) ==
    {found[i] : i \in {i \in DOMAIN found :
        found[i] \notin tried /\ \A j \in 1..(i - 1) : found[j] \in tried}}
=============================================================================
