------------------------------ MODULE MCNearest ------------------------------
(***************************************************************************)
(* The lists of findNearby against their description as sets, on every     *)
(* fleet of four drivers at three distances with every choice of stale and *)
(* tried ones.  A limit of 1 lets one driver stay out of sight.            *)
(***************************************************************************)
EXTENDS NearestDriver

Fleet == 1..4
Away == [Fleet -> 1..3]

\* The loop of findNearby returns exactly what IsFound allows, and the driver
\* dispatch then picks is a nearest untried one of them.
ASSUME ListsAgree ==
    \A dist \in Away, radius \in {2, 3}, fresh \in SUBSET Fleet, limit \in 1..2 :
        LET reach == InReach(Fleet, dist, radius)
            lists == {FindNearby(raw, fresh, limit) : raw \in Searches(reach, 3 * limit, dist)}
        IN  /\ {Range(s) : s \in lists} =
                    {found \in SUBSET reach : IsFound(found, reach, fresh, dist, limit)}
            /\ \A s \in lists : \A tried \in SUBSET Fleet :
                /\ FirstUntried(s, tried) = {} <=> Range(s) \subseteq tried
                /\ \A d \in FirstUntried(s, tried) : IsChoice(d, Range(s), tried, dist)
=============================================================================
