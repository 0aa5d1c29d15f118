------------------------------ MODULE MCTracking ------------------------------
(***************************************************************************)
(* Small instances of Tracking for TLC.                                    *)
(***************************************************************************)
EXTENDS Guarantees, TLC

CONSTANTS r1, r2, r3, d1, d2, u1, u2, u3

\* Every ride has a rider of its own, or one rider asks again and again.
OwnRiders == (r1 :> u1) @@ (r2 :> u2) @@ (r3 :> u3)
RidersOfRides == [r \in Rides |-> OwnRiders[r]]
OneRider == [r \in Rides |-> u1]

\* Sound for both: renaming the rides renames their riders, or changes none.
Symmetry == Permutations(Drivers) \cup Permutations(Rides)

----------------------------------------------------------------------------
(* What the environment may do.                                             *)

JustAccept == {}
Trips == {"start", "cancel"}
Contention == {"start", "cancel", "reject", "late", "drop"}
Shifts == {"reject", "late", "drop", "toggle", "age"}
LateOrGone == {"cancel", "late"}
FlushedTrips == {"start", "cancel", "late", "flushUp"}
Toggles == {"toggle", "reject"}
LateAnswers == {"late"}
=============================================================================
