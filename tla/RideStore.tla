------------------------------ MODULE RideStore ------------------------------
(***************************************************************************)
(* Postgres: the tables rides and ride_offers with the two partial unique  *)
(* indexes of db/schema.sql.  Every operator below that primes a variable  *)
(* is one SQL statement (or one transaction) and is atomic; it says what   *)
(* happens to all of storeVars.                                            *)
(***************************************************************************)
EXTENDS Integers, FiniteSets

CONSTANTS
    Rides,      \* ride ids that requests may create, each at most once
    Drivers,    \* driver ids
    Riders,     \* user ids of riders
    RiderOf,    \* rides.rider_id: the rider who asks for each ride
    NoDriver    \* rides.driver_id IS NULL

ASSUME RiderOfAssumption == RiderOf \in [Rides -> Riders]
ASSUME NoDriverAssumption == NoDriver \notin Drivers
ASSUME FiniteAssumption == IsFiniteSet(Rides) /\ IsFiniteSet(Drivers)

VARIABLES
    status,     \* rides.status, or "absent" before the INSERT
    driverOf,   \* rides.driver_id
    offers      \* ride_offers.response of the row for (ride, driver)

storeVars == <<status, driverOf, offers>>

Status == {"absent", "requested", "matched", "in_progress",
           "completed", "cancelled", "no_drivers"}

\* The predicate of rides_one_active_per_driver.
Live == {"matched", "in_progress"}

\* The predicate of rides_one_active_per_rider.
Open == {"requested"} \cup Live

\* "none": no row; "pending": response IS NULL.
Response == {"none", "pending", "accepted", "rejected", "timeout", "lock_failed"}

StoreType ==
    /\ status \in [Rides -> Status]
    /\ driverOf \in [Rides -> Drivers \cup {NoDriver}]
    /\ offers \in [Rides -> [Drivers -> Response]]

StoreInit ==
    /\ status = [r \in Rides |-> "absent"]
    /\ driverOf = [r \in Rides |-> NoDriver]
    /\ offers = [r \in Rides |-> [d \in Drivers |-> "none"]]

LiveRidesOf(d) == {r \in Rides : driverOf[r] = d /\ status[r] \in Live}

OpenRidesOf(u) == {r \in Rides : RiderOf[r] = u /\ status[r] \in Open}

\* Deviation for a mutant: no rides_one_active_per_rider.
InsertRideUnchecked(r) ==
    /\ status[r] = "absent"
    /\ status' = [status EXCEPT ![r] = "requested"]
    /\ UNCHANGED <<driverOf, offers>>

\* INSERT INTO rides: refused by the index while the rider has an open ride.
InsertRide(r) ==
    /\ status[r] = "absent"
    /\ OpenRidesOf(RiderOf[r]) = {}
    /\ status' = [status EXCEPT ![r] = "requested"]
    /\ UNCHANGED <<driverOf, offers>>

\* Deviation for a mutant: no rides_one_active_per_driver.
CanMatchUnindexed(r, d) == status[r] = "requested"

\* The conditional UPDATE of confirmMatch applies to the row of r ...
CanMatch(r, d) == status[r] = "requested" /\ LiveRidesOf(d) = {}

\* ... and commits.
MatchRide(r, d) ==
    /\ CanMatch(r, d)
    /\ status' = [status EXCEPT ![r] = "matched"]
    /\ driverOf' = [driverOf EXCEPT ![r] = d]
    /\ UNCHANGED offers

\* UPDATE rides SET status = new WHERE id = r AND status IN from: one row ...
MoveRide(r, from, new) ==
    /\ status[r] \in from
    /\ status' = [status EXCEPT ![r] = new]
    /\ UNCHANGED <<driverOf, offers>>

\* ... or, where the caller goes on with zero rows, none.
MoveRideIfStill(r, from, new) ==
    /\ status' = [status EXCEPT ![r] = IF @ \in from THEN new ELSE @]
    /\ UNCHANGED <<driverOf, offers>>

\* recordOffer and closeOffer: write the response of the row for r and d.
WriteOffer(r, d, response) ==
    /\ offers' = [offers EXCEPT ![r][d] = response]
    /\ UNCHANGED <<status, driverOf>>
=============================================================================
