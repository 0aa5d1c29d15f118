------------------------------ MODULE Guarantees ------------------------------
(***************************************************************************)
(* What the server must guarantee, stated over the state of Tracking.      *)
(***************************************************************************)
EXTENDS Tracking

Closed == {"completed", "cancelled", "no_drivers"}

\* The driver has been claimed for r and the outcome is still open.
Claiming == {"zrem", "claimed", "send"} \cup Waiting \cup {"accepted", "commit"}

----------------------------------------------------------------------------
(* Bookings.                                                                *)

\* The booking rules of Booking.tla, read off the tables of Postgres.
Bookings == INSTANCE Booking WITH
    phase <- status,
    accepted <- {p \in Rides \X Drivers : offers[p[1]][p[2]] = "accepted"},
    serving <- [d \in Drivers |-> LiveRidesOf(d)]

\* Whatever happens to Redis, to sockets or to the process, the tables move
\* only as the booking rules allow (matching, ride service, schema.sql).
FollowsBookingRules == Bookings!Spec

\* The rules of Engagement.tla, read off the loops and the tables.
Engagements == INSTANCE Engagement WITH
    asks <- [r \in Rides |-> IF pc[r] \in Claiming THEN cand[r] ELSE NoDriver],
    booked <- driverOf,
    live <- {r \in Rides : status[r] \in Live},
    slipped <- loose

\* From the claim to the end of the trip a driver is engaged by one ride, which
\* lets go of him before another asks, also across a crash and a loss of Redis
\* (lock.service.js, and reconcile in matching.service.js).  Only a hold that
\* came loose before the PERSIST, or with Redis, no longer counts.
EngagedByOne == Engagements!Spec

\* No driver is on two live rides (rides_one_active_per_driver).
NoDoubleBooking ==
    \A d \in Drivers : \A r, s \in LiveRidesOf(d) : r = s

\* Whoever holds a claim holds it on a driver without a live ride, so the index
\* is a backstop that never fires, unless the hold of one of the two rides came
\* loose: the TTL runs from the claim, the wait of the same length from the
\* offer, and HoldForRide may find the lock gone.
ClaimedIsFree ==
    \A r \in Rides : pc[r] \in Claiming => \A s \in LiveRidesOf(cand[r]) :
        {<<r, cand[r]>>, <<s, cand[r]>>} \cap loose # {}

\* Two rides hold the same driver between claim and commit only if the hold of
\* one of them came loose: nothing but the TTL, a flush or a crash ends the
\* exclusive window in which a human looks at an offer.
OfferExclusive ==
    \A r, s \in Rides :
        pc[r] \in Claiming /\ pc[s] \in Claiming /\ cand[r] = cand[s] /\ r # s =>
            {<<r, cand[r]>>, <<s, cand[r]>>} \cap loose # {}

\* No rider has two open rides (rides_one_active_per_rider), also when he asks
\* again because a reply was lost or an old timer cleared his page.
OneOpenRide ==
    \A u \in Riders : \A r, s \in OpenRidesOf(u) : r = s

\* A ride is booked on a driver only after that driver's own yes is on record.
BookedOnlyByAccept ==
    \A r \in Rides : driverOf[r] # NoDriver => offers[r][driverOf[r]] = "accepted"

----------------------------------------------------------------------------
(* Redis against Postgres.                                                  *)

\* A locked driver is not in the pool, except for the moment between the SET
\* NX and the ZREM of the ride that is claiming him: findNearby never has to
\* filter out busy drivers (geo.service.js, updateDriverPosition).
PoolExcludesLocked ==
    up => \A d \in geo : lock[d] # NoRide =>
            \E r \in Rides : pc[r] = "zrem" /\ cand[r] = d

\* Somebody is still at work on d, or has done all he does: a match that was
\* refused unlocks the driver only, and one whose hold is gone leaves no lock.
PoolIsDue(d) == \E r \in Rides :
    \/ cand[r] = d /\ pc[r] \notin {"claim", "lost", "absentRecord"}
    \/ offers[r][d] = "accepted" /\ driverOf[r] # d
    \/ /\ driverOf[r] = d
       /\ \/ closing[r] \in {"unlock", "ptr", "dropFirst", "pool"}
          \/ status[r] \in Live /\ <<r, d>> \in loose

\* A driver on duty whom nobody holds is in the pool without having to ping:
\* where a loop or handler finds him locked by another and leaves him out, that
\* other puts him back (updatePosition after every unlock, while no call fails
\* and nobody goes off duty: who comes back on duty may have to ping first).
FreeIsPooled ==
    crashes = 0 /\ faults = 0 /\ ~May("toggle") =>
        \A d \in Drivers \ geo : lock[d] = NoRide /\ meta[d] = "fresh" => PoolIsDue(d)

\* Once its loop is past the PERSIST, a live ride owns its driver's lock for
\* good unless its hold had come loose, and every live ride does after a restart
\* (holdForRide, reconcileLiveRides).
LiveRideGuarded ==
    up => \A r \in Rides : status[r] \in Live /\ pc[r] # "hold" =>
            \/ lock[driverOf[r]] = r /\ driverOf[r] \in held
            \/ <<r, driverOf[r]>> \in loose

\* A lock without a TTL belongs to a live ride of that driver, or to one
\* whose closing handler is about to release it: none leaks without a crash.
HeldLockJustified ==
    crashes = 0 => \A d \in held : \E r \in Rides :
        /\ lock[d] = r
        /\ driverOf[r] = d
        /\ status[r] \in Live \/ closing[r] = "unlock"

\* No loop or handler of one ride takes the lock of another away: an unlock
\* that comes late, after the lock lapsed and was claimed anew, does nothing.
UnlockOnlyByOwner ==
    [][\A d \in Drivers : \A r, s \in Rides :
        lock[d] = r /\ lock'[d] # r /\ s # r => pc'[s] = pc[s] /\ closing'[s] = closing[s]]_vars

\* driver:ride points only at rides booked on that driver, so his position is
\* never relayed to a stranger (relayToRider).
PointerOwned ==
    \A d \in Drivers : ptr[d] # NoRide => driverOf[ptr[d]] = d

\* When no loop and no handler is at work, the lock of every driver names his
\* live ride, and is free if he has none (load test, assertion 5).  What may
\* remain otherwise is a live ride whose hold came loose, or the lock that a
\* loop cut short has left: with a TTL, unless a crash cut short a release.
Quiescent == \A r \in Rides :
    pc[r] \in {"off", "over"} /\ closing[r] = "none"

StoresAgree ==
    up /\ Quiescent => \A d \in Drivers :
        \/ LiveRidesOf(d) = IF lock[d] = NoRide THEN {} ELSE {lock[d]}
        \/ \E r \in LiveRidesOf(d) : <<r, d>> \in loose
        \/ LiveRidesOf(d) = {} /\ (crashes > 0 \/ (faults > 0 /\ d \notin held))

----------------------------------------------------------------------------
(* Dispatch outcomes.                                                       *)

\* The rider is not told that there is no driver while one is coming.
ToldTruth ==
    \A r \in Rides : shown[r] = "no_drivers" => status[r] \in {"no_drivers", "cancelled"}

\* When drivers say yes to whatever they are offered, a surplus of requests
\* uses every driver and a surplus of drivers serves every request (load test,
\* assertion 7): losing a claim must not eat the budget of offers.
NoWastedCapacity ==
    (\A r \in Rides : pc[r] = "over") =>
        LET busy == {d \in Drivers : LiveRidesOf(d) # {}}
            served == {r \in Rides : status[r] \in Live}
        IN  busy = Drivers \/ served = Rides

\* Every request gets an outcome: nobody is left hanging in requested.
RequestResolved ==
    \A r \in Rides : status[r] = "requested" ~> status[r] # "requested"

\* A ride that is over gives its driver back, and no straggling step of its
\* loop claims him again for good.
LockReleased ==
    \A r \in Rides : status[r] \in Closed ~> [](\A d \in Drivers : lock[d] # r)

\* Every offer on record gets a response.
OffersClosed ==
    \A r \in Rides : \A d \in Drivers :
        offers[r][d] = "pending" ~> offers[r][d] # "pending"

----------------------------------------------------------------------------
(* What the documentation says and the code does not keep.                  *)

\* "the ride's terminal transition releases it" (lock.service.js).
NoStrandedDriver ==
    up => \A d \in held : \E r \in Rides :
        lock[d] = r /\ (status[r] \in Live \/ closing[r] = "unlock")

\* "A driver is in drivers:geo if and only if they're available" (README.md).
OfflineOutOfPool ==
    \A d \in Drivers : d \notin online /\ toggle[d] = "none" => d \notin geo

\* "no driver was offered a ride while busy" (sim/load-test-match.js).
NotOfferedWhileBusy ==
    \A r \in Rides : pc[r] \in Waiting => LiveRidesOf(cand[r]) = {}
=============================================================================
