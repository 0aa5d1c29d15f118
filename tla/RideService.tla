------------------------------ MODULE RideService ------------------------------
(***************************************************************************)
(* ride.service.js: what riders and drivers ask over HTTP.  The first      *)
(* statement of each handler decides, under Postgres' row lock; the calls  *)
(* that follow are steps of their own, run by the server in order.         *)
(***************************************************************************)
EXTENDS Dispatch

VARIABLES
    closing,    \* next call of the handler that completed or cancelled r
    starting    \* rides whose start is committed but not yet cached

rideVars == <<closing, starting>>

\* "drop" is the DEL of the snapshot by cancelRide, which comes last;
\* "dropFirst" the one by completeRide, before the driver is put back.
ClosingLabel == {"none", "unlock", "ptr", "dropFirst", "pool", "drop"}

RideType ==
    /\ closing \in [Rides -> ClosingLabel]
    /\ starting \in SUBSET Rides

RideInit ==
    /\ closing = [r \in Rides |-> "none"]
    /\ starting = {}

CloseGoto(r, label) == closing' = [closing EXCEPT ![r] = label]

----------------------------------------------------------------------------
(* requestRide.                                                             *)

RequestRide(r) ==
    /\ At(r, "off")
    /\ InsertRide(r)
    /\ Goto(r, "cacheNew")
    /\ StoreStep
    /\ UNCHANGED rideVars

\* cacheRide, and then dispatch starts without being awaited.
CacheNewRide(r) ==
    /\ At(r, "cacheNew")
    /\ SetCache(r, "requested")
    /\ Goto(r, "search")
    /\ RedisStep
    /\ UNCHANGED rideVars

----------------------------------------------------------------------------
(* startRide.                                                               *)

StartRide(r) ==
    /\ MoveRide(r, {"matched"}, "in_progress")
    /\ starting' = starting \cup {r}
    /\ UNCHANGED <<redisVars, dispatchVars, closing>>

\* cacheRide, then broadcastStatus.
CacheStarted(r) ==
    /\ r \in starting
    /\ SetCache(r, "in_progress")
    /\ TellRider(r, "in_progress")
    /\ starting' = starting \ {r}
    /\ UNCHANGED <<storeVars, loopVars, connected, faults, closing>>

----------------------------------------------------------------------------
(* completeRide and cancelRide.                                             *)

CompleteRide(r) ==
    /\ MoveRide(r, {"in_progress"}, "completed")
    /\ CloseGoto(r, "unlock")
    /\ UNCHANGED <<redisVars, dispatchVars, starting>>

\* Deviations for mutants: a cancelled match keeps its driver; a ride under way
\* can be cancelled.
CancelKeepingDriver(r) ==
    /\ MoveRide(r, {"requested", "matched"}, "cancelled")
    /\ CloseGoto(r, "drop")
    /\ UNCHANGED <<redisVars, dispatchVars, starting>>

CancelAnyOpen(r) ==
    /\ MoveRide(r, Open, "cancelled")
    /\ CloseGoto(r, IF driverOf[r] = NoDriver THEN "drop" ELSE "unlock")
    /\ UNCHANGED <<redisVars, dispatchVars, starting>>

CancelRide(r) ==
    /\ MoveRide(r, {"requested", "matched"}, "cancelled")
    /\ CloseGoto(r, IF driverOf[r] = NoDriver THEN "drop" ELSE "unlock")
    /\ UNCHANGED <<redisVars, dispatchVars, starting>>

CloseStep == UNCHANGED <<storeVars, dispatchVars, starting>>

\* releaseDriver.
CloseUnlock(r) ==
    /\ closing[r] = "unlock"
    /\ Unlock(driverOf[r], r)
    /\ CloseGoto(r, "ptr")
    /\ CloseStep

ClosePointer(r) ==
    /\ closing[r] = "ptr"
    /\ DelPointer(driverOf[r])
    /\ CloseGoto(r, IF status[r] = "completed" THEN "dropFirst" ELSE "pool")
    /\ CloseStep

CloseDropFirst(r) ==
    /\ closing[r] = "dropFirst"
    /\ DropCache(r)
    /\ CloseGoto(r, "pool")
    /\ CloseStep

\* Broadcast of the terminal status, at the end of both handlers.
Broadcast(r) ==
    /\ TellRider(r, status[r])
    /\ UNCHANGED <<storeVars, loopVars, connected, faults, starting>>

ClosePool(r) ==
    /\ closing[r] = "pool"
    /\ RepoolAtLastPosition(driverOf[r])
    /\ \/ status[r] = "completed" /\ CloseGoto(r, "none") /\ Broadcast(r)
       \/ status[r] # "completed" /\ CloseGoto(r, "drop") /\ CloseStep

CloseDrop(r) ==
    /\ closing[r] = "drop"
    /\ DropCache(r)
    /\ CloseGoto(r, "none")
    /\ Broadcast(r)

\* The rest of a handler whose first statement has committed.
HandlerStep(r) ==
    \/ CacheNewRide(r) \/ CacheStarted(r)
    \/ CloseUnlock(r) \/ ClosePointer(r) \/ CloseDropFirst(r)
    \/ ClosePool(r) \/ CloseDrop(r)
=============================================================================
