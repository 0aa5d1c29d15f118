------------------------------ MODULE LiveState ------------------------------
(***************************************************************************)
(* Redis: the keys of src/redis.js.  One operator is one command or one    *)
(* Lua script, atomic as Redis runs it; it says what happens to all of     *)
(* redisVars.  Coordinates are left out: what the properties tell apart is *)
(* membership of drivers:geo and whether a position is absent, stale or    *)
(* fresh (younger than DRIVER_STALE_MS).                                   *)
(***************************************************************************)
EXTENDS RideStore

CONSTANT NoRide     \* the key does not exist

ASSUME NoRideAssumption == NoRide \notin Rides

VARIABLES
    lock,       \* lock:driver:<d>, the ride that claimed d
    held,       \* drivers whose lock has no TTL (PERSIST, or SET without PX)
    geo,        \* members of drivers:geo: the available pool
    meta,       \* driver:meta:<d>: no position, a stale one or a fresh one
    ptr,        \* driver:ride:<d>, the driver's active ride
    cache       \* status field of ride:<r>, "none" when there is no snapshot

redisVars == <<lock, held, geo, meta, ptr, cache>>

Freshness == {"absent", "stale", "fresh"}

RedisType ==
    /\ lock \in [Drivers -> Rides \cup {NoRide}]
    /\ held \in SUBSET Drivers
    /\ geo \in SUBSET Drivers
    /\ meta \in [Drivers -> Freshness]
    /\ ptr \in [Drivers -> Rides \cup {NoRide}]
    /\ cache \in [Rides -> {"none", "requested"} \cup Live]

\* Every driver online with a first position, as the load test starts.
RedisInit ==
    /\ lock = [d \in Drivers |-> NoRide]
    /\ held = {}
    /\ geo = Drivers
    /\ meta = [d \in Drivers |-> "fresh"]
    /\ ptr = [d \in Drivers |-> NoRide]
    /\ cache = [r \in Rides |-> "none"]

----------------------------------------------------------------------------
(* The driver lock.                                                         *)

\* SET lock r PX ttl; SetNX adds the NX condition.
SetLock(d, r) ==
    /\ lock' = [lock EXCEPT ![d] = r]
    /\ held' = held \ {d}
    /\ UNCHANGED <<geo, meta, ptr, cache>>

SetNX(d, r) == lock[d] = NoRide /\ SetLock(d, r)

\* Deviation for a mutant: a plain DEL.
UnlockAnyone(d, r) ==
    /\ lock' = [lock EXCEPT ![d] = NoRide]
    /\ held' = held \ {d}
    /\ UNCHANGED <<geo, meta, ptr, cache>>

\* unlockDriver: compare and delete.
Unlock(d, r) ==
    /\ lock' = [lock EXCEPT ![d] = IF @ = r THEN NoRide ELSE @]
    /\ held' = IF lock[d] = r THEN held \ {d} ELSE held
    /\ UNCHANGED <<geo, meta, ptr, cache>>

\* holdDriverLock: 1 iff r owns the lock and PERSIST removed a TTL.
CanHold(d, r) == lock[d] = r /\ d \notin held

HoldLock(d, r) ==
    /\ CanHold(d, r)
    /\ held' = held \cup {d}
    /\ UNCHANGED <<lock, geo, meta, ptr, cache>>

\* The TTL of an offer lock runs out.
LapseLock(d) ==
    /\ lock[d] # NoRide
    /\ d \notin held
    /\ lock' = [lock EXCEPT ![d] = NoRide]
    /\ UNCHANGED <<held, geo, meta, ptr, cache>>

----------------------------------------------------------------------------
(* The available pool and the positions.                                    *)

RemoveFromPool(d) ==
    /\ geo' = geo \ {d}
    /\ UNCHANGED <<lock, held, meta, ptr, cache>>

\* Deviation for a mutant: GEOADD without asking for the lock.
UpdatePositionBlindly(d) ==
    /\ meta' = [meta EXCEPT ![d] = "fresh"]
    /\ geo' = geo \cup {d}
    /\ UNCHANGED <<lock, held, ptr, cache>>

\* updateDriverPosition: the stamp is always renewed, the pool only for the
\* drivers without a lock.
UpdatePosition(d) ==
    /\ meta' = [meta EXCEPT ![d] = "fresh"]
    /\ geo' = IF lock[d] = NoRide THEN geo \cup {d} ELSE geo \ {d}
    /\ UNCHANGED <<lock, held, ptr, cache>>

\* getPosition, then updatePosition only if there is a last position.
RepoolAtLastPosition(d) ==
    \/ meta[d] = "absent" /\ UNCHANGED redisVars
    \/ meta[d] # "absent" /\ UpdatePosition(d)

\* DRIVER_STALE_MS pass without an update of d's position.
AgePosition(d) ==
    /\ meta[d] = "fresh"
    /\ meta' = [meta EXCEPT ![d] = "stale"]
    /\ UNCHANGED <<lock, held, geo, ptr, cache>>

\* What findNearby may return: GEOSEARCH filtered by the age of the position.
Nearby == {d \in geo : meta[d] = "fresh"}

----------------------------------------------------------------------------
(* The active-ride pointer and the ride snapshot.                           *)

SetPointer(d, r) ==
    /\ ptr' = [ptr EXCEPT ![d] = r]
    /\ UNCHANGED <<lock, held, geo, meta, cache>>

\* DEL driver:ride:<d>, whoever wrote it.
DelPointer(d) == SetPointer(d, NoRide)

SetCache(r, snapshot) ==
    /\ cache' = [cache EXCEPT ![r] = snapshot]
    /\ UNCHANGED <<lock, held, geo, meta, ptr>>

DropCache(r) == SetCache(r, "none")

----------------------------------------------------------------------------
(* Whole-store steps.                                                       *)

\* Redis is flushed, or restarts (it runs without persistence).
FlushRedis ==
    /\ lock' = [d \in Drivers |-> NoRide]
    /\ held' = {}
    /\ geo' = {}
    /\ meta' = [d \in Drivers |-> "absent"]
    /\ ptr' = [d \in Drivers |-> NoRide]
    /\ cache' = [r \in Rides |-> "none"]

\* Deviations for mutants: the pool is cleared and no lock is restored; the
\* locks are restored with the TTL they had.
ClearPoolOnly ==
    /\ geo' = {}
    /\ UNCHANGED <<lock, held, meta, ptr, cache>>

ReconcileKeepingTtl ==
    LET live(d) == LiveRidesOf(d)
    IN  /\ lock' = [d \in Drivers |->
                        IF live(d) = {} THEN lock[d] ELSE CHOOSE r \in live(d) : TRUE]
        /\ geo' = {}
        /\ UNCHANGED <<held, meta, ptr, cache>>

\* DEL drivers:geo, then reconcileLiveRides: for every live ride of Postgres
\* the lock (without TTL), the pointer and the snapshot are written again.
Reconcile ==
    LET live(d) == LiveRidesOf(d)
        ride(d) == CHOOSE r \in live(d) : TRUE
    IN  /\ lock' = [d \in Drivers |-> IF live(d) = {} THEN lock[d] ELSE ride(d)]
        /\ held' = held \cup {d \in Drivers : live(d) # {}}
        /\ geo' = {}
        /\ ptr' = [d \in Drivers |-> IF live(d) = {} THEN ptr[d] ELSE ride(d)]
        /\ cache' = [r \in Rides |->
                        IF status[r] \in Live /\ driverOf[r] # NoDriver
                        THEN status[r] ELSE cache[r]]
        /\ UNCHANGED meta
=============================================================================
