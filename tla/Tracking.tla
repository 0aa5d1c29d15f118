------------------------------- MODULE Tracking -------------------------------
(***************************************************************************)
(* The whole server: dispatch loops, ride handlers and driver handlers     *)
(* interleaved over one Postgres and one Redis, with crashes of the        *)
(* process, restarts (server.js), Redis flushes and the expiry of locks.   *)
(* Env names what people, phones and networks may do in a configuration.   *)
(***************************************************************************)
EXTENDS DriverService

CONSTANTS
    Env,        \* subset of Choices: what the environment may do
    MaxCrashes, \* bound: crashes in a behaviour
    MaxFlushes  \* bound: Redis flushes in a behaviour

\* "start": drivers start and complete rides     "cancel": riders cancel
\* "reject": drivers reject offers               "drop": sockets come and go
\* "late": a lock may lapse and an offer time out before its loop is done
\* "toggle": drivers go offline and online       "age": positions grow stale
\* "flushUp": Redis may be flushed while the server runs
Choices == {"start", "cancel", "reject", "drop", "late", "toggle", "age", "flushUp"}

ASSUME EnvironmentAssumption ==
    /\ Env \subseteq Choices
    /\ "drop" \in Env => "late" \in Env
    /\ MaxCrashes \in Nat /\ MaxFlushes \in Nat

VARIABLES
    up,         \* the process serves requests
    crashes,    \* crashes so far
    flushes,    \* flushes so far
    loose       \* history: <<r, d>> where the hold of r on d came loose: the
                \* lock was gone before the loop of r was done, or the loop
                \* never learnt that it has to PERSIST it

processVars == <<up, crashes, flushes>>
worldVars == <<processVars, loose>>
appVars == <<storeVars, redisVars, dispatchVars, rideVars, driverVars>>
vars == <<appVars, worldVars>>

May(choice) == choice \in Env

TypeOK ==
    /\ StoreType
    /\ RedisType
    /\ DispatchType
    /\ RideType
    /\ DriverType
    /\ up \in BOOLEAN
    /\ crashes \in Nat
    /\ flushes \in Nat
    /\ loose \in SUBSET (Rides \X Drivers)

Init ==
    /\ StoreInit
    /\ RedisInit
    /\ DispatchInit
    /\ RideInit
    /\ DriverInit
    /\ up = TRUE
    /\ crashes = 0
    /\ flushes = 0
    /\ loose = {}

----------------------------------------------------------------------------
(* Requests and answers from outside.                                       *)

RiderAction(r) ==
    \/ RequestRide(r)
    \/ May("cancel") /\ CancelRide(r)

DriverRideAction(r) ==
    \/ AcceptOffer(r) /\ UNCHANGED <<rideVars, driverVars>>
    \/ May("reject") /\ RejectOffer(r) /\ UNCHANGED <<rideVars, driverVars>>
    \/ May("start") /\ (StartRide(r) \/ CompleteRide(r)) /\ UNCHANGED driverVars

DriverAction(d) ==
    \/ Ping(d)
    \/ Connect(d)
    \/ May("drop") /\ Disconnect(d)
    \/ May("age") /\ GrowStale(d)
    \/ May("toggle") /\ (GoOffline(d) \/ GoOnline(d))

\* A failing Postgres call.  A lost answer to COMMIT leaves the ride with a
\* driver nobody holds for it.
Fault(r) ==
    \/ FailStore(r) /\ UNCHANGED loose
    \/ LoseCommitReply(r) /\ loose' = loose \cup {<<r, cand[r]>>}

----------------------------------------------------------------------------
(* Time.                                                                    *)

\* setTimeout in waitForOffer.
Timeout(r) == May("late") /\ OfferTimeout(r) /\ UNCHANGED loose

\* PX of the offer lock.  Without "late" only a lock whose loop died lapses.
Expire(d) ==
    /\ LapseLock(d)
    /\ May("late") \/ At(lock[d], "over")
    /\ loose' = IF At(lock[d], "over") THEN loose ELSE loose \cup {<<lock[d], d>>}
    /\ UNCHANGED <<storeVars, dispatchVars, rideVars, driverVars>>

----------------------------------------------------------------------------
(* The process dies and starts again.                                       *)

Crash ==
    /\ up
    /\ crashes < MaxCrashes
    /\ crashes' = crashes + 1
    /\ up' = FALSE
    /\ connected' = {}
    /\ pc' = [r \in Rides |-> IF pc[r] = "off" THEN "off" ELSE "over"]
    /\ cand' = [r \in Rides |-> NoDriver]
    /\ closing' = [r \in Rides |-> "none"]
    /\ starting' = {}
    /\ toggle' = [d \in Drivers |-> "none"]
    /\ loose' = {}
    /\ UNCHANGED <<storeVars, redisVars, tried, offersMade, shown, faults, online, flushes>>

\* main(): nothing is served before the reconciliation is done.
Boot ==
    /\ ~up
    /\ up' = TRUE
    /\ Reconcile
    /\ UNCHANGED <<storeVars, dispatchVars, rideVars, driverVars, crashes, flushes, loose>>

Flush ==
    /\ flushes < MaxFlushes
    /\ ~up \/ May("flushUp")
    /\ flushes' = flushes + 1
    /\ FlushRedis
    /\ loose' = IF up THEN loose \cup {p \in Rides \X Drivers : lock[p[2]] = p[1]} ELSE loose
    /\ UNCHANGED <<storeVars, dispatchVars, rideVars, driverVars, up, crashes>>

----------------------------------------------------------------------------

Loop(r) == LoopStep(r) /\ UNCHANGED <<rideVars, driverVars, worldVars>>
Handler(r) == HandlerStep(r) /\ UNCHANGED <<driverVars, worldVars>>
Toggling(d) == ToggleStep(d) /\ UNCHANGED worldVars

RideNext(r) ==
    \/ Loop(r)
    \/ Handler(r)
    \/ up /\ RiderAction(r) /\ UNCHANGED <<driverVars, worldVars>>
    \/ up /\ DriverRideAction(r) /\ UNCHANGED worldVars
    \/ (Timeout(r) \/ Fault(r)) /\ UNCHANGED <<rideVars, driverVars, processVars>>

DriverNext(d) ==
    \/ Toggling(d)
    \/ up /\ DriverAction(d) /\ UNCHANGED worldVars
    \/ Expire(d) /\ UNCHANGED processVars

Next ==
    \/ \E r \in Rides : RideNext(r)
    \/ \E d \in Drivers : DriverNext(d)
    \/ Crash \/ Boot \/ Flush

Spec == Init /\ [][Next]_vars

\* What the code itself drives: promises already resolved, timers, the TTLs of
\* Redis and the restart of the process.  Nobody has to answer or to ask.
ServerFairness ==
    /\ \A r \in Rides :
        /\ WF_vars(Loop(r))
        /\ WF_vars(Handler(r))
        /\ WF_vars(Timeout(r) /\ UNCHANGED <<rideVars, driverVars, processVars>>)
    /\ \A d \in Drivers :
        /\ WF_vars(Toggling(d))
        /\ WF_vars(Expire(d) /\ UNCHANGED processVars)
    /\ WF_vars(Boot)

FairSpec == Spec /\ ServerFairness
=============================================================================
