---------------------------- MODULE TrackingProofs ----------------------------
(***************************************************************************)
(* Theorems about Tracking, for every number of rides and drivers and for  *)
(* every environment.                                                      *)
(***************************************************************************)
EXTENDS Guarantees, TLAPS

\* Where the loop of a ride has a candidate.
HasCandidate == Label \ {"off", "cacheNew", "search", "giveUp", "failed", "tellNone", "over"}

CandidateBound == \A r \in Rides : pc[r] \in HasCandidate => cand[r] \in Drivers

LiveIsBooked ==
    \A r \in Rides : status[r] \in Live \cup {"completed"} => driverOf[r] \in Drivers

ClosingIsBooked ==
    \A r \in Rides : closing[r] \in {"unlock", "ptr", "dropFirst", "pool"} => driverOf[r] \in Drivers

\* The type invariant alone is not inductive: UpdatePosition(cand[r]) keeps
\* geo a set of drivers only if the loop of r has a candidate there.
Wellformed == TypeOK /\ CandidateBound /\ LiveIsBooked /\ ClosingIsBooked

\* The server starts well-formed.
LEMMA WellformedInit == Init => Wellformed
  BY RiderOfAssumption, BudgetAssumption
  DEF Init, StoreInit, RedisInit, DispatchInit, RideInit, DriverInit, Wellformed,
      TypeOK, StoreType, RedisType, DispatchType, RideType, DriverType,
      CandidateBound, LiveIsBooked, ClosingIsBooked, HasCandidate, Label, Live,
      Status, Response, Freshness, ClosingLabel, ToggleLabel

\* Every step keeps it so.
LEMMA WellformedNext == Wellformed /\ [Next]_vars => Wellformed'
<1> SUFFICES ASSUME Wellformed, [Next]_vars PROVE Wellformed'
  OBVIOUS
<1> USE DEF Wellformed, TypeOK, CandidateBound, LiveIsBooked, ClosingIsBooked, HasCandidate,
      StoreType, RedisType, DispatchType, RideType, DriverType, Label, Live, Status,
      storeVars, redisVars, dispatchVars, rideVars, driverVars, worldVars, processVars, loopVars,
      RedisStep, StoreStep, LocalStep, OfferStep, At, Goto, Continue
<1>1. ASSUME NEW r \in Rides, Loop(r)
      PROVE Wellformed'
  <2> USE <1>1 DEF Loop
  <2>1. CASE \E d \in Drivers : PickCandidate(r, d)
    BY <2>1 DEF PickCandidate, Candidates, Nearby
  <2>2. CASE RunOut(r)
    BY <2>2 DEF RunOut
  <2>3. CASE ClaimDriver(r)
    BY <2>3 DEF ClaimDriver, SetNX, SetLock
  <2>4. CASE LoseClaim(r)
    BY <2>4 DEF LoseClaim
  <2>5. CASE ClaimUnsafely(r)
    BY <2>5 DEF ClaimUnsafely, SetLock
  <2>6. CASE LeavePool(r)
    BY <2>6 DEF LeavePool, RemoveFromPool
  <2>7. CASE RecordLost(r)
    BY <2>7 DEF RecordLost, WriteOffer, Response
  <2>8. CASE LetGoAbsent(r)
    BY <2>8 DEF LetGoAbsent, Unlock
  <2>9. CASE RepoolAbsent(r)
    BY <2>9 DEF RepoolAbsent, UpdatePosition, Freshness
  <2>10. CASE RecordAbsent(r)
    BY <2>10 DEF RecordAbsent, WriteOffer, Response
  <2>11. CASE RecordOffer(r)
    BY <2>11 DEF RecordOffer, WriteOffer, Response
  <2>12. CASE SendOffer(r)
    BY <2>12 DEF SendOffer
  <2>13. CASE ResolveAccept(r)
    BY <2>13 DEF ResolveAccept
  <2>14. CASE CloseOffer(r)
    BY <2>14 DEF CloseOffer, WriteOffer, Response
  <2>15. CASE RefuseUnlock(r)
    BY <2>15 DEF RefuseUnlock, Unlock
  <2>16. CASE RefusePool(r)
    <3>1. cand[r] \in Drivers
      BY <2>16 DEF RefusePool
    <3>2. geo' \subseteq Drivers /\ meta' \in [Drivers -> Freshness]
      BY <2>16, <3>1 DEF RefusePool, UpdatePosition, Freshness
    <3> QED
      BY <2>16, <3>2 DEF RefusePool, UpdatePosition
  <2>17. CASE CommitMatch(r)
    BY <2>17 DEF CommitMatch, MatchRide, CanMatch
  <2>18. CASE RefuseMatch(r)
    BY <2>18 DEF RefuseMatch
  <2>19. CASE HoldForRide(r)
    <3>1. CASE HoldLock(cand[r], r) /\ Goto(r, "point")
      BY <2>19, <3>1 DEF HoldForRide, HoldLock
    <3>2. CASE UNCHANGED redisVars /\ Goto(r, "cacheMatch")
      BY <2>19, <3>2 DEF HoldForRide
    <3> QED
      BY <2>19, <3>1, <3>2 DEF HoldForRide
  <2>20. CASE PointAtRide(r)
    BY <2>20 DEF PointAtRide, SetPointer
  <2>21. CASE CacheMatch(r)
    BY <2>21 DEF CacheMatch, SetCache
  <2>22. CASE TellMatched(r)
    BY <2>22 DEF TellMatched, TellRider, Finish
  <2>23. CASE UndoUnlock(r)
    BY <2>23 DEF UndoUnlock, Unlock
  <2>24. CASE UndoPointer(r)
    BY <2>24 DEF UndoPointer, DelPointer, SetPointer
  <2>25. CASE MarkNoDrivers(r)
    BY <2>25 DEF MarkNoDrivers, MoveRideIfStill
  <2>26. CASE TellNoDrivers(r)
    BY <2>26 DEF TellNoDrivers, TellRider, Finish
  <2> QED
    BY <2>1, <2>2, <2>3, <2>4, <2>5, <2>6, <2>7, <2>8, <2>9, <2>10, <2>11, <2>12, <2>13,
       <2>14, <2>15, <2>16, <2>17, <2>18, <2>19, <2>20, <2>21, <2>22, <2>23, <2>24, <2>25,
       <2>26 DEF LoopStep
<1>2. ASSUME NEW r \in Rides, Handler(r)
      PROVE Wellformed'
  <2> USE <1>2 DEF Handler
  <2>1. CASE CacheNewRide(r)
    BY <2>1 DEF CacheNewRide, SetCache
  <2>2. CASE CacheStarted(r)
    BY <2>2 DEF CacheStarted, SetCache, TellRider
  <2>3. CASE CloseUnlock(r)
    BY <2>3 DEF CloseUnlock, Unlock, CloseGoto, CloseStep, ClosingLabel
  <2>4. CASE ClosePointer(r)
    BY <2>4 DEF ClosePointer, DelPointer, SetPointer, CloseGoto, CloseStep, ClosingLabel
  <2>5. CASE CloseDropFirst(r)
    BY <2>5 DEF CloseDropFirst, DropCache, SetCache, CloseGoto, CloseStep, ClosingLabel
  <2>6. CASE ClosePool(r)
    <3>1. driverOf[r] \in Drivers
      BY <2>6 DEF ClosePool
    <3>2. RedisType'
      <4>1. CASE UNCHANGED redisVars
        BY <4>1
      <4>2. CASE UpdatePosition(driverOf[r])
        BY <3>1, <4>2 DEF UpdatePosition, Freshness
      <4> QED
        BY <2>6, <4>1, <4>2 DEF ClosePool, RepoolAtLastPosition
    <3>3. CASE CloseGoto(r, "none") /\ Broadcast(r)
      BY <2>6, <3>1, <3>2, <3>3 DEF CloseGoto, ClosingLabel, Broadcast, TellRider
    <3>4. CASE CloseGoto(r, "drop") /\ CloseStep
      BY <2>6, <3>1, <3>2, <3>4 DEF CloseGoto, ClosingLabel, CloseStep
    <3> QED
      BY <2>6, <3>3, <3>4 DEF ClosePool
  <2>7. CASE CloseDrop(r)
    BY <2>7 DEF CloseDrop, DropCache, SetCache, Broadcast, TellRider, CloseGoto, ClosingLabel
  <2> QED
    BY <2>1, <2>2, <2>3, <2>4, <2>5, <2>6, <2>7 DEF HandlerStep
<1>3. ASSUME NEW r \in Rides, up, RiderAction(r), UNCHANGED <<driverVars, worldVars>>
      PROVE Wellformed'
  <2> USE <1>3
  <2>1. CASE RequestRide(r)
    BY <2>1 DEF RequestRide, InsertRide
  <2>2. CASE CancelRide(r)
    BY <2>2 DEF CancelRide, MoveRide, CloseGoto, ClosingLabel
  <2> QED
    BY <2>1, <2>2 DEF RiderAction
<1>4. ASSUME NEW r \in Rides, up, DriverRideAction(r), UNCHANGED worldVars
      PROVE Wellformed'
  <2> USE <1>4
  <2>1. CASE AcceptOffer(r) /\ UNCHANGED <<rideVars, driverVars>>
    BY <2>1 DEF AcceptOffer
  <2>2. CASE RejectOffer(r) /\ UNCHANGED <<rideVars, driverVars>>
    BY <2>2 DEF RejectOffer, Waiting
  <2>3. CASE StartRide(r) /\ UNCHANGED driverVars
    BY <2>3 DEF StartRide, MoveRide
  <2>4. CASE CompleteRide(r) /\ UNCHANGED driverVars
    BY <2>4 DEF CompleteRide, MoveRide, CloseGoto, ClosingLabel
  <2> QED
    BY <2>1, <2>2, <2>3, <2>4 DEF DriverRideAction
<1>5. ASSUME NEW r \in Rides, Timeout(r) \/ Fault(r),
             UNCHANGED <<rideVars, driverVars, processVars>>
      PROVE Wellformed'
  <2> USE <1>5
  <2>1. CASE Timeout(r)
    BY <2>1 DEF Timeout, OfferTimeout, Waiting
  <2>2. CASE FailStore(r) /\ UNCHANGED loose
    BY <2>2 DEF FailStore
  <2>3. CASE LoseCommitReply(r) /\ loose' = loose \cup {<<r, cand[r]>>}
    <3>1. cand[r] \in Drivers
      BY <2>3 DEF LoseCommitReply
    <3>2. StoreType' /\ LiveIsBooked'
      BY <2>3, <3>1 DEF LoseCommitReply, MatchRide, CanMatch
    <3>3. RedisType' /\ DispatchType' /\ RideType' /\ DriverType'
      BY <2>3 DEF LoseCommitReply
    <3>4. CandidateBound' /\ ClosingIsBooked'
      BY <2>3, <3>1 DEF LoseCommitReply, MatchRide, CanMatch
    <3>5. loose' \in SUBSET (Rides \X Drivers)
      BY <2>3, <3>1
    <3>6. up' \in BOOLEAN /\ crashes' \in Nat /\ flushes' \in Nat
      OBVIOUS
    <3> QED
      BY <3>2, <3>3, <3>4, <3>5, <3>6
  <2> QED
    BY <2>1, <2>2, <2>3 DEF Fault
<1>6. ASSUME NEW d \in Drivers, Toggling(d)
      PROVE Wellformed'
  <2> USE <1>6 DEF Toggling
  <2>1. CASE OfflineUpdate(d)
    BY <2>1 DEF OfflineUpdate, ToggleGoto, NoRideStep, ToggleLabel
  <2>2. CASE OfflineLeave(d)
    BY <2>2 DEF OfflineLeave, RemoveFromPool, ToggleGoto, NoRideStep, ToggleLabel
  <2>3. CASE OfflineReply(d)
    BY <2>3 DEF OfflineReply, ToggleGoto, NoRideStep, ToggleLabel
  <2>4. CASE OnlinePool(d)
    BY <2>4 DEF OnlinePool, UpdatePosition, Freshness, NoRideStep, ToggleGoto, ToggleLabel
  <2> QED
    BY <2>1, <2>2, <2>3, <2>4 DEF ToggleStep
<1>7. ASSUME NEW d \in Drivers, up, DriverAction(d), UNCHANGED worldVars
      PROVE Wellformed'
  <2> USE <1>7
  <2>1. CASE Ping(d)
    BY <2>1 DEF Ping, UpdatePosition, Freshness, NoRideStep
  <2>2. CASE Connect(d)
    BY <2>2 DEF Connect
  <2>3. CASE Disconnect(d)
    BY <2>3 DEF Disconnect
  <2>4. CASE GrowStale(d)
    BY <2>4 DEF GrowStale, AgePosition, NoRideStep, Freshness
  <2>5. CASE GoOffline(d)
    BY <2>5 DEF GoOffline, ToggleGoto, NoRideStep, ToggleLabel
  <2>6. CASE GoOnline(d)
    BY <2>6 DEF GoOnline, ToggleGoto, NoRideStep, ToggleLabel
  <2> QED
    BY <2>1, <2>2, <2>3, <2>4, <2>5, <2>6 DEF DriverAction
<1>8. ASSUME NEW d \in Drivers, Expire(d), UNCHANGED processVars
      PROVE Wellformed'
  BY <1>8 DEF Expire, LapseLock
<1>9. CASE Crash
  <2>1. StoreType' /\ RedisType' /\ LiveIsBooked'
    BY <1>9 DEF Crash
  <2>2. DispatchType' /\ CandidateBound'
    BY <1>9 DEF Crash
  <2>3. closing' \in [Rides -> ClosingLabel] /\ starting' \in SUBSET Rides
    BY <1>9 DEF Crash, ClosingLabel
  <2>4. ClosingIsBooked'
    BY <1>9 DEF Crash
  <2>5. online' \in SUBSET Drivers /\ toggle' \in [Drivers -> ToggleLabel]
    BY <1>9 DEF Crash, ToggleLabel
  <2>6. up' \in BOOLEAN
    BY <1>9 DEF Crash
  <2>7. crashes' \in Nat /\ flushes' \in Nat /\ loose' = {}
    BY <1>9 DEF Crash
  <2> QED
    BY <2>1, <2>2, <2>3, <2>4, <2>5, <2>6, <2>7
<1>10. CASE Boot
  BY <1>10 DEF Boot, Reconcile, LiveRidesOf
<1>11. CASE Flush
  BY <1>11 DEF Flush, FlushRedis, Freshness
<1>12. CASE UNCHANGED vars
  BY <1>12 DEF vars, appVars
<1> QED
  BY <1>1, <1>2, <1>3, <1>4, <1>5, <1>6, <1>7, <1>8, <1>9, <1>10, <1>11, <1>12
  DEF Next, RideNext, DriverNext

\* Type correctness, for every value of the constants.
THEOREM TypeCorrect == Spec => []TypeOK
<1>1. Wellformed => TypeOK
  BY DEF Wellformed
<1> QED
  BY <1>1, WellformedInit, WellformedNext, PTL DEF Spec

----------------------------------------------------------------------------
(* The steps of Postgres.                                                   *)

\* Every statement that may change the row of a ride or of one of its offers,
\* with the place its loop is at.
StoreStepOf(r) ==
    \/ At(r, "off") /\ InsertRide(r)
    \/ At(r, "commit") /\ MatchRide(r, cand[r])
    \/ MoveRide(r, {"matched"}, "in_progress")
    \/ MoveRide(r, {"in_progress"}, "completed")
    \/ MoveRide(r, {"requested", "matched"}, "cancelled")
    \/ MoveRideIfStill(r, {"requested"}, "no_drivers")
    \/ At(r, "lost") /\ WriteOffer(r, cand[r], "lock_failed")
    \/ At(r, "absentRecord") /\ WriteOffer(r, cand[r], "timeout")
    \/ At(r, "claimed") /\ WriteOffer(r, cand[r], "pending")
    \/ pc[r] \in {"accepted", "rejected", "timeout"} /\ WriteOffer(r, cand[r], pc[r])

\* No step of the server touches the tables in any other way.
LEMMA StoreSteps ==
    [Next]_vars => UNCHANGED storeVars \/ \E r \in Rides : StoreStepOf(r)
<1> DEFINE Goal == UNCHANGED storeVars \/ \E r \in Rides : StoreStepOf(r)
<1> SUFFICES ASSUME [Next]_vars PROVE Goal
  OBVIOUS
<1> USE DEF At, RedisStep, StoreStep, LocalStep, OfferStep, CloseStep, NoRideStep
<1>1. ASSUME NEW r \in Rides, Loop(r)
      PROVE Goal
  <2> USE <1>1 DEF Loop
  <2>1. CASE \E d \in Drivers : PickCandidate(r, d)
    BY <2>1 DEF PickCandidate
  <2>2. CASE RunOut(r)
    BY <2>2 DEF RunOut
  <2>3. CASE ClaimDriver(r)
    BY <2>3 DEF ClaimDriver
  <2>4. CASE LoseClaim(r)
    BY <2>4 DEF LoseClaim
  <2>5. CASE ClaimUnsafely(r)
    BY <2>5 DEF ClaimUnsafely
  <2>6. CASE LeavePool(r)
    BY <2>6 DEF LeavePool
  <2>7. CASE RecordLost(r)
    BY <2>7 DEF RecordLost, StoreStepOf
  <2>8. CASE LetGoAbsent(r)
    BY <2>8 DEF LetGoAbsent
  <2>9. CASE RepoolAbsent(r)
    BY <2>9 DEF RepoolAbsent
  <2>10. CASE RecordAbsent(r)
    BY <2>10 DEF RecordAbsent, StoreStepOf
  <2>11. CASE RecordOffer(r)
    BY <2>11 DEF RecordOffer, StoreStepOf
  <2>12. CASE SendOffer(r)
    BY <2>12 DEF SendOffer
  <2>13. CASE ResolveAccept(r)
    BY <2>13 DEF ResolveAccept
  <2>14. CASE CloseOffer(r)
    BY <2>14 DEF CloseOffer, StoreStepOf
  <2>15. CASE RefuseUnlock(r)
    BY <2>15 DEF RefuseUnlock
  <2>16. CASE RefusePool(r)
    BY <2>16 DEF RefusePool
  <2>17. CASE CommitMatch(r)
    BY <2>17 DEF CommitMatch, StoreStepOf
  <2>18. CASE RefuseMatch(r)
    BY <2>18 DEF RefuseMatch
  <2>19. CASE HoldForRide(r)
    BY <2>19 DEF HoldForRide
  <2>20. CASE PointAtRide(r)
    BY <2>20 DEF PointAtRide
  <2>21. CASE CacheMatch(r)
    BY <2>21 DEF CacheMatch
  <2>22. CASE TellMatched(r)
    BY <2>22 DEF TellMatched
  <2>23. CASE UndoUnlock(r)
    BY <2>23 DEF UndoUnlock
  <2>24. CASE UndoPointer(r)
    BY <2>24 DEF UndoPointer
  <2>25. CASE MarkNoDrivers(r)
    BY <2>25 DEF MarkNoDrivers, StoreStepOf
  <2>26. CASE TellNoDrivers(r)
    BY <2>26 DEF TellNoDrivers
  <2> QED
    BY <2>1, <2>2, <2>3, <2>4, <2>5, <2>6, <2>7, <2>8, <2>9, <2>10, <2>11, <2>12, <2>13,
       <2>14, <2>15, <2>16, <2>17, <2>18, <2>19, <2>20, <2>21, <2>22, <2>23, <2>24, <2>25,
       <2>26 DEF LoopStep
<1>2. ASSUME NEW r \in Rides, Handler(r)
      PROVE Goal
  <2> USE <1>2 DEF Handler
  <2>1. CASE CacheNewRide(r)
    BY <2>1 DEF CacheNewRide
  <2>2. CASE CacheStarted(r)
    BY <2>2 DEF CacheStarted
  <2>3. CASE CloseUnlock(r)
    BY <2>3 DEF CloseUnlock
  <2>4. CASE ClosePointer(r)
    BY <2>4 DEF ClosePointer
  <2>5. CASE CloseDropFirst(r)
    BY <2>5 DEF CloseDropFirst
  <2>6. CASE ClosePool(r)
    BY <2>6 DEF ClosePool, Broadcast
  <2>7. CASE CloseDrop(r)
    BY <2>7 DEF CloseDrop, Broadcast
  <2> QED
    BY <2>1, <2>2, <2>3, <2>4, <2>5, <2>6, <2>7 DEF HandlerStep
<1>3. ASSUME NEW r \in Rides, up, RiderAction(r), UNCHANGED <<driverVars, worldVars>>
      PROVE Goal
  <2> USE <1>3
  <2>1. CASE RequestRide(r)
    BY <2>1 DEF RequestRide, StoreStepOf
  <2>2. CASE CancelRide(r)
    BY <2>2 DEF CancelRide, StoreStepOf
  <2> QED
    BY <2>1, <2>2 DEF RiderAction
<1>4. ASSUME NEW r \in Rides, up, DriverRideAction(r), UNCHANGED worldVars
      PROVE Goal
  <2> USE <1>4
  <2>1. CASE AcceptOffer(r) /\ UNCHANGED <<rideVars, driverVars>>
    BY <2>1 DEF AcceptOffer
  <2>2. CASE RejectOffer(r) /\ UNCHANGED <<rideVars, driverVars>>
    BY <2>2 DEF RejectOffer
  <2>3. CASE StartRide(r) /\ UNCHANGED driverVars
    BY <2>3 DEF StartRide, StoreStepOf
  <2>4. CASE CompleteRide(r) /\ UNCHANGED driverVars
    BY <2>4 DEF CompleteRide, StoreStepOf
  <2> QED
    BY <2>1, <2>2, <2>3, <2>4 DEF DriverRideAction
<1>5. ASSUME NEW r \in Rides, Timeout(r) \/ Fault(r),
             UNCHANGED <<rideVars, driverVars, processVars>>
      PROVE Goal
  <2> USE <1>5
  <2>1. CASE Timeout(r)
    BY <2>1 DEF Timeout, OfferTimeout
  <2>2. CASE FailStore(r)
    BY <2>2 DEF FailStore
  <2>3. CASE LoseCommitReply(r)
    BY <2>3 DEF LoseCommitReply, StoreStepOf
  <2> QED
    BY <2>1, <2>2, <2>3 DEF Fault
<1>6. ASSUME NEW d \in Drivers, Toggling(d)
      PROVE Goal
  <2> USE <1>6 DEF Toggling
  <2>1. CASE OfflineUpdate(d)
    BY <2>1 DEF OfflineUpdate
  <2>2. CASE OfflineLeave(d)
    BY <2>2 DEF OfflineLeave
  <2>3. CASE OfflineReply(d)
    BY <2>3 DEF OfflineReply
  <2>4. CASE OnlinePool(d)
    BY <2>4 DEF OnlinePool
  <2> QED
    BY <2>1, <2>2, <2>3, <2>4 DEF ToggleStep
<1>7. ASSUME NEW d \in Drivers, up, DriverAction(d), UNCHANGED worldVars
      PROVE Goal
  <2> USE <1>7
  <2>1. CASE Ping(d)
    BY <2>1 DEF Ping
  <2>2. CASE Connect(d)
    BY <2>2 DEF Connect
  <2>3. CASE Disconnect(d)
    BY <2>3 DEF Disconnect
  <2>4. CASE GrowStale(d)
    BY <2>4 DEF GrowStale
  <2>5. CASE GoOffline(d)
    BY <2>5 DEF GoOffline
  <2>6. CASE GoOnline(d)
    BY <2>6 DEF GoOnline
  <2> QED
    BY <2>1, <2>2, <2>3, <2>4, <2>5, <2>6 DEF DriverAction
<1>8. ASSUME NEW d \in Drivers, Expire(d), UNCHANGED processVars
      PROVE Goal
  BY <1>8 DEF Expire
<1>9. CASE Crash
  BY <1>9 DEF Crash
<1>10. CASE Boot
  BY <1>10 DEF Boot
<1>11. CASE Flush
  BY <1>11 DEF Flush
<1>12. CASE UNCHANGED vars
  BY <1>12 DEF vars, appVars
<1> QED
  BY <1>1, <1>2, <1>3, <1>4, <1>5, <1>6, <1>7, <1>8, <1>9, <1>10, <1>11, <1>12
  DEF Next, RideNext, DriverNext

----------------------------------------------------------------------------
(* The audit trail: offers, answers and bookings belong together.           *)

\* The row of the current candidate follows the loop.
OfferFollowsLoop == \A r \in Rides :
    /\ pc[r] \in {"claim", "zrem", "lost", "claimed", "absentPool", "absentRecord"} =>
            offers[r][cand[r]] = "none"
    /\ pc[r] \in {"send", "accepted", "rejected", "timeout"} \cup Waiting =>
            offers[r][cand[r]] = "pending"
    /\ pc[r] = "commit" => offers[r][cand[r]] = "accepted"

\* A driver with a row has been tried, and is not tried again.
OffersWereTried == \A r \in Rides : \A d \in Drivers :
    offers[r][d] # "none" => d \in tried[r]

CandidateWasTried == \A r \in Rides :
    pc[r] \in HasCandidate => cand[r] \in tried[r]

\* A booked ride has left the loop that could write its offers.
BookedHasLeftLoop == \A r \in Rides :
    driverOf[r] # NoDriver =>
        pc[r] \in {"hold", "point", "cacheMatch", "tell", "failed", "tellNone", "over"}

UnbookedUntilMatched == \A r \in Rides :
    status[r] \in {"absent", "requested"} => driverOf[r] = NoDriver

MatchedIsCandidate == \A r \in Rides :
    pc[r] \in {"hold", "point"} => driverOf[r] = cand[r]

RequestedHasLoop == \A r \in Rides : pc[r] # "off" => status[r] # "absent"

Audited ==
    /\ OfferFollowsLoop /\ OffersWereTried /\ CandidateWasTried
    /\ BookedHasLeftLoop /\ UnbookedUntilMatched /\ MatchedIsCandidate
    /\ RequestedHasLoop /\ BookedOnlyByAccept

\* Nothing is on record at the start.
LEMMA AuditedInit == Init => Audited
  BY NoDriverAssumption
  DEF Init, StoreInit, DispatchInit, Audited, OfferFollowsLoop, OffersWereTried,
      CandidateWasTried, BookedHasLeftLoop, UnbookedUntilMatched, MatchedIsCandidate,
      RequestedHasLoop, BookedOnlyByAccept, HasCandidate, Waiting

\* Every step keeps the trail.
LEMMA AuditedNext == Wellformed /\ Audited /\ [Next]_vars => Audited'
<1> SUFFICES ASSUME Wellformed, Audited, [Next]_vars PROVE Audited'
  OBVIOUS
<1> USE NoDriverAssumption DEF Audited, OfferFollowsLoop, OffersWereTried, CandidateWasTried,
      BookedHasLeftLoop, UnbookedUntilMatched, MatchedIsCandidate, RequestedHasLoop,
      BookedOnlyByAccept, Wellformed, CandidateBound, HasCandidate, Waiting, TypeOK, StoreType,
      DispatchType, Label, storeVars, redisVars, dispatchVars, rideVars, driverVars,
      worldVars, processVars,
      loopVars, RedisStep, StoreStep, LocalStep, OfferStep, CloseStep, NoRideStep, At, Goto, Continue
<1>1. ASSUME NEW r \in Rides, Loop(r)
      PROVE Audited'
  <2> USE <1>1 DEF Loop
  <2>1. CASE \E d \in Drivers : PickCandidate(r, d)
    BY <2>1 DEF PickCandidate, Candidates
  <2>2. CASE RunOut(r)
    BY <2>2 DEF RunOut
  <2>3. CASE ClaimDriver(r)
    BY <2>3 DEF ClaimDriver
  <2>4. CASE LoseClaim(r)
    BY <2>4 DEF LoseClaim
  <2>5. CASE ClaimUnsafely(r)
    BY <2>5 DEF ClaimUnsafely
  <2>6. CASE LeavePool(r)
    BY <2>6 DEF LeavePool
  <2>7. CASE RecordLost(r)
    <3>1. pc[r] = "lost" /\ pc' = [pc EXCEPT ![r] = "search"] /\ cand' = [cand EXCEPT ![r] = NoDriver]
          /\ offers' = [offers EXCEPT ![r][cand[r]] = "lock_failed"]
          /\ UNCHANGED <<status, driverOf, tried>>
      BY <2>7 DEF RecordLost, WriteOffer
    <3>2. cand[r] \in Drivers /\ cand[r] \in tried[r]
          /\ \A s \in Rides \ {r} : offers'[s] = offers[s] /\ pc'[s] = pc[s] /\ cand'[s] = cand[s]
          /\ \A d \in Drivers : offers'[r][d] = "none" <=> offers[r][d] = "none" /\ d # cand[r]
      BY <3>1, SMTT(30)
    <3>3. OfferFollowsLoop' /\ OffersWereTried' /\ CandidateWasTried' /\ BookedHasLeftLoop'
      BY <3>1, <3>2
    <3>4. UnbookedUntilMatched' /\ MatchedIsCandidate' /\ RequestedHasLoop'
      BY <3>1
    <3>5. BookedOnlyByAccept'
      BY <3>1
    <3> QED
      BY <3>3, <3>4, <3>5
  <2>8. CASE LetGoAbsent(r)
    BY <2>8 DEF LetGoAbsent
  <2>9. CASE RepoolAbsent(r)
    BY <2>9 DEF RepoolAbsent
  <2>10. CASE RecordAbsent(r)
    BY <2>10, SMTT(30) DEF RecordAbsent, WriteOffer
  <2>11. CASE RecordOffer(r)
    <3>1. pc[r] = "claimed" /\ pc' = [pc EXCEPT ![r] = "send"]
          /\ offers' = [offers EXCEPT ![r][cand[r]] = "pending"]
          /\ UNCHANGED <<status, driverOf, cand, tried>>
      BY <2>11 DEF RecordOffer, WriteOffer
    <3>2. OfferFollowsLoop' /\ OffersWereTried'
      BY <3>1, SMTT(30)
    <3>3. CandidateWasTried' /\ BookedHasLeftLoop'
      BY <3>1
    <3>4. UnbookedUntilMatched' /\ MatchedIsCandidate' /\ RequestedHasLoop'
      BY <3>1
    <3>5. BookedOnlyByAccept'
      BY <3>1
    <3> QED
      BY <3>2, <3>3, <3>4, <3>5
  <2>12. CASE SendOffer(r)
    BY <2>12 DEF SendOffer
  <2>13. CASE ResolveAccept(r)
    BY <2>13 DEF ResolveAccept
  <2>14. CASE CloseOffer(r)
    <3>1. pc[r] \in {"accepted", "rejected", "timeout"}
          /\ pc' = [pc EXCEPT ![r] = IF pc[r] = "accepted" THEN "commit" ELSE "refuseUnlock"]
          /\ offers' = [offers EXCEPT ![r][cand[r]] = pc[r]]
          /\ UNCHANGED <<status, driverOf, cand, tried>>
      BY <2>14 DEF CloseOffer, WriteOffer
    <3>2. OfferFollowsLoop' /\ OffersWereTried'
      <4>1. OfferFollowsLoop'
        BY <3>1, SMTT(20)
      <4>2. OffersWereTried'
        BY <3>1
      <4> QED
        BY <4>1, <4>2
    <3>3. CandidateWasTried' /\ BookedHasLeftLoop'
      <4>1. CandidateWasTried'
        BY <3>1
      <4>2. BookedHasLeftLoop'
        BY <3>1
      <4> QED
        BY <4>1, <4>2
    <3>4. UnbookedUntilMatched' /\ MatchedIsCandidate' /\ RequestedHasLoop'
      BY <3>1
    <3>5. BookedOnlyByAccept'
      BY <3>1
    <3> QED
      BY <3>2, <3>3, <3>4, <3>5
  <2>15. CASE RefuseUnlock(r)
    BY <2>15 DEF RefuseUnlock
  <2>16. CASE RefusePool(r)
    BY <2>16 DEF RefusePool
  <2>17. CASE CommitMatch(r)
    BY <2>17 DEF CommitMatch, MatchRide, CanMatch, Live
  <2>18. CASE RefuseMatch(r)
    BY <2>18 DEF RefuseMatch
  <2>19. CASE HoldForRide(r)
    <3>1. CASE Goto(r, "point")
      BY <2>19, <3>1 DEF HoldForRide
    <3>2. CASE Goto(r, "cacheMatch")
      BY <2>19, <3>2 DEF HoldForRide
    <3> QED
      BY <2>19, <3>1, <3>2 DEF HoldForRide
  <2>20. CASE PointAtRide(r)
    BY <2>20 DEF PointAtRide
  <2>21. CASE CacheMatch(r)
    BY <2>21 DEF CacheMatch
  <2>22. CASE TellMatched(r)
    BY <2>22 DEF TellMatched, TellRider, Finish
  <2>23. CASE UndoUnlock(r)
    BY <2>23 DEF UndoUnlock
  <2>24. CASE UndoPointer(r)
    BY <2>24 DEF UndoPointer
  <2>25. CASE MarkNoDrivers(r)
    BY <2>25 DEF MarkNoDrivers, MoveRideIfStill
  <2>26. CASE TellNoDrivers(r)
    BY <2>26 DEF TellNoDrivers, TellRider, Finish
  <2> QED
    BY <2>1, <2>2, <2>3, <2>4, <2>5, <2>6, <2>7, <2>8, <2>9, <2>10, <2>11, <2>12, <2>13,
       <2>14, <2>15, <2>16, <2>17, <2>18, <2>19, <2>20, <2>21, <2>22, <2>23, <2>24, <2>25,
       <2>26 DEF LoopStep
<1>2. ASSUME NEW r \in Rides, Handler(r)
      PROVE Audited'
  <2> USE <1>2 DEF Handler
  <2>1. CASE CacheNewRide(r)
    BY <2>1 DEF CacheNewRide
  <2>2. CASE CacheStarted(r)
    BY <2>2 DEF CacheStarted, TellRider
  <2>3. CASE CloseUnlock(r)
    BY <2>3 DEF CloseUnlock
  <2>4. CASE ClosePointer(r)
    BY <2>4 DEF ClosePointer
  <2>5. CASE CloseDropFirst(r)
    BY <2>5 DEF CloseDropFirst
  <2>6. CASE ClosePool(r)
    BY <2>6 DEF ClosePool, Broadcast, TellRider
  <2>7. CASE CloseDrop(r)
    BY <2>7 DEF CloseDrop, Broadcast, TellRider
  <2> QED
    BY <2>1, <2>2, <2>3, <2>4, <2>5, <2>6, <2>7 DEF HandlerStep
<1>3. ASSUME NEW r \in Rides, up, RiderAction(r), UNCHANGED <<driverVars, worldVars>>
      PROVE Audited'
  <2> USE <1>3
  <2>1. CASE RequestRide(r)
    BY <2>1 DEF RequestRide, InsertRide, Open
  <2>2. CASE CancelRide(r)
    BY <2>2 DEF CancelRide, MoveRide
  <2> QED
    BY <2>1, <2>2 DEF RiderAction
<1>4. ASSUME NEW r \in Rides, up, DriverRideAction(r), UNCHANGED worldVars
      PROVE Audited'
  <2> USE <1>4
  <2>1. CASE AcceptOffer(r) /\ UNCHANGED <<rideVars, driverVars>>
    BY <2>1 DEF AcceptOffer
  <2>2. CASE RejectOffer(r) /\ UNCHANGED <<rideVars, driverVars>>
    BY <2>2 DEF RejectOffer
  <2>3. CASE StartRide(r) /\ UNCHANGED driverVars
    BY <2>3 DEF StartRide, MoveRide
  <2>4. CASE CompleteRide(r) /\ UNCHANGED driverVars
    BY <2>4 DEF CompleteRide, MoveRide
  <2> QED
    BY <2>1, <2>2, <2>3, <2>4 DEF DriverRideAction
<1>5. ASSUME NEW r \in Rides, Timeout(r) \/ Fault(r),
             UNCHANGED <<rideVars, driverVars, processVars>>
      PROVE Audited'
  <2> USE <1>5
  <2>1. CASE Timeout(r)
    BY <2>1 DEF Timeout, OfferTimeout
  <2>2. CASE FailStore(r)
    BY <2>2 DEF FailStore
  <2>3. CASE LoseCommitReply(r)
    BY <2>3 DEF LoseCommitReply, MatchRide, CanMatch, Live
  <2> QED
    BY <2>1, <2>2, <2>3 DEF Fault
<1>6. ASSUME NEW d \in Drivers, Toggling(d)
      PROVE Audited'
  <2> USE <1>6 DEF Toggling
  <2>1. CASE OfflineUpdate(d)
    BY <2>1 DEF OfflineUpdate
  <2>2. CASE OfflineLeave(d)
    BY <2>2 DEF OfflineLeave
  <2>3. CASE OfflineReply(d)
    BY <2>3 DEF OfflineReply
  <2>4. CASE OnlinePool(d)
    BY <2>4 DEF OnlinePool
  <2> QED
    BY <2>1, <2>2, <2>3, <2>4 DEF ToggleStep
<1>7. ASSUME NEW d \in Drivers, up, DriverAction(d), UNCHANGED worldVars
      PROVE Audited'
  <2> USE <1>7
  <2>1. CASE Ping(d)
    BY <2>1 DEF Ping
  <2>2. CASE Connect(d)
    BY <2>2 DEF Connect
  <2>3. CASE Disconnect(d)
    BY <2>3 DEF Disconnect
  <2>4. CASE GrowStale(d)
    BY <2>4 DEF GrowStale
  <2>5. CASE GoOffline(d)
    BY <2>5 DEF GoOffline
  <2>6. CASE GoOnline(d)
    BY <2>6 DEF GoOnline
  <2> QED
    BY <2>1, <2>2, <2>3, <2>4, <2>5, <2>6 DEF DriverAction
<1>8. ASSUME NEW d \in Drivers, Expire(d), UNCHANGED processVars
      PROVE Audited'
  BY <1>8 DEF Expire
<1>9. CASE Crash
  BY <1>9 DEF Crash
<1>10. CASE Boot
  BY <1>10 DEF Boot
<1>11. CASE Flush
  BY <1>11 DEF Flush
<1>12. CASE UNCHANGED vars
  BY <1>12 DEF vars, appVars
<1> QED
  BY <1>1, <1>2, <1>3, <1>4, <1>5, <1>6, <1>7, <1>8, <1>9, <1>10, <1>11, <1>12
  DEF Next, RideNext, DriverNext


----------------------------------------------------------------------------
(* What follows for bookings.                                               *)

\* The two invariants, together and for good.
LEMMA TrailAlways == Spec => [](Wellformed /\ Audited)
  BY WellformedInit, WellformedNext, AuditedInit, AuditedNext, PTL DEF Spec

\* A ride is booked on a driver only after that driver's own yes, whatever
\* crashes, flushes, lapsed locks and failing Postgres calls occur.
THEOREM AcceptBeforeBooking == Spec => []BookedOnlyByAccept
<1>1. Audited => BookedOnlyByAccept
  BY DEF Audited
<1> QED
  BY <1>1, TrailAlways, PTL

\* No step gives a driver a second live ride: the only statement that makes a
\* ride live asks for a driver without one.
LEMMA DoubleBookingNext ==
    Wellformed /\ Audited /\ NoDoubleBooking /\ [Next]_vars => NoDoubleBooking'
<1> SUFFICES ASSUME Wellformed, Audited, NoDoubleBooking, [Next]_vars
             PROVE NoDoubleBooking'
  OBVIOUS
<1> USE DEF NoDoubleBooking, LiveRidesOf, Live, Wellformed, TypeOK, StoreType
<1>1. CASE UNCHANGED storeVars
  BY <1>1 DEF storeVars
<1>2. ASSUME NEW r \in Rides, StoreStepOf(r)
      PROVE NoDoubleBooking'
  <2> USE <1>2
  <2>1. CASE At(r, "commit") /\ MatchRide(r, cand[r])
    BY <2>1 DEF MatchRide, CanMatch
  <2>2. CASE MoveRide(r, {"matched"}, "in_progress")
    BY <2>2 DEF MoveRide
  <2>3. CASE MoveRide(r, {"in_progress"}, "completed")
    BY <2>3 DEF MoveRide
  <2>4. CASE MoveRide(r, {"requested", "matched"}, "cancelled")
    BY <2>4 DEF MoveRide
  <2>5. CASE MoveRideIfStill(r, {"requested"}, "no_drivers")
    BY <2>5 DEF MoveRideIfStill
  <2>6. CASE At(r, "off") /\ InsertRide(r)
    BY <2>6 DEF InsertRide
  <2>7. CASE UNCHANGED <<status, driverOf>>
    BY <2>7
  <2> QED
    BY <2>1, <2>2, <2>3, <2>4, <2>5, <2>6, <2>7 DEF StoreStepOf, WriteOffer
<1> QED
  BY <1>1, <1>2, StoreSteps

\* No driver is ever on two live rides.
THEOREM OneLiveRidePerDriver == Spec => []NoDoubleBooking
<1>1. Init => NoDoubleBooking
  BY DEF Init, StoreInit, NoDoubleBooking, LiveRidesOf, Live
<1> QED
  BY <1>1, TrailAlways, DoubleBookingNext, PTL DEF Spec

\* No step gives a rider a second open ride: the INSERT asks for a rider without
\* one, and no other statement opens a ride that was not open.
LEMMA OpenRideNext ==
    Wellformed /\ OneOpenRide /\ [Next]_vars => OneOpenRide'
<1> SUFFICES ASSUME Wellformed, OneOpenRide, [Next]_vars
             PROVE OneOpenRide'
  OBVIOUS
<1> USE RiderOfAssumption DEF OneOpenRide, OpenRidesOf, Open, Live, Wellformed, TypeOK, StoreType
<1>1. CASE UNCHANGED storeVars
  BY <1>1 DEF storeVars
<1>2. ASSUME NEW r \in Rides, StoreStepOf(r)
      PROVE OneOpenRide'
  <2> USE <1>2
  <2>1. CASE At(r, "commit") /\ MatchRide(r, cand[r])
    BY <2>1 DEF MatchRide, CanMatch
  <2>2. CASE MoveRide(r, {"matched"}, "in_progress")
    BY <2>2 DEF MoveRide
  <2>3. CASE MoveRide(r, {"in_progress"}, "completed")
    BY <2>3 DEF MoveRide
  <2>4. CASE MoveRide(r, {"requested", "matched"}, "cancelled")
    BY <2>4 DEF MoveRide
  <2>5. CASE MoveRideIfStill(r, {"requested"}, "no_drivers")
    BY <2>5 DEF MoveRideIfStill
  <2>6. CASE At(r, "off") /\ InsertRide(r)
    BY <2>6 DEF InsertRide
  <2>7. CASE UNCHANGED <<status, driverOf>>
    BY <2>7
  <2> QED
    BY <2>1, <2>2, <2>3, <2>4, <2>5, <2>6, <2>7 DEF StoreStepOf, WriteOffer
<1> QED
  BY <1>1, <1>2, StoreSteps

\* No rider ever has two open rides, however often he asks.
THEOREM OneOpenRidePerRider == Spec => []OneOpenRide
<1>1. Init => OneOpenRide
  BY DEF Init, StoreInit, OneOpenRide, OpenRidesOf, Open, Live
<1>2. Wellformed /\ OneOpenRide /\ [Next]_vars => OneOpenRide'
  BY OpenRideNext
<1> QED
  BY <1>1, <1>2, TrailAlways, PTL DEF Spec

----------------------------------------------------------------------------
(* The server implements the booking rules.                                 *)

Said == {p \in Rides \X Drivers : offers[p[1]][p[2]] = "accepted"}

\* A response that is not "accepted", written over one that is not, says
\* nothing to the booking rules.
LEMMA QuietOffer ==
    ASSUME StoreType, NEW r \in Rides, NEW d \in Drivers, NEW answer \in Response,
           WriteOffer(r, d, answer), answer # "accepted", offers[r][d] # "accepted"
    PROVE  Said' = Said
  BY DEF StoreType, WriteOffer, Said

\* A yes adds its pair.
LEMMA LoudOffer ==
    ASSUME StoreType, NEW r \in Rides, NEW d \in Drivers, WriteOffer(r, d, "accepted")
    PROVE  Said' = Said \cup {<<r, d>>}
  BY DEF StoreType, WriteOffer, Said

Serving == [d \in Drivers |-> LiveRidesOf(d)]

\* As long as the row of every ride keeps its driver and its liveness, every
\* driver is on the same rides.
LEMMA SameService ==
    ASSUME driverOf' = driverOf,
           \A r \in Rides : status'[r] \in Live <=> status[r] \in Live
    PROVE  Serving' = Serving
  BY DEF Serving, LiveRidesOf

\* A ride that ends frees its driver and nobody else.
LEMMA EndOfService ==
    ASSUME StoreType, NEW r \in Rides, NEW new \in Status \ Live,
           status' = [status EXCEPT ![r] = new], driverOf' = driverOf
    PROVE  Serving' = [d \in Drivers |-> Serving[d] \ {r}]
<1>1. ASSUME NEW d \in Drivers
      PROVE LiveRidesOf(d)' = LiveRidesOf(d) \ {r}
  BY <1>1 DEF LiveRidesOf, StoreType
<1> QED
  BY <1>1 DEF Serving

\* Every step of the server is a step of Booking or leaves its state alone.
LEMMA BookingSteps ==
    Wellformed /\ Audited /\ [Next]_vars => [Bookings!Next]_(Bookings!bookingVars)
<1> SUFFICES ASSUME Wellformed, Audited, [Next]_vars
             PROVE  Bookings!Next \/ UNCHANGED <<status, Said, Serving>>
  BY DEF Bookings!bookingVars, Said, Serving
<1> USE DEF Wellformed, TypeOK
<1>1. CASE UNCHANGED storeVars
  BY <1>1 DEF storeVars, Said, Serving, LiveRidesOf
<1>2. ASSUME NEW r \in Rides, StoreStepOf(r)
      PROVE  Bookings!Next \/ UNCHANGED <<status, Said, Serving>>
  <2>1. CASE At(r, "off") /\ InsertRide(r)
    <3>1. Serving' = Serving
      BY <2>1, SameService DEF InsertRide, StoreType, Live
    <3>2. Said' = Said
      BY <2>1 DEF InsertRide, Said
    <3>3. \A s \in Rides : RiderOf[s] = RiderOf[r] => status[s] \notin Bookings!Active
      BY <2>1 DEF InsertRide, OpenRidesOf, Open, Live, Bookings!Active
    <3>4. Bookings!Request(r)
      BY <2>1, <3>1, <3>2, <3>3
      DEF InsertRide, Bookings!Request, Bookings!Move, Said, Serving
    <3> QED
      BY <3>4 DEF Bookings!Next
  <2>2. CASE At(r, "commit") /\ MatchRide(r, cand[r])
    <3>1. cand[r] \in Drivers /\ offers[r][cand[r]] = "accepted" /\ driverOf[r] = NoDriver
      BY <2>2 DEF CandidateBound, HasCandidate, Label, Audited, OfferFollowsLoop,
                  UnbookedUntilMatched, MatchRide, CanMatch, At
    <3>2. Said' = Said
      BY <2>2 DEF MatchRide, Said
    <3>3. ASSUME NEW d \in Drivers
          PROVE LiveRidesOf(d)' = IF d = cand[r] THEN {r} ELSE LiveRidesOf(d)
      BY <2>2, <3>1, NoDriverAssumption DEF MatchRide, CanMatch, LiveRidesOf, Live, StoreType
    <3>4. Serving' = [Serving EXCEPT ![cand[r]] = {r}]
      BY <3>1, <3>3 DEF Serving
    <3>5. Bookings!Assign(r, cand[r])
      BY <2>2, <3>1, <3>2, <3>4
      DEF MatchRide, CanMatch, Bookings!Assign, Bookings!Move, Said, Serving
    <3> QED
      BY <3>1, <3>5 DEF Bookings!Next
  <2>3. CASE MoveRide(r, {"matched"}, "in_progress")
    <3>1. Serving' = Serving
      BY <2>3, SameService DEF MoveRide, StoreType, Live
    <3>2. Said' = Said
      BY <2>3 DEF MoveRide, Said
    <3>3. Bookings!Start(r)
      BY <2>3, <3>1, <3>2 DEF MoveRide, Bookings!Start, Bookings!Move, Said, Serving
    <3> QED
      BY <3>3 DEF Bookings!Next
  <2>4. CASE MoveRide(r, {"in_progress"}, "completed")
    <3>1. Serving' = [d \in Drivers |-> Serving[d] \ {r}]
      BY <2>4, EndOfService DEF MoveRide, Status, Live
    <3>2. Said' = Said
      BY <2>4 DEF MoveRide, Said
    <3>3. Bookings!Complete(r)
      BY <2>4, <3>1, <3>2
      DEF MoveRide, Bookings!Complete, Bookings!Move, Bookings!Release, Said, Serving
    <3> QED
      BY <3>3 DEF Bookings!Next
  <2>5. CASE MoveRide(r, {"requested", "matched"}, "cancelled")
    <3>1. Serving' = [d \in Drivers |-> Serving[d] \ {r}]
      BY <2>5, EndOfService DEF MoveRide, Status, Live
    <3>2. Said' = Said
      BY <2>5 DEF MoveRide, Said
    <3>3. Bookings!Cancel(r)
      BY <2>5, <3>1, <3>2
      DEF MoveRide, Bookings!Cancel, Bookings!Move, Bookings!Release, Said, Serving
    <3> QED
      BY <3>3 DEF Bookings!Next
  <2>6. CASE MoveRideIfStill(r, {"requested"}, "no_drivers")
    <3>1. Serving' = Serving
      BY <2>6, SameService DEF MoveRideIfStill, StoreType, Live
    <3>2. Said' = Said
      BY <2>6 DEF MoveRideIfStill, Said
    <3>3. CASE status[r] = "requested"
      <4>1. Bookings!GiveUp(r)
        BY <2>6, <3>1, <3>2, <3>3
        DEF MoveRideIfStill, Bookings!GiveUp, Bookings!Move, Said, Serving
      <4> QED
        BY <4>1 DEF Bookings!Next
    <3>4. CASE status[r] # "requested"
      BY <2>6, <3>1, <3>2, <3>4 DEF MoveRideIfStill, StoreType
    <3> QED
      BY <3>3, <3>4
  <2>7. CASE pc[r] \in {"lost", "absentRecord", "claimed"}
             /\ \E answer \in {"lock_failed", "timeout", "pending"} :
                    WriteOffer(r, cand[r], answer)
    <3>1. cand[r] \in Drivers /\ offers[r][cand[r]] = "none"
      BY <2>7 DEF CandidateBound, HasCandidate, Label, Audited, OfferFollowsLoop
    <3>2. Said' = Said
      BY <2>7, <3>1, QuietOffer DEF Response
    <3>3. Serving' = Serving /\ status' = status
      BY <2>7, SameService DEF WriteOffer
    <3> QED
      BY <3>2, <3>3
  <2>8. CASE pc[r] \in {"rejected", "timeout"} /\ WriteOffer(r, cand[r], pc[r])
    <3>1. cand[r] \in Drivers /\ offers[r][cand[r]] = "pending"
      BY <2>8 DEF CandidateBound, HasCandidate, Label, Audited, OfferFollowsLoop
    <3>2. Said' = Said
      BY <2>8, <3>1, QuietOffer DEF Response
    <3>3. Serving' = Serving /\ status' = status
      BY <2>8, SameService DEF WriteOffer
    <3> QED
      BY <3>2, <3>3
  <2>9. CASE At(r, "accepted") /\ WriteOffer(r, cand[r], "accepted")
    <3>1. PICK d \in Drivers : d = cand[r]
      BY <2>9 DEF CandidateBound, HasCandidate, Label, At
    <3>2. status[r] # "absent"
      BY <2>9 DEF Audited, RequestedHasLoop, At
    <3>3. Said' = Said \cup {<<r, d>>}
      BY <2>9, <3>1, LoudOffer
    <3>4. Serving' = Serving
      BY <2>9, SameService DEF WriteOffer
    <3>5. Bookings!Accept(r, d)
      BY <2>9, <3>2, <3>3, <3>4 DEF WriteOffer, Bookings!Accept, Said, Serving
    <3> QED
      BY <3>5 DEF Bookings!Next
  <2> QED
    BY <1>2, <2>1, <2>2, <2>3, <2>4, <2>5, <2>6, <2>7, <2>8, <2>9 DEF StoreStepOf, At
<1> QED
  BY <1>1, <1>2, StoreSteps

\* The whole server, with its locks, loops, crashes and faults, implements the
\* booking rules.
THEOREM ServerFollowsBookingRules == Spec => FollowsBookingRules
<1>1. Init => Bookings!Init
  BY DEF Init, StoreInit, Bookings!Init, LiveRidesOf, Live
<1> QED
  BY <1>1, BookingSteps, TrailAlways, PTL DEF Spec, FollowsBookingRules, Bookings!Spec
=============================================================================
