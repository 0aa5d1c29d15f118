------------------------------ MODULE LockProofs ------------------------------
(***************************************************************************)
(* Redis against Postgres: the lock, the pool and the active-ride pointer, *)
(* for every value of the constants.                                       *)
(***************************************************************************)
EXTENDS TrackingProofs

----------------------------------------------------------------------------
(* The pool.                                                                *)

\* A driver enters the pool only while nobody holds his lock, and whoever takes
\* the lock of a driver in the pool stands at the ZREM.
LEMMA PoolNext ==
    ASSUME ~UnsafeDisableLock, Wellformed, PoolExcludesLocked, [Next]_vars
    PROVE  PoolExcludesLocked'
<1> USE NoRideAssumption, NoDriverAssumption
    DEF Wellformed, TypeOK, StoreType, RedisType, DispatchType, CandidateBound, HasCandidate,
        Label, storeVars, redisVars, dispatchVars, rideVars, driverVars,
        worldVars, processVars, loopVars,
        RedisStep, StoreStep, LocalStep, OfferStep, CloseStep, NoRideStep, At, Goto, Continue, PoolExcludesLocked
<1>1. ASSUME NEW r \in Rides, Loop(r)
      PROVE PoolExcludesLocked'
  <2> USE <1>1 DEF Loop
  <2>1. CASE \E d \in Drivers : PickCandidate(r, d)
    BY <2>1 DEF PickCandidate, Candidates, Nearby
  <2>2. CASE RunOut(r)
    BY <2>2 DEF RunOut
  <2>3. CASE ClaimDriver(r)
    BY <2>3 DEF ClaimDriver, SetNX, SetLock
  <2>4. CASE LoseClaim(r)
    BY <2>4 DEF LoseClaim
  <2>5. CASE ClaimUnsafely(r)
    BY <2>5 DEF ClaimUnsafely, SetLock
  <2>6. CASE LeavePool(r)
    BY <2>6 DEF LeavePool, RemoveFromPool
  <2>7. CASE RecordLost(r)
    BY <2>7 DEF RecordLost
  <2>8. CASE LetGoAbsent(r)
    BY <2>8 DEF LetGoAbsent, Unlock
  <2>9. CASE RepoolAbsent(r)
    BY <2>9 DEF RepoolAbsent, UpdatePosition
  <2>10. CASE RecordAbsent(r)
    BY <2>10 DEF RecordAbsent
  <2>11. CASE RecordOffer(r)
    BY <2>11 DEF RecordOffer
  <2>12. CASE SendOffer(r)
    BY <2>12 DEF SendOffer
  <2>13. CASE ResolveAccept(r)
    BY <2>13 DEF ResolveAccept
  <2>14. CASE CloseOffer(r)
    BY <2>14 DEF CloseOffer
  <2>15. CASE RefuseUnlock(r)
    BY <2>15 DEF RefuseUnlock, Unlock
  <2>16. CASE RefusePool(r)
    BY <2>16 DEF RefusePool, UpdatePosition
  <2>17. CASE CommitMatch(r)
    BY <2>17 DEF CommitMatch
  <2>18. CASE RefuseMatch(r)
    BY <2>18 DEF RefuseMatch
  <2>19. CASE HoldForRide(r)
    BY <2>19 DEF HoldForRide, HoldLock, CanHold
  <2>20. CASE PointAtRide(r)
    BY <2>20 DEF PointAtRide, SetPointer
  <2>21. CASE CacheMatch(r)
    BY <2>21 DEF CacheMatch, SetCache
  <2>22. CASE TellMatched(r)
    BY <2>22 DEF TellMatched, Finish
  <2>23. CASE UndoUnlock(r)
    BY <2>23 DEF UndoUnlock, Unlock
  <2>24. CASE UndoPointer(r)
    BY <2>24 DEF UndoPointer, DelPointer, SetPointer
  <2>25. CASE MarkNoDrivers(r)
    BY <2>25 DEF MarkNoDrivers
  <2>26. CASE TellNoDrivers(r)
    BY <2>26 DEF TellNoDrivers, Finish
  <2> QED
    BY <2>1, <2>2, <2>3, <2>4, <2>5, <2>6, <2>7, <2>8, <2>9, <2>10, <2>11, <2>12, <2>13,
       <2>14, <2>15, <2>16, <2>17, <2>18, <2>19, <2>20, <2>21, <2>22, <2>23, <2>24, <2>25,
       <2>26 DEF LoopStep
<1>2. ASSUME NEW r \in Rides, Handler(r)
      PROVE PoolExcludesLocked'
  <2> USE <1>2 DEF Handler
  <2>1. CASE CacheNewRide(r)
    BY <2>1 DEF CacheNewRide, SetCache
  <2>2. CASE CacheStarted(r)
    BY <2>2 DEF CacheStarted, SetCache
  <2>3. CASE CloseUnlock(r)
    BY <2>3 DEF CloseUnlock, Unlock
  <2>4. CASE ClosePointer(r)
    BY <2>4 DEF ClosePointer, DelPointer, SetPointer
  <2>5. CASE CloseDropFirst(r)
    BY <2>5 DEF CloseDropFirst, DropCache, SetCache
  <2>6. CASE ClosePool(r)
    BY <2>6 DEF ClosePool, RepoolAtLastPosition, UpdatePosition, Broadcast
  <2>7. CASE CloseDrop(r)
    BY <2>7 DEF CloseDrop, DropCache, SetCache, Broadcast
  <2> QED
    BY <2>1, <2>2, <2>3, <2>4, <2>5, <2>6, <2>7 DEF HandlerStep
<1>3. ASSUME NEW r \in Rides, up, RiderAction(r), UNCHANGED <<driverVars, worldVars>>
      PROVE PoolExcludesLocked'
  <2> USE <1>3
  <2>1. CASE RequestRide(r)
    BY <2>1 DEF RequestRide
  <2>2. CASE CancelRide(r)
    BY <2>2 DEF CancelRide
  <2> QED
    BY <2>1, <2>2 DEF RiderAction
<1>4. ASSUME NEW r \in Rides, up, DriverRideAction(r), UNCHANGED worldVars
      PROVE PoolExcludesLocked'
  <2> USE <1>4
  <2>1. CASE AcceptOffer(r) /\ UNCHANGED <<rideVars, driverVars>>
    BY <2>1 DEF AcceptOffer
  <2>2. CASE RejectOffer(r) /\ UNCHANGED <<rideVars, driverVars>>
    BY <2>2 DEF RejectOffer
  <2>3. CASE StartRide(r) /\ UNCHANGED driverVars
    BY <2>3 DEF StartRide
  <2>4. CASE CompleteRide(r) /\ UNCHANGED driverVars
    BY <2>4 DEF CompleteRide
  <2> QED
    BY <2>1, <2>2, <2>3, <2>4 DEF DriverRideAction
<1>5. ASSUME NEW r \in Rides, Timeout(r) \/ Fault(r),
             UNCHANGED <<rideVars, driverVars, processVars>>
      PROVE PoolExcludesLocked'
  <2> USE <1>5
  <2>1. CASE Timeout(r)
    BY <2>1 DEF Timeout, OfferTimeout, Waiting
  <2>2. CASE FailStore(r)
    BY <2>2 DEF FailStore
  <2>3. CASE LoseCommitReply(r)
    BY <2>3 DEF LoseCommitReply
  <2> QED
    BY <2>1, <2>2, <2>3 DEF Fault
<1>6. ASSUME NEW d \in Drivers, Toggling(d)
      PROVE PoolExcludesLocked'
  <2> USE <1>6 DEF Toggling
  <2>1. CASE OfflineUpdate(d)
    BY <2>1 DEF OfflineUpdate
  <2>2. CASE OfflineLeave(d)
    BY <2>2 DEF OfflineLeave, RemoveFromPool
  <2>3. CASE OfflineReply(d)
    BY <2>3 DEF OfflineReply
  <2>4. CASE OnlinePool(d)
    BY <2>4 DEF OnlinePool, UpdatePosition
  <2> QED
    BY <2>1, <2>2, <2>3, <2>4 DEF ToggleStep
<1>7. ASSUME NEW d \in Drivers, up, DriverAction(d), UNCHANGED worldVars
      PROVE PoolExcludesLocked'
  <2> USE <1>7
  <2>1. CASE Ping(d)
    BY <2>1 DEF Ping, UpdatePosition
  <2>2. CASE Connect(d)
    BY <2>2 DEF Connect
  <2>3. CASE Disconnect(d)
    BY <2>3 DEF Disconnect
  <2>4. CASE GrowStale(d)
    BY <2>4 DEF GrowStale, AgePosition
  <2>5. CASE GoOffline(d)
    BY <2>5 DEF GoOffline
  <2>6. CASE GoOnline(d)
    BY <2>6 DEF GoOnline
  <2> QED
    BY <2>1, <2>2, <2>3, <2>4, <2>5, <2>6 DEF DriverAction
<1>8. ASSUME NEW d \in Drivers, Expire(d), UNCHANGED processVars
      PROVE PoolExcludesLocked'
  BY <1>8 DEF Expire, LapseLock
<1>9. CASE Crash
  BY <1>9 DEF Crash
<1>10. CASE Boot
  BY <1>10 DEF Boot, Reconcile
<1>11. CASE Flush
  BY <1>11 DEF Flush, FlushRedis
<1>12. CASE UNCHANGED vars
  BY <1>12 DEF vars, appVars
<1> QED
  BY <1>1, <1>2, <1>3, <1>4, <1>5, <1>6, <1>7, <1>8, <1>9, <1>10, <1>11, <1>12
  DEF Next, RideNext, DriverNext

\* With the driver lock in force, a claimed driver is never in the pool beyond
\* the ZREM of the ride that claims him, whatever pings and refusals come in.
THEOREM ClaimedOutOfPool ==
    ASSUME ~UnsafeDisableLock
    PROVE  Spec => []PoolExcludesLocked
<1>1. Init => PoolExcludesLocked
  BY DEF Init, RedisInit, PoolExcludesLocked
<1>2. Wellformed /\ PoolExcludesLocked /\ [Next]_vars => PoolExcludesLocked'
  BY PoolNext
<1> QED
  BY <1>1, <1>2, WellformedInit, WellformedNext, PTL DEF Spec

----------------------------------------------------------------------------
(* The active-ride pointer.                                                 *)

\* The pointer is written by the loop that has just booked the driver and by
\* the reconciliation, deleted by anybody, and a booked ride keeps its driver.
LEMMA PointerNext ==
    ASSUME Wellformed, Audited, PointerOwned, [Next]_vars
    PROVE  PointerOwned'
<1> USE NoRideAssumption, NoDriverAssumption
    DEF Wellformed, TypeOK, StoreType, RedisType, DispatchType, CandidateBound, HasCandidate,
        Label, storeVars, redisVars, dispatchVars, rideVars, driverVars,
        worldVars, processVars, loopVars,
        RedisStep, StoreStep, LocalStep, OfferStep, CloseStep, NoRideStep, At, Goto, Continue, PointerOwned
<1>1. ASSUME NEW r \in Rides, Loop(r)
      PROVE PointerOwned'
  <2> USE <1>1 DEF Loop
  <2>1. CASE \E d \in Drivers : PickCandidate(r, d)
    BY <2>1 DEF PickCandidate, Candidates, Nearby
  <2>2. CASE RunOut(r)
    BY <2>2 DEF RunOut
  <2>3. CASE ClaimDriver(r)
    BY <2>3 DEF ClaimDriver, SetNX, SetLock
  <2>4. CASE LoseClaim(r)
    BY <2>4 DEF LoseClaim
  <2>5. CASE ClaimUnsafely(r)
    BY <2>5 DEF ClaimUnsafely, SetLock
  <2>6. CASE LeavePool(r)
    BY <2>6 DEF LeavePool, RemoveFromPool
  <2>7. CASE RecordLost(r)
    BY <2>7 DEF RecordLost, WriteOffer
  <2>8. CASE LetGoAbsent(r)
    BY <2>8 DEF LetGoAbsent, Unlock
  <2>9. CASE RepoolAbsent(r)
    BY <2>9 DEF RepoolAbsent, UpdatePosition
  <2>10. CASE RecordAbsent(r)
    BY <2>10 DEF RecordAbsent, WriteOffer
  <2>11. CASE RecordOffer(r)
    BY <2>11 DEF RecordOffer, WriteOffer
  <2>12. CASE SendOffer(r)
    BY <2>12 DEF SendOffer
  <2>13. CASE ResolveAccept(r)
    BY <2>13 DEF ResolveAccept
  <2>14. CASE CloseOffer(r)
    BY <2>14 DEF CloseOffer, WriteOffer
  <2>15. CASE RefuseUnlock(r)
    BY <2>15 DEF RefuseUnlock, Unlock
  <2>16. CASE RefusePool(r)
    BY <2>16 DEF RefusePool, UpdatePosition
  <2>17. CASE CommitMatch(r)
    BY <2>17 DEF CommitMatch, MatchRide, CanMatch, Audited, UnbookedUntilMatched
  <2>18. CASE RefuseMatch(r)
    BY <2>18 DEF RefuseMatch
  <2>19. CASE HoldForRide(r)
    BY <2>19 DEF HoldForRide, HoldLock, CanHold
  <2>20. CASE PointAtRide(r)
    BY <2>20 DEF PointAtRide, SetPointer, Audited, MatchedIsCandidate
  <2>21. CASE CacheMatch(r)
    BY <2>21 DEF CacheMatch, SetCache
  <2>22. CASE TellMatched(r)
    BY <2>22 DEF TellMatched, Finish
  <2>23. CASE UndoUnlock(r)
    BY <2>23 DEF UndoUnlock, Unlock
  <2>24. CASE UndoPointer(r)
    BY <2>24 DEF UndoPointer, DelPointer, SetPointer
  <2>25. CASE MarkNoDrivers(r)
    BY <2>25 DEF MarkNoDrivers, MoveRideIfStill
  <2>26. CASE TellNoDrivers(r)
    BY <2>26 DEF TellNoDrivers, Finish
  <2> QED
    BY <2>1, <2>2, <2>3, <2>4, <2>5, <2>6, <2>7, <2>8, <2>9, <2>10, <2>11, <2>12, <2>13,
       <2>14, <2>15, <2>16, <2>17, <2>18, <2>19, <2>20, <2>21, <2>22, <2>23, <2>24, <2>25,
       <2>26 DEF LoopStep
<1>2. ASSUME NEW r \in Rides, Handler(r)
      PROVE PointerOwned'
  <2> USE <1>2 DEF Handler
  <2>1. CASE CacheNewRide(r)
    BY <2>1 DEF CacheNewRide, SetCache
  <2>2. CASE CacheStarted(r)
    BY <2>2 DEF CacheStarted, SetCache
  <2>3. CASE CloseUnlock(r)
    BY <2>3 DEF CloseUnlock, Unlock
  <2>4. CASE ClosePointer(r)
    BY <2>4 DEF ClosePointer, DelPointer, SetPointer
  <2>5. CASE CloseDropFirst(r)
    BY <2>5 DEF CloseDropFirst, DropCache, SetCache
  <2>6. CASE ClosePool(r)
    BY <2>6 DEF ClosePool, RepoolAtLastPosition, UpdatePosition, Broadcast
  <2>7. CASE CloseDrop(r)
    BY <2>7 DEF CloseDrop, DropCache, SetCache, Broadcast
  <2> QED
    BY <2>1, <2>2, <2>3, <2>4, <2>5, <2>6, <2>7 DEF HandlerStep
<1>3. ASSUME NEW r \in Rides, up, RiderAction(r), UNCHANGED <<driverVars, worldVars>>
      PROVE PointerOwned'
  <2> USE <1>3
  <2>1. CASE RequestRide(r)
    BY <2>1 DEF RequestRide, InsertRide
  <2>2. CASE CancelRide(r)
    BY <2>2 DEF CancelRide, MoveRide
  <2> QED
    BY <2>1, <2>2 DEF RiderAction
<1>4. ASSUME NEW r \in Rides, up, DriverRideAction(r), UNCHANGED worldVars
      PROVE PointerOwned'
  <2> USE <1>4
  <2>1. CASE AcceptOffer(r) /\ UNCHANGED <<rideVars, driverVars>>
    BY <2>1 DEF AcceptOffer
  <2>2. CASE RejectOffer(r) /\ UNCHANGED <<rideVars, driverVars>>
    BY <2>2 DEF RejectOffer
  <2>3. CASE StartRide(r) /\ UNCHANGED driverVars
    BY <2>3 DEF StartRide, MoveRide
  <2>4. CASE CompleteRide(r) /\ UNCHANGED driverVars
    BY <2>4 DEF CompleteRide, MoveRide
  <2> QED
    BY <2>1, <2>2, <2>3, <2>4 DEF DriverRideAction
<1>5. ASSUME NEW r \in Rides, Timeout(r) \/ Fault(r),
             UNCHANGED <<rideVars, driverVars, processVars>>
      PROVE PointerOwned'
  <2> USE <1>5
  <2>1. CASE Timeout(r)
    BY <2>1 DEF Timeout, OfferTimeout
  <2>2. CASE FailStore(r)
    BY <2>2 DEF FailStore
  <2>3. CASE LoseCommitReply(r)
    BY <2>3 DEF LoseCommitReply, MatchRide, CanMatch, Audited, UnbookedUntilMatched
  <2> QED
    BY <2>1, <2>2, <2>3 DEF Fault
<1>6. ASSUME NEW d \in Drivers, Toggling(d)
      PROVE PointerOwned'
  <2> USE <1>6 DEF Toggling
  <2>1. CASE OfflineUpdate(d)
    BY <2>1 DEF OfflineUpdate
  <2>2. CASE OfflineLeave(d)
    BY <2>2 DEF OfflineLeave, RemoveFromPool
  <2>3. CASE OfflineReply(d)
    BY <2>3 DEF OfflineReply
  <2>4. CASE OnlinePool(d)
    BY <2>4 DEF OnlinePool, UpdatePosition
  <2> QED
    BY <2>1, <2>2, <2>3, <2>4 DEF ToggleStep
<1>7. ASSUME NEW d \in Drivers, up, DriverAction(d), UNCHANGED worldVars
      PROVE PointerOwned'
  <2> USE <1>7
  <2>1. CASE Ping(d)
    BY <2>1 DEF Ping, UpdatePosition
  <2>2. CASE Connect(d)
    BY <2>2 DEF Connect
  <2>3. CASE Disconnect(d)
    BY <2>3 DEF Disconnect
  <2>4. CASE GrowStale(d)
    BY <2>4 DEF GrowStale, AgePosition
  <2>5. CASE GoOffline(d)
    BY <2>5 DEF GoOffline
  <2>6. CASE GoOnline(d)
    BY <2>6 DEF GoOnline
  <2> QED
    BY <2>1, <2>2, <2>3, <2>4, <2>5, <2>6 DEF DriverAction
<1>8. ASSUME NEW d \in Drivers, Expire(d), UNCHANGED processVars
      PROVE PointerOwned'
  BY <1>8 DEF Expire, LapseLock
<1>9. CASE Crash
  BY <1>9 DEF Crash
<1>10. CASE Boot
  BY <1>10 DEF Boot, Reconcile, LiveRidesOf
<1>11. CASE Flush
  BY <1>11 DEF Flush, FlushRedis
<1>12. CASE UNCHANGED vars
  BY <1>12 DEF vars, appVars
<1> QED
  BY <1>1, <1>2, <1>3, <1>4, <1>5, <1>6, <1>7, <1>8, <1>9, <1>10, <1>11, <1>12
  DEF Next, RideNext, DriverNext

\* A driver's position is never routed by a pointer to a ride he is not booked
\* on, with or without the lock, across crashes and flushes.
THEOREM PositionsToOwnRide == Spec => []PointerOwned
<1>1. Init => PointerOwned
  BY DEF Init, RedisInit, PointerOwned
<1>2. Wellformed /\ Audited /\ PointerOwned /\ [Next]_vars => PointerOwned'
  BY PointerNext
<1> QED
  BY <1>1, <1>2, TrailAlways, PTL DEF Spec

----------------------------------------------------------------------------
(* Unlocking.                                                               *)

\* The lock of d changes hands from r in a step of another ride s.
LosesTo(d, r, s) == lock[d] = r /\ lock'[d] # r /\ (pc'[s] # pc[s] \/ closing'[s] # closing[s])

Undisturbed == \A d \in Drivers : \A r, s \in Rides : LosesTo(d, r, s) => r = s

\* A lock goes away by its owner's compare-and-delete, by its TTL, or with all
\* of Redis; none of these moves the loop or the handler of another ride.
LEMMA UnlockStep ==
    ASSUME ~UnsafeDisableLock, Wellformed, [Next]_vars
    PROVE  Undisturbed
<1> USE NoRideAssumption, NoDriverAssumption
    DEF Wellformed, TypeOK, StoreType, RedisType, DispatchType, CandidateBound, HasCandidate,
        Label, storeVars, redisVars, dispatchVars, rideVars, driverVars,
        worldVars, processVars, loopVars,
        RedisStep, StoreStep, LocalStep, OfferStep, CloseStep, NoRideStep, At, Goto, Continue,
        Undisturbed, LosesTo, RideType, CloseGoto
<1>1. ASSUME NEW r \in Rides, Loop(r)
      PROVE Undisturbed
  <2> USE <1>1 DEF Loop
  <2>1. CASE \E d \in Drivers : PickCandidate(r, d)
    BY <2>1 DEF PickCandidate, Candidates, Nearby
  <2>2. CASE RunOut(r)
    BY <2>2 DEF RunOut
  <2>3. CASE ClaimDriver(r)
    BY <2>3 DEF ClaimDriver, SetNX, SetLock
  <2>4. CASE LoseClaim(r)
    BY <2>4 DEF LoseClaim
  <2>5. CASE ClaimUnsafely(r)
    BY <2>5 DEF ClaimUnsafely, SetLock
  <2>6. CASE LeavePool(r)
    BY <2>6 DEF LeavePool, RemoveFromPool
  <2>7. CASE RecordLost(r)
    BY <2>7 DEF RecordLost
  <2>8. CASE LetGoAbsent(r)
    BY <2>8 DEF LetGoAbsent, Unlock
  <2>9. CASE RepoolAbsent(r)
    BY <2>9 DEF RepoolAbsent, UpdatePosition
  <2>10. CASE RecordAbsent(r)
    BY <2>10 DEF RecordAbsent
  <2>11. CASE RecordOffer(r)
    BY <2>11 DEF RecordOffer
  <2>12. CASE SendOffer(r)
    BY <2>12 DEF SendOffer
  <2>13. CASE ResolveAccept(r)
    BY <2>13 DEF ResolveAccept
  <2>14. CASE CloseOffer(r)
    BY <2>14 DEF CloseOffer
  <2>15. CASE RefuseUnlock(r)
    BY <2>15 DEF RefuseUnlock, Unlock
  <2>16. CASE RefusePool(r)
    BY <2>16 DEF RefusePool, UpdatePosition
  <2>17. CASE CommitMatch(r)
    BY <2>17 DEF CommitMatch
  <2>18. CASE RefuseMatch(r)
    BY <2>18 DEF RefuseMatch
  <2>19. CASE HoldForRide(r)
    BY <2>19 DEF HoldForRide, HoldLock, CanHold
  <2>20. CASE PointAtRide(r)
    BY <2>20 DEF PointAtRide, SetPointer
  <2>21. CASE CacheMatch(r)
    BY <2>21 DEF CacheMatch, SetCache
  <2>22. CASE TellMatched(r)
    BY <2>22 DEF TellMatched, Finish
  <2>23. CASE UndoUnlock(r)
    BY <2>23 DEF UndoUnlock, Unlock
  <2>24. CASE UndoPointer(r)
    BY <2>24 DEF UndoPointer, DelPointer, SetPointer
  <2>25. CASE MarkNoDrivers(r)
    BY <2>25 DEF MarkNoDrivers
  <2>26. CASE TellNoDrivers(r)
    BY <2>26 DEF TellNoDrivers, Finish
  <2> QED
    BY <2>1, <2>2, <2>3, <2>4, <2>5, <2>6, <2>7, <2>8, <2>9, <2>10, <2>11, <2>12, <2>13,
       <2>14, <2>15, <2>16, <2>17, <2>18, <2>19, <2>20, <2>21, <2>22, <2>23, <2>24, <2>25,
       <2>26 DEF LoopStep
<1>2. ASSUME NEW r \in Rides, Handler(r)
      PROVE Undisturbed
  <2> USE <1>2 DEF Handler
  <2>1. CASE CacheNewRide(r)
    BY <2>1 DEF CacheNewRide, SetCache
  <2>2. CASE CacheStarted(r)
    BY <2>2 DEF CacheStarted, SetCache
  <2>3. CASE CloseUnlock(r)
    BY <2>3 DEF CloseUnlock, Unlock
  <2>4. CASE ClosePointer(r)
    BY <2>4 DEF ClosePointer, DelPointer, SetPointer
  <2>5. CASE CloseDropFirst(r)
    BY <2>5 DEF CloseDropFirst, DropCache, SetCache
  <2>6. CASE ClosePool(r)
    BY <2>6 DEF ClosePool, RepoolAtLastPosition, UpdatePosition, Broadcast
  <2>7. CASE CloseDrop(r)
    BY <2>7 DEF CloseDrop, DropCache, SetCache, Broadcast
  <2> QED
    BY <2>1, <2>2, <2>3, <2>4, <2>5, <2>6, <2>7 DEF HandlerStep
<1>3. ASSUME NEW r \in Rides, up, RiderAction(r), UNCHANGED <<driverVars, worldVars>>
      PROVE Undisturbed
  <2> USE <1>3
  <2>1. CASE RequestRide(r)
    BY <2>1 DEF RequestRide
  <2>2. CASE CancelRide(r)
    BY <2>2 DEF CancelRide
  <2> QED
    BY <2>1, <2>2 DEF RiderAction
<1>4. ASSUME NEW r \in Rides, up, DriverRideAction(r), UNCHANGED worldVars
      PROVE Undisturbed
  <2> USE <1>4
  <2>1. CASE AcceptOffer(r) /\ UNCHANGED <<rideVars, driverVars>>
    BY <2>1 DEF AcceptOffer
  <2>2. CASE RejectOffer(r) /\ UNCHANGED <<rideVars, driverVars>>
    BY <2>2 DEF RejectOffer
  <2>3. CASE StartRide(r) /\ UNCHANGED driverVars
    BY <2>3 DEF StartRide
  <2>4. CASE CompleteRide(r) /\ UNCHANGED driverVars
    BY <2>4 DEF CompleteRide
  <2> QED
    BY <2>1, <2>2, <2>3, <2>4 DEF DriverRideAction
<1>5. ASSUME NEW r \in Rides, Timeout(r) \/ Fault(r),
             UNCHANGED <<rideVars, driverVars, processVars>>
      PROVE Undisturbed
  <2> USE <1>5
  <2>1. CASE Timeout(r)
    BY <2>1 DEF Timeout, OfferTimeout
  <2>2. CASE FailStore(r)
    BY <2>2 DEF FailStore
  <2>3. CASE LoseCommitReply(r)
    BY <2>3 DEF LoseCommitReply
  <2> QED
    BY <2>1, <2>2, <2>3 DEF Fault
<1>6. ASSUME NEW d \in Drivers, Toggling(d)
      PROVE Undisturbed
  <2> USE <1>6 DEF Toggling
  <2>1. CASE OfflineUpdate(d)
    BY <2>1 DEF OfflineUpdate
  <2>2. CASE OfflineLeave(d)
    BY <2>2 DEF OfflineLeave, RemoveFromPool
  <2>3. CASE OfflineReply(d)
    BY <2>3 DEF OfflineReply
  <2>4. CASE OnlinePool(d)
    BY <2>4 DEF OnlinePool, UpdatePosition
  <2> QED
    BY <2>1, <2>2, <2>3, <2>4 DEF ToggleStep
<1>7. ASSUME NEW d \in Drivers, up, DriverAction(d), UNCHANGED worldVars
      PROVE Undisturbed
  <2> USE <1>7
  <2>1. CASE Ping(d)
    BY <2>1 DEF Ping, UpdatePosition
  <2>2. CASE Connect(d)
    BY <2>2 DEF Connect
  <2>3. CASE Disconnect(d)
    BY <2>3 DEF Disconnect
  <2>4. CASE GrowStale(d)
    BY <2>4 DEF GrowStale, AgePosition
  <2>5. CASE GoOffline(d)
    BY <2>5 DEF GoOffline
  <2>6. CASE GoOnline(d)
    BY <2>6 DEF GoOnline
  <2> QED
    BY <2>1, <2>2, <2>3, <2>4, <2>5, <2>6 DEF DriverAction
<1>8. ASSUME NEW d \in Drivers, Expire(d), UNCHANGED processVars
      PROVE Undisturbed
  BY <1>8 DEF Expire, LapseLock
<1>9. CASE Crash
  BY <1>9 DEF Crash
<1>10. CASE Boot
  BY <1>10 DEF Boot, Reconcile
<1>11. CASE Flush
  BY <1>11 DEF Flush, FlushRedis
<1>12. CASE UNCHANGED vars
  BY <1>12 DEF vars, appVars
<1> QED
  BY <1>1, <1>2, <1>3, <1>4, <1>5, <1>6, <1>7, <1>8, <1>9, <1>10, <1>11, <1>12
  DEF Next, RideNext, DriverNext

\* With the driver lock in force, a late unlock never frees another ride's
\* driver: compare-and-delete instead of DEL.
THEOREM NobodyUnlocksOthers ==
    ASSUME ~UnsafeDisableLock
    PROVE  Spec => UnlockOnlyByOwner
<1>1. Wellformed /\ [Next]_vars =>
        [\A d \in Drivers : \A r, s \in Rides :
            lock[d] = r /\ lock'[d] # r /\ s # r => pc'[s] = pc[s] /\ closing'[s] = closing[s]]_vars
  BY UnlockStep DEF Undisturbed, LosesTo
<1> QED
  BY <1>1, WellformedInit, WellformedNext, PTL DEF Spec, UnlockOnlyByOwner

----------------------------------------------------------------------------
(* Locks without a TTL.                                                     *)

\* A loop about to make its lock permanent serves a live ride, or one whose
\* closing handler has yet to unlock, or has lost the lock: the interleaving of
\* confirmMatch with a cancellation leaves no fourth case.
HoldIsBacked == crashes = 0 => \A r \in Rides : pc[r] = "hold" =>
    status[r] \in Live \/ closing[r] = "unlock" \/ lock[cand[r]] # r

\* The two facts carry each other from step to step.
LEMMA HeldNext ==
    ASSUME Wellformed, Audited, HeldLockJustified, HoldIsBacked, [Next]_vars
    PROVE  (HeldLockJustified /\ HoldIsBacked)'
<1> DEFINE Goal == HeldLockJustified' /\ HoldIsBacked'
<1> SUFFICES Goal
  OBVIOUS
<1> USE NoRideAssumption, NoDriverAssumption
    DEF Wellformed, TypeOK, StoreType, RedisType, DispatchType, CandidateBound, HasCandidate,
        Label, storeVars, redisVars, dispatchVars, rideVars, driverVars,
        worldVars, processVars, loopVars,
        RedisStep, StoreStep, LocalStep, OfferStep, CloseStep, NoRideStep, At, Goto, Continue,
        HeldLockJustified, HoldIsBacked, RideType, CloseGoto, Live
<1>1. ASSUME NEW r \in Rides, Loop(r)
      PROVE Goal
  <2> USE <1>1 DEF Loop
  <2>1. CASE \E d \in Drivers : PickCandidate(r, d)
    BY <2>1 DEF PickCandidate, Candidates, Nearby
  <2>2. CASE RunOut(r)
    BY <2>2 DEF RunOut
  <2>3. CASE ClaimDriver(r)
    BY <2>3 DEF ClaimDriver, SetNX, SetLock
  <2>4. CASE LoseClaim(r)
    BY <2>4 DEF LoseClaim
  <2>5. CASE ClaimUnsafely(r)
    BY <2>5 DEF ClaimUnsafely, SetLock
  <2>6. CASE LeavePool(r)
    BY <2>6 DEF LeavePool, RemoveFromPool
  <2>7. CASE RecordLost(r)
    BY <2>7 DEF RecordLost, WriteOffer
  <2>8. CASE LetGoAbsent(r)
    BY <2>8 DEF LetGoAbsent, Unlock
  <2>9. CASE RepoolAbsent(r)
    BY <2>9 DEF RepoolAbsent, UpdatePosition
  <2>10. CASE RecordAbsent(r)
    BY <2>10 DEF RecordAbsent, WriteOffer
  <2>11. CASE RecordOffer(r)
    BY <2>11 DEF RecordOffer, WriteOffer
  <2>12. CASE SendOffer(r)
    BY <2>12 DEF SendOffer
  <2>13. CASE ResolveAccept(r)
    BY <2>13 DEF ResolveAccept
  <2>14. CASE CloseOffer(r)
    BY <2>14 DEF CloseOffer, WriteOffer
  <2>15. CASE RefuseUnlock(r)
    BY <2>15 DEF RefuseUnlock, Unlock
  <2>16. CASE RefusePool(r)
    BY <2>16 DEF RefusePool, UpdatePosition
  <2>17. CASE CommitMatch(r)
    BY <2>17 DEF CommitMatch, MatchRide, CanMatch, Audited, UnbookedUntilMatched
  <2>18. CASE RefuseMatch(r)
    BY <2>18 DEF RefuseMatch
  <2>19. CASE HoldForRide(r)
    BY <2>19 DEF HoldForRide, HoldLock, CanHold, Audited, MatchedIsCandidate
  <2>20. CASE PointAtRide(r)
    BY <2>20 DEF PointAtRide, SetPointer, Audited
  <2>21. CASE CacheMatch(r)
    BY <2>21 DEF CacheMatch, SetCache
  <2>22. CASE TellMatched(r)
    BY <2>22 DEF TellMatched, TellRider, Finish
  <2>23. CASE UndoUnlock(r)
    BY <2>23 DEF UndoUnlock, Unlock
  <2>24. CASE UndoPointer(r)
    BY <2>24 DEF UndoPointer, DelPointer, SetPointer
  <2>25. CASE MarkNoDrivers(r)
    BY <2>25 DEF MarkNoDrivers, MoveRideIfStill
  <2>26. CASE TellNoDrivers(r)
    BY <2>26 DEF TellNoDrivers, TellRider, Finish
  <2> QED
    BY <2>1, <2>2, <2>3, <2>4, <2>5, <2>6, <2>7, <2>8, <2>9, <2>10, <2>11, <2>12, <2>13,
       <2>14, <2>15, <2>16, <2>17, <2>18, <2>19, <2>20, <2>21, <2>22, <2>23, <2>24, <2>25,
       <2>26 DEF LoopStep
<1>2. ASSUME NEW r \in Rides, Handler(r)
      PROVE Goal
  <2> USE <1>2 DEF Handler
  <2>1. CASE CacheNewRide(r)
    BY <2>1 DEF CacheNewRide, SetCache
  <2>2. CASE CacheStarted(r)
    BY <2>2 DEF CacheStarted, SetCache, TellRider
  <2>3. CASE CloseUnlock(r)
    <3>1. driverOf[r] \in Drivers
      BY <2>3 DEF CloseUnlock, ClosingIsBooked
    <3>2. lock' = [lock EXCEPT ![driverOf[r]] = IF @ = r THEN NoRide ELSE @]
          /\ held' = (IF lock[driverOf[r]] = r THEN held \ {driverOf[r]} ELSE held)
          /\ closing' = [closing EXCEPT ![r] = "ptr"]
          /\ UNCHANGED <<pc, cand, status, driverOf, crashes>>
      BY <2>3 DEF CloseUnlock, Unlock
    <3>3. HeldLockJustified'
      BY <3>1, <3>2
    <3>4. HoldIsBacked'
      BY <3>1, <3>2 DEF Audited, MatchedIsCandidate
    <3> QED
      BY <3>3, <3>4
  <2>4. CASE ClosePointer(r)
    BY <2>4 DEF ClosePointer, DelPointer, SetPointer
  <2>5. CASE CloseDropFirst(r)
    BY <2>5 DEF CloseDropFirst, DropCache, SetCache
  <2>6. CASE ClosePool(r)
    BY <2>6 DEF ClosePool, RepoolAtLastPosition, UpdatePosition, Broadcast, TellRider
  <2>7. CASE CloseDrop(r)
    BY <2>7 DEF CloseDrop, DropCache, SetCache, Broadcast, TellRider
  <2> QED
    BY <2>1, <2>2, <2>3, <2>4, <2>5, <2>6, <2>7 DEF HandlerStep
<1>3. ASSUME NEW r \in Rides, up, RiderAction(r), UNCHANGED <<driverVars, worldVars>>
      PROVE Goal
  <2> USE <1>3
  <2>1. CASE RequestRide(r)
    BY <2>1 DEF RequestRide, InsertRide
  <2>2. CASE CancelRide(r)
    <3>1. status[r] \in {"requested", "matched"}
          /\ status' = [status EXCEPT ![r] = "cancelled"]
          /\ closing' = [closing EXCEPT ![r] = IF driverOf[r] = NoDriver THEN "drop" ELSE "unlock"]
          /\ UNCHANGED <<lock, held, pc, cand, driverOf, crashes>>
      BY <2>2 DEF CancelRide, MoveRide
    <3>2. HeldLockJustified'
      BY <3>1
    <3>3. pc[r] = "hold" => closing'[r] = "unlock"
      <4>1. pc[r] = "hold" => driverOf[r] = cand[r]
        BY DEF Audited, MatchedIsCandidate
      <4>2. pc[r] = "hold" => cand[r] \in Drivers
        OBVIOUS
      <4>3. driverOf[r] # NoDriver => closing'[r] = "unlock"
        BY <3>1
      <4> QED
        BY <4>1, <4>2, <4>3
    <3>4. HoldIsBacked'
      BY <3>1, <3>3
    <3> QED
      BY <3>2, <3>4
  <2> QED
    BY <2>1, <2>2 DEF RiderAction
<1>4. ASSUME NEW r \in Rides, up, DriverRideAction(r), UNCHANGED worldVars
      PROVE Goal
  <2> USE <1>4
  <2>1. CASE AcceptOffer(r) /\ UNCHANGED <<rideVars, driverVars>>
    BY <2>1 DEF AcceptOffer
  <2>2. CASE RejectOffer(r) /\ UNCHANGED <<rideVars, driverVars>>
    BY <2>2 DEF RejectOffer
  <2>3. CASE StartRide(r) /\ UNCHANGED driverVars
    BY <2>3 DEF StartRide, MoveRide
  <2>4. CASE CompleteRide(r) /\ UNCHANGED driverVars
    BY <2>4 DEF CompleteRide, MoveRide
  <2> QED
    BY <2>1, <2>2, <2>3, <2>4 DEF DriverRideAction
<1>5. ASSUME NEW r \in Rides, Timeout(r) \/ Fault(r),
             UNCHANGED <<rideVars, driverVars, processVars>>
      PROVE Goal
  <2> USE <1>5
  <2>1. CASE Timeout(r)
    BY <2>1 DEF Timeout, OfferTimeout, Waiting
  <2>2. CASE FailStore(r)
    BY <2>2 DEF FailStore
  <2>3. CASE LoseCommitReply(r)
    BY <2>3 DEF LoseCommitReply, MatchRide, CanMatch, Audited, UnbookedUntilMatched
  <2> QED
    BY <2>1, <2>2, <2>3 DEF Fault
<1>6. ASSUME NEW d \in Drivers, Toggling(d)
      PROVE Goal
  <2> USE <1>6 DEF Toggling
  <2>1. CASE OfflineUpdate(d)
    BY <2>1 DEF OfflineUpdate
  <2>2. CASE OfflineLeave(d)
    BY <2>2 DEF OfflineLeave, RemoveFromPool
  <2>3. CASE OfflineReply(d)
    BY <2>3 DEF OfflineReply
  <2>4. CASE OnlinePool(d)
    BY <2>4 DEF OnlinePool, UpdatePosition
  <2> QED
    BY <2>1, <2>2, <2>3, <2>4 DEF ToggleStep
<1>7. ASSUME NEW d \in Drivers, up, DriverAction(d), UNCHANGED worldVars
      PROVE Goal
  <2> USE <1>7
  <2>1. CASE Ping(d)
    BY <2>1 DEF Ping, UpdatePosition
  <2>2. CASE Connect(d)
    BY <2>2 DEF Connect
  <2>3. CASE Disconnect(d)
    BY <2>3 DEF Disconnect
  <2>4. CASE GrowStale(d)
    BY <2>4 DEF GrowStale, AgePosition
  <2>5. CASE GoOffline(d)
    BY <2>5 DEF GoOffline
  <2>6. CASE GoOnline(d)
    BY <2>6 DEF GoOnline
  <2> QED
    BY <2>1, <2>2, <2>3, <2>4, <2>5, <2>6 DEF DriverAction
<1>8. ASSUME NEW d \in Drivers, Expire(d), UNCHANGED processVars
      PROVE Goal
  BY <1>8 DEF Expire, LapseLock
<1>9. CASE Crash
  BY <1>9 DEF Crash
<1>10. CASE Boot
  <2> DEFINE live(d) == LiveRidesOf(d)
             ride(d) == CHOOSE s \in live(d) : TRUE
  <2>1. /\ lock' = [d \in Drivers |-> IF live(d) = {} THEN lock[d] ELSE ride(d)]
        /\ held' = held \cup {d \in Drivers : live(d) # {}}
        /\ UNCHANGED <<status, driverOf, closing, pc, cand, crashes>>
    BY <1>10 DEF Boot, Reconcile
  <2>2. ASSUME NEW d \in Drivers, live(d) # {}
        PROVE  ride(d) \in Rides /\ driverOf[ride(d)] = d /\ status[ride(d)] \in Live
    BY <2>2 DEF LiveRidesOf
  <2> HIDE DEF ride, live
  <2>3. HeldLockJustified'
    <3>1. held' \subseteq Drivers
      BY <2>1
    <3> SUFFICES ASSUME crashes' = 0, NEW d \in Drivers, d \in held'
                 PROVE  \E s \in Rides : /\ lock'[d] = s
                                         /\ driverOf'[s] = d
                                         /\ status'[s] \in Live \/ closing'[s] = "unlock"
      BY <3>1 DEF HeldLockJustified
    <3>2. CASE live(d) = {}
      BY <2>1, <3>2
    <3>3. CASE live(d) # {}
      <4>1. lock'[d] = ride(d)
        BY <2>1, <3>3
      <4> QED
        BY <2>1, <2>2, <3>3, <4>1
    <3> QED
      BY <3>2, <3>3
  <2>4. ASSUME crashes = 0, NEW s \in Rides, pc[s] = "hold"
        PROVE  status[s] \in Live \/ closing[s] = "unlock" \/ lock'[cand[s]] # s
    <3>1. cand[s] \in Drivers
      BY <2>4
    <3>2. CASE live(cand[s]) = {}
      BY <2>1, <2>4, <3>1, <3>2
    <3>3. CASE live(cand[s]) # {}
      BY <2>1, <2>2, <3>1, <3>3
    <3> QED
      BY <3>2, <3>3
  <2> QED
    BY <2>1, <2>3, <2>4
<1>11. CASE Flush
  <2>1. HeldLockJustified'
    BY <1>11 DEF Flush, FlushRedis
  <2>2. \A s \in Rides : pc[s] = "hold" => lock'[cand[s]] = NoRide
    BY <1>11 DEF Flush, FlushRedis
  <2>3. HoldIsBacked'
    BY <1>11, <2>2 DEF Flush
  <2> QED
    BY <2>1, <2>3
<1>12. CASE UNCHANGED vars
  BY <1>12 DEF vars, appVars
<1> QED
  BY <1>1, <1>2, <1>3, <1>4, <1>5, <1>6, <1>7, <1>8, <1>9, <1>10, <1>11, <1>12
  DEF Next, RideNext, DriverNext

\* As long as the process does not crash, a lock without a TTL always has a
\* live ride, or a closing handler about to release it: no interleaving leaks one.
THEOREM NoLeakWithoutCrash == Spec => []HeldLockJustified
<1>1. Init => HeldLockJustified /\ HoldIsBacked
  BY DEF Init, RedisInit, DispatchInit, HeldLockJustified, HoldIsBacked
<1>2. Wellformed /\ Audited /\ HeldLockJustified /\ HoldIsBacked /\ [Next]_vars
        => (HeldLockJustified /\ HoldIsBacked)'
  BY HeldNext
<1> QED
  BY <1>1, <1>2, TrailAlways, PTL DEF Spec
=============================================================================
