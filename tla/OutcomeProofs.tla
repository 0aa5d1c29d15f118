----------------------------- MODULE OutcomeProofs -----------------------------
(***************************************************************************)
(* How dispatch ends: what the rider is told and where the locks are left, *)
(* for every value of the constants.                                       *)
(***************************************************************************)
EXTENDS GuardProofs

----------------------------------------------------------------------------
(* What the rider is told.                                                  *)

\* Until a call of Postgres fails, the loop announces that there is no
\* driver only when the ride is closed without one, and so it stays.
TellsTruth == faults = 0 => \A r \in Rides :
    /\ pc[r] # "failed"
    /\ At(r, "tellNone") => status[r] \in {"no_drivers", "cancelled"}
    /\ shown[r] = "no_drivers" => status[r] \in {"no_drivers", "cancelled"}

FaultsInBudget == faults <= MaxFaults

\* A loop that gives up has no booking, so its ride is open without a driver,
\* or cancelled already.
LEMMA GivesUpUnbooked ==
    ASSUME Wellformed, Audited, TellsTruth, faults = 0,
           NEW r \in Rides, pc[r] \in {"giveUp", "failed"}
    PROVE  status[r] \in {"requested", "no_drivers", "cancelled"}
<1>1. pc[r] = "giveUp"
  BY DEF TellsTruth
<1>2. driverOf[r] = NoDriver /\ status[r] \notin Live
  BY <1>1, UnbookedInLoop DEF InLoop, Label
<1>3. status[r] # "absent"
  BY <1>1 DEF Audited, RequestedHasLoop
<1>4. status[r] # "completed"
  BY <1>2, NoDriverAssumption DEF Wellformed, LiveIsBooked
<1> QED
  BY <1>2, <1>3, <1>4 DEF Wellformed, TypeOK, StoreType, Status, Live

\* Every step keeps to the truth.
LEMMA TellsTruthNext ==
    ASSUME Wellformed, Audited, TellsTruth, FaultsInBudget, [Next]_vars
    PROVE  (TellsTruth /\ FaultsInBudget)'
<1> DEFINE Goal == (TellsTruth /\ FaultsInBudget)'
<1> USE BudgetAssumption
    DEF Wellformed, TypeOK, StoreType, DispatchType, TellsTruth, FaultsInBudget,
        storeVars, redisVars, dispatchVars, rideVars, driverVars,
        worldVars, processVars, loopVars, RedisStep,
        StoreStep, LocalStep, OfferStep, CloseStep, NoRideStep, At, Goto, Continue, CloseGoto
<1>1. ASSUME NEW r \in Rides, Loop(r)
      PROVE  Goal
  <2> USE <1>1 DEF Loop
  <2>1. CASE \E d \in Drivers : PickCandidate(r, d)
    BY <2>1 DEF PickCandidate, Candidates, Nearby
  <2>2. CASE RunOut(r)
    BY <2>2 DEF RunOut
  <2>3. CASE ClaimDriver(r)
    BY <2>3 DEF ClaimDriver, SetNX, SetLock
  <2>4. CASE LoseClaim(r)
    BY <2>4 DEF LoseClaim
  <2>5. CASE ClaimUnsafely(r)
    BY <2>5 DEF ClaimUnsafely, SetLock
  <2>6. CASE LeavePool(r)
    BY <2>6 DEF LeavePool, RemoveFromPool
  <2>7. CASE RecordLost(r)
    BY <2>7 DEF RecordLost, WriteOffer
  <2>8. CASE LetGoAbsent(r)
    BY <2>8 DEF LetGoAbsent, Unlock
  <2>9. CASE RepoolAbsent(r)
    BY <2>9 DEF RepoolAbsent, UpdatePosition
  <2>10. CASE RecordAbsent(r)
    BY <2>10 DEF RecordAbsent, WriteOffer
  <2>11. CASE RecordOffer(r)
    BY <2>11 DEF RecordOffer, WriteOffer
  <2>12. CASE SendOffer(r)
    BY <2>12 DEF SendOffer
  <2>13. CASE ResolveAccept(r)
    BY <2>13 DEF ResolveAccept
  <2>14. CASE CloseOffer(r)
    BY <2>14 DEF CloseOffer, WriteOffer
  <2>15. CASE RefuseUnlock(r)
    BY <2>15 DEF RefuseUnlock, Unlock
  <2>16. CASE RefusePool(r)
    BY <2>16 DEF RefusePool, UpdatePosition
  <2>17. CASE CommitMatch(r)
    BY <2>17 DEF CommitMatch, MatchRide, CanMatch
  <2>18. CASE RefuseMatch(r)
    BY <2>18 DEF RefuseMatch
  <2>19. CASE HoldForRide(r)
    BY <2>19 DEF HoldForRide, HoldLock, CanHold
  <2>20. CASE PointAtRide(r)
    BY <2>20 DEF PointAtRide, SetPointer
  <2>21. CASE CacheMatch(r)
    BY <2>21 DEF CacheMatch, SetCache
  <2>22. CASE TellMatched(r)
    BY <2>22 DEF TellMatched, TellRider, Finish
  <2>23. CASE UndoUnlock(r)
    BY <2>23 DEF UndoUnlock, Unlock
  <2>24. CASE UndoPointer(r)
    BY <2>24 DEF UndoPointer, DelPointer, SetPointer
  <2>25. CASE MarkNoDrivers(r)
    BY <2>25, GivesUpUnbooked DEF MarkNoDrivers, MoveRideIfStill
  <2>26. CASE TellNoDrivers(r)
    BY <2>26 DEF TellNoDrivers, TellRider, Finish
  <2> QED
    BY <2>1, <2>2, <2>3, <2>4, <2>5, <2>6, <2>7, <2>8, <2>9, <2>10, <2>11, <2>12, <2>13,
       <2>14, <2>15, <2>16, <2>17, <2>18, <2>19, <2>20, <2>21, <2>22, <2>23, <2>24,
       <2>25, <2>26 DEF LoopStep
<1>2. ASSUME NEW r \in Rides, Handler(r)
      PROVE  Goal
  <2> USE <1>2 DEF Handler
  <2>1. CASE CacheNewRide(r)
    BY <2>1 DEF CacheNewRide, SetCache
  <2>2. CASE CacheStarted(r)
    BY <2>2 DEF CacheStarted, SetCache, TellRider
  <2>3. CASE CloseUnlock(r)
    BY <2>3 DEF CloseUnlock, Unlock
  <2>4. CASE ClosePointer(r)
    BY <2>4 DEF ClosePointer, DelPointer, SetPointer
  <2>5. CASE CloseDropFirst(r)
    BY <2>5 DEF CloseDropFirst, DropCache, SetCache
  <2>6. CASE ClosePool(r)
    BY <2>6 DEF ClosePool, RepoolAtLastPosition, UpdatePosition, Broadcast, TellRider
  <2>7. CASE CloseDrop(r)
    BY <2>7 DEF CloseDrop, DropCache, SetCache, Broadcast, TellRider
  <2> QED
    BY <2>1, <2>2, <2>3, <2>4, <2>5, <2>6, <2>7 DEF HandlerStep
<1>3. ASSUME NEW r \in Rides, up, RiderAction(r), UNCHANGED <<driverVars, worldVars>>
      PROVE  Goal
  <2> USE <1>3
  <2>1. CASE RequestRide(r)
    BY <2>1 DEF RequestRide, InsertRide, Audited, RequestedHasLoop
  <2>2. CASE CancelRide(r)
    BY <2>2 DEF CancelRide, MoveRide
  <2> QED
    BY <2>1, <2>2 DEF RiderAction
<1>4. ASSUME NEW r \in Rides, up, DriverRideAction(r), UNCHANGED worldVars
      PROVE  Goal
  <2> USE <1>4
  <2>1. CASE AcceptOffer(r) /\ UNCHANGED <<rideVars, driverVars>>
    BY <2>1 DEF AcceptOffer
  <2>2. CASE RejectOffer(r) /\ UNCHANGED <<rideVars, driverVars>>
    BY <2>2 DEF RejectOffer
  <2>3. CASE StartRide(r) /\ UNCHANGED driverVars
    BY <2>3 DEF StartRide, MoveRide
  <2>4. CASE CompleteRide(r) /\ UNCHANGED driverVars
    BY <2>4 DEF CompleteRide, MoveRide
  <2> QED
    BY <2>1, <2>2, <2>3, <2>4 DEF DriverRideAction
<1>5. ASSUME NEW r \in Rides, Timeout(r) \/ Fault(r),
             UNCHANGED <<rideVars, driverVars, processVars>>
      PROVE  Goal
  <2> USE <1>5
  <2>1. CASE Timeout(r)
    BY <2>1 DEF Timeout, OfferTimeout
  <2>2. CASE FailStore(r)
    BY <2>2 DEF FailStore
  <2>3. CASE LoseCommitReply(r)
    BY <2>3 DEF LoseCommitReply, MatchRide, CanMatch
  <2> QED
    BY <2>1, <2>2, <2>3 DEF Fault
<1>6. ASSUME NEW d \in Drivers, Toggling(d)
      PROVE  Goal
  <2> USE <1>6 DEF Toggling
  <2>1. CASE OfflineUpdate(d)
    BY <2>1 DEF OfflineUpdate
  <2>2. CASE OfflineLeave(d)
    BY <2>2 DEF OfflineLeave, RemoveFromPool
  <2>3. CASE OfflineReply(d)
    BY <2>3 DEF OfflineReply
  <2>4. CASE OnlinePool(d)
    BY <2>4 DEF OnlinePool, UpdatePosition
  <2> QED
    BY <2>1, <2>2, <2>3, <2>4 DEF ToggleStep
<1>7. ASSUME NEW d \in Drivers, up, DriverAction(d), UNCHANGED worldVars
      PROVE  Goal
  <2> USE <1>7
  <2>1. CASE Ping(d)
    BY <2>1 DEF Ping, UpdatePosition
  <2>2. CASE Connect(d)
    BY <2>2 DEF Connect
  <2>3. CASE Disconnect(d)
    BY <2>3 DEF Disconnect
  <2>4. CASE GrowStale(d)
    BY <2>4 DEF GrowStale, AgePosition
  <2>5. CASE GoOffline(d)
    BY <2>5 DEF GoOffline
  <2>6. CASE GoOnline(d)
    BY <2>6 DEF GoOnline
  <2> QED
    BY <2>1, <2>2, <2>3, <2>4, <2>5, <2>6 DEF DriverAction
<1>8. ASSUME NEW d \in Drivers, Expire(d), UNCHANGED processVars
      PROVE  Goal
  BY <1>8 DEF Expire, LapseLock
<1>9. CASE Crash
  BY <1>9 DEF Crash
<1>10. CASE Boot
  BY <1>10 DEF Boot, Reconcile
<1>11. CASE Flush
  BY <1>11 DEF Flush, FlushRedis
<1>12. CASE UNCHANGED vars
  BY <1>12 DEF vars, appVars
<1> QED
  BY <1>1, <1>2, <1>3, <1>4, <1>5, <1>6, <1>7, <1>8, <1>9, <1>10, <1>11, <1>12
  DEF Next, RideNext, DriverNext

\* So it does, until the first call fails.
LEMMA TruthAlways == Spec => [](TellsTruth /\ FaultsInBudget)
<1>1. Init => TellsTruth /\ FaultsInBudget
  BY BudgetAssumption DEF Init, StoreInit, DispatchInit, TellsTruth, FaultsInBudget, At
<1>2. Wellformed /\ Audited /\ TellsTruth /\ FaultsInBudget /\ [Next]_vars
        => (TellsTruth /\ FaultsInBudget)'
  BY TellsTruthNext
<1> QED
  BY <1>1, <1>2, TrailAlways, PTL DEF Spec

\* With a Postgres that answers, no rider is told that there is no driver
\* while one is coming.
THEOREM RidersHearTheTruth ==
    ASSUME MaxFaults = 0
    PROVE  Spec => []ToldTruth
<1>1. Wellformed /\ TellsTruth /\ FaultsInBudget => ToldTruth
  BY DEF Wellformed, TypeOK, DispatchType, TellsTruth, FaultsInBudget, ToldTruth
<1> QED
  BY <1>1, TrailAlways, TruthAlways, PTL

----------------------------------------------------------------------------
(* Where the locks are left.                                                *)

\* From SET NX to PERSIST or the unlock.
Locking == Claiming \cup {"hold", "rejected", "timeout", "refuseUnlock", "undoUnlock"}

\* Until a crash or a failing call cuts a loop short, a lock with a TTL is that
\* of a loop at work on it.
TtlIsAtWork == crashes = 0 /\ faults = 0 =>
    /\ up
    /\ \A d \in Drivers \ held : lock[d] # NoRide => pc[lock[d]] \in Locking /\ cand[lock[d]] = d

\* Every step keeps it so.
LEMMA TtlIsAtWorkNext ==
    ASSUME Wellformed, TtlIsAtWork, [Next]_vars
    PROVE  TtlIsAtWork'
<1> USE NoRideAssumption, NoDriverAssumption
    DEF Wellformed, TypeOK, StoreType, RedisType, DispatchType,
        CandidateBound, HasCandidate, ClosingIsBooked, Label, Claiming, Waiting, Locking,
        TtlIsAtWork, storeVars, redisVars, dispatchVars, rideVars, driverVars,
        worldVars, processVars,
        loopVars, RedisStep, StoreStep, LocalStep, OfferStep, CloseStep, NoRideStep, At, Goto,
        Continue, CloseGoto
<1>1. ASSUME NEW r \in Rides, Loop(r)
      PROVE  TtlIsAtWork'
  <2> USE <1>1 DEF Loop
  <2>1. CASE \E d \in Drivers : PickCandidate(r, d)
    BY <2>1 DEF PickCandidate, Candidates, Nearby
  <2>2. CASE RunOut(r)
    BY <2>2 DEF RunOut
  <2>3. CASE ClaimDriver(r)
    BY <2>3 DEF ClaimDriver, SetNX, SetLock
  <2>4. CASE LoseClaim(r)
    BY <2>4 DEF LoseClaim
  <2>5. CASE ClaimUnsafely(r)
    BY <2>5 DEF ClaimUnsafely, SetLock
  <2>6. CASE LeavePool(r)
    BY <2>6 DEF LeavePool, RemoveFromPool
  <2>7. CASE RecordLost(r)
    BY <2>7 DEF RecordLost, WriteOffer
  <2>8. CASE LetGoAbsent(r)
    BY <2>8 DEF LetGoAbsent, Unlock
  <2>9. CASE RepoolAbsent(r)
    BY <2>9 DEF RepoolAbsent, UpdatePosition
  <2>10. CASE RecordAbsent(r)
    BY <2>10 DEF RecordAbsent, WriteOffer
  <2>11. CASE RecordOffer(r)
    BY <2>11 DEF RecordOffer, WriteOffer
  <2>12. CASE SendOffer(r)
    BY <2>12 DEF SendOffer
  <2>13. CASE ResolveAccept(r)
    BY <2>13 DEF ResolveAccept
  <2>14. CASE CloseOffer(r)
    BY <2>14 DEF CloseOffer, WriteOffer
  <2>15. CASE RefuseUnlock(r)
    BY <2>15 DEF RefuseUnlock, Unlock
  <2>16. CASE RefusePool(r)
    BY <2>16 DEF RefusePool, UpdatePosition
  <2>17. CASE CommitMatch(r)
    BY <2>17 DEF CommitMatch, MatchRide, CanMatch
  <2>18. CASE RefuseMatch(r)
    BY <2>18 DEF RefuseMatch
  <2>19. CASE HoldForRide(r)
    <3>1. /\ pc[r] = "hold" /\ UNCHANGED <<up, lock, cand, crashes, faults>>
          /\ \E label \in {"point", "cacheMatch"} : pc' = [pc EXCEPT ![r] = label]
          /\ \A d \in Drivers \ held' : d \notin held /\ (lock[d] = r => d # cand[r])
      BY <2>19 DEF HoldForRide, HoldLock, CanHold
    <3>2. ASSUME crashes = 0, faults = 0, NEW d \in Drivers \ held', lock[d] # NoRide
          PROVE  pc'[lock[d]] \in Locking /\ cand[lock[d]] = d
      <4>1. d \notin held /\ pc[lock[d]] \in Locking /\ cand[lock[d]] = d
        BY <3>1, <3>2
      <4>2. lock[d] # r /\ lock[d] \in Rides /\ pc \in [Rides -> Label]
        BY <3>1, <3>2, <4>1
      <4> QED
        BY ONLY <3>1, <4>1, <4>2
    <3> QED
      BY <3>1, <3>2
  <2>20. CASE PointAtRide(r)
    BY <2>20 DEF PointAtRide, SetPointer
  <2>21. CASE CacheMatch(r)
    BY <2>21 DEF CacheMatch, SetCache
  <2>22. CASE TellMatched(r)
    BY <2>22 DEF TellMatched, TellRider, Finish
  <2>23. CASE UndoUnlock(r)
    BY <2>23 DEF UndoUnlock, Unlock
  <2>24. CASE UndoPointer(r)
    BY <2>24 DEF UndoPointer, DelPointer, SetPointer
  <2>25. CASE MarkNoDrivers(r)
    BY <2>25 DEF MarkNoDrivers, MoveRideIfStill
  <2>26. CASE TellNoDrivers(r)
    BY <2>26 DEF TellNoDrivers, TellRider, Finish
  <2> QED
    BY <2>1, <2>2, <2>3, <2>4, <2>5, <2>6, <2>7, <2>8, <2>9, <2>10, <2>11, <2>12, <2>13,
       <2>14, <2>15, <2>16, <2>17, <2>18, <2>19, <2>20, <2>21, <2>22, <2>23, <2>24,
       <2>25, <2>26 DEF LoopStep
<1>2. ASSUME NEW r \in Rides, Handler(r)
      PROVE  TtlIsAtWork'
  <2> USE <1>2 DEF Handler
  <2>1. CASE CacheNewRide(r)
    BY <2>1 DEF CacheNewRide, SetCache
  <2>2. CASE CacheStarted(r)
    BY <2>2 DEF CacheStarted, SetCache, TellRider
  <2>3. CASE CloseUnlock(r)
    BY <2>3 DEF CloseUnlock, Unlock
  <2>4. CASE ClosePointer(r)
    BY <2>4 DEF ClosePointer, DelPointer, SetPointer
  <2>5. CASE CloseDropFirst(r)
    BY <2>5 DEF CloseDropFirst, DropCache, SetCache
  <2>6. CASE ClosePool(r)
    BY <2>6 DEF ClosePool, RepoolAtLastPosition, UpdatePosition, Broadcast, TellRider
  <2>7. CASE CloseDrop(r)
    BY <2>7 DEF CloseDrop, DropCache, SetCache, Broadcast, TellRider
  <2> QED
    BY <2>1, <2>2, <2>3, <2>4, <2>5, <2>6, <2>7 DEF HandlerStep
<1>3. ASSUME NEW r \in Rides, up, RiderAction(r), UNCHANGED <<driverVars, worldVars>>
      PROVE  TtlIsAtWork'
  <2> USE <1>3
  <2>1. CASE RequestRide(r)
    BY <2>1 DEF RequestRide, InsertRide
  <2>2. CASE CancelRide(r)
    BY <2>2 DEF CancelRide, MoveRide
  <2> QED
    BY <2>1, <2>2 DEF RiderAction
<1>4. ASSUME NEW r \in Rides, up, DriverRideAction(r), UNCHANGED worldVars
      PROVE  TtlIsAtWork'
  <2> USE <1>4
  <2>1. CASE AcceptOffer(r) /\ UNCHANGED <<rideVars, driverVars>>
    BY <2>1 DEF AcceptOffer
  <2>2. CASE RejectOffer(r) /\ UNCHANGED <<rideVars, driverVars>>
    BY <2>2 DEF RejectOffer
  <2>3. CASE StartRide(r) /\ UNCHANGED driverVars
    BY <2>3 DEF StartRide, MoveRide
  <2>4. CASE CompleteRide(r) /\ UNCHANGED driverVars
    BY <2>4 DEF CompleteRide, MoveRide
  <2> QED
    BY <2>1, <2>2, <2>3, <2>4 DEF DriverRideAction
<1>5. ASSUME NEW r \in Rides, Timeout(r) \/ Fault(r),
             UNCHANGED <<rideVars, driverVars, processVars>>
      PROVE  TtlIsAtWork'
  <2> USE <1>5
  <2>1. CASE Timeout(r)
    BY <2>1 DEF Timeout, OfferTimeout
  <2>2. CASE FailStore(r)
    BY <2>2 DEF FailStore
  <2>3. CASE LoseCommitReply(r)
    BY <2>3 DEF LoseCommitReply, MatchRide, CanMatch
  <2> QED
    BY <2>1, <2>2, <2>3 DEF Fault
<1>6. ASSUME NEW d \in Drivers, Toggling(d)
      PROVE  TtlIsAtWork'
  <2> USE <1>6 DEF Toggling
  <2>1. CASE OfflineUpdate(d)
    BY <2>1 DEF OfflineUpdate
  <2>2. CASE OfflineLeave(d)
    BY <2>2 DEF OfflineLeave, RemoveFromPool
  <2>3. CASE OfflineReply(d)
    BY <2>3 DEF OfflineReply
  <2>4. CASE OnlinePool(d)
    BY <2>4 DEF OnlinePool, UpdatePosition
  <2> QED
    BY <2>1, <2>2, <2>3, <2>4 DEF ToggleStep
<1>7. ASSUME NEW d \in Drivers, up, DriverAction(d), UNCHANGED worldVars
      PROVE  TtlIsAtWork'
  <2> USE <1>7
  <2>1. CASE Ping(d)
    BY <2>1 DEF Ping, UpdatePosition
  <2>2. CASE Connect(d)
    BY <2>2 DEF Connect
  <2>3. CASE Disconnect(d)
    BY <2>3 DEF Disconnect
  <2>4. CASE GrowStale(d)
    BY <2>4 DEF GrowStale, AgePosition
  <2>5. CASE GoOffline(d)
    BY <2>5 DEF GoOffline
  <2>6. CASE GoOnline(d)
    BY <2>6 DEF GoOnline
  <2> QED
    BY <2>1, <2>2, <2>3, <2>4, <2>5, <2>6 DEF DriverAction
<1>8. ASSUME NEW d \in Drivers, Expire(d), UNCHANGED processVars
      PROVE  TtlIsAtWork'
  BY <1>8 DEF Expire, LapseLock
<1>9. CASE Crash
  BY <1>9 DEF Crash
<1>10. CASE Boot
  BY <1>10 DEF Boot, Reconcile
<1>11. CASE Flush
  BY <1>11 DEF Flush, FlushRedis
<1>12. CASE UNCHANGED vars
  BY <1>12 DEF vars, appVars
<1> QED
  BY <1>1, <1>2, <1>3, <1>4, <1>5, <1>6, <1>7, <1>8, <1>9, <1>10, <1>11, <1>12
  DEF Next, RideNext, DriverNext

\* With the lock in force, once dispatch has settled the lock of every driver
\* names his live ride, and is free if he has none: what else may remain is a
\* live ride whose hold had come loose, or the lock a loop cut short has left.
THEOREM StoresEndInAgreement ==
    ASSUME ~UnsafeDisableLock
    PROVE  Spec => []StoresAgree
<1>1. Init => TtlIsAtWork
  BY DEF Init, RedisInit, TtlIsAtWork
<1>2. Wellformed /\ TtlIsAtWork /\ [Next]_vars => TtlIsAtWork'
  BY TtlIsAtWorkNext
<1>3. ASSUME Wellformed, Guarded, TtlIsAtWork, HeldLockJustified
      PROVE  StoresAgree
  <2> SUFFICES ASSUME up, Quiescent, NEW d \in Drivers,
                      \A r \in LiveRidesOf(d) : <<r, d>> \notin loose,
                      ~(LiveRidesOf(d) = {} /\ (crashes > 0 \/ (faults > 0 /\ d \notin held)))
               PROVE  LiveRidesOf(d) = IF lock[d] = NoRide THEN {} ELSE {lock[d]}
    BY DEF StoresAgree
  <2>1. ASSUME NEW r \in LiveRidesOf(d)
        PROVE  lock[d] = r /\ r \in Rides
    BY <1>3, <2>1 DEF LiveRidesOf, Guarded, LiveRideGuarded, Quiescent
  <2>2. ASSUME LiveRidesOf(d) = {}
        PROVE  lock[d] = NoRide
    <3> SUFFICES ASSUME lock[d] # NoRide PROVE FALSE
      OBVIOUS
    <3>1. crashes = 0 /\ (faults = 0 \/ d \in held) /\ lock[d] \in Rides
      BY <1>3, <2>2 DEF Wellformed, TypeOK, RedisType, DispatchType
    <3>2. CASE d \in held
      BY <1>3, <2>2, <3>1, <3>2 DEF HeldLockJustified, Quiescent, LiveRidesOf
    <3>3. CASE d \notin held
      BY <1>3, <3>1, <3>3 DEF TtlIsAtWork, Quiescent, Locking, Claiming, Waiting
    <3> QED
      BY <3>2, <3>3
  <2>3. CASE LiveRidesOf(d) = {}
    BY <2>2, <2>3
  <2>4. CASE LiveRidesOf(d) # {}
    BY <2>1, <2>4, NoRideAssumption
  <2> QED
    BY <2>3, <2>4
<1> QED
  BY <1>1, <1>2, <1>3, GuardedAlways, TrailAlways, NoLeakWithoutCrash, PTL DEF Spec
=============================================================================
