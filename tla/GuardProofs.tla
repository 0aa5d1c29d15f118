------------------------------ MODULE GuardProofs ------------------------------
(***************************************************************************)
(* The lock keeps drivers from being asked twice, across timeouts, lost    *)
(* sockets, failing calls, flushes, crashes and restarts: whenever two     *)
(* rides have the same driver, the hold of one of them is known to have    *)
(* come loose.                                                             *)
(***************************************************************************)
EXTENDS LockProofs

\* No loop survives the process.
DownIsIdle == ~up => \A r \in Rides : pc[r] \in {"off", "over"}

\* A handler closes only a ride whose row has left Live.
ClosingIsOver == \A r \in Rides :
    closing[r] # "none" => status[r] \in {"completed", "cancelled"}

\* A lock without a TTL names a ride that was booked on the driver and is past
\* the PERSIST.
HeldIsBooked == \A d \in held :
    /\ lock[d] \in Rides
    /\ driverOf[lock[d]] = d
    /\ pc[lock[d]] # "hold"

\* From claim to PERSIST the loop owns the lock of its candidate or has lost its
\* hold, except where the ride has ended between commit and PERSIST.
LoopOwnsLock == up => \A r \in Rides :
    pc[r] \in Claiming \/ (pc[r] = "hold" /\ status[r] \in Live) =>
        lock[cand[r]] = r \/ <<r, cand[r]>> \in loose

Guarded ==
    /\ DownIsIdle /\ ClosingIsOver /\ HeldIsBooked /\ LoopOwnsLock
    /\ LiveRideGuarded

\* The part of the loop before the match.
InLoop == Label \ {"hold", "point", "cacheMatch", "tell", "failed", "tellNone", "over"}

\* A ride whose loop is there is booked on nobody and not live.
LEMMA UnbookedInLoop ==
    ASSUME Wellformed, Audited, NEW r \in Rides, pc[r] \in InLoop
    PROVE  driverOf[r] = NoDriver /\ status[r] \notin Live
<1>1. driverOf[r] = NoDriver
  BY DEF Audited, BookedHasLeftLoop, InLoop
<1> QED
  BY <1>1, NoDriverAssumption DEF Wellformed, LiveIsBooked

\* No step loses the guard: where Expire or Flush takes the lock of a loop at
\* work its hold counts as loose, and so does that of a booking whose COMMIT had
\* no answer; Boot restores every lock before up is true again.
LEMMA GuardedNext ==
    ASSUME ~UnsafeDisableLock, Wellformed, Audited, NoDoubleBooking, Guarded, [Next]_vars
    PROVE  Guarded'
<1> USE NoRideAssumption, NoDriverAssumption, BudgetAssumption, EnvironmentAssumption
    DEF Wellformed, TypeOK, StoreType, RedisType, DispatchType,
        CandidateBound, HasCandidate, LiveIsBooked, ClosingIsBooked, Label, Live, Claiming,
        Waiting, Guarded, DownIsIdle, ClosingIsOver, HeldIsBooked, LoopOwnsLock, LiveRideGuarded,
        storeVars, redisVars, dispatchVars, rideVars, driverVars,
        worldVars, processVars, loopVars, RedisStep,
        StoreStep, LocalStep, OfferStep, CloseStep, NoRideStep, At, Goto, Continue,
        RideType, CloseGoto
<1>1. ASSUME NEW r \in Rides, Loop(r)
      PROVE Guarded'
  <2> USE <1>1 DEF Loop
  <2>1. CASE \E d \in Drivers : PickCandidate(r, d)
    BY <2>1 DEF PickCandidate, Candidates, Nearby
  <2>2. CASE RunOut(r)
    BY <2>2 DEF RunOut
  <2>3. CASE ClaimDriver(r)
    <3>1. /\ pc[r] = "claim" /\ pc' = [pc EXCEPT ![r] = "zrem"]
          /\ lock[cand[r]] = NoRide /\ lock' = [lock EXCEPT ![cand[r]] = r]
          /\ held' = held \ {cand[r]}
          /\ UNCHANGED <<status, driverOf, cand, closing, up, loose>>
      BY <2>3 DEF ClaimDriver, SetNX, SetLock
    <3>2. cand[r] \in Drivers
      BY <3>1
    <3>3. driverOf[r] = NoDriver /\ status[r] \notin Live
      BY <3>1, <3>2, UnbookedInLoop DEF InLoop
    <3>4. \A d \in held : lock[d] # r
      BY <3>1, <3>2, <3>3
    <3>5. DownIsIdle' /\ ClosingIsOver'
      BY <3>1, <3>2, <3>3, <3>4
    <3>6. HeldIsBooked'
      BY <3>1, <3>2, <3>3, <3>4
    <3>7. LoopOwnsLock'
      BY <3>1, <3>2, <3>3, <3>4
    <3>8. LiveRideGuarded'
      BY <3>1, <3>2, <3>3, <3>4
    <3> QED
      BY <3>5, <3>6, <3>7, <3>8
  <2>4. CASE LoseClaim(r)
    BY <2>4 DEF LoseClaim
  <2>5. CASE ClaimUnsafely(r)
    BY <2>5 DEF ClaimUnsafely, SetLock, Audited, BookedHasLeftLoop, UnbookedUntilMatched,
       MatchedIsCandidate
  <2>6. CASE LeavePool(r)
    BY <2>6 DEF LeavePool, RemoveFromPool
  <2>7. CASE RecordLost(r)
    BY <2>7 DEF RecordLost, WriteOffer
  <2>8. CASE LetGoAbsent(r)
    <3>1. /\ pc[r] = "claimed" /\ pc' = [pc EXCEPT ![r] = "absentPool"]
          /\ lock' = [lock EXCEPT ![cand[r]] = IF @ = r THEN NoRide ELSE @]
          /\ held' = (IF lock[cand[r]] = r THEN held \ {cand[r]} ELSE held)
          /\ UNCHANGED <<status, driverOf, cand, closing, up, loose>>
      BY <2>8 DEF LetGoAbsent, Unlock
    <3>2. cand[r] \in Drivers
      BY <3>1
    <3>3. driverOf[r] = NoDriver /\ status[r] \notin Live
      BY <3>1, <3>2, UnbookedInLoop DEF InLoop
    <3>4. DownIsIdle' /\ ClosingIsOver'
      BY <3>1, <3>2, <3>3
    <3>5. HeldIsBooked'
      BY <3>1, <3>2, <3>3
    <3>6. LoopOwnsLock'
      BY <3>1, <3>2, <3>3
    <3>7. LiveRideGuarded'
      BY <3>1, <3>2, <3>3
    <3> QED
      BY <3>4, <3>5, <3>6, <3>7
  <2>9. CASE RepoolAbsent(r)
    BY <2>9 DEF RepoolAbsent, UpdatePosition
  <2>10. CASE RecordAbsent(r)
    BY <2>10 DEF RecordAbsent, WriteOffer
  <2>11. CASE RecordOffer(r)
    BY <2>11 DEF RecordOffer, WriteOffer
  <2>12. CASE SendOffer(r)
    BY <2>12 DEF SendOffer
  <2>13. CASE ResolveAccept(r)
    BY <2>13 DEF ResolveAccept
  <2>14. CASE CloseOffer(r)
    BY <2>14 DEF CloseOffer, WriteOffer
  <2>15. CASE RefuseUnlock(r)
    <3>1. /\ pc[r] = "refuseUnlock" /\ pc' = [pc EXCEPT ![r] = "refusePool"]
          /\ lock' = [lock EXCEPT ![cand[r]] = IF @ = r THEN NoRide ELSE @]
          /\ held' = (IF lock[cand[r]] = r THEN held \ {cand[r]} ELSE held)
          /\ UNCHANGED <<status, driverOf, cand, closing, up, loose>>
      BY <2>15 DEF RefuseUnlock, Unlock
    <3>2. cand[r] \in Drivers
      BY <3>1
    <3>3. driverOf[r] = NoDriver /\ status[r] \notin Live
      BY <3>1, <3>2, UnbookedInLoop DEF InLoop
    <3>4. DownIsIdle' /\ ClosingIsOver'
      BY <3>1, <3>2, <3>3
    <3>5. HeldIsBooked'
      BY <3>1, <3>2, <3>3
    <3>6. LoopOwnsLock'
      BY <3>1, <3>2, <3>3
    <3>7. LiveRideGuarded'
      BY <3>1, <3>2, <3>3
    <3> QED
      BY <3>4, <3>5, <3>6, <3>7
  <2>16. CASE RefusePool(r)
    BY <2>16 DEF RefusePool, UpdatePosition
  <2>17. CASE CommitMatch(r)
    BY <2>17 DEF CommitMatch, MatchRide, CanMatch, Audited, BookedHasLeftLoop,
       UnbookedUntilMatched, MatchedIsCandidate
  <2>18. CASE RefuseMatch(r)
    BY <2>18 DEF RefuseMatch
  <2>19. CASE HoldForRide(r)
    <3>1. /\ pc[r] = "hold" /\ cand[r] \in Drivers /\ driverOf[r] = cand[r]
          /\ UNCHANGED <<status, driverOf, cand, closing, up, lock, loose>>
      BY <2>19 DEF HoldForRide, HoldLock, Audited, MatchedIsCandidate
    <3>2. CASE HoldLock(cand[r], r) /\ Goto(r, "point")
      <4>1. /\ lock[cand[r]] = r /\ held' = held \cup {cand[r]}
            /\ pc' = [pc EXCEPT ![r] = "point"]
        BY <3>2 DEF HoldLock, CanHold
      <4>2. DownIsIdle' /\ ClosingIsOver'
        BY <3>1, <4>1
      <4>3. HeldIsBooked'
        BY <3>1, <4>1
      <4>4. LoopOwnsLock'
        BY <3>1, <4>1
      <4>5. LiveRideGuarded'
        BY <3>1, <4>1
      <4> QED
        BY <4>2, <4>3, <4>4, <4>5
    <3>3. CASE ~CanHold(cand[r], r) /\ UNCHANGED redisVars /\ Goto(r, "cacheMatch")
      <4>1. held' = held /\ pc' = [pc EXCEPT ![r] = "cacheMatch"]
        BY <3>3
      <4>2. up /\ status[r] \in Live => <<r, driverOf[r]>> \in loose
        BY <3>1, <3>3 DEF CanHold
      <4>3. DownIsIdle' /\ ClosingIsOver'
        BY <3>1, <4>1
      <4>4. HeldIsBooked'
        BY <3>1, <4>1
      <4>5. LoopOwnsLock'
        BY <3>1, <4>1
      <4>6. LiveRideGuarded'
        BY <3>1, <4>1, <4>2
      <4> QED
        BY <4>3, <4>4, <4>5, <4>6
    <3> QED
      BY <2>19, <3>2, <3>3 DEF HoldForRide
  <2>20. CASE PointAtRide(r)
    BY <2>20 DEF PointAtRide, SetPointer
  <2>21. CASE CacheMatch(r)
    BY <2>21 DEF CacheMatch, SetCache
  <2>22. CASE TellMatched(r)
    BY <2>22 DEF TellMatched, TellRider, Finish
  <2>23. CASE UndoUnlock(r)
    <3>1. /\ pc[r] = "undoUnlock" /\ pc' = [pc EXCEPT ![r] = "undoPtr"]
          /\ lock' = [lock EXCEPT ![cand[r]] = IF @ = r THEN NoRide ELSE @]
          /\ held' = (IF lock[cand[r]] = r THEN held \ {cand[r]} ELSE held)
          /\ UNCHANGED <<status, driverOf, cand, closing, up, loose>>
      BY <2>23 DEF UndoUnlock, Unlock
    <3>2. cand[r] \in Drivers
      BY <3>1
    <3>3. driverOf[r] = NoDriver /\ status[r] \notin Live
      BY <3>1, <3>2, UnbookedInLoop DEF InLoop
    <3>4. DownIsIdle' /\ ClosingIsOver'
      BY <3>1, <3>2, <3>3
    <3>5. HeldIsBooked'
      BY <3>1, <3>2, <3>3
    <3>6. LoopOwnsLock'
      BY <3>1, <3>2, <3>3
    <3>7. LiveRideGuarded'
      BY <3>1, <3>2, <3>3
    <3> QED
      BY <3>4, <3>5, <3>6, <3>7
  <2>24. CASE UndoPointer(r)
    BY <2>24 DEF UndoPointer, DelPointer, SetPointer
  <2>25. CASE MarkNoDrivers(r)
    BY <2>25 DEF MarkNoDrivers, MoveRideIfStill
  <2>26. CASE TellNoDrivers(r)
    BY <2>26 DEF TellNoDrivers, TellRider, Finish
  <2> QED
    BY <2>1, <2>2, <2>3, <2>4, <2>5, <2>6, <2>7, <2>8, <2>9, <2>10, <2>11, <2>12, <2>13,
       <2>14, <2>15, <2>16, <2>17, <2>18, <2>19, <2>20, <2>21, <2>22, <2>23, <2>24, <2>25,
       <2>26 DEF LoopStep
<1>2. ASSUME NEW r \in Rides, Handler(r)
      PROVE Guarded'
  <2> USE <1>2 DEF Handler
  <2>1. CASE CacheNewRide(r)
    BY <2>1 DEF CacheNewRide, SetCache
  <2>2. CASE CacheStarted(r)
    BY <2>2 DEF CacheStarted, SetCache, TellRider
  <2>3. CASE CloseUnlock(r)
    <3>1. /\ closing[r] = "unlock" /\ closing' = [closing EXCEPT ![r] = "ptr"]
          /\ lock' = [lock EXCEPT ![driverOf[r]] = IF @ = r THEN NoRide ELSE @]
          /\ held' = (IF lock[driverOf[r]] = r THEN held \ {driverOf[r]} ELSE held)
          /\ UNCHANGED <<status, driverOf, cand, pc, up, loose>>
      BY <2>3 DEF CloseUnlock, Unlock
    <3>2. driverOf[r] \in Drivers /\ status[r] \notin Live
      BY <3>1
    <3>3. pc[r] \notin InLoop
      BY <3>1, <3>2, UnbookedInLoop
    <3>4. pc[r] \notin Claiming
      BY <3>1, <3>2, <3>3 DEF InLoop
    <3>5. DownIsIdle' /\ ClosingIsOver'
      BY <3>1, <3>2, <3>3, <3>4
    <3>6. HeldIsBooked'
      BY <3>1, <3>2, <3>3, <3>4
    <3>7. LoopOwnsLock'
      BY <3>1, <3>2, <3>3, <3>4
    <3>8. LiveRideGuarded'
      BY <3>1, <3>2, <3>3, <3>4
    <3> QED
      BY <3>5, <3>6, <3>7, <3>8
  <2>4. CASE ClosePointer(r)
    BY <2>4 DEF ClosePointer, DelPointer, SetPointer
  <2>5. CASE CloseDropFirst(r)
    BY <2>5 DEF CloseDropFirst, DropCache, SetCache
  <2>6. CASE ClosePool(r)
    BY <2>6 DEF ClosePool, RepoolAtLastPosition, UpdatePosition, Broadcast, TellRider
  <2>7. CASE CloseDrop(r)
    BY <2>7 DEF CloseDrop, DropCache, SetCache, Broadcast, TellRider
  <2> QED
    BY <2>1, <2>2, <2>3, <2>4, <2>5, <2>6, <2>7 DEF HandlerStep
<1>3. ASSUME NEW r \in Rides, up, RiderAction(r), UNCHANGED <<driverVars, worldVars>>
      PROVE Guarded'
  <2> USE <1>3
  <2>1. CASE RequestRide(r)
    BY <2>1 DEF RequestRide, InsertRide
  <2>2. CASE CancelRide(r)
    BY <2>2 DEF CancelRide, MoveRide, Audited, BookedHasLeftLoop, UnbookedUntilMatched,
       MatchedIsCandidate
  <2> QED
    BY <2>1, <2>2 DEF RiderAction
<1>4. ASSUME NEW r \in Rides, up, DriverRideAction(r), UNCHANGED worldVars
      PROVE Guarded'
  <2> USE <1>4
  <2>1. CASE AcceptOffer(r) /\ UNCHANGED <<rideVars, driverVars>>
    BY <2>1 DEF AcceptOffer
  <2>2. CASE RejectOffer(r) /\ UNCHANGED <<rideVars, driverVars>>
    BY <2>2 DEF RejectOffer
  <2>3. CASE StartRide(r) /\ UNCHANGED driverVars
    BY <2>3 DEF StartRide, MoveRide, Audited, BookedHasLeftLoop, UnbookedUntilMatched,
       MatchedIsCandidate
  <2>4. CASE CompleteRide(r) /\ UNCHANGED driverVars
    BY <2>4 DEF CompleteRide, MoveRide, Audited, BookedHasLeftLoop, UnbookedUntilMatched,
       MatchedIsCandidate
  <2> QED
    BY <2>1, <2>2, <2>3, <2>4 DEF DriverRideAction
<1>5. ASSUME NEW r \in Rides, Timeout(r) \/ Fault(r),
             UNCHANGED <<rideVars, driverVars, processVars>>
      PROVE Guarded'
  <2> USE <1>5
  <2>1. CASE Timeout(r)
    BY <2>1 DEF Timeout, OfferTimeout
  <2>2. CASE FailStore(r) /\ UNCHANGED loose
    BY <2>2 DEF FailStore
  <2>3. CASE LoseCommitReply(r) /\ loose' = loose \cup {<<r, cand[r]>>}
    BY <2>3 DEF LoseCommitReply, MatchRide, CanMatch, Audited, BookedHasLeftLoop,
       UnbookedUntilMatched, MatchedIsCandidate
  <2> QED
    BY <2>1, <2>2, <2>3 DEF Fault
<1>6. ASSUME NEW d \in Drivers, Toggling(d)
      PROVE Guarded'
  <2> USE <1>6 DEF Toggling
  <2>1. CASE OfflineUpdate(d)
    BY <2>1 DEF OfflineUpdate
  <2>2. CASE OfflineLeave(d)
    BY <2>2 DEF OfflineLeave, RemoveFromPool
  <2>3. CASE OfflineReply(d)
    BY <2>3 DEF OfflineReply
  <2>4. CASE OnlinePool(d)
    BY <2>4 DEF OnlinePool, UpdatePosition
  <2> QED
    BY <2>1, <2>2, <2>3, <2>4 DEF ToggleStep
<1>7. ASSUME NEW d \in Drivers, up, DriverAction(d), UNCHANGED worldVars
      PROVE Guarded'
  <2> USE <1>7
  <2>1. CASE Ping(d)
    BY <2>1 DEF Ping, UpdatePosition
  <2>2. CASE Connect(d)
    BY <2>2 DEF Connect
  <2>3. CASE Disconnect(d)
    BY <2>3 DEF Disconnect
  <2>4. CASE GrowStale(d)
    BY <2>4 DEF GrowStale, AgePosition
  <2>5. CASE GoOffline(d)
    BY <2>5 DEF GoOffline
  <2>6. CASE GoOnline(d)
    BY <2>6 DEF GoOnline
  <2> QED
    BY <2>1, <2>2, <2>3, <2>4, <2>5, <2>6 DEF DriverAction
<1>8. ASSUME NEW d \in Drivers, Expire(d), UNCHANGED processVars
      PROVE Guarded'
  <2>1. /\ lock[d] \in Rides /\ d \notin held /\ lock' = [lock EXCEPT ![d] = NoRide]
        /\ loose' = IF pc[lock[d]] = "over" THEN loose ELSE loose \cup {<<lock[d], d>>}
        /\ UNCHANGED <<held, status, driverOf, closing, pc, cand, up>>
    BY <1>8 DEF Expire, LapseLock
  <2>2. DownIsIdle' /\ ClosingIsOver' /\ HeldIsBooked'
    BY <2>1
  <2>3. LoopOwnsLock'
    BY <2>1
  <2>4. LiveRideGuarded'
    BY <2>1
  <2> QED
    BY <2>2, <2>3, <2>4
<1>9. CASE Crash
  BY <1>9 DEF Crash, Audited, BookedHasLeftLoop, UnbookedUntilMatched, MatchedIsCandidate
<1>10. CASE Boot
  <2> DEFINE live(d) == LiveRidesOf(d)
             ride(d) == CHOOSE s \in live(d) : TRUE
  <2>1. /\ ~up
        /\ lock' = [d \in Drivers |-> IF live(d) = {} THEN lock[d] ELSE ride(d)]
        /\ held' = held \cup {d \in Drivers : live(d) # {}}
        /\ UNCHANGED <<status, driverOf, closing, pc, cand>>
    BY <1>10 DEF Boot, Reconcile
  <2>2. ASSUME NEW d \in Drivers, live(d) # {}
        PROVE  ride(d) \in Rides /\ driverOf[ride(d)] = d /\ status[ride(d)] \in Live
    BY <2>2 DEF LiveRidesOf
  <2>3. ASSUME NEW r \in Rides, status[r] \in Live
        PROVE  driverOf[r] \in Drivers /\ live(driverOf[r]) = {r} /\ ride(driverOf[r]) = r
    BY <2>3 DEF LiveRidesOf, NoDoubleBooking
  <2> HIDE DEF ride, live
  <2>4. \A r \in Rides : pc[r] \in {"off", "over"}
    BY <2>1
  <2>5. DownIsIdle' /\ ClosingIsOver' /\ LoopOwnsLock'
    BY <2>1, <2>4
  <2>6. HeldIsBooked'
    <3> SUFFICES ASSUME NEW d \in Drivers, d \in held'
                 PROVE  lock'[d] \in Rides /\ driverOf[lock'[d]] = d /\ pc[lock'[d]] # "hold"
      <4>1. held' \subseteq Drivers
        BY <2>1
      <4> QED
        BY <2>1, <4>1
    <3>1. CASE live(d) = {}
      BY <2>1, <3>1
    <3>2. CASE live(d) # {}
      <4>1. lock'[d] = ride(d)
        BY <2>1, <3>2
      <4>2. ride(d) \in Rides /\ driverOf[ride(d)] = d
        BY <2>2, <3>2
      <4>3. pc[ride(d)] # "hold"
        BY <2>4, <4>2
      <4> QED
        BY <4>1, <4>2, <4>3
    <3> QED
      BY <3>1, <3>2
  <2>7. ASSUME NEW r \in Rides, status[r] \in Live
        PROVE  lock'[driverOf[r]] = r /\ driverOf[r] \in held'
    <3>1. driverOf[r] \in Drivers /\ live(driverOf[r]) # {} /\ ride(driverOf[r]) = r
      <4>1. driverOf[r] \in Drivers /\ live(driverOf[r]) = {r} /\ ride(driverOf[r]) = r
        BY ONLY <2>3, <2>7
      <4> QED
        BY ONLY <4>1
    <3> QED
      BY <2>1, <3>1
  <2>8. LiveRideGuarded'
    BY <2>1, <2>7
  <2> QED
    BY <2>5, <2>6, <2>8
<1>11. CASE Flush
  <2>1. /\ lock' = [d \in Drivers |-> NoRide] /\ held' = {}
        /\ up => loose' = loose \cup {p \in Rides \X Drivers : lock[p[2]] = p[1]}
        /\ UNCHANGED <<status, driverOf, closing, pc, cand, up>>
    BY <1>11 DEF Flush, FlushRedis
  <2>2. ASSUME up, NEW s \in Rides, NEW d \in Drivers, lock[d] = s \/ <<s, d>> \in loose
        PROVE  <<s, d>> \in loose'
    BY <2>1, <2>2
  <2>3. DownIsIdle' /\ ClosingIsOver' /\ HeldIsBooked'
    BY <2>1
  <2>4. LoopOwnsLock'
    BY <2>1, <2>2
  <2>5. LiveRideGuarded'
    BY <2>1, <2>2
  <2> QED
    BY <2>3, <2>4, <2>5
<1>12. CASE UNCHANGED vars
  BY <1>12 DEF vars, appVars
<1> QED
  BY <1>1, <1>2, <1>3, <1>4, <1>5, <1>6, <1>7, <1>8, <1>9, <1>10, <1>11, <1>12
  DEF Next, RideNext, DriverNext

\* The server never leaves the guarded states.
LEMMA GuardedAlways ==
    ASSUME ~UnsafeDisableLock
    PROVE  Spec => []Guarded
<1>1. Init => Guarded
  BY DEF Init, StoreInit, RedisInit, DispatchInit, RideInit, Guarded, DownIsIdle, ClosingIsOver,
         HeldIsBooked, LoopOwnsLock, LiveRideGuarded, Claiming, Waiting, Live
<1>2. Wellformed /\ Audited /\ NoDoubleBooking /\ Guarded /\ [Next]_vars => Guarded'
  BY GuardedNext
<1> QED
  BY <1>1, <1>2, TrailAlways, OneLiveRidePerDriver, PTL DEF Spec

\* With the lock in force, whatever is late, lost or failing: every live ride
\* whose loop is past the PERSIST owns its driver's lock for good, except where
\* its hold had come loose before (holdForRide, reconcileLiveRides).
THEOREM LiveRidesStayGuarded ==
    ASSUME ~UnsafeDisableLock
    PROVE  Spec => []LiveRideGuarded
<1>1. Guarded => LiveRideGuarded
  BY DEF Guarded
<1> QED
  BY <1>1, GuardedAlways, PTL

\* Two rides that have the same driver cannot both own his lock.
LEMMA GuardedClaims ==
    ASSUME Wellformed, Audited, Guarded, up
    PROVE  OfferExclusive /\ ClaimedIsFree
<1> USE DEF Wellformed, Guarded, LoopOwnsLock
<1>1. OfferExclusive
  BY DEF OfferExclusive
<1>2. ClaimedIsFree
  <2> SUFFICES ASSUME NEW r \in Rides, pc[r] \in Claiming, NEW s \in LiveRidesOf(cand[r])
               PROVE  {<<r, cand[r]>>, <<s, cand[r]>>} \cap loose # {}
    BY DEF ClaimedIsFree
  <2>1. s \in Rides /\ driverOf[s] = cand[r] /\ status[s] \in Live
    BY DEF LiveRidesOf
  <2>2. cand[r] \in Drivers
    BY DEF CandidateBound, HasCandidate, Claiming, Waiting, Label
  <2>3. pc[s] \notin Claiming
    BY <2>1, <2>2, NoDriverAssumption DEF Audited, BookedHasLeftLoop, Claiming, Waiting
  <2>4. lock[cand[r]] = s \/ <<s, cand[r]>> \in loose
    BY <2>1 DEF LiveRideGuarded, Audited, MatchedIsCandidate
  <2>5. lock[cand[r]] = r \/ <<r, cand[r]>> \in loose
    OBVIOUS
  <2> QED
    BY <2>3, <2>4, <2>5
<1> QED
  BY <1>1, <1>2

\* Both facts about claims, at every state and not only while the server is up.
LEMMA ClaimsAlways ==
    ASSUME ~UnsafeDisableLock
    PROVE  Spec => [](OfferExclusive /\ ClaimedIsFree)
<1>1. Wellformed /\ Audited /\ Guarded => OfferExclusive /\ ClaimedIsFree
  <2>1. CASE up
    BY <2>1, GuardedClaims
  <2>2. CASE ~up
    BY <2>2 DEF Guarded, DownIsIdle, OfferExclusive, ClaimedIsFree, Claiming, Waiting
  <2> QED
    BY <2>1, <2>2
<1> QED
  BY <1>1, GuardedAlways, TrailAlways, PTL

\* With the lock in force two rides have the same driver between claim and
\* commit only if the hold of one of them has come loose.
THEOREM OffersAreExclusive ==
    ASSUME ~UnsafeDisableLock
    PROVE  Spec => []OfferExclusive
BY ClaimsAlways, PTL

\* With the lock in force nobody is claimed, or offered a ride, while on
\* another one, unless the hold of one of the two rides has come loose.
THEOREM ClaimsAreOnFreeDrivers ==
    ASSUME ~UnsafeDisableLock
    PROVE  Spec => []ClaimedIsFree
BY ClaimsAlways, PTL
----------------------------------------------------------------------------
(* The server implements the rules of Engagement.                           *)

AskedBy(r) == IF pc[r] \in Claiming THEN cand[r] ELSE NoDriver

Asks == [r \in Rides |-> AskedBy(r)]

Taken == {r \in Rides : status[r] \in Live}

\* No other ride asks anybody else than before.
OthersAskOn(r) == \A s \in Rides \ {r} : AskedBy(s)' = AskedBy(s)

\* A step that neither asks nor books leaves the engagements alone.
LEMMA StayEngaged ==
    ASSUME NEW r \in Rides, OthersAskOn(r), AskedBy(r)' = AskedBy(r),
           UNCHANGED <<status, driverOf, loose>>
    PROVE  UNCHANGED <<Asks, driverOf, Taken, loose>>
BY DEF Asks, OthersAskOn, Taken

\* One question changes.
LEMMA OneAsk ==
    ASSUME NEW r \in Rides, OthersAskOn(r), NEW d, AskedBy(r)' = d
    PROVE  Asks' = [Asks EXCEPT ![r] = d]
<1>1. Asks' = [s \in Rides |-> AskedBy(s)']
  BY DEF Asks
<1>2. [Asks EXCEPT ![r] = d] = [s \in Rides |-> IF s = r THEN d ELSE AskedBy(s)]
  BY DEF Asks
<1>3. ASSUME NEW s \in Rides
      PROVE  AskedBy(s)' = IF s = r THEN d ELSE AskedBy(s)
  BY DEF OthersAskOn
<1> QED
  BY <1>1, <1>2, <1>3, Zenon

\* A question ends without a booking.
LEMMA LetsGo ==
    ASSUME NEW r \in Rides, OthersAskOn(r), AskedBy(r) # NoDriver, AskedBy(r)' = NoDriver,
           UNCHANGED <<status, driverOf, loose>>
    PROVE  Engagements!Next
<1>1. Asks' = [Asks EXCEPT ![r] = NoDriver]
  BY OneAsk
<1>2. Engagements!LetGo(r)
  BY <1>1 DEF Engagements!LetGo, Engagements!StopAsking, Asks, AskedBy, Taken
<1> QED
  BY <1>2 DEF Engagements!Next

\* A question begins: the lock was free, so whoever else has the driver holds
\* him no longer.
LEMMA AsksAFreeDriver ==
    ASSUME Wellformed, Audited, Guarded,
           NEW r \in Rides, OthersAskOn(r), pc[r] = "claim", lock[cand[r]] = NoRide,
           pc'[r] \in Claiming, cand'[r] = cand[r], UNCHANGED <<status, driverOf, loose>>
    PROVE  Engagements!Next
<1>1. PICK d \in Drivers : d = cand[r]
  BY DEF Wellformed, CandidateBound, HasCandidate, Label
<1>2. AskedBy(r) = NoDriver /\ AskedBy(r)' = d /\ d # NoDriver
  BY <1>1, NoDriverAssumption DEF AskedBy, Claiming, Waiting
<1>3. Asks' = [Asks EXCEPT ![r] = d]
  BY <1>2, OneAsk
<1>4. driverOf[r] = NoDriver
  BY UnbookedInLoop DEF InLoop, Label
<1>5. up
  BY DEF Guarded, DownIsIdle
<1>6. ASSUME NEW s \in Rides, AskedBy(s) = d \/ (s \in Taken /\ driverOf[s] = d)
      PROVE  <<s, d>> \in loose
  <2>1. CASE AskedBy(s) = d
    BY <1>1, <1>2, <1>5, <2>1, NoRideAssumption DEF AskedBy, Guarded, LoopOwnsLock
  <2>2. CASE s \in Taken /\ driverOf[s] = d
    BY <1>1, <1>5, <2>2, NoRideAssumption
    DEF Taken, Guarded, LoopOwnsLock, LiveRideGuarded, Audited, MatchedIsCandidate
  <2> QED
    BY <1>6, <2>1, <2>2
<1>7. Engagements!Ask(r, d)
  BY <1>2, <1>3, <1>4, <1>6
  DEF Engagements!Ask, Engagements!Engaged, Engagements!Has, Asks, AskedBy, Taken
<1> QED
  BY <1>7 DEF Engagements!Next

\* The match books the driver who was asked, on whom no other ride is live.
LEMMA BooksTheAsked ==
    ASSUME Wellformed, NEW r \in Rides, OthersAskOn(r), pc[r] = "commit", AskedBy(r)' = NoDriver,
           MatchRide(r, cand[r]), loose' = loose \/ loose' = loose \cup {<<r, cand[r]>>}
    PROVE  Engagements!Next
<1>1. PICK d \in Drivers : d = cand[r] /\ d # NoDriver
  BY NoDriverAssumption DEF Wellformed, CandidateBound, HasCandidate, Label
<1>2. AskedBy(r) = d
  BY <1>1 DEF AskedBy, Claiming
<1>3. Asks' = [Asks EXCEPT ![r] = NoDriver]
  BY OneAsk
<1>4. driverOf' = [driverOf EXCEPT ![r] = d] /\ Taken' = Taken \cup {r}
  BY <1>1 DEF MatchRide, Taken, Live, Wellformed, TypeOK, StoreType
<1>5. \A s \in Rides : ~(s \in Taken /\ driverOf[s] = d)
  BY <1>1 DEF MatchRide, CanMatch, LiveRidesOf, Taken
<1>6. Engagements!Book(r)
  BY <1>1, <1>2, <1>3, <1>4, <1>5
  DEF Engagements!Book, Engagements!Has, Engagements!StopAsking, Asks, AskedBy, Taken
<1> QED
  BY <1>6 DEF Engagements!Next

\* A statement that neither asks nor books ends a trip or leaves it alone.
LEMMA RowMoves ==
    ASSUME Wellformed, NEW r \in Rides, OthersAskOn(r), AskedBy(r)' = AskedBy(r),
           UNCHANGED <<driverOf, loose>>,
           NEW new \in Status, status' = [status EXCEPT ![r] = new],
           new \in Live => status[r] \in Live
    PROVE  Engagements!Next \/ UNCHANGED <<Asks, driverOf, Taken, loose>>
<1>1. Asks' = Asks
  BY DEF Asks, OthersAskOn
<1>2. CASE status[r] \in Live /\ new \notin Live
  <2>1. r \in Taken /\ Taken' = Taken \ {r}
    BY <1>2 DEF Taken, Wellformed, TypeOK, StoreType
  <2>2. Engagements!End(r)
    BY <1>1, <2>1 DEF Engagements!End, Asks, AskedBy, Taken
  <2> QED
    BY <2>2 DEF Engagements!Next
<1>3. CASE ~(status[r] \in Live /\ new \notin Live)
  BY <1>1, <1>3 DEF Taken, Wellformed, TypeOK, StoreType
<1> QED
  BY <1>2, <1>3

\* Holds slip.
LEMMA HoldsSlip ==
    ASSUME UNCHANGED <<status, driverOf, pc, cand>>,
           NEW gone \in SUBSET (Rides \X Drivers), loose' = loose \cup gone
    PROVE  Engagements!Next
<1>1. UNCHANGED <<Asks, driverOf, Taken>>
  BY DEF Asks, AskedBy, Taken
<1>2. Engagements!Slip
  BY <1>1 DEF Engagements!Slip, Asks, AskedBy, Taken
<1> QED
  BY <1>2 DEF Engagements!Next

\* Every step of the server is a step of Engagement or leaves its state alone.
LEMMA EngagementSteps ==
    ASSUME ~UnsafeDisableLock, Wellformed, Audited, Guarded, [Next]_vars
    PROVE  [Engagements!Next]_(Engagements!engagementVars)
<1> DEFINE Stay == UNCHANGED <<Asks, driverOf, Taken, loose>>
           Goal == Engagements!Next \/ Stay
<1> SUFFICES Goal
  BY DEF Engagements!engagementVars, Asks, AskedBy, Taken
<1>1. ASSUME UNCHANGED <<status, driverOf, pc, cand, loose>>
      PROVE  Goal
  BY <1>1 DEF Asks, AskedBy, Taken
<1>2. ASSUME NEW r \in Rides, OthersAskOn(r), UNCHANGED <<status, driverOf, loose>>,
             \/ AskedBy(r)' = AskedBy(r)
             \/ AskedBy(r) # NoDriver /\ AskedBy(r)' = NoDriver
      PROVE  Goal
  BY <1>2, StayEngaged, LetsGo
<1> HIDE DEF Goal, Stay
<1>3. \A r \in Rides : pc[r] \in Label /\ (pc[r] \in Claiming => cand[r] # NoDriver)
  BY NoDriverAssumption DEF Wellformed, TypeOK, DispatchType, CandidateBound, HasCandidate,
     Claiming, Waiting, Label
<1>4. pc \in [Rides -> Label] /\ cand \in [Rides -> Drivers \cup {NoDriver}]
  BY DEF Wellformed, TypeOK, DispatchType
<1>5. ASSUME NEW r \in Rides, Loop(r)
      PROVE  Goal
  <2> USE <1>3, <1>4 DEF AskedBy, OthersAskOn, Claiming, Waiting, At, Goto, Continue, RedisStep,
          StoreStep, LocalStep, OfferStep, storeVars, worldVars
  <2> USE <1>5 DEF Loop
  <2>1. CASE \E d \in Drivers : PickCandidate(r, d)
    BY <1>2, <2>1 DEF PickCandidate
  <2>2. CASE RunOut(r)
    BY <1>2, <2>2 DEF RunOut
  <2>3. CASE ClaimDriver(r)
    <3>1. /\ OthersAskOn(r) /\ pc[r] = "claim" /\ pc'[r] \in Claiming
          /\ lock[cand[r]] = NoRide /\ cand'[r] = cand[r] /\ UNCHANGED <<status, driverOf, loose>>
      BY <2>3 DEF ClaimDriver, SetNX
    <3> QED
      BY <3>1, AsksAFreeDriver DEF Goal
  <2>4. CASE LoseClaim(r)
    BY <1>2, <2>4 DEF LoseClaim
  <2>5. CASE ClaimUnsafely(r)
    BY <2>5 DEF ClaimUnsafely
  <2>6. CASE LeavePool(r)
    BY <1>2, <2>6 DEF LeavePool
  <2>7. CASE RecordLost(r)
    BY <1>2, <2>7 DEF RecordLost, WriteOffer
  <2>8. CASE LetGoAbsent(r)
    BY <1>2, <2>8 DEF LetGoAbsent
  <2>9. CASE RepoolAbsent(r)
    BY <1>2, <2>9 DEF RepoolAbsent
  <2>10. CASE RecordAbsent(r)
    BY <1>2, <2>10 DEF RecordAbsent, WriteOffer
  <2>11. CASE RecordOffer(r)
    BY <1>2, <2>11 DEF RecordOffer, WriteOffer
  <2>12. CASE SendOffer(r)
    BY <1>2, <2>12 DEF SendOffer
  <2>13. CASE ResolveAccept(r)
    BY <1>2, <2>13 DEF ResolveAccept
  <2>14. CASE CloseOffer(r)
    BY <1>2, <2>14 DEF CloseOffer, WriteOffer
  <2>15. CASE RefuseUnlock(r)
    BY <1>2, <2>15 DEF RefuseUnlock
  <2>16. CASE RefusePool(r)
    BY <1>2, <2>16 DEF RefusePool
  <2>17. CASE CommitMatch(r)
    <3>1. /\ OthersAskOn(r) /\ pc[r] = "commit" /\ AskedBy(r)' = NoDriver
          /\ MatchRide(r, cand[r]) /\ loose' = loose
      BY <2>17 DEF CommitMatch
    <3> QED
      BY <3>1, BooksTheAsked DEF Goal
  <2>18. CASE RefuseMatch(r)
    BY <1>2, <2>18 DEF RefuseMatch
  <2>19. CASE HoldForRide(r)
    BY <1>2, <2>19 DEF HoldForRide
  <2>20. CASE PointAtRide(r)
    BY <1>2, <2>20 DEF PointAtRide
  <2>21. CASE CacheMatch(r)
    BY <1>2, <2>21 DEF CacheMatch
  <2>22. CASE TellMatched(r)
    BY <1>2, <2>22 DEF TellMatched, Finish
  <2>23. CASE UndoUnlock(r)
    BY <1>2, <2>23 DEF UndoUnlock
  <2>24. CASE UndoPointer(r)
    BY <1>2, <2>24 DEF UndoPointer
  <2>25. CASE MarkNoDrivers(r)
    <3>1. OthersAskOn(r) /\ AskedBy(r)' = AskedBy(r) /\ UNCHANGED <<driverOf, loose>>
      BY <2>25 DEF MarkNoDrivers, MoveRideIfStill
    <3>2. \E new \in Status :
            status' = [status EXCEPT ![r] = new] /\ (new \in Live => status[r] \in Live)
      <4>1. CASE status[r] = "requested"
        BY <2>25, <4>1 DEF MarkNoDrivers, MoveRideIfStill, Status, Live
      <4>2. CASE status[r] # "requested"
        BY <2>25, <4>2 DEF MarkNoDrivers, MoveRideIfStill, Wellformed, TypeOK, StoreType
      <4> QED
        BY <4>1, <4>2
    <3> QED
      BY <3>1, <3>2, RowMoves DEF Goal, Stay
  <2>26. CASE TellNoDrivers(r)
    BY <1>2, <2>26 DEF TellNoDrivers, Finish
  <2> QED
    BY <1>5, <2>1, <2>2, <2>3, <2>4, <2>5, <2>6, <2>7, <2>8, <2>9, <2>10, <2>11, <2>12, <2>13, <2>14, <2>15, <2>16, <2>17, <2>18, <2>19, <2>20, <2>21, <2>22, <2>23, <2>24, <2>25, <2>26 DEF Loop, LoopStep
<1>6. ASSUME NEW r \in Rides, Handler(r)
      PROVE  Goal
  <2>1. CASE CacheNewRide(r)
    BY <1>2, <1>4, <1>6, <2>1
    DEF Handler, worldVars, CacheNewRide, AskedBy, OthersAskOn, Claiming, Waiting, At, Goto,
        RedisStep, storeVars
  <2>2. CASE ~CacheNewRide(r)
    BY <1>1, <1>6, <2>2
    DEF Handler, HandlerStep, CacheStarted, CloseUnlock, ClosePointer, CloseDropFirst, ClosePool,
        CloseDrop, CloseStep, storeVars, dispatchVars, loopVars, worldVars, Broadcast
  <2> QED
    BY <2>1, <2>2
<1>7. ASSUME NEW r \in Rides, RiderAction(r) \/ DriverRideAction(r), UNCHANGED worldVars
      PROVE  Goal
  <2> USE <1>7 DEF worldVars
  <2> USE <1>3, <1>4 DEF AskedBy, OthersAskOn, Claiming, Waiting, At, Goto, StoreStep, OfferStep,
          storeVars, dispatchVars
  <2>1. CASE AcceptOffer(r) \/ RejectOffer(r)
    BY <1>2, <2>1 DEF AcceptOffer, RejectOffer
  <2>2. ASSUME NEW from, NEW new \in Status, MoveRide(r, from, new), UNCHANGED <<pc, cand>>,
               new \in Live => from \subseteq Live
        PROVE  Goal
    BY <2>2, RowMoves DEF MoveRide, Goal, Stay
  <2>3. CASE RequestRide(r)
    <3>1. OthersAskOn(r) /\ AskedBy(r)' = AskedBy(r) /\ UNCHANGED <<driverOf, loose>>
          /\ status' = [status EXCEPT ![r] = "requested"]
      BY <2>3 DEF RequestRide, InsertRide
    <3>2. "requested" \in Status \ Live
      BY DEF Status, Live
    <3> QED
      BY <3>1, <3>2, RowMoves DEF Goal, Stay
  <2>4. CASE CancelRide(r) \/ StartRide(r) \/ CompleteRide(r)
    BY <2>2, <2>4 DEF CancelRide, StartRide, CompleteRide, Status, Live
  <2> QED
    BY <1>7, <2>1, <2>3, <2>4 DEF RiderAction, DriverRideAction
<1>8. ASSUME NEW r \in Rides, Timeout(r) \/ Fault(r)
      PROVE  Goal
  <2> USE <1>3, <1>4 DEF AskedBy, OthersAskOn, Claiming, Waiting, At, Goto, OfferStep, storeVars
  <2>1. CASE Timeout(r)
    BY <1>2, <2>1 DEF Timeout, OfferTimeout
  <2>2. CASE FailStore(r) /\ UNCHANGED loose
    BY <1>2, <2>2 DEF FailStore
  <2>3. CASE LoseCommitReply(r) /\ loose' = loose \cup {<<r, cand[r]>>}
    <3>1. /\ OthersAskOn(r) /\ pc[r] = "commit" /\ AskedBy(r)' = NoDriver
          /\ MatchRide(r, cand[r])
      BY <2>3 DEF LoseCommitReply
    <3> QED
      BY <2>3, <3>1, BooksTheAsked DEF Goal
  <2> QED
    BY <1>8, <2>1, <2>2, <2>3 DEF Fault
<1>9. ASSUME NEW d \in Drivers, DriverNext(d)
      PROVE  Goal
  <2>1. CASE Toggling(d) \/ (DriverAction(d) /\ UNCHANGED worldVars)
    BY <1>1, <2>1
    DEF Toggling, ToggleStep, OfflineUpdate, OfflineLeave, OfflineReply, OnlinePool,
        DriverAction, Ping, Connect, Disconnect, GrowStale, GoOffline, GoOnline, NoRideStep,
        storeVars, dispatchVars, loopVars, worldVars
  <2>2. CASE Expire(d)
    <3>1. lock[d] \in Rides /\ UNCHANGED <<status, driverOf, pc, cand>>
      BY <2>2 DEF Expire, LapseLock, Wellformed, TypeOK, RedisType, storeVars, dispatchVars
    <3>2. \E gone \in SUBSET (Rides \X Drivers) : loose' = loose \cup gone
      <4>1. CASE At(lock[d], "over")
        <5>1. loose' = loose \cup {}
          BY <2>2, <4>1 DEF Expire
        <5> QED
          BY <5>1
      <4>2. CASE ~At(lock[d], "over")
        <5>1. loose' = loose \cup {<<lock[d], d>>}
          BY <2>2, <4>2 DEF Expire
        <5>2. {<<lock[d], d>>} \in SUBSET (Rides \X Drivers)
          BY <3>1
        <5> QED
          BY <5>1, <5>2, Zenon
      <4> QED
        BY <4>1, <4>2
    <3> QED
      BY <3>1, <3>2, HoldsSlip DEF Goal
  <2> QED
    BY <1>9, <2>1, <2>2 DEF DriverNext
<1>10. CASE Crash
  <2>1. Asks' = [r \in Rides |-> NoDriver] /\ loose' = {} /\ UNCHANGED <<driverOf, Taken>>
    BY <1>10, <1>4 DEF Crash, Asks, AskedBy, Claiming, Waiting, Taken, storeVars
  <2>2. Engagements!Restart
    BY <2>1 DEF Engagements!Restart, Engagements!Nobody, Asks, AskedBy, Taken
  <2> QED
    BY <2>2 DEF Engagements!Next, Goal
<1>11. CASE Flush
  <2>1. UNCHANGED <<status, driverOf, pc, cand>>
    BY <1>11 DEF Flush, storeVars, dispatchVars
  <2>2. \E gone \in SUBSET (Rides \X Drivers) : loose' = loose \cup gone
    <3> DEFINE gone == IF up THEN {p \in Rides \X Drivers : lock[p[2]] = p[1]} ELSE {}
    <3>1. gone \in SUBSET (Rides \X Drivers) /\ loose' = loose \cup gone
      BY <1>11 DEF Flush
    <3> QED
      BY <3>1
  <2> QED
    BY <2>1, <2>2, HoldsSlip DEF Goal
<1>12. CASE Boot \/ UNCHANGED vars
  BY <1>1, <1>12 DEF Boot, vars, appVars, storeVars, dispatchVars, loopVars, worldVars
<1> QED
  BY <1>5, <1>6, <1>7, <1>8, <1>9, <1>10, <1>11, <1>12 DEF Next, RideNext

\* With the lock in force the whole server, with its loops, its locks and its
\* two stores, implements the rules of Engagement, whatever is late, lost,
\* failing, flushed or started again.
THEOREM ServerEngagesOneByOne ==
    ASSUME ~UnsafeDisableLock
    PROVE  Spec => EngagedByOne
<1>1. Init => Engagements!Init
  BY DEF Init, StoreInit, DispatchInit, Engagements!Init, Engagements!Nobody, Claiming, Waiting,
         Live
<1>2. Wellformed /\ Audited /\ Guarded /\ [Next]_vars
      => [Engagements!Next]_(Engagements!engagementVars)
  BY EngagementSteps
<1> QED
  BY <1>1, <1>2, TrailAlways, GuardedAlways, PTL DEF Spec, EngagedByOne, Engagements!Spec
=============================================================================
