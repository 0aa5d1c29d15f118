---------------------------- MODULE CapacityProofs ----------------------------
(***************************************************************************)
(* The load test, for any number of requests and drivers: when everybody   *)
(* asks, everybody says yes and nothing fails, no capacity is wasted.      *)
(***************************************************************************)
EXTENDS OutcomeProofs, FiniteSetTheorems

\* The world of sim/load-test-match.js: drivers only accept, nothing fails, and
\* a loop may make an offer and look at the whole fleet.
LoadTest ==
    /\ ~UnsafeDisableLock
    /\ Env = {} /\ MaxFaults = 0 /\ MaxCrashes = 0
    /\ MaxCandidates > 0
    /\ Cardinality(Drivers) <= MaxScan

----------------------------------------------------------------------------
(* The invariant.                                                           *)

\* Where a loop is before its first offer, with or without a request.
Unoffered == {"off", "cacheNew", "search", "claim", "zrem", "lost", "claimed", "send"}

\* Where a loop is while its ride is requested.
Seeking == (Unoffered \ {"off"}) \cup {"wait", "answering", "accepted", "commit", "giveUp"}

Matching == {"hold", "point", "cacheMatch", "tell"}

\* Nobody leaves, nothing grows stale or comes loose, no loop takes a detour.
Calm ==
    /\ up /\ connected = Drivers /\ starting = {} /\ loose = {}
    /\ \A d \in Drivers : toggle[d] = "none" /\ meta[d] = "fresh"
    /\ \A r \in Rides :
        /\ closing[r] = "none"
        /\ pc[r] \in {"off", "tellNone", "over"} \cup Seeking \cup Matching

\* The row of a ride says where its loop is, and nobody has declined.
RowsFollowLoops == \A r \in Rides :
    /\ pc[r] \in Seeking => status[r] = "requested"
    /\ pc[r] \in Matching => status[r] = "matched"
    /\ pc[r] = "tellNone" => status[r] = "no_drivers"
    /\ pc[r] = "over" => status[r] \in {"matched", "no_drivers"}
    /\ pc[r] \in Unoffered => offersMade[r] = 0

\* A lock is that of a ride which is claiming the driver or has him.
LocksAreUsed == \A d \in Drivers : lock[d] # NoRide =>
    \/ pc[lock[d]] \in Claiming /\ cand[lock[d]] = d
    \/ lock[d] \in LiveRidesOf(d)

FreeIsInPool == \A d \in Drivers : lock[d] = NoRide => d \in geo

\* A loop passes over a driver only for a lock, and no lock is given back.
TriedIsTaken == \A r \in Rides : \A d \in tried[r] :
    lock[d] # NoRide \/ (pc[r] = "claim" /\ cand[r] = d)

\* A loop gives up only when the whole fleet is taken.
GivesUpLast == \A r \in Rides :
    pc[r] = "giveUp" \/ status[r] = "no_drivers" => \A d \in Drivers : lock[d] # NoRide

Rush ==
    /\ Calm /\ RowsFollowLoops /\ LocksAreUsed /\ FreeIsInPool
    /\ TriedIsTaken /\ GivesUpLast

----------------------------------------------------------------------------
(* The steps of this world.                                                 *)

\* The steps that are left to a ride.
RushStep(r) ==
    \/ RequestRide(r) \/ CacheNewRide(r)
    \/ \E d \in Drivers : PickCandidate(r, d)
    \/ RunOut(r) \/ ClaimDriver(r) \/ LoseClaim(r) \/ LeavePool(r) \/ RecordLost(r)
    \/ RecordOffer(r) \/ SendOffer(r) \/ AcceptOffer(r) \/ ResolveAccept(r) \/ CloseOffer(r)
    \/ CommitMatch(r) \/ HoldForRide(r) \/ PointAtRide(r) \/ CacheMatch(r) \/ TellMatched(r)
    \/ MarkNoDrivers(r) \/ TellNoDrivers(r)

\* No lock lapses: that of a loop at work is fresh, that of a live ride is held.
LEMMA NoLapse ==
    ASSUME LoadTest, Wellformed, Guarded, Rush, NEW d \in Drivers
    PROVE  ~Expire(d)
<1> SUFFICES ASSUME LapseLock(d), At(lock[d], "over")
             PROVE  FALSE
  BY DEF Expire, LoadTest, May
<1>1. lock[d] \in LiveRidesOf(d)
  BY DEF LapseLock, Rush, LocksAreUsed, Claiming, Waiting, At
<1>2. d \in held
  BY <1>1 DEF LiveRidesOf, Guarded, LiveRideGuarded, Rush, Calm, At
<1> QED
  BY <1>2 DEF LapseLock

\* The index never has to refuse a match.
LEMMA NoRefusal ==
    ASSUME Wellformed, Audited, Guarded, Rush, NEW r \in Rides
    PROVE  ~RefuseMatch(r)
<1> SUFFICES ASSUME At(r, "commit")
             PROVE  CanMatch(r, cand[r])
  BY DEF RefuseMatch
<1>1. LiveRidesOf(cand[r]) = {}
  BY GuardedClaims DEF ClaimedIsFree, Claiming, Rush, Calm, At
<1>2. status[r] = "requested"
  BY DEF Rush, RowsFollowLoops, Seeking, At
<1> QED
  BY <1>1, <1>2 DEF CanMatch

\* What may happen at all: a step of a ride, or a ping.
LEMMA RushSteps ==
    ASSUME LoadTest, Wellformed, Audited, Guarded, Rush, [Next]_vars
    PROVE  \/ UNCHANGED vars
           \/ /\ UNCHANGED <<rideVars, driverVars, worldVars>>
              /\ \/ \E r \in Rides : RushStep(r)
                 \/ \E d \in Drivers : Ping(d)
<1> DEFINE Goal == /\ UNCHANGED <<rideVars, driverVars, worldVars>>
                   /\ \/ \E r \in Rides : RushStep(r)
                      \/ \E d \in Drivers : Ping(d)
<1> USE DEF LoadTest, Rush, Calm, Seeking, Unoffered, Matching, May, At
<1>1. ASSUME NEW r \in Rides, Loop(r)
      PROVE  Goal
  <2>1. LoopStep(r) /\ UNCHANGED <<rideVars, driverVars, worldVars>>
    BY <1>1 DEF Loop
  <2>2. ~RefuseMatch(r)
    BY NoRefusal
  <2>3. /\ ~ClaimUnsafely(r) /\ ~RepoolAbsent(r) /\ ~RecordAbsent(r)
        /\ ~RefuseUnlock(r) /\ ~RefusePool(r) /\ ~UndoUnlock(r) /\ ~UndoPointer(r)
    BY DEF ClaimUnsafely, RepoolAbsent, RecordAbsent, RefuseUnlock, RefusePool, UndoUnlock,
           UndoPointer
  <2>4. ~LetGoAbsent(r)
    BY DEF LetGoAbsent, Wellformed, CandidateBound, HasCandidate, Label
  <2> QED
    BY <2>1, <2>2, <2>3, <2>4 DEF LoopStep, RushStep
<1>2. ASSUME NEW r \in Rides, Handler(r)
      PROVE  Goal
  BY <1>2
  DEF Handler, HandlerStep, CacheNewRide, CacheStarted, CloseUnlock, ClosePointer, CloseDropFirst,
      ClosePool, CloseDrop, RushStep
<1>3. ASSUME NEW r \in Rides, RiderAction(r), UNCHANGED <<driverVars, worldVars>>
      PROVE  Goal
  BY <1>3 DEF RiderAction, RequestRide, RushStep
<1>4. ASSUME NEW r \in Rides, DriverRideAction(r), UNCHANGED worldVars
      PROVE  Goal
  BY <1>4 DEF DriverRideAction, RushStep
<1>5. ASSUME NEW r \in Rides
      PROVE  ~Timeout(r) /\ ~Fault(r)
  BY BudgetAssumption
  DEF Timeout, Fault, FailStore, LoseCommitReply, Wellformed, TypeOK, DispatchType
<1>6. ASSUME NEW d \in Drivers, DriverNext(d)
      PROVE  Goal
  <2>1. ~Toggling(d)
    BY DEF Toggling, ToggleStep, OfflineUpdate, OfflineLeave, OfflineReply, OnlinePool
  <2>2. ~Connect(d) /\ ~Expire(d)
    BY NoLapse DEF Connect
  <2> QED
    BY <1>6, <2>1, <2>2 DEF DriverNext, DriverAction, Ping, NoRideStep
<1>7. ~Crash /\ ~Boot /\ ~Flush
  BY DEF Crash, Boot, Flush, Wellformed, TypeOK
<1> QED
  BY <1>1, <1>2, <1>3, <1>4, <1>5, <1>6, <1>7 DEF Next, RideNext

----------------------------------------------------------------------------
(* A loop gives up last.                                                    *)

\* The search of a loop sees every driver it has not tried and nobody holds.
LEMMA FreeIsCandidate ==
    ASSUME Wellformed, Rush, NEW r \in Rides, NEW d \in Drivers \ tried[r], lock[d] = NoRide
    PROVE  d \in Candidates(r)
BY DEF Rush, Calm, FreeIsInPool, Candidates, Nearby

\* A loop that has looked at its fill has looked at the whole fleet.
LEMMA TriedAll ==
    ASSUME LoadTest, Wellformed, NEW r \in Rides, ~(Cardinality(tried[r]) < MaxScan)
    PROVE  tried[r] = Drivers
<1>1. tried[r] \subseteq Drivers
  BY DEF Wellformed, TypeOK, DispatchType
<1>2. /\ IsFiniteSet(tried[r]) /\ Cardinality(tried[r]) <= Cardinality(Drivers)
      /\ Cardinality(tried[r]) = Cardinality(Drivers) => tried[r] = Drivers
  BY <1>1, FiniteAssumption, FS_Subset
<1>3. Cardinality(tried[r]) \in Nat /\ Cardinality(Drivers) \in Nat
  BY <1>2, FiniteAssumption, FS_CardinalityType
<1> QED
  BY <1>2, <1>3, BudgetAssumption DEF LoadTest

\* Members of the pool that hide others have all been tried, so they are fewer
\* than a search asks for.
LEMMA NobodyIsHidden ==
    ASSUME Wellformed, Rush, NEW r \in Rides
    PROVE  ~AllHidden(r)
<1>1. geo \subseteq Drivers /\ tried[r] \subseteq Drivers
  BY DEF Wellformed, TypeOK, RedisType, DispatchType
<1>2. geo \ Candidates(r) \subseteq tried[r]
  BY <1>1 DEF Candidates, Nearby, Rush, Calm
<1>3. /\ IsFiniteSet(tried[r])
      /\ IsFiniteSet(geo \ Candidates(r))
      /\ Cardinality(geo \ Candidates(r)) <= Cardinality(tried[r])
  BY <1>1, <1>2, FiniteAssumption, FS_Subset
<1>4. Cardinality(tried[r]) \in Nat /\ Cardinality(geo \ Candidates(r)) \in Nat
  BY <1>3, FS_CardinalityType
<1> QED
  BY <1>3, <1>4, BudgetAssumption DEF AllHidden

\* So when a loop runs out, every driver is taken.
LEMMA RunsOutLast ==
    ASSUME LoadTest, Wellformed, Rush, NEW r \in Rides, RunOut(r), NEW d \in Drivers
    PROVE  lock[d] # NoRide
<1>1. At(r, "search") /\ (~BudgetLeft(r) \/ Candidates(r) = {})
  BY NobodyIsHidden DEF RunOut
<1>2. d \in tried[r] => lock[d] # NoRide
  BY <1>1 DEF Rush, TriedIsTaken, At
<1>3. CASE Candidates(r) = {}
  BY <1>2, <1>3, FreeIsCandidate
<1>4. CASE ~BudgetLeft(r)
  <2>1. offersMade[r] < MaxCandidates
    BY <1>1, BudgetAssumption DEF Rush, RowsFollowLoops, Unoffered, At, LoadTest
  <2> QED
    BY <1>2, <1>4, <2>1, TriedAll DEF BudgetLeft
<1> QED
  BY <1>1, <1>3, <1>4

----------------------------------------------------------------------------
(* Every step keeps the invariant.                                          *)

\* The quiet part of it, which no step of a ride or a driver disturbs.
LEMMA CalmNext ==
    ASSUME LoadTest, Wellformed, Rush, UNCHANGED <<rideVars, driverVars, worldVars>>,
           \/ \E r \in Rides : RushStep(r)
           \/ \E d \in Drivers : Ping(d)
    PROVE  Calm' /\ RowsFollowLoops'
<1> USE DEF Wellformed, TypeOK, StoreType, RedisType, DispatchType, Rush, Calm, RowsFollowLoops,
            Seeking, Unoffered, Matching, At, Goto, Continue, RedisStep, StoreStep, LocalStep,
            OfferStep, NoRideStep, storeVars, redisVars, dispatchVars, loopVars, rideVars, driverVars,
            worldVars, processVars
<1>1. ASSUME NEW d \in Drivers, Ping(d)
      PROVE  Calm' /\ RowsFollowLoops'
  BY <1>1 DEF Ping, UpdatePosition
<1>2. ASSUME NEW r \in Rides, RushStep(r)
      PROVE  Calm' /\ RowsFollowLoops'
  <2>1. CASE RequestRide(r)
    BY <2>1 DEF RequestRide, InsertRide
  <2>2. CASE CacheNewRide(r)
    BY <2>2 DEF CacheNewRide, SetCache
  <2>3. CASE \E d \in Drivers : PickCandidate(r, d)
    BY <2>3 DEF PickCandidate
  <2>4. CASE RunOut(r)
    BY <2>4 DEF RunOut
  <2>5. CASE ClaimDriver(r)
    BY <2>5 DEF ClaimDriver, SetNX, SetLock
  <2>6. CASE LoseClaim(r)
    BY <2>6 DEF LoseClaim
  <2>7. CASE LeavePool(r)
    BY <2>7 DEF LeavePool, RemoveFromPool
  <2>8. CASE RecordLost(r)
    BY <2>8 DEF RecordLost, WriteOffer
  <2>9. CASE RecordOffer(r)
    BY <2>9 DEF RecordOffer, WriteOffer
  <2>10. CASE SendOffer(r)
    BY <2>10 DEF SendOffer, CandidateBound, HasCandidate, Label
  <2>11. CASE AcceptOffer(r)
    BY <2>11 DEF AcceptOffer
  <2>12. CASE ResolveAccept(r)
    BY <2>12 DEF ResolveAccept
  <2>13. CASE CloseOffer(r)
    BY <2>13 DEF CloseOffer, WriteOffer
  <2>14. CASE CommitMatch(r)
    BY <2>14 DEF CommitMatch, MatchRide, CanMatch
  <2>15. CASE HoldForRide(r)
    BY <2>15 DEF HoldForRide, HoldLock
  <2>16. CASE PointAtRide(r)
    BY <2>16 DEF PointAtRide, SetPointer
  <2>17. CASE CacheMatch(r)
    BY <2>17 DEF CacheMatch, SetCache
  <2>18. CASE TellMatched(r)
    BY <2>18 DEF TellMatched, Finish
  <2>19. CASE MarkNoDrivers(r)
    BY <2>19 DEF MarkNoDrivers, MoveRideIfStill
  <2>20. CASE TellNoDrivers(r)
    BY <2>20 DEF TellNoDrivers, Finish
  <2> QED
    BY <1>2, <2>1, <2>2, <2>3, <2>4, <2>5, <2>6, <2>7, <2>8, <2>9, <2>10, <2>11, <2>12,
       <2>13, <2>14, <2>15, <2>16, <2>17, <2>18, <2>19, <2>20 DEF RushStep
<1> QED
  BY <1>1, <1>2

\* The locks: nobody gives one back, and whoever is not locked is in the pool.
LEMMA TakenNext ==
    ASSUME LoadTest, Wellformed, Audited, Guarded, Rush,
           UNCHANGED <<rideVars, driverVars, worldVars>>,
           \/ \E r \in Rides : RushStep(r)
           \/ \E d \in Drivers : Ping(d)
    PROVE  (LocksAreUsed /\ FreeIsInPool /\ TriedIsTaken /\ GivesUpLast)'
<1> DEFINE Goal == (LocksAreUsed /\ FreeIsInPool /\ TriedIsTaken /\ GivesUpLast)'
<1> USE NoRideAssumption, NoDriverAssumption
    DEF Wellformed, TypeOK, StoreType, RedisType, DispatchType, Rush, Calm, LocksAreUsed,
        FreeIsInPool, TriedIsTaken, GivesUpLast, LiveRidesOf, Live, Claiming, Waiting, At, Goto,
        Continue, RedisStep, StoreStep, LocalStep, OfferStep, NoRideStep, storeVars, redisVars,
        dispatchVars, loopVars, rideVars, driverVars, worldVars, processVars
<1>1. ASSUME NEW d \in Drivers, Ping(d)
      PROVE  Goal
  BY <1>1 DEF Ping, UpdatePosition
<1>2. ASSUME NEW r \in Rides, RushStep(r)
      PROVE  Goal
  <2>1. CASE RequestRide(r)
    BY <2>1 DEF RequestRide, InsertRide
  <2>2. CASE CacheNewRide(r)
    BY <2>2 DEF CacheNewRide, SetCache
  <2>3. CASE \E d \in Drivers : PickCandidate(r, d)
    BY <2>3 DEF PickCandidate
  <2>4. CASE RunOut(r)
    <3>1. GivesUpLast'
      BY <2>4, RunsOutLast DEF RunOut
    <3> QED
      BY <2>4, <3>1 DEF RunOut
  <2>5. CASE ClaimDriver(r)
    BY <2>5 DEF ClaimDriver, SetNX, SetLock
  <2>6. CASE LoseClaim(r)
    BY <2>6 DEF LoseClaim
  <2>7. CASE LeavePool(r)
    BY <2>7 DEF LeavePool, RemoveFromPool, Guarded, LoopOwnsLock
  <2>8. CASE RecordLost(r)
    BY <2>8 DEF RecordLost, WriteOffer
  <2>9. CASE RecordOffer(r)
    BY <2>9 DEF RecordOffer, WriteOffer
  <2>10. CASE SendOffer(r)
    BY <2>10 DEF SendOffer
  <2>11. CASE AcceptOffer(r)
    BY <2>11 DEF AcceptOffer
  <2>12. CASE ResolveAccept(r)
    BY <2>12 DEF ResolveAccept
  <2>13. CASE CloseOffer(r)
    BY <2>13 DEF CloseOffer, WriteOffer
  <2>14. CASE CommitMatch(r)
    BY <2>14 DEF CommitMatch, MatchRide, CanMatch
  <2>15. CASE HoldForRide(r)
    <3>1. /\ UNCHANGED <<status, driverOf, lock, geo, tried, cand>>
          /\ \E p \in {"point", "cacheMatch"} : pc' = [pc EXCEPT ![r] = p]
          /\ pc[r] = "hold"
      BY <2>15 DEF HoldForRide, HoldLock
    <3> QED
      BY <3>1
  <2>16. CASE PointAtRide(r)
    BY <2>16 DEF PointAtRide, SetPointer
  <2>17. CASE CacheMatch(r)
    BY <2>17 DEF CacheMatch, SetCache
  <2>18. CASE TellMatched(r)
    BY <2>18 DEF TellMatched, Finish
  <2>19. CASE MarkNoDrivers(r)
    <3>1. /\ UNCHANGED <<driverOf, lock, geo, tried, cand>>
          /\ pc[r] = "giveUp" /\ status[r] = "requested"
          /\ pc' = [pc EXCEPT ![r] = "tellNone"]
          /\ status' = [status EXCEPT ![r] = "no_drivers"]
      BY <2>19 DEF MarkNoDrivers, MoveRideIfStill, RowsFollowLoops, Seeking, Unoffered, Matching
    <3>2. \A d \in Drivers : lock[d] # NoRide
      BY <3>1
    <3>3. LocksAreUsed'
      BY <3>1
    <3> QED
      BY <3>1, <3>2, <3>3
  <2>20. CASE TellNoDrivers(r)
    BY <2>20 DEF TellNoDrivers, Finish
  <2> QED
    BY <1>2, <2>1, <2>2, <2>3, <2>4, <2>5, <2>6, <2>7, <2>8, <2>9, <2>10, <2>11, <2>12,
       <2>13, <2>14, <2>15, <2>16, <2>17, <2>18, <2>19, <2>20 DEF RushStep
<1> QED
  BY <1>1, <1>2

\* At the start everybody is free.
LEMMA RushInit == Init => Rush
BY DEF Init, StoreInit, RedisInit, DispatchInit, RideInit, DriverInit, Rush, Calm, RowsFollowLoops,
       LocksAreUsed, FreeIsInPool, TriedIsTaken, GivesUpLast, Seeking, Unoffered, Matching

\* Every step of the load test keeps the invariant.
LEMMA RushNext ==
    ASSUME LoadTest, Wellformed, Audited, Guarded, Rush, [Next]_vars
    PROVE  Rush'
<1>1. CASE UNCHANGED vars
  BY <1>1
  DEF Rush, Calm, RowsFollowLoops, LocksAreUsed, FreeIsInPool, TriedIsTaken, GivesUpLast,
      LiveRidesOf, vars, appVars, storeVars, redisVars, dispatchVars, loopVars, rideVars, driverVars,
      worldVars, processVars
<1>2. CASE ~UNCHANGED vars
  BY <1>2, RushSteps, CalmNext, TakenNext DEF Rush
<1> QED
  BY <1>1, <1>2

\* When every loop is over, either no driver is without a ride or no request
\* without a driver: in a surplus of requests every driver is used, in a surplus
\* of drivers every request is served, however many there are of each and
\* whatever claims are lost on the way (load test, assertion 7).
THEOREM NoCapacityIsWasted ==
    ASSUME LoadTest
    PROVE  Spec => []NoWastedCapacity
<1>1. ASSUME Wellformed, Rush
      PROVE  NoWastedCapacity
  <2> SUFFICES ASSUME \A r \in Rides : pc[r] = "over",
                      NEW r \in Rides, status[r] \notin Live,
                      NEW d \in Drivers
               PROVE  LiveRidesOf(d) # {}
    BY DEF NoWastedCapacity
  <2>1. status[r] = "no_drivers"
    BY <1>1 DEF Rush, RowsFollowLoops, Live
  <2>2. lock[d] # NoRide /\ lock[d] \in Rides
    BY <1>1, <2>1 DEF Rush, GivesUpLast, Wellformed, TypeOK, RedisType
  <2> QED
    BY <1>1, <2>2 DEF Rush, LocksAreUsed, Claiming, Waiting
<1>2. LoadTest /\ Wellformed /\ Audited /\ Guarded /\ Rush /\ [Next]_vars => Rush'
  BY RushNext
<1>3. Spec => []Guarded
  BY GuardedAlways DEF LoadTest
<1> QED
  BY <1>1, <1>2, <1>3, RushInit, TrailAlways, PTL DEF Spec
=============================================================================
