------------------------------ MODULE PageProofs ------------------------------
(***************************************************************************)
(* Theorems about the server and its pages together.                       *)
(***************************************************************************)
EXTENDS PageGuarantees, OutcomeProofs

----------------------------------------------------------------------------
(* Types.                                                                   *)

\* What is sent is news.
LEMMA SendType ==
    ASSUME PagesType, NEW to, NEW what \in Push, NEW r \in Rides, NEW s \in Status,
           Send(to, what, r, s)
    PROVE  inbox' \in [Page -> Seq(News)]
<1>1. [what |-> what, ride |-> r, status |-> s] \in News
  BY DEF News
<1> QED
  BY <1>1 DEF PagesType, Send

\* So is what is left when nothing is sent ...
LEMMA QuietType ==
    ASSUME PagesType, Quiet
    PROVE  inbox' \in [Page -> Seq(News)]
<1>1. <<>> \in Seq(News)
  OBVIOUS
<1> QED
  BY <1>1 DEF PagesType, Quiet

\* ... and what the loop sends ...
LEMMA LoopNewsType ==
    ASSUME PagesType, NEW r \in Rides, LoopNews(r)
    PROVE  inbox' \in [Page -> Seq(News)]
BY SendType, QuietType DEF LoopNews, Push, Status

\* ... and the handlers.
LEMMA HandlerNewsType ==
    ASSUME Wellformed, PagesType, NEW r \in Rides, HandlerNews(r)
    PROVE  inbox' \in [Page -> Seq(News)]
<1>1. "status" \in Push /\ "in_progress" \in Status /\ status[r] \in Status
  BY DEF Push, Status, Wellformed, TypeOK, StoreType
<1>2. CASE starting' # starting
  BY <1>1, <1>2, SendType DEF HandlerNews, SendStatus
<1>3. CASE starting' = starting /\ closing' # closing /\ closing'[r] = "none"
  BY <1>1, <1>3, SendType DEF HandlerNews, SendStatus
<1>4. CASE starting' = starting /\ ~(closing' # closing /\ closing'[r] = "none")
  BY <1>4, QuietType DEF HandlerNews
<1> QED
  BY <1>2, <1>3, <1>4

\* A message of an inbox is news, and so is the rest.
LEMMA HeadType ==
    ASSUME PagesType, NEW p \in Page, inbox[p] # <<>>
    PROVE  /\ Head(inbox[p]) \in News
           /\ [inbox EXCEPT ![p] = Tail(@)] \in [Page -> Seq(News)]
BY DEF PagesType

\* A page that shows a ride shows one of the rides.
LEMMA ShownIsRide ==
    ASSUME PagesType, NEW p \in Page, view[p] # Blank
    PROVE  view[p].ride \in Rides /\ view[p].status \in Status
BY DEF PagesType, Snapshot, Blank

\* What is shown is a snapshot, or nothing.
LEMMA ShowType ==
    ASSUME PagesType, NEW p, NEW v \in Snapshot \cup {Blank}, view' = [view EXCEPT ![p] = v]
    PROVE  view' \in [Page -> Snapshot \cup {Blank}]
BY DEF PagesType

\* A ride and a status make a snapshot.
LEMMA SnapshotType ==
    ASSUME NEW r \in Rides, NEW s \in Status
    PROVE  [ride |-> r, status |-> s] \in Snapshot \cup {Blank}
BY DEF Snapshot

\* What a reload restores is a snapshot, or nothing.
LEMMA RestoreType ==
    ASSUME Wellformed, PagesType, NEW p, NEW rides \in SUBSET Rides, Restore(p, rides)
    PROVE  view' \in [Page -> Snapshot \cup {Blank}]
<1>1. CASE view' = [view EXCEPT ![p] = Blank]
  BY <1>1, ShowType
<1>2. CASE \E r \in rides : Show(p, r, status[r])
  <2>1. PICK r \in Rides, s \in Status : s = status[r] /\ Show(p, r, s)
    BY <1>2 DEF Wellformed, TypeOK, StoreType
  <2> QED
    BY <2>1, ShowType, SnapshotType DEF Show
<1> QED
  BY <1>1, <1>2 DEF Restore

\* Every step of the server or of a page keeps the types of the pages.
LEMMA PagesTypeNext ==
    ASSUME Wellformed, PagesType, PagesNext
    PROVE  PagesType'
<1>0. early' \in SUBSET Rides
  BY DEF PagesNext, ReloadDriver, PagesType, LiveRidesOf
<1> USE <1>0 DEF screenVars, Ask, Show, SetForm, ClearRide, Form, Call, Page
<1>1. ASSUME NEW r \in Rides, LoopOnline(r)
      PROVE  PagesType'
  BY <1>1, LoopNewsType DEF LoopOnline, PagesType
<1>2. ASSUME NEW r \in Rides, HandlerOnline(r)
      PROVE  PagesType'
  BY <1>2, HandlerNewsType DEF HandlerOnline, PagesType
<1>3. ASSUME NEW r \in Rides, Fade(r)
      PROVE  PagesType'
  BY <1>3 DEF Fade, PagesType
<1>4. CASE Unheard
  BY <1>4, QuietType DEF Unheard, Drop, PagesType
<1>5. ASSUME NEW u \in Riders, PickPoints(u)
      PROVE  PagesType'
  BY <1>5 DEF PickPoints, PagesType
<1>6. ASSUME NEW u \in Riders, ClickCancel(u)
      PROVE  PagesType'
  BY <1>6, QuietType, ShownIsRide DEF ClickCancel, PagesType
<1>7. ASSUME NEW u \in Riders, RiderHears(u)
      PROVE  PagesType'
  <2> DEFINE m == Head(inbox[u])
  <2>1. m \in News /\ inbox' \in [Page -> Seq(News)]
    BY <1>7, HeadType DEF RiderHears
  <2>2. m.ride \in Rides /\ m.status \in Status
    BY <2>1 DEF News
  <2>3. HearStatus(u, m) \/ HearMatched(u, m) \/ HearNoDrivers(u, m)
    BY <1>7 DEF RiderHears
  <2>4. UNCHANGED <<calls, offer>>
    BY <1>7 DEF RiderHears
  <2> HIDE DEF m
  <2>5. view' \in [Page -> Snapshot \cup {Blank}]
    BY <2>2, <2>3, ShowType, SnapshotType DEF HearStatus, HearMatched, HearNoDrivers
  <2>6. form' \in [Riders -> Form] /\ fading' \subseteq Rides
    BY <2>2, <2>3 DEF HearStatus, HearMatched, HearNoDrivers, PagesType
  <2> QED
    BY <2>1, <2>4, <2>5, <2>6 DEF PagesType
<1>8. ASSUME NEW u \in Riders, LoseNews(u)
      PROVE  PagesType'
  BY <1>8 DEF LoseNews, PagesType
<1>9. ASSUME NEW u \in Riders, NEW r \in Rides, ClickRequest(u, r)
      PROVE  PagesType'
  BY <1>9, QuietType DEF ClickRequest, PagesType
<1>10. ASSUME NEW d \in Drivers, ClickAnswer(d)
       PROVE  PagesType'
  <2>1. inbox' \in [Page -> Seq(News)]
    <3>1. offer[d] \in Rides
      BY <1>10 DEF ClickAnswer, PagesType
    <3> QED
      BY <1>10, <3>1, SendType, QuietType
      DEF ClickAnswer, AcceptShown, RejectShown, Push, Status, PagesType
  <2> QED
    BY <1>10, <2>1 DEF ClickAnswer, HideOffer, PagesType
<1>11. ASSUME NEW d \in Drivers, ClickJob(d)
       PROVE  PagesType'
  BY <1>11, QuietType, ShownIsRide DEF ClickJob, PagesType
<1>12. ASSUME NEW d \in Drivers, DriverHears(d)
       PROVE  PagesType'
  <2> DEFINE m == Head(inbox[d])
  <2>1. m \in News /\ inbox' \in [Page -> Seq(News)]
    BY <1>12, HeadType DEF DriverHears
  <2>2. m.ride \in Rides /\ m.status \in Status
    BY <2>1 DEF News
  <2>3. HearOffer(d, m) \/ HearExpired(d, m) \/ HearAssigned(d, m) \/ HearJobStatus(d, m)
    BY <1>12 DEF DriverHears
  <2>4. UNCHANGED <<calls, form, fading>>
    BY <1>12 DEF DriverHears
  <2> HIDE DEF m
  <2>5. view' \in [Page -> Snapshot \cup {Blank}]
    BY <2>2, <2>3, ShowType, SnapshotType
    DEF HearOffer, HearExpired, HearAssigned, HearJobStatus, ClearJob, PagesType
  <2>6. offer' \in [Drivers -> Rides \cup {NoRide}]
    BY <2>2, <2>3
    DEF HearOffer, HearExpired, HearAssigned, HearJobStatus, HideOffer, PagesType
  <2> QED
    BY <2>1, <2>4, <2>5, <2>6 DEF PagesType
<1>13. ASSUME NEW c \in calls, RiderReads(c)
       PROVE  PagesType'
  <2>1. c.ride \in Rides
    BY <1>13 DEF PagesType
  <2>2. view' \in [Page -> Snapshot \cup {Blank}]
    BY <1>13, <2>1, ShowType, SnapshotType DEF RiderReads, Status
  <2>3. form' \in [Riders -> Form]
    BY <1>13 DEF RiderReads, PagesType
  <2> QED
    BY <1>13, <2>2, <2>3 DEF RiderReads, PagesType
<1>14. ASSUME NEW c \in calls, DriverReads(c)
       PROVE  PagesType'
  <2>1. c.ride \in Rides
    BY <1>14 DEF PagesType
  <2>2. view' \in [Page -> Snapshot \cup {Blank}]
    BY <1>14, <2>1, ShowType, SnapshotType DEF DriverReads, ClearJob, Status
  <2> QED
    BY <1>14, <2>2 DEF DriverReads, PagesType
<1>15. ASSUME NEW c \in calls, LoseReply(c)
       PROVE  PagesType'
  BY <1>15 DEF LoseReply, Drop, PagesType
<1>16. ASSUME NEW u \in Riders, ReloadRider(u)
       PROVE  PagesType'
  <2>1. view' \in [Page -> Snapshot \cup {Blank}]
    BY <1>16, RestoreType DEF ReloadRider, OpenRidesOf
  <2>2. inbox' \in [Page -> Seq(News)] /\ calls' \in SUBSET Call
    <3>1. <<>> \in Seq(News)
      OBVIOUS
    <3> QED
      BY <1>16, <3>1 DEF ReloadRider, Forget, PagesType
  <2>3. form' \in [Riders -> Form]
    BY <1>16 DEF ReloadRider, SetForm, Form, PagesType
  <2> QED
    BY <1>16, <2>1, <2>2, <2>3 DEF ReloadRider, PagesType
<1>17. ASSUME NEW d \in Drivers, ReloadDriver(d)
       PROVE  PagesType'
  <2>1. view' \in [Page -> Snapshot \cup {Blank}]
    BY <1>17, RestoreType DEF ReloadDriver, LiveRidesOf
  <2>2. inbox' \in [Page -> Seq(News)] /\ calls' \in SUBSET Call
    <3>1. <<>> \in Seq(News)
      OBVIOUS
    <3> QED
      BY <1>17, <3>1 DEF ReloadDriver, Forget, PagesType
  <2>3. offer' \in [Drivers -> Rides \cup {NoRide}]
    BY <1>17 DEF ReloadDriver, HideOffer, PagesType
  <2>4. early' \in SUBSET Rides
    BY <1>17 DEF ReloadDriver, LiveRidesOf, PagesType
  <2> QED
    BY <1>17, <2>1, <2>2, <2>3, <2>4 DEF ReloadDriver, PagesType
<1> QED
  BY <1>1, <1>2, <1>3, <1>4, <1>5, <1>6, <1>7, <1>8, <1>9, <1>10, <1>11, <1>12, <1>13, <1>14,
     <1>15, <1>16, <1>17 DEF PagesNext, PageStep

----------------------------------------------------------------------------
(* The pages use the server as its specification lets anybody use it.       *)

\* A step of a page is a step of the server or leaves it alone.
LEMMA PagesStep ==
    ASSUME PagesType, PagesNext
    PROVE  [Next]_vars
<1>1. ASSUME NEW r \in Rides, LoopOnline(r) \/ HandlerOnline(r) \/ Fade(r)
      PROVE  [Next]_vars
  BY <1>1 DEF LoopOnline, HandlerOnline, Fade, Next, RideNext
<1>2. CASE Unheard
  BY <1>2 DEF Unheard, Next, RideNext
<1>3. ASSUME NEW u \in Riders, PickPoints(u) \/ RiderHears(u) \/ LoseNews(u) \/ ReloadRider(u)
      PROVE  [Next]_vars
  BY <1>3 DEF PickPoints, RiderHears, LoseNews, ReloadRider, Forget
<1>4. ASSUME NEW u \in Riders, ClickCancel(u)
      PROVE  [Next]_vars
  BY <1>4, ShownIsRide DEF ClickCancel, Next, RideNext, RiderAction, Page
<1>5. ASSUME NEW u \in Riders, NEW r \in Rides, ClickRequest(u, r)
      PROVE  [Next]_vars
  BY <1>5 DEF ClickRequest, Next, RideNext, RiderAction
<1>6. ASSUME NEW d \in Drivers, ClickAnswer(d)
      PROVE  [Next]_vars
  <2>1. offer[d] \in Rides
    BY <1>6 DEF ClickAnswer, PagesType
  <2> QED
    BY <1>6, <2>1 DEF ClickAnswer, AcceptShown, RejectShown, Next, RideNext, DriverRideAction
<1>7. ASSUME NEW d \in Drivers, ClickJob(d)
      PROVE  [Next]_vars
  BY <1>7, ShownIsRide DEF ClickJob, Next, RideNext, DriverRideAction, Page
<1>8. ASSUME NEW d \in Drivers, DriverHears(d) \/ ReloadDriver(d)
      PROVE  [Next]_vars
  BY <1>8 DEF DriverHears, ReloadDriver, Forget
<1>9. ASSUME NEW c \in calls, RiderReads(c) \/ DriverReads(c) \/ LoseReply(c)
      PROVE  [Next]_vars
  BY <1>9 DEF RiderReads, DriverReads, LoseReply
<1> QED
  BY <1>1, <1>2, <1>3, <1>4, <1>5, <1>6, <1>7, <1>8, <1>9 DEF PagesNext, PageStep

\* The same with stuttering, and the pages at the start.
LEMMA PagesBase ==
    /\ PagesInit => PagesType
    /\ PagesType /\ [PagesNext]_<<vars, pageVars>> => [Next]_vars
    /\ Wellformed /\ PagesType /\ [PagesNext]_<<vars, pageVars>> => PagesType'
<1>1. PagesInit => PagesType
  BY DEF PagesInit, PagesType, Form, Blank, Page
<1>2. PagesType /\ [PagesNext]_<<vars, pageVars>> => [Next]_vars
  BY PagesStep
<1>3. ASSUME PagesType, UNCHANGED <<vars, pageVars>>
      PROVE  PagesType'
  BY <1>3 DEF pageVars, screenVars, PagesType
<1> QED
  BY <1>1, <1>2, <1>3, PagesTypeNext

\* The server behind the pages behaves as Tracking says, so what is proved of
\* Tracking holds with the pages in front, whatever they show and click.
THEOREM PagesUseServer == PagesSpec => Spec
<1>1. Wellformed /\ [Next]_vars => Wellformed'
  BY WellformedNext
<1> QED
  BY <1>1, WellformedInit, PagesBase, PTL DEF PagesSpec, Spec

\* Type correctness of the pages.
THEOREM PagesTypeCorrect == PagesSpec => []PagesType
<1>1. Wellformed /\ [Next]_vars => Wellformed'
  BY WellformedNext
<1> QED
  BY <1>1, WellformedInit, PagesBase, PTL DEF PagesSpec

----------------------------------------------------------------------------
(* What the server does on its own.                                         *)

\* Every step of Next that nobody at a page asked for.
Unasked ==
    \/ \E r \in Rides :
        \/ Loop(r) \/ Handler(r)
        \/ (Timeout(r) \/ Fault(r)) /\ UNCHANGED <<rideVars, driverVars, processVars>>
    \/ \E d \in Drivers : DriverNext(d)
    \/ Crash \/ Boot \/ Flush

Trip == {"in_progress", "completed"}

\* From the commit to the announcement the candidate is the booked driver.
Announced == \A r \in Rides :
    pc[r] \in {"hold", "point", "cacheMatch", "tell"} => driverOf[r] = cand[r] /\ cand[r] \in Drivers

\* A loop that is over stays over.
OverStays == \A r \in Rides : pc[r] = "over" => pc'[r] = "over"

\* No trip is started and no ride closed.
NoTrip ==
    /\ \A r \in Rides : status'[r] \in Trip => status[r] \in Trip
    /\ \A r \in Rides : closing'[r] # "none" => closing[r] # "none"
    /\ starting' \subseteq starting

\* On its own the server starts no trip and closes no ride.
LEMMA UnaskedSteps ==
    ASSUME Wellformed, Audited, Announced, Unasked
    PROVE  Announced' /\ OverStays /\ NoTrip
<1> USE NoDriverAssumption
    DEF Announced, OverStays, NoTrip, Trip, Wellformed, TypeOK, StoreType, DispatchType, RideType,
        CandidateBound, HasCandidate, Label, storeVars, redisVars, dispatchVars, rideVars,
        driverVars,
        worldVars, processVars, loopVars, RedisStep, StoreStep, LocalStep, OfferStep, CloseStep,
        NoRideStep, At, Goto, Continue, CloseGoto
<1>1. ASSUME NEW r \in Rides, Loop(r)
      PROVE  Announced' /\ OverStays /\ NoTrip
  <2> USE <1>1 DEF Loop
  <2>1. CASE \E d \in Drivers : PickCandidate(r, d)
    BY <2>1 DEF PickCandidate, Candidates, Nearby
  <2>2. CASE RunOut(r)
    BY <2>2 DEF RunOut
  <2>3. CASE ClaimDriver(r)
    BY <2>3 DEF ClaimDriver, SetNX, SetLock
  <2>4. CASE LoseClaim(r)
    BY <2>4 DEF LoseClaim
  <2>5. CASE ClaimUnsafely(r)
    BY <2>5 DEF ClaimUnsafely, SetLock
  <2>6. CASE LeavePool(r)
    BY <2>6 DEF LeavePool, RemoveFromPool
  <2>7. CASE RecordLost(r)
    BY <2>7 DEF RecordLost, WriteOffer
  <2>8. CASE LetGoAbsent(r)
    BY <2>8 DEF LetGoAbsent, Unlock
  <2>9. CASE RepoolAbsent(r)
    BY <2>9 DEF RepoolAbsent, UpdatePosition
  <2>10. CASE RecordAbsent(r)
    BY <2>10 DEF RecordAbsent, WriteOffer
  <2>11. CASE RecordOffer(r)
    BY <2>11 DEF RecordOffer, WriteOffer
  <2>12. CASE SendOffer(r)
    BY <2>12 DEF SendOffer
  <2>13. CASE ResolveAccept(r)
    BY <2>13 DEF ResolveAccept
  <2>14. CASE CloseOffer(r)
    BY <2>14 DEF CloseOffer, WriteOffer
  <2>15. CASE RefuseUnlock(r)
    BY <2>15 DEF RefuseUnlock, Unlock
  <2>16. CASE RefusePool(r)
    BY <2>16 DEF RefusePool, UpdatePosition
  <2>17. CASE CommitMatch(r)
    BY <2>17 DEF CommitMatch, MatchRide, CanMatch
  <2>18. CASE RefuseMatch(r)
    BY <2>18 DEF RefuseMatch
  <2>19. CASE HoldForRide(r)
    BY <2>19 DEF HoldForRide, HoldLock, CanHold
  <2>20. CASE PointAtRide(r)
    BY <2>20 DEF PointAtRide, SetPointer
  <2>21. CASE CacheMatch(r)
    BY <2>21 DEF CacheMatch, SetCache
  <2>22. CASE TellMatched(r)
    BY <2>22 DEF TellMatched, TellRider, Finish
  <2>23. CASE UndoUnlock(r)
    BY <2>23 DEF UndoUnlock, Unlock
  <2>24. CASE UndoPointer(r)
    BY <2>24 DEF UndoPointer, DelPointer, SetPointer
  <2>25. CASE MarkNoDrivers(r)
    BY <2>25 DEF MarkNoDrivers, MoveRideIfStill
  <2>26. CASE TellNoDrivers(r)
    BY <2>26 DEF TellNoDrivers, TellRider, Finish
  <2> QED
    BY <2>1, <2>2, <2>3, <2>4, <2>5, <2>6, <2>7, <2>8, <2>9, <2>10, <2>11, <2>12, <2>13,
       <2>14, <2>15, <2>16, <2>17, <2>18, <2>19, <2>20, <2>21, <2>22, <2>23, <2>24,
       <2>25, <2>26 DEF LoopStep
<1>2. ASSUME NEW r \in Rides, Handler(r)
      PROVE  Announced' /\ OverStays /\ NoTrip
  <2> USE <1>2 DEF Handler
  <2>1. CASE CacheNewRide(r)
    BY <2>1 DEF CacheNewRide, SetCache
  <2>2. CASE CacheStarted(r)
    BY <2>2 DEF CacheStarted, SetCache, TellRider
  <2>3. CASE CloseUnlock(r)
    BY <2>3 DEF CloseUnlock, Unlock
  <2>4. CASE ClosePointer(r)
    BY <2>4 DEF ClosePointer, DelPointer, SetPointer
  <2>5. CASE CloseDropFirst(r)
    BY <2>5 DEF CloseDropFirst, DropCache, SetCache
  <2>6. CASE ClosePool(r)
    BY <2>6 DEF ClosePool, RepoolAtLastPosition, UpdatePosition, Broadcast, TellRider
  <2>7. CASE CloseDrop(r)
    BY <2>7 DEF CloseDrop, DropCache, SetCache, Broadcast, TellRider
  <2> QED
    BY <2>1, <2>2, <2>3, <2>4, <2>5, <2>6, <2>7 DEF HandlerStep
<1>3. ASSUME NEW r \in Rides, Timeout(r) \/ Fault(r),
             UNCHANGED <<rideVars, driverVars, processVars>>
      PROVE  Announced' /\ OverStays /\ NoTrip
  <2> USE <1>3
  <2>1. CASE Timeout(r)
    BY <2>1 DEF Timeout, OfferTimeout, Waiting
  <2>2. CASE FailStore(r)
    BY <2>2 DEF FailStore
  <2>3. CASE LoseCommitReply(r)
    BY <2>3 DEF LoseCommitReply, MatchRide, CanMatch, Audited, BookedHasLeftLoop
  <2> QED
    BY <2>1, <2>2, <2>3 DEF Fault
<1>4. ASSUME NEW d \in Drivers, Toggling(d)
      PROVE  Announced' /\ OverStays /\ NoTrip
  <2> USE <1>4 DEF Toggling
  <2>1. CASE OfflineUpdate(d)
    BY <2>1 DEF OfflineUpdate
  <2>2. CASE OfflineLeave(d)
    BY <2>2 DEF OfflineLeave, RemoveFromPool
  <2>3. CASE OfflineReply(d)
    BY <2>3 DEF OfflineReply
  <2>4. CASE OnlinePool(d)
    BY <2>4 DEF OnlinePool, UpdatePosition
  <2> QED
    BY <2>1, <2>2, <2>3, <2>4 DEF ToggleStep
<1>5. ASSUME NEW d \in Drivers, up, DriverAction(d), UNCHANGED worldVars
      PROVE  Announced' /\ OverStays /\ NoTrip
  <2> USE <1>5
  <2>1. CASE Ping(d)
    BY <2>1 DEF Ping, UpdatePosition
  <2>2. CASE Connect(d)
    BY <2>2 DEF Connect
  <2>3. CASE Disconnect(d)
    BY <2>3 DEF Disconnect
  <2>4. CASE GrowStale(d)
    BY <2>4 DEF GrowStale, AgePosition
  <2>5. CASE GoOffline(d)
    BY <2>5 DEF GoOffline
  <2>6. CASE GoOnline(d)
    BY <2>6 DEF GoOnline
  <2> QED
    BY <2>1, <2>2, <2>3, <2>4, <2>5, <2>6 DEF DriverAction
<1>6. ASSUME NEW d \in Drivers, Expire(d), UNCHANGED processVars
      PROVE  Announced' /\ OverStays /\ NoTrip
  BY <1>6 DEF Expire, LapseLock
<1>7. CASE Crash
  BY <1>7 DEF Crash
<1>8. CASE Boot
  BY <1>8 DEF Boot, Reconcile
<1>9. CASE Flush
  BY <1>9 DEF Flush, FlushRedis
<1> QED
  BY <1>1, <1>2, <1>3, <1>4, <1>5, <1>6, <1>7, <1>8, <1>9
  DEF Unasked, DriverNext

\* The steps people ask for.
LEMMA AskedSteps ==
    ASSUME Wellformed, Audited, Announced, NEW r \in Rides,
           \/ RequestRide(r) \/ CancelRide(r) \/ StartRide(r) \/ CompleteRide(r)
           \/ AcceptOffer(r) /\ UNCHANGED rideVars
           \/ RejectOffer(r) /\ UNCHANGED rideVars
    PROVE  Announced' /\ OverStays
BY NoDriverAssumption
DEF RequestRide, CancelRide, StartRide, CompleteRide, AcceptOffer, RejectOffer, InsertRide, MoveRide,
    Announced, OverStays, Wellformed, TypeOK, DispatchType, Label, StoreStep, OfferStep, At, Goto,
    Waiting, dispatchVars, rideVars, storeVars

\* TellMatched ends the loop.
LEMMA TellEnds ==
    ASSUME Wellformed, NEW r \in Rides, Loop(r), At(r, "tell")
    PROVE  pc'[r] = "over"
<1> USE DEF Wellformed, TypeOK, DispatchType, At, Waiting, Loop
<1>1. CASE \E d \in Drivers : PickCandidate(r, d)
  BY <1>1 DEF PickCandidate
<1>2. CASE RunOut(r)
  BY <1>2 DEF RunOut
<1>3. CASE ClaimDriver(r)
  BY <1>3 DEF ClaimDriver
<1>4. CASE LoseClaim(r)
  BY <1>4 DEF LoseClaim
<1>5. CASE ClaimUnsafely(r)
  BY <1>5 DEF ClaimUnsafely
<1>6. CASE LeavePool(r)
  BY <1>6 DEF LeavePool
<1>7. CASE RecordLost(r)
  BY <1>7 DEF RecordLost
<1>8. CASE LetGoAbsent(r)
  BY <1>8 DEF LetGoAbsent
<1>9. CASE RepoolAbsent(r)
  BY <1>9 DEF RepoolAbsent
<1>10. CASE RecordAbsent(r)
  BY <1>10 DEF RecordAbsent
<1>11. CASE RecordOffer(r)
  BY <1>11 DEF RecordOffer
<1>12. CASE SendOffer(r)
  BY <1>12 DEF SendOffer
<1>13. CASE ResolveAccept(r)
  BY <1>13 DEF ResolveAccept
<1>14. CASE CloseOffer(r)
  BY <1>14 DEF CloseOffer
<1>15. CASE RefuseUnlock(r)
  BY <1>15 DEF RefuseUnlock
<1>16. CASE RefusePool(r)
  BY <1>16 DEF RefusePool
<1>17. CASE CommitMatch(r)
  BY <1>17 DEF CommitMatch
<1>18. CASE RefuseMatch(r)
  BY <1>18 DEF RefuseMatch
<1>19. CASE HoldForRide(r)
  BY <1>19 DEF HoldForRide
<1>20. CASE PointAtRide(r)
  BY <1>20 DEF PointAtRide
<1>21. CASE CacheMatch(r)
  BY <1>21 DEF CacheMatch
<1>22. CASE TellMatched(r)
  BY <1>22 DEF TellMatched, Finish
<1>23. CASE UndoUnlock(r)
  BY <1>23 DEF UndoUnlock
<1>24. CASE UndoPointer(r)
  BY <1>24 DEF UndoPointer
<1>25. CASE MarkNoDrivers(r)
  BY <1>25 DEF MarkNoDrivers
<1>26. CASE TellNoDrivers(r)
  BY <1>26 DEF TellNoDrivers
<1> QED
  BY <1>1, <1>2, <1>3, <1>4, <1>5, <1>6, <1>7, <1>8, <1>9, <1>10, <1>11, <1>12, <1>13,
     <1>14, <1>15, <1>16, <1>17, <1>18, <1>19, <1>20, <1>21, <1>22, <1>23, <1>24, <1>25,
     <1>26 DEF LoopStep

\* Only CacheStarted ends a start, and only the last step of a handler that has
\* closed a ride ends the closing.
LEMMA HandlerEnds ==
    ASSUME Wellformed, NEW r \in Rides, Handler(r)
    PROVE  /\ starting' # starting => r \in starting /\ closing' = closing
           /\ closing' # closing => closing[r] # "none"
           /\ UNCHANGED <<status, driverOf>>
BY DEF Wellformed, TypeOK, RideType, Handler, HandlerStep, CacheNewRide, CacheStarted, CloseUnlock,
       ClosePointer, CloseDropFirst, ClosePool, CloseDrop, CloseStep, Broadcast, CloseGoto, RedisStep,
       storeVars, rideVars

----------------------------------------------------------------------------
(* What has happened stays so.                                              *)

\* A page p may say s of ride r: it is so, or has been; the ride is his; and
\* to a driver the loop of the ride has nothing more to say, unless he learnt
\* of his job by a reload.
Told(p, r, s) ==
    /\ s \in {"requested", "matched"} \cup Trip \cup {"cancelled"}
    /\ Happened(r, s)
    /\ p \in Riders => RiderOf[r] = p
    /\ p \in Drivers => driverOf[r] = p /\ (s \in Closed \/ pc[r] = "over" \/ r \in early)

\* The tables never go back.
LEMMA StoreMono ==
    ASSUME Wellformed, Audited, [Next]_vars, NEW r \in Rides
    PROVE  /\ status[r] # "absent" => status'[r] # "absent"
           /\ driverOf[r] # NoDriver => driverOf'[r] = driverOf[r]
           /\ status[r] \in Trip => status'[r] \in Trip
           /\ status[r] \in Closed => status'[r] = status[r]
<1> USE NoDriverAssumption DEF Wellformed, TypeOK, StoreType, Audited, UnbookedUntilMatched, Trip, Closed
<1>1. CASE UNCHANGED storeVars
  BY <1>1 DEF storeVars
<1>2. ASSUME NEW s \in Rides, StoreStepOf(s)
      PROVE  /\ status[r] # "absent" => status'[r] # "absent"
             /\ driverOf[r] # NoDriver => driverOf'[r] = driverOf[r]
             /\ status[r] \in Trip => status'[r] \in Trip
             /\ status[r] \in Closed => status'[r] = status[r]
  <2> USE <1>2
  <2>1. CASE At(s, "commit") /\ MatchRide(s, cand[s])
    BY <2>1 DEF MatchRide, CanMatch
  <2>2. CASE MoveRide(s, {"matched"}, "in_progress")
    BY <2>2 DEF MoveRide
  <2>3. CASE MoveRide(s, {"in_progress"}, "completed")
    BY <2>3 DEF MoveRide
  <2>4. CASE MoveRide(s, {"requested", "matched"}, "cancelled")
    BY <2>4 DEF MoveRide
  <2>5. CASE MoveRideIfStill(s, {"requested"}, "no_drivers")
    BY <2>5 DEF MoveRideIfStill
  <2>6. CASE At(s, "off") /\ InsertRide(s)
    BY <2>6 DEF InsertRide
  <2>7. CASE UNCHANGED <<status, driverOf>>
    BY <2>7
  <2> QED
    BY <2>1, <2>2, <2>3, <2>4, <2>5, <2>6, <2>7 DEF StoreStepOf, WriteOffer
<1> QED
  BY <1>1, <1>2, StoreSteps

\* So a page may go on saying it.
LEMMA ToldStays ==
    ASSUME Wellformed, Audited, [Next]_vars, OverStays, early \subseteq early',
           NEW p, NEW r \in Rides, NEW s,
           Told(p, r, s)
    PROVE  Told(p, r, s)'
<1>1. Happened(r, s)'
  <2>1. CASE s = "requested"
    BY <2>1, StoreMono DEF Told, Happened
  <2>2. CASE s = "matched"
    BY <2>2, StoreMono DEF Told, Happened
  <2>3. CASE s = "in_progress"
    BY <2>3, StoreMono DEF Told, Happened, Trip
  <2>4. CASE s \in {"completed", "cancelled"}
    BY <2>4, StoreMono DEF Told, Happened, Closed
  <2> QED
    BY <2>1, <2>2, <2>3, <2>4 DEF Told, Trip
<1>2. p \in Drivers => driverOf'[r] = p
  BY StoreMono, NoDriverAssumption DEF Told
<1>3. (pc[r] = "over" => pc'[r] = "over") /\ (r \in early => r \in early')
  BY DEF OverStays
<1> QED
  BY <1>1, <1>2, <1>3 DEF Told

----------------------------------------------------------------------------
(* What is under way and on the screens.                                    *)

NewsTold(p, m) ==
    /\ m.what \in {"matched", "status"} => Told(p, m.ride, m.status)
    /\ m.what = "matched" => m.status = "matched"

InboxTold == \A p \in Page : \A i \in 1..Len(inbox[p]) : NewsTold(p, inbox[p][i])

ViewTold == \A p \in Page : view[p] # Blank =>
    /\ Told(p, view[p].ride, view[p].status)
    /\ p \in Drivers => view[p].status \notin Closed

CallsTold == \A c \in calls :
    /\ c.do = "request" => c.by \in Riders /\ Told(c.by, c.ride, "requested")
    /\ c.do = "start" => c.by \in Drivers /\ Told(c.by, c.ride, "in_progress")

StartsTold == \A r \in starting : status[r] \in Trip

\* The server's own part of the invariant, and all of it: a trip needs a click,
\* the click a job on the screen, the job a message or a reply, and those say
\* only what has happened.
TripsTold == TripAfterTell /\ StartsTold /\ ClosingIsOver /\ Announced

Honest == TripsTold /\ InboxTold /\ ViewTold /\ CallsTold

\* A step that makes nothing said before untrue.
ToldKeeps == \A p \in Page, r \in Rides, s \in Status : Told(p, r, s) => Told(p, r, s)'

\* An inbox of old messages and true ones is told.
LEMMA InboxKeeps ==
    ASSUME PagesType, InboxTold, ToldKeeps,
           \A p \in Page : \A i \in 1..Len(inbox'[p]) :
               \/ \E j \in 1..Len(inbox[p]) : inbox'[p][i] = inbox[p][j]
               \/ \E m \in News : inbox'[p][i] = m /\ NewsTold(p, m)'
    PROVE  InboxTold'
<1> SUFFICES ASSUME NEW p \in Page, NEW i \in 1..Len(inbox'[p])
             PROVE  NewsTold(p, inbox[p][i])'
  BY DEF InboxTold
<1>1. CASE \E j \in 1..Len(inbox[p]) : inbox'[p][i] = inbox[p][j]
  <2>1. PICK j \in 1..Len(inbox[p]) : inbox'[p][i] = inbox[p][j]
    BY <1>1
  <2>2. inbox[p][j] \in News /\ NewsTold(p, inbox[p][j])
    BY DEF PagesType, InboxTold
  <2>3. inbox[p][j].ride \in Rides /\ inbox[p][j].status \in Status
    BY <2>2 DEF News
  <2>4. PICK m : m = inbox[p][j]
    OBVIOUS
  <2>5. NewsTold(p, m)'
    BY <2>2, <2>3, <2>4 DEF NewsTold, ToldKeeps
  <2> QED
    BY <2>1, <2>4, <2>5 DEF NewsTold
<1>2. CASE \E m \in News : inbox'[p][i] = m /\ NewsTold(p, m)'
  BY <1>2 DEF NewsTold
<1> QED
  BY <1>1, <1>2

\* What stands at i in p's inbox after the step was there before it.
Older(p, i) == \E j \in 1..Len(inbox[p]) : inbox'[p][i] = inbox[p][j]

\* What is sent is added to what was under way.
LEMMA SendAdds ==
    ASSUME PagesType, NEW to, NEW what \in Push, NEW r \in Rides, NEW s \in Status,
           Send(to, what, r, s), NEW p \in Page, NEW i \in 1..Len(inbox'[p])
    PROVE  \/ Older(p, i)
           \/ p \in to /\ inbox'[p][i] = [what |-> what, ride |-> r, status |-> s]
<1>1. PICK m \in News : m = [what |-> what, ride |-> r, status |-> s]
  BY DEF News
<1>2. \/ inbox'[p] = <<>>
      \/ p \in to /\ inbox'[p] = Append(inbox[p], m)
      \/ inbox'[p] = inbox[p]
  BY <1>1 DEF Send
<1>3. inbox[p] \in Seq(News)
  BY DEF PagesType
<1>4. CASE inbox'[p] = <<>>
  BY <1>4
<1>5. CASE p \in to /\ inbox'[p] = Append(inbox[p], m)
  <2>1. CASE i \in 1..Len(inbox[p])
    <3>1. inbox'[p][i] = inbox[p][i]
      BY <1>3, <1>5, <2>1
    <3> QED
      BY <2>1, <3>1 DEF Older
  <2>2. CASE i = Len(inbox[p]) + 1
    BY <1>1, <1>3, <1>5, <2>2
  <2> QED
    BY <1>3, <1>5, <2>1, <2>2
<1>6. CASE inbox'[p] = inbox[p]
  BY <1>6 DEF Older
<1> QED
  BY <1>2, <1>4, <1>5, <1>6

\* Silence, and the reading or the loss of messages ...
NothingSent ==
    \/ Quiet
    \/ UNCHANGED inbox
    \/ \E p \in Page : inbox[p] # <<>> /\ inbox' = [inbox EXCEPT ![p] = Tail(@)]
    \/ \E p \in Page : inbox' = [inbox EXCEPT ![p] = <<>>]

\* ... add nothing.
LEMMA QuietAdds ==
    ASSUME PagesType, NothingSent, NEW p \in Page, NEW i \in 1..Len(inbox'[p])
    PROVE  Older(p, i)
<1>1. \/ inbox'[p] = <<>>
      \/ inbox'[p] = inbox[p]
      \/ inbox[p] # <<>> /\ inbox'[p] = Tail(inbox[p])
  BY DEF PagesType, NothingSent, Quiet
<1>2. inbox[p] \in Seq(News)
  BY DEF PagesType
<1>3. CASE inbox[p] # <<>> /\ inbox'[p] = Tail(inbox[p])
  <2>1. i + 1 \in 1..Len(inbox[p]) /\ inbox'[p][i] = inbox[p][i + 1]
    BY <1>2, <1>3
  <2> QED
    BY <2>1 DEF Older
<1>4. CASE inbox'[p] = inbox[p]
  BY <1>4 DEF Older
<1> QED
  BY <1>1, <1>3, <1>4

\* A message that is true may be sent.
LEMMA SendKeeps ==
    ASSUME PagesType, InboxTold, ToldKeeps,
           NEW to, NEW what \in Push, NEW r \in Rides, NEW s \in Status, Send(to, what, r, s),
           \A p \in Page \cap to : what \in {"matched", "status"} => Told(p, r, s)',
           what = "matched" => s = "matched"
    PROVE  InboxTold'
<1>1. ASSUME NEW p \in Page, p \in to, NEW m, m = [what |-> what, ride |-> r, status |-> s]
      PROVE  NewsTold(p, m)'
  BY <1>1 DEF NewsTold
<1>2. ASSUME NEW p \in Page, NEW i \in 1..Len(inbox'[p])
      PROVE  \/ \E j \in 1..Len(inbox[p]) : inbox'[p][i] = inbox[p][j]
             \/ \E m \in News : inbox'[p][i] = m /\ NewsTold(p, m)'
  <2>1. PICK m \in News : m = [what |-> what, ride |-> r, status |-> s]
    BY DEF News
  <2>2. \/ Older(p, i)
        \/ p \in to /\ inbox'[p][i] = [what |-> what, ride |-> r, status |-> s]
    BY SendAdds
  <2>3. CASE p \in to /\ inbox'[p][i] = m
    BY <1>1, <2>1, <2>3
  <2> QED
    BY <2>1, <2>2, <2>3 DEF Older
<1> QED
  BY <1>2, InboxKeeps

\* Silence makes nothing untrue.
LEMMA QuietKeeps ==
    ASSUME PagesType, InboxTold, ToldKeeps, NothingSent
    PROVE  InboxTold'
BY QuietAdds, InboxKeeps DEF Older

\* Nothing new is shown.
LEMMA ViewKeeps ==
    ASSUME PagesType, ViewTold, ToldKeeps,
           UNCHANGED view \/ \E p : view' = [view EXCEPT ![p] = Blank]
    PROVE  ViewTold'
<1> SUFFICES ASSUME NEW p \in Page, view'[p] # Blank
             PROVE  /\ Told(p, view[p].ride, view[p].status)'
                    /\ p \in Drivers => view'[p].status \notin Closed
  BY DEF ViewTold, Blank
<1>1. view'[p] = view[p]
  BY DEF PagesType
<1>2. view[p].ride \in Rides /\ view[p].status \in Status
  BY <1>1, ShownIsRide
<1>3. PICK r, s : r = view[p].ride /\ s = view[p].status
  OBVIOUS
<1>4. Told(p, r, s) /\ (p \in Drivers => s \notin Closed)
  BY <1>1, <1>3 DEF ViewTold
<1>5. Told(p, r, s)'
  BY <1>2, <1>3, <1>4 DEF ToldKeeps
<1> QED
  BY <1>1, <1>3, <1>4, <1>5

\* What is shown is true.
LEMMA ShowKeeps ==
    ASSUME PagesType, ViewTold, ToldKeeps, NEW p \in Page, NEW r \in Rides, NEW s \in Status,
           Show(p, r, s), Told(p, r, s)', p \in Drivers => s \notin Closed
    PROVE  ViewTold'
<1> SUFFICES ASSUME NEW q \in Page, view'[q] # Blank
             PROVE  /\ Told(q, view[q].ride, view[q].status)'
                    /\ q \in Drivers => view'[q].status \notin Closed
  BY DEF ViewTold, Blank
<1>1. CASE q = p
  BY <1>1 DEF Show, PagesType
<1>2. CASE q # p
  <2>1. view'[q] = view[q]
    BY <1>2 DEF PagesType, Show
  <2>2. view[q].ride \in Rides /\ view[q].status \in Status
    BY <2>1, ShownIsRide
  <2>3. PICK x, y : x = view[q].ride /\ y = view[q].status
    OBVIOUS
  <2>4. Told(q, x, y) /\ (q \in Drivers => y \notin Closed)
    BY <2>1, <2>3 DEF ViewTold
  <2>5. Told(q, x, y)'
    BY <2>2, <2>3, <2>4 DEF ToldKeeps
  <2> QED
    BY <2>1, <2>3, <2>4, <2>5
<1> QED
  BY <1>1, <1>2

\* A call is answered only with what has happened.
LEMMA CallsKeep ==
    ASSUME PagesType, CallsTold, ToldKeeps, calls' \subseteq calls
    PROVE  CallsTold'
<1> SUFFICES ASSUME NEW c \in calls'
             PROVE  /\ c.do = "request" => c.by \in Riders /\ Told(c.by, c.ride, "requested")'
                    /\ c.do = "start" => c.by \in Drivers /\ Told(c.by, c.ride, "in_progress")'
  BY DEF CallsTold
<1>1. c \in calls /\ c.by \in Page /\ c.ride \in Rides
  BY DEF PagesType, Call
<1>2. "requested" \in Status /\ "in_progress" \in Status
  BY DEF Status
<1> QED
  BY <1>1, <1>2 DEF CallsTold, ToldKeeps

\* A call may be added whose reply will be true.
LEMMA AskKeeps ==
    ASSUME PagesType, CallsTold, ToldKeeps, NEW p \in Page, NEW do, NEW r \in Rides, Ask(p, do, r),
           do = "request" => p \in Riders /\ Told(p, r, "requested")',
           do = "start" => p \in Drivers /\ Told(p, r, "in_progress")'
    PROVE  CallsTold'
<1> SUFFICES ASSUME NEW c \in calls'
             PROVE  /\ c.do = "request" => c.by \in Riders /\ Told(c.by, c.ride, "requested")'
                    /\ c.do = "start" => c.by \in Drivers /\ Told(c.by, c.ride, "in_progress")'
  BY DEF CallsTold
<1>1. CASE c \in calls
  <2>1. c.by \in Page /\ c.ride \in Rides
    BY <1>1 DEF PagesType, Call
  <2>2. "requested" \in Status /\ "in_progress" \in Status
    BY DEF Status
  <2> QED
    BY <1>1, <2>1, <2>2 DEF CallsTold, ToldKeeps
<1>2. CASE c = [by |-> p, do |-> do, ride |-> r]
  BY <1>2
<1> QED
  BY <1>1, <1>2 DEF Ask

----------------------------------------------------------------------------
(* The pages never get ahead of the server.                                 *)

\* What the server does for a page and on its own keeps the announcement and
\* leaves a loop that is over where it is.
LEMMA ServerSteps ==
    ASSUME Wellformed, Audited, Announced, PagesType, PagesNext
    PROVE  Announced' /\ OverStays
<1>1. CASE UNCHANGED vars
  BY <1>1 DEF Announced, OverStays, vars, appVars, storeVars, dispatchVars, loopVars
<1>2. CASE Unasked
  BY <1>2, UnaskedSteps
<1>3. ASSUME NEW r \in Rides,
             LoopOnline(r) \/ HandlerOnline(r) \/ Fade(r)
      PROVE  Announced' /\ OverStays
  BY <1>1, <1>2, <1>3 DEF LoopOnline, HandlerOnline, Fade, Unasked
<1>4. CASE Unheard
  BY <1>2, <1>4 DEF Unheard, Unasked
<1>5. ASSUME NEW u \in Riders,
             PickPoints(u) \/ RiderHears(u) \/ LoseNews(u) \/ ReloadRider(u)
      PROVE  Announced' /\ OverStays
  BY <1>1, <1>5 DEF PickPoints, RiderHears, LoseNews, ReloadRider, Forget
<1>6. ASSUME NEW u \in Riders, ClickCancel(u)
      PROVE  Announced' /\ OverStays
  BY <1>6, ShownIsRide, AskedSteps DEF ClickCancel, Page
<1>7. ASSUME NEW u \in Riders, NEW r \in Rides, ClickRequest(u, r)
      PROVE  Announced' /\ OverStays
  BY <1>7, AskedSteps DEF ClickRequest
<1>8. ASSUME NEW d \in Drivers, ClickAnswer(d)
      PROVE  Announced' /\ OverStays
  <2>1. offer[d] \in Rides
    BY <1>8 DEF ClickAnswer, PagesType
  <2> QED
    BY <1>1, <1>8, <2>1, AskedSteps DEF ClickAnswer, AcceptShown, RejectShown
<1>9. ASSUME NEW d \in Drivers, ClickJob(d)
      PROVE  Announced' /\ OverStays
  BY <1>9, ShownIsRide, AskedSteps DEF ClickJob, Page
<1>10. ASSUME NEW d \in Drivers, DriverHears(d) \/ ReloadDriver(d)
       PROVE  Announced' /\ OverStays
  BY <1>1, <1>10 DEF DriverHears, ReloadDriver, Forget
<1>11. ASSUME NEW c \in calls, RiderReads(c) \/ DriverReads(c) \/ LoseReply(c)
       PROVE  Announced' /\ OverStays
  BY <1>1, <1>11 DEF RiderReads, DriverReads, LoseReply
<1> QED
  BY <1>3, <1>4, <1>5, <1>6, <1>7, <1>8, <1>9, <1>10, <1>11 DEF PagesNext, PageStep

\* The history only grows.
LEMMA EarlyGrows ==
    ASSUME PagesNext
    PROVE  early \subseteq early'
BY DEF PagesNext, ReloadDriver

\* Whatever may be said, may be said in the next state.
LEMMA ToldAlways ==
    ASSUME Wellformed, Audited, [Next]_vars, OverStays, early \subseteq early'
    PROVE  ToldKeeps
BY ToldStays DEF ToldKeeps

\* A job on the screen of a driver is his, and its loop is over, or he found it
\* by a reload.
LEMMA JobIsHis ==
    ASSUME PagesType, ViewTold, NEW d \in Drivers, view[d] # Blank
    PROVE  /\ driverOf[view[d].ride] = d
           /\ pc[view[d].ride] = "over" \/ view[d].ride \in early
BY DEF ViewTold, Told, Page

\* Trips are started only on rides that have been announced.
LEMMA TripsNext ==
    ASSUME Wellformed, Audited, PagesType, TripsTold, ViewTold, PagesNext
    PROVE  TripsTold'
<1> DEFINE Goal == TripAfterTell' /\ StartsTold' /\ ClosingIsOver'
<1>1. Announced' /\ OverStays /\ early \subseteq early'
  BY ServerSteps, EarlyGrows DEF TripsTold
<1>2. [Next]_vars
  BY PagesStep
<1>3. CASE UNCHANGED vars
  BY <1>1, <1>3
  DEF TripsTold, TripAfterTell, StartsTold, ClosingIsOver, Trip, vars, appVars, storeVars,
      dispatchVars, loopVars, rideVars
<1>4. CASE Unasked
  <2>1. NoTrip
    BY <1>4, UnaskedSteps DEF TripsTold
  <2> QED
    BY <1>1, <1>2, <2>1, StoreMono
    DEF TripsTold, TripAfterTell, StartsTold, ClosingIsOver, Trip, NoTrip, OverStays, Closed,
        Wellformed, TypeOK, RideType
<1>5. ASSUME NEW r \in Rides, LoopOnline(r) \/ HandlerOnline(r) \/ Fade(r)
      PROVE  Goal
  BY <1>3, <1>4, <1>5 DEF LoopOnline, HandlerOnline, Fade, Unasked, TripsTold
<1>6. CASE Unheard
  BY <1>4, <1>6 DEF Unheard, Unasked, TripsTold
<1>7. ASSUME NEW u \in Riders, PickPoints(u) \/ RiderHears(u) \/ LoseNews(u) \/ ReloadRider(u)
      PROVE  Goal
  BY <1>3, <1>7 DEF PickPoints, RiderHears, LoseNews, ReloadRider, Forget, TripsTold
<1> USE DEF TripsTold, TripAfterTell, StartsTold, ClosingIsOver, Trip, OverStays, Wellformed, TypeOK,
            StoreType, RideType
<1>8. ASSUME NEW u \in Riders, ClickCancel(u)
      PROVE  Goal
  <2>1. view[u].ride \in Rides
    BY <1>8, ShownIsRide DEF ClickCancel, Page
  <2> QED
    BY <1>1, <1>8, <2>1 DEF ClickCancel, CancelRide, MoveRide, CloseGoto
<1>9. ASSUME NEW u \in Riders, NEW r \in Rides, ClickRequest(u, r)
      PROVE  Goal
  BY <1>1, <1>9 DEF ClickRequest, RequestRide, InsertRide, rideVars
<1>10. ASSUME NEW d \in Drivers, ClickAnswer(d)
       PROVE  Goal
  BY <1>1, <1>3, <1>10
  DEF ClickAnswer, AcceptShown, RejectShown, AcceptOffer, RejectOffer, OfferStep, storeVars, rideVars
<1>11. ASSUME NEW d \in Drivers, ClickJob(d)
       PROVE  Goal
  <2>1. PICK r \in Rides : r = view[d].ride
    BY <1>11, ShownIsRide DEF ClickJob, Page
  <2>2. pc[r] = "over" \/ r \in early
    BY <1>11, <2>1, JobIsHis DEF ClickJob
  <2>3. \/ StartRide(r)
        \/ CompleteRide(r)
    BY <1>11, <2>1 DEF ClickJob
  <2> QED
    BY <1>1, <2>2, <2>3 DEF StartRide, CompleteRide, MoveRide, CloseGoto
<1>12. ASSUME NEW d \in Drivers, DriverHears(d) \/ ReloadDriver(d)
       PROVE  Goal
  BY <1>3, <1>12 DEF DriverHears, ReloadDriver, Forget
<1>13. ASSUME NEW c \in calls, RiderReads(c) \/ DriverReads(c) \/ LoseReply(c)
       PROVE  Goal
  BY <1>3, <1>13 DEF RiderReads, DriverReads, LoseReply
<1>14. Goal
  BY <1>5, <1>6, <1>7, <1>8, <1>9, <1>10, <1>11, <1>12, <1>13 DEF PagesNext, PageStep
<1> QED
  BY <1>1, <1>14

\* What the loop of a ride sends is true.
LEMMA LoopIsTrue ==
    ASSUME Wellformed, Audited, PagesType, Announced, InboxTold, ToldKeeps, OverStays, [Next]_vars,
           NEW r \in Rides, LoopOnline(r)
    PROVE  InboxTold'
<1>1. {"requested", "matched", "no_drivers"} \subseteq Status
      /\ {"offer", "offer_expired", "matched", "no_drivers"} \subseteq Push
  BY DEF Status, Push
<1>2. CASE At(r, "tell")
  <2>1. driverOf[r] = cand[r] /\ cand[r] \in Drivers
    BY <1>2 DEF Announced, At
  <2>2. driverOf'[r] = driverOf[r]
    BY <2>1, StoreMono, NoDriverAssumption
  <2>3. pc'[r] = "over"
    BY <1>2, TellEnds DEF LoopOnline
  <2>4. PICK to : to = {RiderOf[r], cand[r]}
    OBVIOUS
  <2>5. ASSUME NEW p \in Page \cap to
        PROVE  Told(p, r, "matched")'
    BY <2>1, <2>2, <2>3, <2>4, PageAssumption, RiderOfAssumption, NoDriverAssumption
    DEF Told, Happened, Page
  <2>6. Send(to, "matched", r, "matched")
    BY <1>2, <2>4 DEF LoopOnline, LoopNews, At
  <2> QED
    BY <1>1, <2>5, <2>6, SendKeeps
<1>3. CASE At(r, "send")
  <2>1. PICK to : Send(to, "offer", r, "requested")
    BY <1>3 DEF LoopOnline, LoopNews, At
  <2> QED
    BY <1>1, <2>1, SendKeeps
<1>4. CASE At(r, "refusePool")
  <2>1. PICK to : Send(to, "offer_expired", r, "requested")
    BY <1>4 DEF LoopOnline, LoopNews, At
  <2> QED
    BY <1>1, <2>1, SendKeeps
<1>5. CASE At(r, "tellNone")
  <2>1. PICK to : Send(to, "no_drivers", r, "no_drivers")
    BY <1>5 DEF LoopOnline, LoopNews, At
  <2> QED
    BY <1>1, <2>1, SendKeeps
<1>6. CASE ~(At(r, "tell") \/ At(r, "send") \/ At(r, "refusePool") \/ At(r, "tellNone"))
  BY <1>6, QuietKeeps DEF NothingSent, LoopOnline, LoopNews
<1> QED
  BY <1>2, <1>3, <1>4, <1>5, <1>6

\* What the handlers of a ride send is true.
LEMMA HandlerIsTrue ==
    ASSUME Wellformed, Audited, PagesType, TripsTold, InboxTold, ToldKeeps, OverStays, [Next]_vars,
           early \subseteq early', NEW r \in Rides, HandlerOnline(r)
    PROVE  InboxTold'
<1>1. HandlerNews(r) /\ Handler(r)
  BY DEF HandlerOnline
<1>0. PICK to : to = {RiderOf[r], driverOf[r]}
  OBVIOUS
<1>2. PICK s \in Status : s = IF starting' # starting THEN "in_progress" ELSE status[r]
  BY DEF Wellformed, TypeOK, StoreType, Status
<1>3. ASSUME \/ starting' # starting
             \/ closing' # closing
      PROVE  InboxTold' \/ ~Send(to, "status", r, s)
  <2>1. \/ s = "in_progress" /\ status[r] \in Trip
        \/ s \in {"completed", "cancelled"} /\ s = status[r]
    BY <1>1, <1>2, <1>3, HandlerEnds DEF TripsTold, StartsTold, ClosingIsOver
  <2>2. Happened(r, s)'
    BY <2>1, StoreMono DEF Happened, Trip, Closed
  <2>3. s \in Closed \/ pc'[r] = "over" \/ r \in early'
    BY <2>1 DEF TripsTold, TripAfterTell, OverStays, Closed, Trip
  <2>4. driverOf[r] # NoDriver => driverOf'[r] = driverOf[r]
    BY StoreMono
  <2>5. ASSUME NEW p \in Page \cap to
        PROVE  Told(p, r, s)'
    <3>1. s \in {"requested", "matched"} \cup Trip \cup {"cancelled"}
      BY <2>1 DEF Trip
    <3>2. p \in Riders => RiderOf[r] = p
      <4>1. driverOf[r] \in Drivers \cup {NoDriver}
        BY DEF Wellformed, TypeOK, StoreType
      <4> QED
        BY <1>0, <4>1, PageAssumption DEF Page
    <3>3. p \in Drivers => driverOf'[r] = p
      BY <1>0, <2>4, PageAssumption, RiderOfAssumption, NoDriverAssumption DEF Page
    <3> QED
      BY <2>2, <2>3, <3>1, <3>2, <3>3 DEF Told
  <2> QED
    BY <2>5, SendKeeps DEF Push
<1>4. CASE starting' # starting
  <2>1. SendStatus(r, "in_progress")
    BY <1>1, <1>4, HandlerEnds DEF HandlerNews
  <2> QED
    BY <1>0, <1>2, <1>3, <1>4, <2>1 DEF SendStatus
<1>5. CASE starting' = starting /\ closing' # closing /\ closing'[r] = "none"
  <2>1. Send({RiderOf[r], driverOf[r]}, "status", r, status[r])
    BY <1>1, <1>5 DEF HandlerNews, SendStatus
  <2> QED
    BY <1>0, <1>2, <1>3, <1>5, <2>1
<1>6. CASE starting' = starting /\ ~(closing' # closing /\ closing'[r] = "none")
  BY <1>1, <1>6, QuietKeeps DEF NothingSent, HandlerNews
<1> QED
  BY <1>4, <1>5, <1>6

\* Of what a page reads only the head is new on the screen.
LEMMA HeadIsTrue ==
    ASSUME PagesType, InboxTold, ToldKeeps, NEW p \in Page, inbox[p] # <<>>
    PROVE  \E m \in News : m = Head(inbox[p]) /\ NewsTold(p, m) /\ NewsTold(p, m)'
<1>1. inbox[p] \in Seq(News)
  BY DEF PagesType
<1>2. Head(inbox[p]) = inbox[p][1] /\ 1 \in 1..Len(inbox[p]) /\ Head(inbox[p]) \in News
  BY <1>1
<1>3. PICK m \in News : m = Head(inbox[p])
  BY <1>2
<1>4. NewsTold(p, m)
  BY <1>2, <1>3 DEF InboxTold
<1>5. m.ride \in Rides /\ m.status \in Status
  BY DEF News
<1>6. NewsTold(p, m)'
  BY <1>4, <1>5 DEF NewsTold, ToldKeeps
<1> QED
  BY <1>3, <1>4, <1>6

\* Every step keeps the inbox, the screens and the calls true.
LEMMA HonestNext ==
    ASSUME Wellformed, Audited, PagesType, Honest, PagesNext
    PROVE  Honest'
<1> DEFINE Goal == InboxTold' /\ ViewTold' /\ CallsTold'
<1>1. TripsTold' /\ Announced /\ OverStays /\ early \subseteq early' /\ [Next]_vars
  BY TripsNext, ServerSteps, PagesStep, EarlyGrows DEF Honest, TripsTold
<1>2. ToldKeeps
  BY <1>1, ToldAlways
<1>3. TripsTold /\ InboxTold /\ ViewTold /\ CallsTold
  BY DEF Honest
<1>4. {"requested", "matched", "in_progress"} \subseteq Status
      /\ \A u \in Riders : u \in Page /\ u \notin Drivers
      /\ \A d \in Drivers : d \in Page
  BY PageAssumption DEF Status, Page
<1>5. calls' \subseteq calls => CallsTold'
  BY <1>2, <1>3, CallsKeep
<1>6. UNCHANGED view \/ (\E p : view' = [view EXCEPT ![p] = Blank]) => ViewTold'
  BY <1>2, <1>3, ViewKeeps
<1>7. Quiet \/ UNCHANGED inbox => InboxTold'
  BY <1>2, <1>3, QuietKeeps DEF NothingSent
<1>8. ASSUME NEW r \in Rides, LoopOnline(r)
      PROVE  Goal
  BY <1>1, <1>2, <1>3, <1>5, <1>6, <1>8, LoopIsTrue DEF LoopOnline, screenVars
<1>9. ASSUME NEW r \in Rides, HandlerOnline(r)
      PROVE  Goal
  BY <1>1, <1>2, <1>3, <1>5, <1>6, <1>9, HandlerIsTrue DEF HandlerOnline, screenVars
<1>10. ASSUME NEW r \in Rides, Fade(r)
       PROVE  Goal
  BY <1>5, <1>6, <1>7, <1>10 DEF Fade, ClearRide
<1>11. ASSUME Unheard
       PROVE  Goal
  <2>1. Quiet /\ calls' \subseteq calls /\ UNCHANGED view
    BY <1>11 DEF Unheard, Drop
  <2> QED
    BY <1>5, <1>6, <1>7, <2>1
<1>12. ASSUME NEW u \in Riders, PickPoints(u)
       PROVE  Goal
  BY <1>5, <1>6, <1>7, <1>12 DEF PickPoints
<1>13. ASSUME NEW u \in Riders, ClickCancel(u)
       PROVE  Goal
  <2>1. PICK r \in Rides : Ask(u, "cancel", r)
    BY <1>4, <1>13, ShownIsRide DEF ClickCancel
  <2>2. CallsTold'
    BY <1>2, <1>3, <1>4, <2>1, AskKeeps
  <2> QED
    BY <1>6, <1>7, <1>13, <2>1, <2>2 DEF ClickCancel, Ask, screenVars
<1>14. ASSUME NEW u \in Riders, RiderHears(u)
       PROVE  Goal
  <2>1. PICK m \in News : m = Head(inbox[u]) /\ NewsTold(u, m) /\ NewsTold(u, m)'
    BY <1>2, <1>3, <1>4, <1>14, HeadIsTrue DEF RiderHears
  <2>2. InboxTold'
    BY <1>2, <1>3, <1>4, <1>14, QuietKeeps DEF NothingSent, RiderHears
  <2>3. m.ride \in Rides /\ m.status \in Status
    BY DEF News
  <2>4. ASSUME m.what \in {"matched", "status"}, Show(u, m.ride, m.status)
        PROVE  ViewTold'
    BY <1>2, <1>3, <1>4, <2>1, <2>3, <2>4, ShowKeeps DEF NewsTold
  <2>5. ASSUME ClearRide(u)
        PROVE  ViewTold'
    BY <1>6, <2>5 DEF ClearRide
  <2> QED
    BY <1>5, <1>14, <2>1, <2>2, <2>4, <2>5 DEF RiderHears, HearStatus, HearMatched, HearNoDrivers
<1>15. ASSUME NEW u \in Riders, LoseNews(u)
       PROVE  Goal
  BY <1>2, <1>3, <1>4, <1>5, <1>6, <1>15, QuietKeeps DEF NothingSent, LoseNews, screenVars
<1>16. ASSUME NEW u \in Riders, NEW r \in Rides, ClickRequest(u, r)
       PROVE  Goal
  <2>1. Told(u, r, "requested")'
    BY <1>4, <1>16
    DEF ClickRequest, RequestRide, InsertRide, Told, Happened, Wellformed, TypeOK, StoreType
  <2>2. CallsTold'
    BY <1>2, <1>3, <1>4, <1>16, <2>1, AskKeeps DEF ClickRequest
  <2> QED
    BY <1>6, <1>7, <1>16, <2>2 DEF ClickRequest, Ask
<1>17. ASSUME NEW d \in Drivers, ClickAnswer(d)
       PROVE  Goal
  <2>1. InboxTold'
    <3>1. CASE Quiet \/ UNCHANGED inbox
      BY <1>7, <3>1
    <3>2. CASE Send({d}, "offer_expired", offer[d], "requested")
      <4>1. PICK r \in Rides : Send({d}, "offer_expired", r, "requested")
        BY <1>17, <3>2 DEF ClickAnswer, PagesType
      <4>2. "offer_expired" \in Push
        BY DEF Push
      <4> QED
        BY <1>2, <1>3, <1>4, <4>1, <4>2, SendKeeps
    <3> QED
      BY <1>17, <3>1, <3>2 DEF ClickAnswer, AcceptShown, RejectShown
  <2> QED
    BY <1>5, <1>6, <1>17, <2>1 DEF ClickAnswer
<1>18. ASSUME NEW d \in Drivers, ClickJob(d)
       PROVE  Goal
  <2>0. d \in Page /\ d \in Drivers
    BY DEF Page
  <2>1. PICK r \in Rides : r = view[d].ride
    BY <1>18, <2>0, ShownIsRide DEF ClickJob, Page
  <2>2. driverOf[r] = d /\ (pc[r] = "over" \/ r \in early)
    BY <1>3, <1>18, <2>1, JobIsHis DEF ClickJob
  <2>3. ASSUME Ask(d, "complete", r)
        PROVE  CallsTold'
    BY <1>2, <1>3, <2>0, <2>3, AskKeeps
  <2>4. ASSUME StartRide(r), Ask(d, "start", r)
        PROVE  CallsTold'
    <3>1. Told(d, r, "in_progress")'
      BY <1>1, <1>4, <2>2, <2>4, PageAssumption
      DEF StartRide, MoveRide, dispatchVars, loopVars, Told, Happened, Trip, Wellformed, TypeOK,
          StoreType
    <3> QED
      BY <1>2, <1>3, <2>0, <2>4, <3>1, AskKeeps
  <2>5. CallsTold'
    BY <1>18, <2>1, <2>3, <2>4 DEF ClickJob
  <2> QED
    BY <1>6, <1>7, <1>18, <2>5 DEF ClickJob, Ask, screenVars
<1>19. ASSUME NEW d \in Drivers, DriverHears(d)
       PROVE  Goal
  <2>0. d \in Page /\ d \in Drivers
    BY DEF Page
  <2>1. PICK m \in News : m = Head(inbox[d]) /\ NewsTold(d, m) /\ NewsTold(d, m)'
    BY <1>2, <1>3, <1>19, HeadIsTrue DEF DriverHears, Page
  <2>2. InboxTold'
    BY <1>2, <1>3, <1>19, QuietKeeps DEF NothingSent, DriverHears, Page
  <2>3. m.ride \in Rides /\ m.status \in Status
    BY DEF News
  <2>4. ASSUME m.what \in {"matched", "status"}, Show(d, m.ride, m.status), m.status \notin Closed
        PROVE  ViewTold'
    BY <1>2, <1>3, <2>0, <2>1, <2>3, <2>4, ShowKeeps DEF NewsTold
  <2>5. ASSUME ClearJob(d) \/ UNCHANGED view
        PROVE  ViewTold'
    BY <1>6, <2>5 DEF ClearJob
  <2>6. m.what \in {"matched", "status"} =>
            m.status # "no_drivers" /\ (m.what = "matched" => m.status \notin Closed)
    BY <2>1 DEF NewsTold, Told, Trip, Closed
  <2> QED
    BY <1>5, <1>19, <2>1, <2>2, <2>4, <2>5, <2>6
    DEF DriverHears, HearOffer, HearExpired, HearAssigned, HearJobStatus, Closed
<1>20. ASSUME NEW c \in calls, RiderReads(c)
       PROVE  Goal
  <2>1. c.ride \in Rides
    BY DEF PagesType, Call
  <2>2. ASSUME c.do = "request", Show(c.by, c.ride, "requested")
        PROVE  ViewTold'
    <3>1. PICK p, r : p = c.by /\ r = c.ride
      OBVIOUS
    <3>2. p \in Riders /\ Told(p, r, "requested")
      BY <1>3, <2>2, <3>1 DEF CallsTold
    <3> QED
      BY <1>2, <1>3, <1>4, <2>1, <2>2, <3>1, <3>2, ShowKeeps DEF ToldKeeps
  <2>3. ASSUME ClearRide(c.by)
        PROVE  ViewTold'
    BY <1>6, <2>3 DEF ClearRide
  <2> QED
    BY <1>5, <1>7, <1>20, <2>2, <2>3 DEF RiderReads
<1>21. ASSUME NEW c \in calls, DriverReads(c)
       PROVE  Goal
  <2>1. c.ride \in Rides
    BY DEF PagesType, Call
  <2>2. ASSUME c.do = "start", Show(c.by, c.ride, "in_progress")
        PROVE  ViewTold'
    <3>1. PICK p, r : p = c.by /\ r = c.ride
      OBVIOUS
    <3>2. p \in Drivers /\ Told(p, r, "in_progress")
      BY <1>3, <2>2, <3>1 DEF CallsTold
    <3>3. p \in Page /\ r \in Rides /\ "in_progress" \in Status \ Closed
      BY <2>1, <3>1, <3>2 DEF Page, Status, Closed
    <3>4. Told(p, r, "in_progress")'
      BY <1>2, <3>2, <3>3 DEF ToldKeeps
    <3>5. Show(p, r, "in_progress")
      BY <2>2, <3>1
    <3> QED
      BY <1>2, <1>3, <3>3, <3>4, <3>5, ShowKeeps
  <2>3. ASSUME ClearJob(c.by)
        PROVE  ViewTold'
    BY <1>6, <2>3 DEF ClearJob
  <2> QED
    BY <1>5, <1>7, <1>21, <2>2, <2>3 DEF DriverReads
<1>22. ASSUME NEW c \in calls, LoseReply(c)
       PROVE  Goal
  BY <1>5, <1>6, <1>7, <1>22 DEF LoseReply, Drop
<1>23. ASSUME NEW u \in Riders, ReloadRider(u)
       PROVE  Goal
  <2>0. UNCHANGED vars /\ calls' \subseteq calls /\ inbox' = [inbox EXCEPT ![u] = <<>>]
    BY <1>23 DEF ReloadRider, Forget
  <2>1. InboxTold' /\ CallsTold'
    BY <1>2, <1>3, <1>4, <1>5, <2>0, QuietKeeps DEF NothingSent
  <2>2. ASSUME NEW r \in OpenRidesOf(u), Show(u, r, status[r])
        PROVE  ViewTold'
    <3>1. PICK s \in Status : s = status[r] /\ r \in Rides
      BY DEF Wellformed, TypeOK, StoreType, OpenRidesOf
    <3>2. Told(u, r, s)
      BY <1>4, <3>1, NoDriverAssumption
      DEF Told, Happened, OpenRidesOf, Open, Live, Trip, Wellformed, LiveIsBooked
    <3>3. Told(u, r, s)'
      BY <1>2, <1>4, <3>1, <3>2 DEF ToldKeeps
    <3> QED
      BY <1>2, <1>3, <1>4, <2>2, <3>1, <3>3, ShowKeeps
  <2> QED
    BY <1>6, <1>23, <2>1, <2>2 DEF ReloadRider, Restore
<1>24. ASSUME NEW d \in Drivers, ReloadDriver(d)
       PROVE  Goal
  <2>0. /\ UNCHANGED vars /\ calls' \subseteq calls /\ inbox' = [inbox EXCEPT ![d] = <<>>]
        /\ d \in Page /\ d \notin Riders
    BY <1>24, PageAssumption DEF ReloadDriver, Forget, Page
  <2>1. InboxTold' /\ CallsTold'
    BY <1>2, <1>3, <1>5, <2>0, QuietKeeps DEF NothingSent
  <2>2. ASSUME NEW r \in LiveRidesOf(d), Show(d, r, status[r])
        PROVE  ViewTold'
    <3>1. PICK s \in Status : s = status[r] /\ r \in Rides
      BY DEF Wellformed, TypeOK, StoreType, LiveRidesOf
    <3>2. status' = status /\ driverOf' = driverOf /\ pc' = pc
      BY <2>0 DEF vars, appVars, storeVars, dispatchVars, loopVars
    <3>3. pc[r] = "over" \/ r \in early'
      BY <1>24, <2>2 DEF ReloadDriver, At
    <3>4. Told(d, r, s)'
      BY <2>0, <3>1, <3>2, <3>3, NoDriverAssumption
      DEF Told, Happened, LiveRidesOf, Live, Trip
    <3>5. s \notin Closed
      BY <3>1 DEF LiveRidesOf, Live, Closed
    <3> QED
      BY <1>2, <1>3, <2>0, <2>2, <3>1, <3>4, <3>5, ShowKeeps
  <2> QED
    BY <1>6, <1>24, <2>1, <2>2 DEF ReloadDriver, Restore
<1>25. Goal
  BY <1>8, <1>9, <1>10, <1>11, <1>12, <1>13, <1>14, <1>15, <1>16, <1>17, <1>18, <1>19, <1>20,
     <1>21, <1>22, <1>23, <1>24 DEF PagesNext, PageStep
<1> QED
  BY <1>1, <1>25 DEF Honest

\* At the start nothing has been said.
LEMMA HonestInit == Init /\ PagesInit => Honest
BY DEF Init, StoreInit, DispatchInit, RideInit, PagesInit, Honest, TripsTold, TripAfterTell,
       StartsTold, ClosingIsOver, Announced, InboxTold, ViewTold, CallsTold, Page, Blank

\* What the pages show is true, at every moment.
LEMMA HonestAlways == PagesSpec => [](Wellformed /\ Audited /\ PagesType /\ Honest)
<1>1. Wellformed /\ Audited /\ PagesType /\ Honest /\ [PagesNext]_<<vars, pageVars>> => Honest'
  <2> SUFFICES ASSUME Wellformed, Audited, PagesType, Honest, UNCHANGED <<vars, pageVars>>
               PROVE  Honest'
    BY HonestNext
  <2> QED
    BY DEF Honest, TripsTold, TripAfterTell, StartsTold, ClosingIsOver, Announced, InboxTold,
           ViewTold, CallsTold, NewsTold, Told, Happened, vars, appVars, storeVars, dispatchVars,
           loopVars, rideVars, pageVars, screenVars
<1>2. Wellformed /\ [Next]_vars => Wellformed'
  BY WellformedNext
<1>3. Wellformed /\ Audited /\ [Next]_vars => Audited'
  BY AuditedNext
<1> QED
  BY <1>1, <1>2, <1>3, HonestInit, WellformedInit, AuditedInit, PagesBase, PTL DEF PagesSpec

\* No driver starts or completes a trip before the loop has announced its match
\* and returned, unless he found the ride by a reload: whatever replies and
\* messages overtake each other, whatever is lost, and whether or not Postgres
\* fails, locks lapse or the process dies.
THEOREM TripsFollowTheAnnouncement == PagesSpec => []TripAfterTell
<1>1. Honest => TripAfterTell
  BY DEF Honest, TripsTold
<1> QED
  BY <1>1, HonestAlways, PTL

\* No page shows a state its ride has not reached, nor a ride that is not its
\* user's.
THEOREM PagesShowWhatHappened == PagesSpec => []NothingAhead
<1>1. Honest => NothingAhead
  BY PageAssumption DEF Honest, ViewTold, Told, NothingAhead, Page
<1> QED
  BY <1>1, HonestAlways, PTL

----------------------------------------------------------------------------
(* The snapshot of a trip.                                                  *)

\* The loop writes its snapshot before it is over and the handlers drop theirs
\* once the ride is closed, so nothing but a flush touches that of a trip.
LEMMA SnapshotNext ==
    ASSUME "flushUp" \notin Env, Wellformed, Audited, TripAfterTell, ClosingIsOver,
           SnapshotInStep, early \subseteq early', [Next]_vars
    PROVE  SnapshotInStep'
<1> USE NoDriverAssumption
    DEF May, Wellformed, TypeOK, StoreType, RedisType, DispatchType, RideType, LiveIsBooked, Label,
        Live, TripAfterTell, ClosingIsOver, SnapshotInStep, storeVars, redisVars, dispatchVars,
        rideVars, driverVars,
        worldVars, processVars, loopVars, RedisStep, StoreStep, LocalStep, OfferStep,
        CloseStep, NoRideStep, At, Goto, Continue, CloseGoto
<1>1. ASSUME NEW r \in Rides, Loop(r)
      PROVE  SnapshotInStep'
  <2> USE <1>1 DEF Loop
  <2>1. CASE \E d \in Drivers : PickCandidate(r, d)
    BY <2>1 DEF PickCandidate, Candidates, Nearby
  <2>2. CASE RunOut(r)
    BY <2>2 DEF RunOut
  <2>3. CASE ClaimDriver(r)
    BY <2>3 DEF ClaimDriver, SetNX, SetLock
  <2>4. CASE LoseClaim(r)
    BY <2>4 DEF LoseClaim
  <2>5. CASE ClaimUnsafely(r)
    BY <2>5 DEF ClaimUnsafely, SetLock
  <2>6. CASE LeavePool(r)
    BY <2>6 DEF LeavePool, RemoveFromPool
  <2>7. CASE RecordLost(r)
    BY <2>7 DEF RecordLost, WriteOffer
  <2>8. CASE LetGoAbsent(r)
    BY <2>8 DEF LetGoAbsent, Unlock
  <2>9. CASE RepoolAbsent(r)
    BY <2>9 DEF RepoolAbsent, UpdatePosition
  <2>10. CASE RecordAbsent(r)
    BY <2>10 DEF RecordAbsent, WriteOffer
  <2>11. CASE RecordOffer(r)
    BY <2>11 DEF RecordOffer, WriteOffer
  <2>12. CASE SendOffer(r)
    BY <2>12 DEF SendOffer
  <2>13. CASE ResolveAccept(r)
    BY <2>13 DEF ResolveAccept
  <2>14. CASE CloseOffer(r)
    BY <2>14 DEF CloseOffer, WriteOffer
  <2>15. CASE RefuseUnlock(r)
    BY <2>15 DEF RefuseUnlock, Unlock
  <2>16. CASE RefusePool(r)
    BY <2>16 DEF RefusePool, UpdatePosition
  <2>17. CASE CommitMatch(r)
    BY <2>17 DEF CommitMatch, MatchRide, CanMatch
  <2>18. CASE RefuseMatch(r)
    BY <2>18 DEF RefuseMatch
  <2>19. CASE HoldForRide(r)
    BY <2>19 DEF HoldForRide, HoldLock, CanHold
  <2>20. CASE PointAtRide(r)
    BY <2>20 DEF PointAtRide, SetPointer
  <2>21. CASE CacheMatch(r)
    BY <2>21 DEF CacheMatch, SetCache
  <2>22. CASE TellMatched(r)
    BY <2>22 DEF TellMatched, TellRider, Finish
  <2>23. CASE UndoUnlock(r)
    BY <2>23 DEF UndoUnlock, Unlock
  <2>24. CASE UndoPointer(r)
    BY <2>24 DEF UndoPointer, DelPointer, SetPointer
  <2>25. CASE MarkNoDrivers(r)
    BY <2>25 DEF MarkNoDrivers, MoveRideIfStill
  <2>26. CASE TellNoDrivers(r)
    BY <2>26 DEF TellNoDrivers, TellRider, Finish
  <2> QED
    BY <2>1, <2>2, <2>3, <2>4, <2>5, <2>6, <2>7, <2>8, <2>9, <2>10, <2>11, <2>12, <2>13,
       <2>14, <2>15, <2>16, <2>17, <2>18, <2>19, <2>20, <2>21, <2>22, <2>23, <2>24,
       <2>25, <2>26 DEF LoopStep
<1>2. ASSUME NEW r \in Rides, Handler(r)
      PROVE  SnapshotInStep'
  <2> USE <1>2 DEF Handler
  <2>1. CASE CacheNewRide(r)
    BY <2>1 DEF CacheNewRide, SetCache
  <2>2. CASE CacheStarted(r)
    BY <2>2 DEF CacheStarted, SetCache, TellRider
  <2>3. CASE CloseUnlock(r)
    BY <2>3 DEF CloseUnlock, Unlock
  <2>4. CASE ClosePointer(r)
    BY <2>4 DEF ClosePointer, DelPointer, SetPointer
  <2>5. CASE CloseDropFirst(r)
    BY <2>5 DEF CloseDropFirst, DropCache, SetCache
  <2>6. CASE ClosePool(r)
    BY <2>6 DEF ClosePool, RepoolAtLastPosition, UpdatePosition, Broadcast, TellRider
  <2>7. CASE CloseDrop(r)
    BY <2>7 DEF CloseDrop, DropCache, SetCache, Broadcast, TellRider
  <2> QED
    BY <2>1, <2>2, <2>3, <2>4, <2>5, <2>6, <2>7 DEF HandlerStep
<1>3. ASSUME NEW r \in Rides, up, RiderAction(r), UNCHANGED <<driverVars, worldVars>>
      PROVE  SnapshotInStep'
  <2> USE <1>3
  <2>1. CASE RequestRide(r)
    BY <2>1 DEF RequestRide, InsertRide
  <2>2. CASE CancelRide(r)
    BY <2>2 DEF CancelRide, MoveRide
  <2> QED
    BY <2>1, <2>2 DEF RiderAction
<1>4. ASSUME NEW r \in Rides, up, DriverRideAction(r), UNCHANGED worldVars
      PROVE  SnapshotInStep'
  <2> USE <1>4
  <2>1. CASE AcceptOffer(r) /\ UNCHANGED <<rideVars, driverVars>>
    BY <2>1 DEF AcceptOffer
  <2>2. CASE RejectOffer(r) /\ UNCHANGED <<rideVars, driverVars>>
    BY <2>2 DEF RejectOffer
  <2>3. CASE StartRide(r) /\ UNCHANGED driverVars
    BY <2>3 DEF StartRide, MoveRide
  <2>4. CASE CompleteRide(r) /\ UNCHANGED driverVars
    BY <2>4 DEF CompleteRide, MoveRide
  <2> QED
    BY <2>1, <2>2, <2>3, <2>4 DEF DriverRideAction
<1>5. ASSUME NEW r \in Rides, Timeout(r) \/ Fault(r),
             UNCHANGED <<rideVars, driverVars, processVars>>
      PROVE  SnapshotInStep'
  <2> USE <1>5
  <2>1. CASE Timeout(r)
    BY <2>1 DEF Timeout, OfferTimeout
  <2>2. CASE FailStore(r)
    BY <2>2 DEF FailStore
  <2>3. CASE LoseCommitReply(r)
    BY <2>3 DEF LoseCommitReply, MatchRide, CanMatch
  <2> QED
    BY <2>1, <2>2, <2>3 DEF Fault
<1>6. ASSUME NEW d \in Drivers, Toggling(d)
      PROVE  SnapshotInStep'
  <2> USE <1>6 DEF Toggling
  <2>1. CASE OfflineUpdate(d)
    BY <2>1 DEF OfflineUpdate
  <2>2. CASE OfflineLeave(d)
    BY <2>2 DEF OfflineLeave, RemoveFromPool
  <2>3. CASE OfflineReply(d)
    BY <2>3 DEF OfflineReply
  <2>4. CASE OnlinePool(d)
    BY <2>4 DEF OnlinePool, UpdatePosition
  <2> QED
    BY <2>1, <2>2, <2>3, <2>4 DEF ToggleStep
<1>7. ASSUME NEW d \in Drivers, up, DriverAction(d), UNCHANGED worldVars
      PROVE  SnapshotInStep'
  <2> USE <1>7
  <2>1. CASE Ping(d)
    BY <2>1 DEF Ping, UpdatePosition
  <2>2. CASE Connect(d)
    BY <2>2 DEF Connect
  <2>3. CASE Disconnect(d)
    BY <2>3 DEF Disconnect
  <2>4. CASE GrowStale(d)
    BY <2>4 DEF GrowStale, AgePosition
  <2>5. CASE GoOffline(d)
    BY <2>5 DEF GoOffline
  <2>6. CASE GoOnline(d)
    BY <2>6 DEF GoOnline
  <2> QED
    BY <2>1, <2>2, <2>3, <2>4, <2>5, <2>6 DEF DriverAction
<1>8. ASSUME NEW d \in Drivers, Expire(d), UNCHANGED processVars
      PROVE  SnapshotInStep'
  BY <1>8 DEF Expire, LapseLock
<1>9. CASE Crash
  BY <1>9 DEF Crash
<1>10. CASE Boot
  BY <1>10 DEF Boot, Reconcile
<1>11. CASE Flush
  BY <1>11 DEF Flush, FlushRedis
<1>12. CASE UNCHANGED vars
  BY <1>12 DEF vars, appVars
<1> QED
  BY <1>1, <1>2, <1>3, <1>4, <1>5, <1>6, <1>7, <1>8, <1>9, <1>10, <1>11, <1>12
  DEF Next, RideNext, DriverNext

\* With a Redis that is flushed only while the process is down, the snapshot of
\* a trip under way says in_progress: no late write of the dispatch loop lands
\* on it, also after a restart, unless its driver found the ride by a reload.
THEOREM TripsKeepTheirSnapshot ==
    ASSUME "flushUp" \notin Env
    PROVE  PagesSpec => []SnapshotInStep
<1>1. Init => SnapshotInStep
  BY DEF Init, StoreInit, SnapshotInStep
<1>2. Wellformed /\ Audited /\ PagesType /\ Honest /\ SnapshotInStep
        /\ [PagesNext]_<<vars, pageVars>> => SnapshotInStep'
  BY SnapshotNext, PagesBase, EarlyGrows DEF Honest, TripsTold, pageVars
<1> QED
  BY <1>1, <1>2, HonestAlways, PTL DEF PagesSpec
=============================================================================
