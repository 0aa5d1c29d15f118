----------------------------- MODULE ScreenProofs -----------------------------
(***************************************************************************)
(* Theorems about what stays on the screens: the offer a driver looks at,  *)
(* and the open ride of a rider.                                           *)
(***************************************************************************)
EXTENDS PageProofs

----------------------------------------------------------------------------
(* What is sent.                                                            *)

\* What others than a loop send.
SmallTalk ==
    \/ NothingSent
    \/ \E to : \E what \in {"offer_expired", "status"}, r \in Rides, s \in Status :
            Send(to, what, r, s)

\* Offers, matches and the lack of drivers are announced by a loop only.
LEMMA WhatIsSent ==
    ASSUME Wellformed, PagesType, PagesNext
    PROVE  SmallTalk \/ \E r \in Rides : LoopOnline(r)
<1>1. /\ \A u \in Riders : u \in Page
      /\ \A d \in Drivers : d \in Page
  BY DEF Page
<1>2. Quiet \/ UNCHANGED inbox => SmallTalk
  BY DEF SmallTalk, NothingSent
<1>3. ASSUME NEW p \in Page,
             \/ inbox[p] # <<>> /\ inbox' = [inbox EXCEPT ![p] = Tail(@)]
             \/ inbox' = [inbox EXCEPT ![p] = <<>>]
      PROVE  SmallTalk
  BY <1>3 DEF SmallTalk, NothingSent
<1>4. ASSUME NEW r \in Rides, HandlerOnline(r)
      PROVE  SmallTalk
  <2>1. "in_progress" \in Status /\ status[r] \in Status
    BY DEF Status, Wellformed, TypeOK, StoreType
  <2> QED
    BY <1>2, <1>4, <2>1 DEF HandlerOnline, HandlerNews, SendStatus, SmallTalk
<1>5. ASSUME NEW r \in Rides, Fade(r)
      PROVE  SmallTalk
  BY <1>2, <1>5 DEF Fade
<1>6. ASSUME Unheard
      PROVE  SmallTalk
  BY <1>2, <1>6 DEF Unheard
<1>7. ASSUME NEW u \in Riders, PageStep(u)
      PROVE  SmallTalk
  BY <1>1, <1>2, <1>3, <1>7, PageAssumption
  DEF PageStep, PickPoints, ClickCancel, RiderHears, LoseNews, ReloadRider, Forget, ClickRequest, Ask
<1>8. ASSUME NEW d \in Drivers, ClickAnswer(d)
      PROVE  SmallTalk
  <2>1. "requested" \in Status /\ offer[d] \in Rides
    BY <1>8 DEF Status, ClickAnswer, PagesType
  <2>2. Send({d}, "offer_expired", offer[d], "requested") => SmallTalk
    BY <2>1 DEF SmallTalk
  <2> QED
    BY <1>2, <1>8, <2>2 DEF ClickAnswer, AcceptShown, RejectShown
<1>9. ASSUME NEW d \in Drivers, ClickJob(d) \/ DriverHears(d) \/ ReloadDriver(d)
      PROVE  SmallTalk
  BY <1>1, <1>2, <1>3, <1>9 DEF ClickJob, DriverHears, ReloadDriver, Forget, Ask
<1>10. ASSUME NEW c \in calls, RiderReads(c) \/ DriverReads(c) \/ LoseReply(c)
       PROVE  SmallTalk
  BY <1>2, <1>10 DEF RiderReads, DriverReads, LoseReply
<1> QED
  BY <1>4, <1>5, <1>6, <1>7, <1>8, <1>9, <1>10, PageAssumption DEF PagesNext, PageStep, Page

----------------------------------------------------------------------------
(* The offer on the screen.                                                 *)

\* The loop of r waits for the answer of d.
Awaits(r, d) == At(r, "wait") /\ cand[r] = d

\* An offer is open, or its time is up.
Stands(r, d) == Awaits(r, d) \/ TimeUp(r, d)

OfferAt(d, i) == i \in 1..Len(inbox[d]) /\ inbox[d][i].what = "offer"

\* Every offer to d stands, and is in one place: on his screen, or under way to
\* him.  Offers whose time is up may pile up.
OneOffer(d) ==
    /\ offer[d] # NoRide => Stands(offer[d], d)
    /\ \A i \in Nat : OfferAt(d, i) =>
        /\ Stands(inbox[d][i].ride, d)
        /\ offer[d] # inbox[d][i].ride
        /\ \A j \in Nat : OfferAt(d, j) /\ inbox[d][j].ride = inbox[d][i].ride => j = i

OffersStand == \A d \in Drivers : OneOffer(d)

\* What is under way to d gets fewer, or a message that is no offer.
NoNewOffer(d) ==
    \/ inbox'[d] \in {<<>>, inbox[d]}
    \/ inbox[d] # <<>> /\ inbox'[d] = Tail(inbox[d])
    \/ \E m \in News : m.what # "offer" /\ inbox'[d] = Append(inbox[d], m)

\* Nobody answers for the driver: an offer that stands goes on standing.
KeepStanding == \A s \in Rides, d \in Drivers : Stands(s, d) => Stands(s, d)'

\* Where a loop is cut short.
CutShort == {"failed", "tellNone", "over"}

\* A step of a loop moves that loop only, and not if it waits.
LEMMA LoopSteps ==
    ASSUME Wellformed, NEW r \in Rides, LoopStep(r)
    PROVE  /\ pc[r] # "wait"
           /\ \A s \in Rides \ {r} : pc'[s] = pc[s] /\ cand'[s] = cand[s]
           /\ At(r, "send") => UNCHANGED <<cand, connected>> /\ (cand[r] \in connected => pc'[r] = "wait")
           /\ pc[r] = "timeout" => CloseOffer(r)
           /\ pc[r] \in CutShort => pc'[r] \in CutShort
           /\ UNCHANGED faults
<1> USE DEF Wellformed, TypeOK, DispatchType, CutShort, At, Goto, Continue, LocalStep, RedisStep, StoreStep, OfferStep
<1>1. CASE \E d \in Drivers : PickCandidate(r, d)
  BY <1>1 DEF PickCandidate
<1>2. CASE RunOut(r) \/ ClaimDriver(r) \/ LoseClaim(r) \/ ClaimUnsafely(r) \/ LeavePool(r)
  BY <1>2 DEF RunOut, ClaimDriver, LoseClaim, ClaimUnsafely, LeavePool
<1>3. CASE RecordLost(r) \/ LetGoAbsent(r) \/ RepoolAbsent(r) \/ RecordAbsent(r) \/ RecordOffer(r)
  BY <1>3 DEF RecordLost, LetGoAbsent, RepoolAbsent, RecordAbsent, RecordOffer
<1>4. CASE SendOffer(r)
  BY <1>4 DEF SendOffer
<1>5. CASE ResolveAccept(r) \/ CloseOffer(r) \/ RefuseUnlock(r) \/ RefusePool(r)
  BY <1>5 DEF ResolveAccept, CloseOffer, RefuseUnlock, RefusePool
<1>6. CASE CommitMatch(r) \/ RefuseMatch(r) \/ HoldForRide(r) \/ PointAtRide(r)
  BY <1>6 DEF CommitMatch, RefuseMatch, HoldForRide, PointAtRide
<1>7. CASE CacheMatch(r) \/ TellMatched(r) \/ UndoUnlock(r) \/ UndoPointer(r)
           \/ MarkNoDrivers(r) \/ TellNoDrivers(r)
  BY <1>7 DEF CacheMatch, TellMatched, UndoUnlock, UndoPointer, MarkNoDrivers, TellNoDrivers, Finish
<1> QED
  BY <1>1, <1>2, <1>3, <1>4, <1>5, <1>6, <1>7 DEF LoopStep

\* Calls of Postgres that have failed have failed.
LEMMA FaultsGrow ==
    ASSUME Wellformed, [Next]_vars, faults' = 0
    PROVE  faults = 0
<1> USE DEF Wellformed, TypeOK, DispatchType, dispatchVars
<1>1. ASSUME NEW r \in Rides, Loop(r)
      PROVE  UNCHANGED faults
  BY <1>1, LoopSteps DEF Loop
<1>2. ASSUME NEW r \in Rides, Handler(r)
      PROVE  UNCHANGED faults
  BY <1>2
  DEF Handler, HandlerStep, CacheNewRide, CacheStarted, CloseUnlock, ClosePointer, CloseDropFirst,
      ClosePool, CloseDrop, CloseStep, Broadcast, RedisStep
<1>3. ASSUME NEW r \in Rides, RiderAction(r) \/ DriverRideAction(r)
      PROVE  UNCHANGED faults
  BY <1>3
  DEF RiderAction, RequestRide, CancelRide, DriverRideAction, AcceptOffer, RejectOffer, StartRide,
      CompleteRide, StoreStep, OfferStep
<1>4. ASSUME NEW r \in Rides, Timeout(r) \/ Fault(r)
      PROVE  faults = 0
  BY <1>4 DEF Timeout, OfferTimeout, OfferStep, Fault, FailStore, LoseCommitReply
<1>5. ASSUME NEW d \in Drivers, DriverNext(d)
      PROVE  UNCHANGED faults
  BY <1>5
  DEF DriverNext, Toggling, ToggleStep, OfflineUpdate, OfflineLeave, OfflineReply, OnlinePool,
      DriverAction, Ping, Connect, Disconnect, GrowStale, GoOffline, GoOnline, Expire, NoRideStep
<1>6. CASE Crash \/ Boot \/ Flush \/ UNCHANGED vars
  BY <1>6 DEF Crash, Boot, Flush, vars, appVars
<1> QED
  BY <1>1, <1>2, <1>3, <1>4, <1>5, <1>6 DEF Next, RideNext

\* Calls of Postgres that have failed and crashes are not forgotten.
LEMMA TroublesGrow ==
    ASSUME Wellformed, [Next]_vars
    PROVE  (faults > 0 => faults' > 0) /\ (crashes > 0 => crashes' > 0)
<1>1. Wellformed'
  BY WellformedNext
<1>2. faults > 0 => faults' > 0
  BY <1>1, FaultsGrow DEF Wellformed, TypeOK, DispatchType
<1>3. crashes > 0 => crashes' > 0
  <2>1. CASE Crash
    BY <2>1 DEF Crash, Wellformed, TypeOK
  <2>2. CASE Boot \/ Flush \/ UNCHANGED vars
    BY <2>2 DEF Boot, Flush, vars, worldVars, processVars
  <2>3. CASE UNCHANGED crashes
    BY <2>3
  <2>4. ASSUME NEW r \in Rides, RideNext(r)
        PROVE  UNCHANGED crashes
    BY <2>4 DEF RideNext, Loop, Handler, worldVars, processVars
  <2>5. ASSUME NEW d \in Drivers, DriverNext(d)
        PROVE  UNCHANGED crashes
    BY <2>5 DEF DriverNext, Toggling, worldVars, processVars
  <2> QED
    BY <2>1, <2>2, <2>3, <2>4, <2>5 DEF Next
<1> QED
  BY <1>2, <1>3

\* An offer that is recorded as timed out, or left open by a loop cut short,
\* stays so.
LEMMA RowsSettle ==
    ASSUME Wellformed, Audited, [Next]_vars, NEW r \in Rides, NEW d \in Drivers
    PROVE  /\ offers[r][d] = "timeout" => offers'[r][d] = "timeout"
           /\ offers[r][d] = "pending" /\ pc[r] \in CutShort => offers'[r][d] = "pending"
<1>1. CASE UNCHANGED offers
  BY <1>1
<1>2. ASSUME NEW s \in Rides, NEW response, WriteOffer(s, cand[s], response),
             pc[s] \in {"lost", "absentRecord", "claimed", "accepted", "rejected", "timeout"}
      PROVE  /\ offers[r][d] = "timeout" => offers'[r][d] = "timeout"
             /\ offers[r][d] = "pending" /\ pc[r] \in CutShort => offers'[r][d] = "pending"
  <2>1. offers[s][cand[s]] \in {"none", "pending"} /\ cand[s] \in Drivers
    BY <1>2 DEF Audited, OfferFollowsLoop, Wellformed, CandidateBound, HasCandidate, Label
  <2>2. CASE r = s
    BY <1>2, <2>1, <2>2 DEF WriteOffer, CutShort, Wellformed, TypeOK, StoreType
  <2>3. CASE r # s
    BY <1>2, <2>3 DEF WriteOffer, Wellformed, TypeOK, StoreType
  <2> QED
    BY <2>2, <2>3
<1>3. ASSUME NEW s \in Rides, StoreStepOf(s)
      PROVE  \/ UNCHANGED offers
             \/ /\ pc[s] \in {"lost", "absentRecord", "claimed", "accepted", "rejected", "timeout"}
                /\ \E response : WriteOffer(s, cand[s], response)
  BY <1>3 DEF StoreStepOf, InsertRide, MatchRide, MoveRide, MoveRideIfStill, At
<1>4. UNCHANGED storeVars \/ \E s \in Rides : StoreStepOf(s)
  BY StoreSteps
<1> QED
  BY <1>1, <1>2, <1>3, <1>4 DEF storeVars

\* Where the loop of r may go that is neither moved by its driver nor still.
Forward(r) ==
    /\ \A d \in Drivers : Awaits(r, d) => Stands(r, d)'
    /\ pc[r] \in CutShort => pc'[r] \in CutShort
    /\ \A d \in Drivers : At(r, "timeout") /\ cand[r] = d => TimeUp(r, d)'

\* On its own the server takes loops forward: a wait ends when its time is up.
LEMMA UnaskedForward ==
    ASSUME Wellformed, Audited, [Next]_vars, Unasked, NEW s \in Rides
    PROVE  Forward(s)
<1>0. Wellformed' /\ (faults > 0 => faults' > 0) /\ (crashes > 0 => crashes' > 0)
  BY WellformedNext, TroublesGrow
<1> USE DEF At, Wellformed, TypeOK, DispatchType
<1>1. ASSUME UNCHANGED <<pc, cand>>
      PROVE  Forward(s)
  BY <1>1 DEF Forward, Stands, Awaits, TimeUp
<1>2. ASSUME NEW r \in Rides, Loop(r)
      PROVE  Forward(s)
  <2>0. LoopStep(r)
    BY <1>2 DEF Loop
  <2>1. CASE s # r
    <3>1. pc'[s] = pc[s] /\ cand'[s] = cand[s]
      BY <2>0, <2>1, LoopSteps
    <3> QED
      BY <3>1 DEF Forward, Stands, Awaits, TimeUp
  <2>2. CASE s = r
    <3>1. pc[s] # "wait" /\ (pc[s] \in CutShort => pc'[s] \in CutShort)
      BY <2>0, <2>2, LoopSteps
    <3>2. ASSUME NEW d \in Drivers, At(s, "timeout"), cand[s] = d
          PROVE  TimeUp(s, d)'
      <4>1. CloseOffer(s)
        BY <2>0, <2>2, <3>2, LoopSteps
      <4>2. offers'[s][d] = "timeout"
        BY <3>2, <4>1 DEF CloseOffer, WriteOffer, StoreType
      <4> QED
        BY <4>2 DEF TimeUp
    <3> QED
      BY <3>1, <3>2 DEF Forward, Awaits
  <2> QED
    BY <2>1, <2>2
<1>3. ASSUME NEW r \in Rides, Handler(r)
      PROVE  Forward(s)
  <2>1. CASE CacheNewRide(r)
    BY <2>1 DEF CacheNewRide, Goto, Forward, Stands, Awaits, TimeUp, CutShort
  <2>2. CASE ~CacheNewRide(r)
    BY <1>1, <1>3, <2>2
    DEF Handler, HandlerStep, CacheStarted, CloseUnlock, ClosePointer, CloseDropFirst,
        ClosePool, CloseDrop, CloseStep, Broadcast, loopVars, dispatchVars
  <2> QED
    BY <2>1, <2>2
<1>4. ASSUME NEW r \in Rides, Timeout(r)
      PROVE  Forward(s)
  BY <1>4 DEF Timeout, OfferTimeout, Waiting, Goto, Forward, Stands, Awaits, TimeUp, CutShort
<1>5. ASSUME NEW r \in Rides, Fault(r)
      PROVE  Forward(s)
  <2>1. /\ faults' = faults + 1 /\ pc' = [pc EXCEPT ![r] = "failed"] /\ UNCHANGED <<cand, offers>>
        /\ pc[r] # "wait"
    BY <1>5 DEF Fault, FailStore, LoseCommitReply, Goto, MatchRide, storeVars
  <2>2. ASSUME NEW d \in Drivers, At(s, "timeout"), cand[s] = d
        PROVE  TimeUp(s, d)'
    <3>1. offers[s][d] = "pending"
      BY <2>2 DEF Audited, OfferFollowsLoop
    <3> QED
      BY <2>1, <2>2, <3>1 DEF TimeUp
  <2>3. pc'[s] = IF s = r THEN "failed" ELSE pc[s]
    BY <2>1
  <2> QED
    BY <2>1, <2>2, <2>3 DEF Forward, Stands, Awaits, CutShort
<1>6. ASSUME NEW d \in Drivers, DriverNext(d)
      PROVE  UNCHANGED <<pc, cand>>
  BY <1>6
  DEF DriverNext, Toggling, ToggleStep, OfflineUpdate, OfflineLeave, OfflineReply, OnlinePool,
      DriverAction, Ping, Connect, Disconnect, GrowStale, GoOffline, GoOnline, Expire, NoRideStep,
      dispatchVars, loopVars
<1>7. CASE Crash
  <2>1. /\ pc'[s] = IF pc[s] = "off" THEN "off" ELSE "over"
        /\ crashes' = crashes + 1 /\ UNCHANGED offers
    BY <1>7 DEF Crash, storeVars
  <2>2. ASSUME NEW d \in Drivers, pc[s] \in {"wait", "timeout"}, cand[s] = d
        PROVE  TimeUp(s, d)'
    <3>1. offers[s][d] = "pending"
      BY <2>2 DEF Audited, OfferFollowsLoop, Waiting
    <3> QED
      BY <2>1, <2>2, <3>1 DEF TimeUp
  <2> QED
    BY <2>1, <2>2 DEF Forward, Stands, Awaits, CutShort
<1>8. CASE Boot \/ Flush
  BY <1>1, <1>8 DEF Boot, Flush, dispatchVars, loopVars
<1> QED
  BY <1>1, <1>2, <1>3, <1>4, <1>5, <1>6, <1>7, <1>8 DEF Unasked

\* Once its time is up, an offer stands whatever the loop of its ride does next.
LEMMA StandsOn ==
    ASSUME Wellformed, Audited, [Next]_vars, NEW s \in Rides, Forward(s), NEW d \in Drivers,
           Stands(s, d)
    PROVE  Stands(s, d)'
<1>1. (faults > 0 => faults' > 0) /\ (crashes > 0 => crashes' > 0)
  BY TroublesGrow
<1>2. CASE Awaits(s, d)
  BY <1>2 DEF Forward
<1>3. CASE At(s, "timeout") /\ cand[s] = d
  BY <1>3 DEF Forward, Stands
<1>4. CASE offers[s][d] = "timeout"
  BY <1>4, RowsSettle DEF Stands, TimeUp
<1>5. CASE offers[s][d] = "pending" /\ pc[s] \in CutShort /\ (faults > 0 \/ crashes > 0)
  <2>1. offers'[s][d] = "pending" /\ pc'[s] \in CutShort
    BY <1>5, RowsSettle DEF Forward
  <2> QED
    BY <1>1, <1>5, <2>1 DEF Stands, TimeUp, CutShort
<1> QED
  BY <1>2, <1>3, <1>4, <1>5 DEF Stands, TimeUp, CutShort

\* A message that offers is one that offers a ride.
LEMMA OfferType ==
    ASSUME PagesType, NEW d \in Drivers, NEW i \in Nat, OfferAt(d, i)
    PROVE  inbox[d][i] \in News /\ inbox[d][i].ride \in Rides
<1>1. inbox[d] \in Seq(News)
  BY DEF PagesType, Page
<1>2. inbox[d][i] \in News
  BY <1>1 DEF OfferAt
<1> QED
  BY <1>2 DEF News

\* An offer under way was under way before, at its place or one further on.
LEMMA OldIndex ==
    ASSUME PagesType, NEW d \in Drivers, NoNewOffer(d)
    PROVE  \E k \in {0, 1} : \A i \in Nat : OfferAt(d, i)' =>
                OfferAt(d, i + k) /\ inbox'[d][i] = inbox[d][i + k]
<1>1. inbox[d] \in Seq(News)
  BY DEF PagesType, Page
<1>2. CASE inbox'[d] \in {<<>>, inbox[d]}
  BY <1>2 DEF OfferAt
<1>3. CASE inbox[d] # <<>> /\ inbox'[d] = Tail(inbox[d])
  <2>1. ASSUME NEW i \in Nat, OfferAt(d, i)'
        PROVE  OfferAt(d, i + 1) /\ inbox'[d][i] = inbox[d][i + 1]
    BY <1>1, <1>3, <2>1 DEF OfferAt
  <2> QED
    BY <2>1
<1>4. CASE \E m \in News : m.what # "offer" /\ inbox'[d] = Append(inbox[d], m)
  <2>1. PICK m \in News : m.what # "offer" /\ inbox'[d] = Append(inbox[d], m)
    BY <1>4
  <2>2. ASSUME NEW i \in Nat, OfferAt(d, i)'
        PROVE  OfferAt(d, i + 0) /\ inbox'[d][i] = inbox[d][i + 0]
    BY <1>1, <2>1, <2>2 DEF OfferAt
  <2> QED
    BY <2>2
<1> QED
  BY <1>2, <1>3, <1>4 DEF NoNewOffer

\* A driver who hears of no new offer still has each of his in one place; the
\* one on his screen may go, and need not stand then.
LEMMA OldOffers ==
    ASSUME PagesType, NEW d \in Drivers, OneOffer(d), NEW gone \in Rides \cup {NoRide},
           \A s \in Rides \ {gone} : Stands(s, d) => Stands(s, d)',
           gone # NoRide => offer[d] = gone /\ offer'[d] = NoRide,
           offer'[d] \in {offer[d], NoRide},
           NoNewOffer(d)
    PROVE  OneOffer(d)'
<1>1. inbox[d] \in Seq(News)
  BY DEF PagesType, Page
<1>2. PICK k \in {0, 1} : \A i \in Nat : OfferAt(d, i)' =>
            OfferAt(d, i + k) /\ inbox'[d][i] = inbox[d][i + k]
  BY OldIndex
<1>3. ASSUME NEW i \in Nat, OfferAt(d, i)'
      PROVE  /\ Stands(inbox[d][i].ride, d)'
             /\ offer'[d] # inbox'[d][i].ride
             /\ \A j \in Nat : OfferAt(d, j)' /\ inbox'[d][j].ride = inbox'[d][i].ride => j = i
  <2>1. i + k \in Nat /\ OfferAt(d, i + k) /\ inbox'[d][i] = inbox[d][i + k]
    BY <1>2, <1>3
  <2>2. PICK s \in Rides : s = inbox[d][i + k].ride
    BY <2>1, OfferType
  <2>3. Stands(s, d) /\ offer[d] # s
    BY <2>1, <2>2 DEF OneOffer
  <2>4. Stands(s, d)'
    BY <2>3, NoRideAssumption
  <2>5. offer'[d] # s
    BY <2>3, NoRideAssumption
  <2>6. ASSUME NEW j \in Nat, OfferAt(d, j)', inbox'[d][j].ride = inbox'[d][i].ride
        PROVE  j = i
    <3>1. j + k \in Nat /\ OfferAt(d, j + k) /\ inbox'[d][j] = inbox[d][j + k]
      BY <1>2, <2>6
    <3>2. inbox[d][j + k].ride = inbox[d][i + k].ride
      BY <2>1, <2>6, <3>1
    <3>3. j + k = i + k
      BY <2>1, <3>1, <3>2 DEF OneOffer
    <3> QED
      BY <3>3
  <2> QED
    BY <2>1, <2>2, <2>4, <2>5, <2>6
<1>4. ASSUME offer'[d] # NoRide
      PROVE  Stands(offer[d], d)'
  <2>1. PICK s \in Rides : s = offer[d] /\ s = offer'[d] /\ s # gone
    BY <1>4 DEF PagesType
  <2>2. Stands(s, d)'
    BY <1>4, <2>1 DEF OneOffer
  <2> QED
    BY <2>1, <2>2
<1> QED
  BY <1>3, <1>4 DEF OneOffer

\* A driver who is offered a ride he was not offered before has it in one place.
LEMMA NewOffer ==
    ASSUME PagesType, NEW d \in Drivers, OneOffer(d), NEW r \in Rides, NEW m \in News,
           KeepStanding, ~Stands(r, d), Stands(r, d)', UNCHANGED offer,
           m.ride = r, inbox'[d] = Append(inbox[d], m)
    PROVE  OneOffer(d)'
<1>1. inbox[d] \in Seq(News) /\ Len(inbox[d]) \in Nat
  BY DEF PagesType, Page
<1>2. ASSUME NEW i \in Nat, OfferAt(d, i)'
      PROVE  \/ i = Len(inbox[d]) + 1 /\ inbox'[d][i] = m
             \/ i # Len(inbox[d]) + 1 /\ OfferAt(d, i) /\ inbox'[d][i] = inbox[d][i]
  BY <1>1, <1>2 DEF OfferAt
<1>3. ASSUME NEW i \in Nat, OfferAt(d, i)
      PROVE  inbox[d][i].ride \in Rides /\ inbox[d][i].ride # r
  BY <1>3, OfferType DEF OneOffer
<1>4. offer[d] # r
  BY NoRideAssumption DEF OneOffer
<1>5. ASSUME NEW i \in Nat, OfferAt(d, i)'
      PROVE  /\ Stands(inbox[d][i].ride, d)'
             /\ offer[d] # inbox'[d][i].ride
             /\ \A j \in Nat : OfferAt(d, j)' /\ inbox'[d][j].ride = inbox'[d][i].ride => j = i
  <2>1. CASE i = Len(inbox[d]) + 1 /\ inbox'[d][i] = m
    <3>1. \A j \in Nat : OfferAt(d, j)' /\ inbox'[d][j].ride = r => j = i
      BY <1>2, <1>3, <2>1
    <3> QED
      BY <1>4, <2>1, <3>1
  <2>2. CASE i # Len(inbox[d]) + 1 /\ OfferAt(d, i) /\ inbox'[d][i] = inbox[d][i]
    <3>1. PICK t \in Rides : t = inbox[d][i].ride /\ t # r
      BY <1>3, <2>2
    <3>2. Stands(t, d)'
      BY <2>2, <3>1 DEF OneOffer, KeepStanding
    <3>3. ASSUME NEW j \in Nat, OfferAt(d, j)', inbox'[d][j].ride = t
          PROVE  j = i
      <4>1. OfferAt(d, j) /\ inbox[d][j].ride = inbox[d][i].ride
        BY <1>2, <3>1, <3>3
      <4> QED
        BY <2>2, <4>1 DEF OneOffer
    <3>4. offer[d] # t
      BY <2>2, <3>1 DEF OneOffer
    <3> QED
      BY <2>2, <3>1, <3>2, <3>3, <3>4
  <2> QED
    BY <1>2, <1>5, <2>1, <2>2
<1>6. ASSUME offer[d] # NoRide
      PROVE  Stands(offer[d], d)'
  <2>1. PICK t \in Rides : t = offer[d]
    BY <1>6 DEF PagesType
  <2>2. Stands(t, d)'
    BY <1>6, <2>1 DEF OneOffer, KeepStanding
  <2> QED
    BY <2>1, <2>2
<1> QED
  BY <1>5, <1>6 DEF OneOffer

\* A driver who reads an offer has it on the screen, and no longer under way.
LEMMA ReadOffer ==
    ASSUME PagesType, NEW d \in Drivers, OneOffer(d), inbox[d] # <<>>, Head(inbox[d]).what = "offer",
           KeepStanding, inbox'[d] = Tail(inbox[d]), offer'[d] = Head(inbox[d]).ride
    PROVE  OneOffer(d)'
<1>1. inbox[d] \in Seq(News)
  BY DEF PagesType, Page
<1>2. OfferAt(d, 1) /\ inbox[d][1] = Head(inbox[d])
  BY <1>1 DEF OfferAt
<1>3. PICK t \in Rides : t = offer'[d] /\ t = inbox[d][1].ride
  BY <1>2, OfferType
<1>4. Stands(t, d)'
  BY <1>2, <1>3 DEF OneOffer, KeepStanding
<1>5. ASSUME NEW i \in Nat, OfferAt(d, i)'
      PROVE  OfferAt(d, i + 1) /\ inbox'[d][i] = inbox[d][i + 1] /\ i + 1 \in Nat /\ i + 1 # 1
  BY <1>1, <1>5 DEF OfferAt
<1>6. ASSUME NEW i \in Nat, OfferAt(d, i)'
      PROVE  /\ Stands(inbox[d][i].ride, d)'
             /\ offer'[d] # inbox'[d][i].ride
             /\ \A j \in Nat : OfferAt(d, j)' /\ inbox'[d][j].ride = inbox'[d][i].ride => j = i
  <2>1. OfferAt(d, i + 1) /\ inbox'[d][i] = inbox[d][i + 1] /\ i + 1 \in Nat /\ i + 1 # 1
    BY <1>5, <1>6
  <2>2. PICK q \in Rides : q = inbox[d][i + 1].ride
    BY <2>1, OfferType
  <2>3. Stands(q, d)'
    BY <2>1, <2>2 DEF OneOffer, KeepStanding
  <2>4. q # t
    BY <1>2, <1>3, <2>1, <2>2 DEF OneOffer
  <2>5. ASSUME NEW j \in Nat, OfferAt(d, j)', inbox'[d][j].ride = q
        PROVE  j = i
    <3>1. OfferAt(d, j + 1) /\ inbox'[d][j] = inbox[d][j + 1] /\ j + 1 \in Nat
      BY <1>5, <2>5
    <3>2. j + 1 = i + 1
      BY <2>1, <2>2, <2>5, <3>1 DEF OneOffer
    <3> QED
      BY <3>2
  <2> QED
    BY <1>3, <2>1, <2>2, <2>3, <2>4, <2>5
<1> QED
  BY <1>3, <1>4, <1>6 DEF OneOffer

\* Other news, and silence, are no offers.
LEMMA OtherNews ==
    ASSUME PagesType, NEW d \in Drivers,
           \/ SmallTalk
           \/ \E to : \E what \in Push \ {"offer"}, r \in Rides, s \in Status : Send(to, what, r, s)
    PROVE  NoNewOffer(d)
<1> USE DEF NoNewOffer, PagesType, Page
<1>1. CASE \E to : \E what \in Push \ {"offer"}, r \in Rides, s \in Status : Send(to, what, r, s)
  <2>0. PICK to : \E what \in Push \ {"offer"}, r \in Rides, s \in Status : Send(to, what, r, s)
    BY <1>1
  <2>1. PICK what \in Push \ {"offer"}, r \in Rides, s \in Status : Send(to, what, r, s)
    BY <2>0
  <2>2. PICK m : m = [what |-> what, ride |-> r, status |-> s]
    OBVIOUS
  <2>3. m \in News /\ m.what # "offer"
    BY <2>2 DEF News
  <2> QED
    BY <2>1, <2>2, <2>3 DEF Send
<1>2. CASE NothingSent
  BY <1>2 DEF NothingSent, Quiet
<1>3. SmallTalk => NothingSent \/ \E to : \E what \in Push \ {"offer"}, r \in Rides, s \in Status :
                                        Send(to, what, r, s)
  BY DEF SmallTalk, Push
<1> QED
  BY <1>1, <1>2, <1>3

\* The offer a loop makes is one its driver has not had before.
LEMMA LoopOffers ==
    ASSUME Wellformed, Audited, PagesType, KeepStanding,
           NEW r \in Rides, LoopOnline(r), NEW d \in Drivers, OneOffer(d)
    PROVE  OneOffer(d)'
<1>1. LoopStep(r) /\ LoopNews(r) /\ UNCHANGED offer
  BY DEF LoopOnline, Loop, screenVars
<1>2. {"requested", "matched", "no_drivers"} \subseteq Status
      /\ {"offer_expired", "matched", "no_drivers"} \subseteq Push \ {"offer"}
  BY DEF Status, Push
<1>3. ASSUME NoNewOffer(d)
      PROVE  OneOffer(d)'
  BY <1>1, <1>3, OldOffers DEF KeepStanding
<1>4. CASE At(r, "send")
  <2>1. Send({cand[r]}, "offer", r, "requested")
    BY <1>1, <1>4 DEF LoopNews, At
  <2>2. PICK m : m = [what |-> "offer", ride |-> r, status |-> "requested"]
    OBVIOUS
  <2>3. m \in News /\ m.ride = r
    BY <1>2, <2>2 DEF News, Push
  <2>4. CASE d = cand[r] /\ d \in connected'
    <3>1. offers[r][d] = "pending"
      BY <1>4, <2>4 DEF Audited, OfferFollowsLoop, At
    <3>2. ~Stands(r, d)
      BY <1>4, <3>1 DEF Stands, Awaits, TimeUp, At
    <3>3. Stands(r, d)'
      BY <1>1, <1>4, <2>4, LoopSteps DEF Stands, Awaits, At
    <3>4. inbox'[d] = Append(inbox[d], m)
      BY <2>1, <2>2, <2>4 DEF Send, Page
    <3> QED
      BY <1>1, <2>3, <3>2, <3>3, <3>4, NewOffer
  <2>5. CASE ~(d = cand[r] /\ d \in connected')
    BY <1>3, <2>1, <2>5 DEF Send, NoNewOffer, Page
  <2> QED
    BY <2>4, <2>5
<1>5. CASE ~At(r, "send")
  <2>1. \/ Quiet
        \/ \E to : \E what \in Push \ {"offer"}, s \in Status : Send(to, what, r, s)
    BY <1>1, <1>2, <1>5 DEF LoopNews
  <2> QED
    BY <1>3, <2>1, OtherNews DEF SmallTalk, NothingSent
<1> QED
  BY <1>4, <1>5

\* The answer of a driver may end the wait for him, and his offer is gone.
LEMMA AnswerTakesOffer ==
    ASSUME Wellformed, Audited, [Next]_vars, PagesType, OffersStand,
           NEW e \in Drivers, ClickAnswer(e), NEW d \in Drivers
    PROVE  OneOffer(d)'
<1>1. PICK r \in Rides : r = offer[e]
  BY DEF ClickAnswer, PagesType
<1>2. offer' = [offer EXCEPT ![e] = NoRide]
  BY DEF ClickAnswer, HideOffer
<1>3. /\ \A s \in Rides \ {r} : pc'[s] = pc[s] /\ cand'[s] = cand[s]
      /\ UNCHANGED <<pc, cand>> \/ (cand[r] = e /\ pc[r] \notin CutShort)
  BY <1>1
  DEF ClickAnswer, AcceptShown, RejectShown, AcceptOffer, RejectOffer, At, Goto, vars, appVars,
      dispatchVars, loopVars, CutShort, Wellformed, TypeOK, DispatchType
<1>4. Quiet \/ UNCHANGED inbox \/ Send({e}, "offer_expired", r, "requested")
  BY <1>1 DEF ClickAnswer, AcceptShown, RejectShown
<1>5. NoNewOffer(d)
  <2>1. "offer_expired" \in Push \ {"offer"} /\ "requested" \in Status
    BY DEF Push, Status
  <2> QED
    BY <1>4, <2>1, OtherNews DEF SmallTalk, NothingSent
<1>6. ASSUME NEW s \in Rides, pc'[s] = pc[s], cand'[s] = cand[s], Stands(s, d)
      PROVE  Stands(s, d)'
  <2>1. Forward(s)
    BY <1>6 DEF Forward, Stands, Awaits, TimeUp, At
  <2> QED
    BY <1>6, <2>1, StandsOn
<1>7. CASE d = e
  <2>1. offer'[d] = NoRide
    BY <1>2, <1>7 DEF PagesType
  <2>2. \A s \in Rides \ {r} : Stands(s, d) => Stands(s, d)'
    BY <1>3, <1>6
  <2> QED
    BY <1>1, <1>5, <1>7, <2>1, <2>2, OldOffers DEF OffersStand
<1>8. CASE d # e
  <2>1. offer'[d] = offer[d]
    BY <1>2, <1>8 DEF PagesType
  <2>2. Stands(r, d) => Stands(r, d)'
    <3>1. CASE UNCHANGED <<pc, cand>>
      BY <1>6, <3>1
    <3>2. CASE cand[r] = e /\ pc[r] \notin CutShort
      <4>1. Stands(r, d) => offers[r][d] = "timeout"
        BY <1>8, <3>2 DEF Stands, Awaits, TimeUp, CutShort
      <4> QED
        BY <4>1, RowsSettle DEF Stands, TimeUp
    <3> QED
      BY <1>3, <3>1, <3>2
  <2>3. \A s \in Rides : Stands(s, d) => Stands(s, d)'
    BY <1>3, <1>6, <2>2
  <2> QED
    BY <1>5, <2>1, <2>3, OldOffers DEF OffersStand
<1> QED
  BY <1>7, <1>8

\* Every step of the server or of a page keeps each offer in one place.
LEMMA OffersNext ==
    ASSUME Wellformed, Audited, PagesType, OffersStand, PagesNext
    PROVE  OffersStand'
<1>1. [Next]_vars
  BY PagesStep
<1> DEFINE Goal == \A d \in Drivers : OneOffer(d)'
           Hidden == \A d \in Drivers : offer'[d] \in {offer[d], NoRide}
<1>2. (\A s \in Rides : Forward(s)) => KeepStanding
  BY <1>1, StandsOn DEF KeepStanding
<1>3. Unasked => KeepStanding
  BY <1>1, <1>2, UnaskedForward
<1>4. UNCHANGED <<pc, cand>> => KeepStanding
  BY <1>2 DEF Forward, Stands, Awaits, TimeUp, At
<1>5. UNCHANGED vars \/ UNCHANGED dispatchVars => KeepStanding
  BY <1>4 DEF vars, appVars, dispatchVars, loopVars
<1>6. ASSUME NEW r \in Rides, LoopOnline(r)
      PROVE  Goal
  <2>1. KeepStanding
    BY <1>3, <1>6 DEF LoopOnline, Unasked
  <2> QED
    BY <1>6, <2>1, LoopOffers DEF OffersStand
<1>7. ASSUME SmallTalk, KeepStanding, Hidden
      PROVE  Goal
  BY <1>7, OtherNews, OldOffers DEF KeepStanding, OffersStand
<1>8. UNCHANGED offer \/ (\E d : HideOffer(d)) => Hidden
  BY DEF HideOffer, PagesType
<1> HIDE DEF Hidden
<1>9. SUFFICES ASSUME SmallTalk
               PROVE  Goal
  BY <1>6, WhatIsSent DEF OffersStand
<1>10. ASSUME NEW r \in Rides, HandlerOnline(r)
       PROVE  Goal
  BY <1>3, <1>7, <1>8, <1>9, <1>10 DEF HandlerOnline, Unasked, screenVars
<1>11. ASSUME NEW r \in Rides, Fade(r)
       PROVE  Goal
  BY <1>5, <1>7, <1>8, <1>9, <1>11 DEF Fade
<1>12. ASSUME Unheard
       PROVE  Goal
  <2>1. Unasked /\ UNCHANGED offer
    BY <1>12 DEF Unheard, Unasked, Drop
  <2> QED
    BY <1>3, <1>7, <1>8, <1>9, <2>1
<1>13. ASSUME NEW u \in Riders, PickPoints(u) \/ LoseNews(u) \/ RiderHears(u) \/ ReloadRider(u)
       PROVE  Goal
  BY <1>5, <1>7, <1>8, <1>9, <1>13
  DEF PickPoints, LoseNews, RiderHears, ReloadRider, Forget, screenVars
<1>14. ASSUME NEW u \in Riders, ClickCancel(u)
       PROVE  Goal
  BY <1>5, <1>7, <1>8, <1>9, <1>14 DEF ClickCancel, CancelRide, screenVars
<1>15. ASSUME NEW u \in Riders, NEW r \in Rides, ClickRequest(u, r)
       PROVE  Goal
  <2>1. \A s \in Rides : Forward(s)
    BY <1>15
    DEF ClickRequest, RequestRide, Goto, At, Wellformed, TypeOK, DispatchType, Forward, Stands,
        Awaits, TimeUp, CutShort
  <2> QED
    BY <1>2, <1>7, <1>8, <1>9, <1>15, <2>1 DEF ClickRequest
<1>16. ASSUME NEW d \in Drivers, ClickAnswer(d)
       PROVE  Goal
  BY <1>1, <1>16, AnswerTakesOffer
<1>17. ASSUME NEW d \in Drivers, ClickJob(d)
       PROVE  Goal
  BY <1>5, <1>7, <1>8, <1>9, <1>17 DEF ClickJob, StartRide, CompleteRide, screenVars
<1>18. ASSUME NEW d \in Drivers, DriverHears(d)
       PROVE  Goal
  <2>1. KeepStanding /\ inbox[d] # <<>> /\ inbox' = [inbox EXCEPT ![d] = Tail(@)]
    BY <1>5, <1>18 DEF DriverHears
  <2>2. CASE HearOffer(d, Head(inbox[d]))
    <3>1. ASSUME NEW e \in Drivers \ {d}
          PROVE  inbox'[e] = inbox[e] /\ offer'[e] = offer[e]
      BY <2>1, <2>2 DEF HearOffer, PagesType, Page
    <3>2. ASSUME NEW e \in Drivers \ {d}
          PROVE  OneOffer(e)'
      BY <2>1, <3>1, OldOffers DEF OffersStand, KeepStanding, NoNewOffer
    <3>3. inbox'[d] = Tail(inbox[d]) /\ offer'[d] = Head(inbox[d]).ride
          /\ Head(inbox[d]).what = "offer"
      BY <2>1, <2>2 DEF HearOffer, PagesType, Page
    <3> QED
      BY <2>1, <3>2, <3>3, ReadOffer DEF OffersStand
  <2>3. CASE ~HearOffer(d, Head(inbox[d]))
    <3>1. Hidden
      BY <1>18, <2>3
      DEF DriverHears, HearExpired, HearAssigned, HearJobStatus, HideOffer, PagesType, Hidden
    <3> QED
      BY <1>7, <1>9, <2>1, <3>1
  <2> QED
    BY <2>2, <2>3
<1>19. ASSUME NEW c \in calls, RiderReads(c) \/ DriverReads(c) \/ LoseReply(c)
       PROVE  Goal
  BY <1>5, <1>7, <1>8, <1>9, <1>19 DEF RiderReads, DriverReads, LoseReply, Drop
<1>20. ASSUME NEW d \in Drivers, ReloadDriver(d)
       PROVE  Goal
  BY <1>5, <1>7, <1>8, <1>9, <1>20 DEF ReloadDriver, Forget
<1> QED
  BY <1>6, <1>10, <1>11, <1>12, <1>13, <1>14, <1>15, <1>16, <1>17, <1>18, <1>19, <1>20
  DEF OffersStand, PagesNext, PageStep

\* With the lock in force the offer a driver looks at is open and made to him,
\* or its time is up; and while it is open he is locked for it and free, unless
\* a hold has come loose: whatever the pages show and click, and whatever is
\* late, lost with a socket, reloaded, flushed or started again.
THEOREM OffersOnScreenHold ==
    ASSUME ~UnsafeDisableLock
    PROVE  PagesSpec => []OfferOnScreenIsHis
<1>1. Init /\ PagesInit => OffersStand
  BY DEF Init, PagesInit, OffersStand, OneOffer, OfferAt, Page
<1>2. Wellformed /\ Audited /\ PagesType /\ OffersStand /\ [PagesNext]_<<vars, pageVars>>
        => OffersStand'
  <2> SUFFICES ASSUME OffersStand, UNCHANGED <<vars, pageVars>>
               PROVE  OffersStand'
    BY OffersNext
  <2> QED
    BY DEF OffersStand, OneOffer, OfferAt, Stands, Awaits, TimeUp, At, vars, appVars, storeVars,
           dispatchVars, loopVars, worldVars, processVars, pageVars, screenVars
<1>3. Wellformed /\ Audited /\ Guarded /\ PagesType /\ OffersStand => OfferOnScreenIsHis
  <2> SUFFICES ASSUME Wellformed, Audited, Guarded, PagesType, OffersStand,
                      NEW d \in Drivers, NEW r \in Rides, offer[d] = r, ~TimeUp(r, d)
               PROVE  /\ At(r, "wait") /\ cand[r] = d
                      /\ \/ lock[d] = r /\ \A s \in LiveRidesOf(d) : <<s, d>> \in loose
                         \/ <<r, d>> \in loose
    BY DEF OfferOnScreenIsHis, PagesType
  <2>1. At(r, "wait") /\ cand[r] = d
    BY NoRideAssumption DEF OffersStand, OneOffer, Stands, Awaits
  <2>2. CASE <<r, d>> \notin loose
    <3>1. up /\ pc[r] \in Claiming
      BY <2>1 DEF Guarded, DownIsIdle, At, Claiming, Waiting
    <3>2. lock[d] = r
      BY <2>1, <2>2, <3>1 DEF Guarded, LoopOwnsLock
    <3>3. ASSUME NEW s \in LiveRidesOf(d)
          PROVE  <<s, d>> \in loose
      BY <2>1, <2>2, <3>1, <3>3, GuardedClaims DEF ClaimedIsFree
    <3> QED
      BY <2>1, <3>2, <3>3
  <2> QED
    BY <2>1, <2>2
<1> QED
  BY <1>1, <1>2, <1>3, TrailAlways, GuardedAlways, PagesUseServer, PagesTypeCorrect, PTL
  DEF PagesSpec
----------------------------------------------------------------------------
(* The open ride of a rider.                                                *)

\* r was p's, and has ended.
Ended(p, r) == RiderOf[r] = p /\ status[r] \in Closed

\* What tells a rider that there is no driver, the timers of his page and the
\* replies to his cancellations are all about rides of his that have ended.
InboxEnds == \A p \in Page : \A i \in 1..Len(inbox[p]) :
    inbox[p][i].what = "no_drivers" => Ended(p, inbox[p][i].ride)

TimersEnd == \A r \in fading : status[r] \in Closed

CancelsEnd == \A c \in calls : c.do = "cancel" => Ended(c.by, c.ride)

OldNews == (faults = 0 => InboxEnds) /\ TimersEnd /\ CancelsEnd

\* Only drivers complete rides.
CompletesByDrivers == \A c \in calls : c.do = "complete" => c.by \in Drivers

ClosedStays == \A r \in Rides : status[r] \in Closed => status'[r] \in Closed

\* Whatever is added to the inboxes is true.
LEMMA EndsKeep ==
    ASSUME PagesType, InboxEnds, ClosedStays,
           \A p \in Page : \A i \in 1..Len(inbox'[p]) :
               \/ Older(p, i)
               \/ inbox'[p][i].what = "no_drivers" => Ended(p, inbox[p][i].ride)'
    PROVE  InboxEnds'
<1> USE DEF Older
<1> SUFFICES ASSUME NEW p \in Page, NEW i \in 1..Len(inbox'[p]), inbox'[p][i].what = "no_drivers",
                    NEW j \in 1..Len(inbox[p]), inbox'[p][i] = inbox[p][j]
             PROVE  Ended(p, inbox[p][i].ride)'
  BY DEF InboxEnds
<1>1. inbox[p][j] \in News
  BY DEF PagesType
<1>2. PICK r \in Rides : r = inbox[p][j].ride
  BY <1>1 DEF News
<1>3. Ended(p, r)
  BY <1>2 DEF InboxEnds
<1> QED
  BY <1>2, <1>3 DEF Ended, ClosedStays

\* A loop that tells a rider that there is no driver has closed his ride.
LEMMA LoopEnds ==
    ASSUME Wellformed, Audited, TellsTruth, faults = 0, PagesType, InboxEnds, ClosedStays,
           SmallTalk \/ \E r \in Rides : LoopOnline(r)
    PROVE  InboxEnds'
<1>1. ASSUME NothingSent
      PROVE  InboxEnds'
  BY <1>1, QuietAdds, EndsKeep DEF Older
<1>2. ASSUME NEW to, NEW what \in Push, NEW r \in Rides, NEW s \in Status, Send(to, what, r, s),
             what = "no_drivers" => to = {RiderOf[r]} /\ status[r] \in Closed
      PROVE  InboxEnds'
  <2>1. ASSUME NEW p \in Page, NEW i \in 1..Len(inbox'[p])
        PROVE  \/ Older(p, i)
               \/ inbox'[p][i].what = "no_drivers" => Ended(p, inbox[p][i].ride)'
    <3>1. \/ Older(p, i)
          \/ p \in to /\ inbox'[p][i] = [what |-> what, ride |-> r, status |-> s]
      BY <1>2, SendAdds
    <3>2. CASE p \in to /\ inbox'[p][i] = [what |-> what, ride |-> r, status |-> s]
      BY <1>2, <3>2 DEF Ended, ClosedStays
    <3> QED
      BY <3>1, <3>2
  <2> QED
    BY <2>1, EndsKeep
<1>3. ASSUME SmallTalk
      PROVE  InboxEnds'
  <2>1. ASSUME NEW to, NEW what \in {"offer_expired", "status"}, NEW r \in Rides, NEW s \in Status,
               Send(to, what, r, s)
        PROVE  InboxEnds'
    <3>1. what \in Push /\ what # "no_drivers"
      BY DEF Push
    <3> QED
      BY <1>2, <2>1, <3>1
  <2> QED
    BY <1>1, <1>3, <2>1 DEF SmallTalk
<1>4. ASSUME NEW r \in Rides, LoopOnline(r)
      PROVE  InboxEnds'
  <2>1. {"requested", "matched", "no_drivers"} \subseteq Status
        /\ {"offer", "offer_expired", "matched", "no_drivers"} \subseteq Push
    BY DEF Status, Push
  <2>2. LoopNews(r)
    BY <1>4 DEF LoopOnline
  <2>3. CASE At(r, "tellNone")
    <3>1. status[r] \in Closed
      BY <2>3 DEF TellsTruth, Closed
    <3>2. Send({RiderOf[r]}, "no_drivers", r, "no_drivers")
      BY <2>2, <2>3 DEF LoopNews, At
    <3> QED
      BY <1>2, <2>1, <3>1, <3>2
  <2>4. CASE ~At(r, "tellNone")
    <3>1. \/ Send({cand[r]}, "offer", r, "requested")
          \/ Send({cand[r]}, "offer_expired", r, "requested")
          \/ Send({RiderOf[r], cand[r]}, "matched", r, "matched")
          \/ Quiet
      BY <2>2, <2>4 DEF LoopNews
    <3> QED
      BY <1>1, <1>2, <2>1, <3>1 DEF NothingSent
  <2> QED
    BY <2>3, <2>4
<1> QED
  BY <1>3, <1>4

\* A step that adds a call adds one of a rider's, or a driver's.
LEMMA CompletesNext ==
    ASSUME CompletesByDrivers, PagesNext
    PROVE  CompletesByDrivers'
<1>1. calls' \subseteq calls => CompletesByDrivers'
  BY DEF CompletesByDrivers
<1>2. ASSUME NEW p, NEW do, NEW r, Ask(p, do, r), do = "complete" => p \in Drivers
      PROVE  CompletesByDrivers'
  BY <1>2 DEF Ask, CompletesByDrivers
<1>3. ASSUME NEW r \in Rides, LoopOnline(r) \/ HandlerOnline(r) \/ Fade(r)
      PROVE  CompletesByDrivers'
  BY <1>1, <1>3 DEF LoopOnline, HandlerOnline, Fade, screenVars
<1>4. ASSUME Unheard
      PROVE  CompletesByDrivers'
  BY <1>1, <1>4 DEF Unheard, Drop
<1>5. ASSUME NEW u \in Riders, PickPoints(u) \/ LoseNews(u) \/ ReloadRider(u) \/ RiderHears(u)
      PROVE  CompletesByDrivers'
  BY <1>1, <1>5 DEF PickPoints, LoseNews, ReloadRider, Forget, RiderHears, screenVars
<1>6. ASSUME NEW u \in Riders, ClickCancel(u) \/ \E r \in Rides : ClickRequest(u, r)
      PROVE  CompletesByDrivers'
  BY <1>2, <1>6 DEF ClickCancel, ClickRequest
<1>7. ASSUME NEW d \in Drivers, ClickAnswer(d) \/ DriverHears(d) \/ ReloadDriver(d)
      PROVE  CompletesByDrivers'
  BY <1>1, <1>7 DEF ClickAnswer, DriverHears, ReloadDriver, Forget
<1>8. ASSUME NEW d \in Drivers, ClickJob(d)
      PROVE  CompletesByDrivers'
  BY <1>2, <1>8 DEF ClickJob
<1>9. ASSUME NEW c \in calls, RiderReads(c) \/ DriverReads(c) \/ LoseReply(c)
      PROVE  CompletesByDrivers'
  BY <1>1, <1>9 DEF RiderReads, DriverReads, LoseReply, Drop
<1> QED
  BY <1>3, <1>4, <1>5, <1>6, <1>7, <1>8, <1>9 DEF PagesNext, PageStep

\* Every step of the server or of a page keeps the news about ends true.
LEMMA OldNewsNext ==
    ASSUME Wellformed, Audited, PagesType, TellsTruth, InboxTold, ViewTold, OldNews, PagesNext
    PROVE  OldNews'
<1> DEFINE Goal == TimersEnd' /\ CancelsEnd'
<1>1. [Next]_vars
  BY PagesStep
<1>2. ClosedStays
  BY <1>1, StoreMono DEF ClosedStays
<1>3. faults' = 0 => InboxEnds'
  BY <1>1, <1>2, FaultsGrow, WhatIsSent, LoopEnds DEF OldNews
<1>4. fading' \subseteq fading => TimersEnd'
  BY <1>2 DEF OldNews, TimersEnd, ClosedStays, PagesType
<1>5. ASSUME \A c \in calls' : c \in calls \/ c.do # "cancel"
      PROVE  CancelsEnd'
  BY <1>2, <1>5 DEF OldNews, CancelsEnd, ClosedStays, PagesType, Call, Ended
<1>6. calls' \subseteq calls => CancelsEnd'
  BY <1>5
<1>7. ASSUME NEW p, NEW do \in {"request", "start", "complete"}, NEW r, Ask(p, do, r)
      PROVE  CancelsEnd'
  BY <1>5, <1>7 DEF Ask
<1>8. ASSUME NEW r \in Rides, LoopOnline(r) \/ HandlerOnline(r) \/ Fade(r)
      PROVE  Goal
  BY <1>4, <1>6, <1>8 DEF LoopOnline, HandlerOnline, Fade, screenVars
<1>9. ASSUME Unheard
      PROVE  Goal
  <2>1. calls' \subseteq calls /\ UNCHANGED fading
    BY <1>9 DEF Unheard, Drop
  <2> QED
    BY <1>4, <1>6, <2>1
<1>10. ASSUME NEW u \in Riders, PickPoints(u) \/ LoseNews(u) \/ ReloadRider(u)
       PROVE  Goal
  BY <1>4, <1>6, <1>10 DEF PickPoints, LoseNews, ReloadRider, Forget, screenVars
<1>11. ASSUME NEW u \in Riders, RiderHears(u)
       PROVE  Goal
  <2>1. PICK m \in News : m = Head(inbox[u]) /\ NewsTold(u, m)
    <3>1. inbox[u] \in Seq(News) /\ inbox[u] # <<>> /\ u \in Page
      BY <1>11 DEF RiderHears, PagesType, Page
    <3>2. Head(inbox[u]) = inbox[u][1] /\ 1 \in 1..Len(inbox[u]) /\ Head(inbox[u]) \in News
      BY <3>1
    <3> QED
      BY <3>1, <3>2 DEF InboxTold
  <2>2. m.what = "status" /\ m.status \in {"completed", "cancelled"} => status[m.ride] \in Closed
    BY <2>1 DEF NewsTold, Told, Happened, Trip, Closed
  <2>3. TimersEnd'
    <3>1. ASSUME NEW r \in fading'
          PROVE  r \in Rides /\ status[r] \in Closed
      BY <1>11, <2>1, <2>2, <3>1
      DEF RiderHears, HearStatus, HearMatched, HearNoDrivers, OldNews, TimersEnd, PagesType, News
    <3> QED
      BY <1>2, <3>1 DEF TimersEnd, ClosedStays
  <2> QED
    BY <1>6, <1>11, <2>3 DEF RiderHears
<1>12. ASSUME NEW u \in Riders, ClickCancel(u)
       PROVE  Goal
  <2>1. PICK r \in Rides : r = view[u].ride
    BY <1>12, ShownIsRide DEF ClickCancel, Page
  <2>2. RiderOf[r] = u
    BY <1>12, <2>1 DEF ClickCancel, ViewTold, Told, Page
  <2>3. status'[r] = "cancelled"
    BY <1>12, <2>1 DEF ClickCancel, CancelRide, MoveRide, Wellformed, TypeOK, StoreType
  <2>4. calls' = calls \cup {[by |-> u, do |-> "cancel", ride |-> r]}
    BY <1>12, <2>1 DEF ClickCancel, Ask
  <2>5. ASSUME NEW c \in calls', c.do = "cancel"
        PROVE  Ended(c.by, c.ride)'
    <3>1. CASE c \in calls
      BY <1>2, <2>5, <3>1 DEF OldNews, CancelsEnd, ClosedStays, PagesType, Call, Ended
    <3>2. CASE c = [by |-> u, do |-> "cancel", ride |-> r]
      BY <2>2, <2>3, <3>2 DEF Ended, Closed
    <3> QED
      BY <2>4, <3>1, <3>2
  <2> QED
    BY <1>4, <1>12, <2>5 DEF ClickCancel, CancelsEnd, screenVars
<1>13. ASSUME NEW u \in Riders, NEW r \in Rides, ClickRequest(u, r)
       PROVE  Goal
  BY <1>4, <1>7, <1>13 DEF ClickRequest
<1>14. ASSUME NEW d \in Drivers, ClickAnswer(d) \/ DriverHears(d)
       PROVE  Goal
  BY <1>4, <1>6, <1>14 DEF ClickAnswer, DriverHears
<1>15. ASSUME NEW d \in Drivers, ClickJob(d)
       PROVE  Goal
  BY <1>4, <1>7, <1>15 DEF ClickJob, screenVars
<1>16. ASSUME NEW d \in Drivers, ReloadDriver(d)
       PROVE  Goal
  <2>1. calls' \subseteq calls /\ UNCHANGED fading
    BY <1>16 DEF ReloadDriver, Forget
  <2> QED
    BY <1>4, <1>6, <2>1
<1>17. ASSUME NEW c \in calls, RiderReads(c) \/ DriverReads(c) \/ LoseReply(c)
       PROVE  Goal
  BY <1>4, <1>6, <1>17 DEF RiderReads, DriverReads, LoseReply, Drop
<1> QED
  BY <1>3, <1>8, <1>9, <1>10, <1>11, <1>12, <1>13, <1>14, <1>15, <1>16, <1>17
  DEF OldNews, PagesNext, PageStep

\* The step takes from the page word of another ride of the rider, which has
\* ended.
Elsewhere(u, r) ==
    \E s \in Rides \ {r} : RiderOf[s] = u /\ status[s] \in Closed /\ Consumes(u, s)

\* Of the open ride a page lets go only on word of another one.
LEMMA HidesForAnother ==
    ASSUME Wellformed, Audited, OneOpenRide, PagesType, InboxTold, ViewTold, CallsTold, OldNews,
           CompletesByDrivers, PagesNext, faults = 0, NEW u \in Riders, NEW r \in Rides,
           view[u].ride = r, status[r] \in Open, view'[u].ride # r
    PROVE  Elsewhere(u, r)
<1>1. RiderOf[r] = u /\ u \in Page /\ u \notin Drivers
  <2>1. view[u] # Blank
    BY NoRideAssumption DEF Blank
  <2> QED
    BY <2>1, PageAssumption DEF ViewTold, Told, Page
<1>2. ASSUME NEW s \in Rides, s # r, RiderOf[s] = u, status[s] # "absent", Consumes(u, s)
      PROVE  Elsewhere(u, r)
  <2>1. status[s] \notin Open
    BY <1>1, <1>2 DEF OneOpenRide, OpenRidesOf
  <2>2. status[s] \in Closed
    BY <1>2, <2>1 DEF Wellformed, TypeOK, StoreType, Status, Open, Live, Closed
  <2> QED
    BY <1>2, <2>2 DEF Elsewhere
<1>3. ASSUME NEW s \in Rides, Ended(u, s), Consumes(u, s)
      PROVE  Elsewhere(u, r)
  <2>1. s # r
    BY <1>3 DEF Ended, Open, Live, Closed
  <2> QED
    BY <1>3, <2>1 DEF Ended, Elsewhere
<1>4. ASSUME NEW s \in Rides, NEW st, Told(u, s, st), s # r, Consumes(u, s)
      PROVE  Elsewhere(u, r)
  <2>1. RiderOf[s] = u
    BY <1>4 DEF Told
  <2>2. status[s] # "absent"
    BY <1>4 DEF Told, Happened, Trip, Audited, UnbookedUntilMatched
  <2> QED
    BY <1>2, <1>4, <2>1, <2>2
<1>5. UNCHANGED view => FALSE
  OBVIOUS
<1>6. ASSUME NEW p \in Page, view' = [view EXCEPT ![p] = Blank] \/ \E s, st : Show(p, s, st)
      PROVE  p = u
  BY <1>1, <1>6 DEF PagesType, Show
<1>7. ASSUME NEW s \in Rides, Fade(s)
      PROVE  Elsewhere(u, r)
  <2>1. RiderOf[s] = u
    BY <1>7, <1>6, RiderOfAssumption DEF Fade, ClearRide, Page
  <2>2. Ended(u, s)
    BY <1>7, <2>1 DEF Fade, OldNews, TimersEnd, Ended
  <2>3. Consumes(u, s)
    BY <1>7 DEF Fade, Consumes
  <2> QED
    BY <1>3, <2>2, <2>3
<1>8. ASSUME NEW v \in Riders, RiderHears(v)
      PROVE  Elsewhere(u, r)
  <2>1. v = u
    BY <1>6, <1>8 DEF RiderHears, HearStatus, HearMatched, HearNoDrivers, ClearRide, Page
  <2>2. PICK m \in News : /\ m = Head(inbox[u]) /\ NewsTold(u, m)
                          /\ m.what = "no_drivers" => Ended(u, m.ride)
    <3>1. inbox[u] \in Seq(News) /\ inbox[u] # <<>>
      BY <1>1, <1>8, <2>1 DEF RiderHears, PagesType
    <3>2. Head(inbox[u]) = inbox[u][1] /\ 1 \in 1..Len(inbox[u]) /\ Head(inbox[u]) \in News
      BY <3>1
    <3> QED
      BY <1>1, <3>2 DEF InboxTold, OldNews, InboxEnds
  <2>3. m.ride \in Rides /\ Consumes(u, m.ride)
    BY <1>1, <1>8, <2>1, <2>2 DEF News, RiderHears, Consumes, PagesType
  <2>4. CASE m.what = "no_drivers"
    BY <1>3, <2>2, <2>3, <2>4
  <2>5. CASE m.what \in {"matched", "status"} /\ Show(u, m.ride, m.status)
    <3>1. m.ride # r
      BY <1>1, <2>5 DEF Show, PagesType
    <3>2. PICK s \in Rides : s = m.ride
      BY <2>3
    <3>3. Told(u, s, m.status)
      BY <2>2, <2>5, <3>2 DEF NewsTold
    <3> QED
      BY <1>4, <2>3, <3>1, <3>2, <3>3
  <2> QED
    BY <1>8, <2>1, <2>2, <2>4, <2>5 DEF RiderHears, HearStatus, HearMatched, HearNoDrivers
<1>9. ASSUME NEW c \in calls, RiderReads(c)
      PROVE  Elsewhere(u, r)
  <2>1. c.ride \in Rides /\ c.by \in Page
    BY DEF PagesType, Call
  <2>2. c.by = u
    BY <1>6, <1>9, <2>1 DEF RiderReads, ClearRide
  <2>3. Consumes(u, c.ride)
    BY <1>9, <2>2 DEF RiderReads, Consumes
  <2>4. CASE c.do = "request" /\ Show(c.by, c.ride, "requested")
    <3>1. PICK s \in Rides : s = c.ride
      BY <2>1
    <3>2. s # r
      BY <1>1, <2>2, <2>4, <3>1 DEF Show, PagesType
    <3>3. Told(u, s, "requested")
      BY <2>2, <2>4, <3>1 DEF CallsTold
    <3> QED
      BY <1>4, <2>3, <3>1, <3>2, <3>3
  <2>5. CASE c.do = "cancel"
    BY <1>3, <2>1, <2>2, <2>3, <2>5 DEF OldNews, CancelsEnd
  <2> QED
    BY <1>9, <2>4, <2>5 DEF RiderReads
<1>10. ASSUME NEW v \in Riders, ReloadRider(v)
       PROVE  FALSE
  <2>1. v = u
    BY <1>6, <1>10 DEF ReloadRider, Restore, Page
  <2>2. r \in OpenRidesOf(u)
    BY <1>1 DEF OpenRidesOf
  <2>3. PICK s \in OpenRidesOf(u) : Show(u, s, status[s])
    BY <1>10, <2>1, <2>2 DEF ReloadRider, Restore
  <2>4. s = r
    BY <2>2, <2>3 DEF OneOpenRide
  <2> QED
    BY <1>1, <2>3, <2>4 DEF Show, PagesType
<1>11. ASSUME NEW d \in Drivers, ClickAnswer(d) \/ ClickJob(d) \/ DriverHears(d) \/ ReloadDriver(d)
       PROVE  FALSE
  <2>1. d # u /\ d \in Page
    BY <1>1 DEF Page
  <2>2. \/ UNCHANGED view
        \/ view' = [view EXCEPT ![d] = Blank]
        \/ \E s, st : Show(d, s, st)
    BY <1>11
    DEF ClickAnswer, ClickJob, screenVars, DriverHears, HearOffer, HearExpired, HearAssigned,
        HearJobStatus, ClearJob, ReloadDriver, Restore
  <2> QED
    BY <1>5, <1>6, <2>1, <2>2
<1>12. ASSUME NEW c \in calls, DriverReads(c)
       PROVE  FALSE
  <2>1. c.by = u /\ c.do \in {"start", "complete"}
    BY <1>6, <1>12 DEF DriverReads, ClearJob, PagesType, Call
  <2> QED
    BY <1>1, <2>1 DEF CallsTold, CompletesByDrivers
<1>13. ASSUME \/ Unheard
              \/ \E s \in Rides : LoopOnline(s) \/ HandlerOnline(s)
              \/ \E v \in Riders : PickPoints(v) \/ ClickCancel(v) \/ LoseNews(v)
                                   \/ \E s \in Rides : ClickRequest(v, s)
              \/ \E c \in calls : LoseReply(c)
       PROVE  UNCHANGED view
  BY <1>13
  DEF Unheard, Drop, LoopOnline, HandlerOnline, PickPoints, ClickCancel, LoseNews, ClickRequest,
      LoseReply, screenVars
<1> QED
  BY <1>5, <1>7, <1>8, <1>9, <1>10, <1>11, <1>12, <1>13 DEF PagesNext, PageStep

\* As long as Postgres answers, a rider page lets go of an open ride only in a
\* step that takes a message, a reply or a timer of another ride of his, and
\* that ride has ended: nothing about a ride that still goes on ever hides it.
THEOREM OnlyOldNewsTakesARide == PagesSpec => OnlyOldNewsHides
<1>1. Init /\ PagesInit => OldNews /\ CompletesByDrivers
  BY DEF PagesInit, OldNews, InboxEnds, TimersEnd, CancelsEnd, CompletesByDrivers
<1>2. /\ Wellformed /\ Audited /\ PagesType /\ Honest /\ TellsTruth
      /\ OldNews /\ CompletesByDrivers /\ [PagesNext]_<<vars, pageVars>>
      => (OldNews /\ CompletesByDrivers)'
  <2>1. ASSUME OldNews, CompletesByDrivers, UNCHANGED <<vars, pageVars>>
        PROVE  (OldNews /\ CompletesByDrivers)'
    BY <2>1
    DEF OldNews, InboxEnds, TimersEnd, CancelsEnd, CompletesByDrivers, Ended, vars, appVars,
        dispatchVars, storeVars, pageVars, screenVars
  <2> QED
    BY <2>1, OldNewsNext, CompletesNext DEF Honest
<1>3. PagesSpec => [](OldNews /\ CompletesByDrivers)
  BY <1>1, <1>2, HonestAlways, TruthAlways, PagesUseServer, PTL DEF PagesSpec
<1>4. /\ Wellformed /\ Audited /\ PagesType /\ Honest /\ OneOpenRide
      /\ OldNews /\ CompletesByDrivers /\ [PagesNext]_<<vars, pageVars>>
      => [faults = 0 => \A u \in Riders : \A r \in Rides :
            view[u].ride = r /\ status[r] \in Open /\ view'[u].ride # r =>
                \E s \in Rides \ {r} :
                    RiderOf[s] = u /\ status[s] \in Closed /\ Consumes(u, s)]_<<vars, pageVars>>
  BY HidesForAnother DEF Honest, Elsewhere
<1> QED
  BY <1>3, <1>4, HonestAlways, OneOpenRidePerRider, PagesUseServer, PTL
  DEF PagesSpec, OnlyOldNewsHides
=============================================================================
