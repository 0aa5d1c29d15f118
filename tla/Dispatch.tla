------------------------------- MODULE Dispatch -------------------------------
(***************************************************************************)
(* The dispatch loop of matching.service.js, one loop per requested ride,  *)
(* with the offer handshake of ws/hub.js and ws/handlers.js.  pc[r] names  *)
(* the next statement of the loop of r that awaits something: every await  *)
(* is a point where anything else may run.                                 *)
(***************************************************************************)
EXTENDS LiveState

CONSTANTS
    MaxCandidates,      \* config.maxCandidates: offers a ride may make
    MaxScan,            \* config.maxScanCandidates: drivers it may look at
    Slack,              \* limit: tried.size + 10, how many more drivers a
                        \* search asks for than the ride has tried
    UnsafeDisableLock,  \* config.unsafeDisableLock: the demo without a lock
    MaxFaults           \* bound: failing Postgres calls in a behaviour

ASSUME BudgetAssumption ==
    /\ MaxCandidates \in Nat /\ MaxScan \in Nat /\ MaxFaults \in Nat
    /\ Slack \in Nat \ {0}
    /\ UnsafeDisableLock \in BOOLEAN

VARIABLES
    connected,  \* drivers with a socket in hub.byDriver
    pc,         \* where the loop of each ride is
    cand,       \* candidate.driverId of the current iteration
    tried,      \* the set tried
    offersMade, \* the counter offersMade
    shown,      \* what the last status message told the rider
    faults      \* Postgres calls that have failed

loopVars == <<pc, cand, tried, offersMade>>
dispatchVars == <<connected, pc, cand, tried, offersMade, shown, faults>>

\* "off": not requested yet; "over": the loop has returned (or died).
Label == {"off", "cacheNew", "search", "claim", "zrem", "lost", "claimed",
          "absentPool", "absentRecord", "send", "wait", "answering",
          "unheard", "accepted", "rejected", "timeout", "commit", "hold",
          "point", "cacheMatch", "tell", "undoUnlock", "undoPtr",
          "refuseUnlock", "refusePool", "giveUp", "failed", "tellNone", "over"}

\* An offer is open: waitForOffer has its listener and its timer set.
Waiting == {"wait", "answering", "unheard"}

DispatchType ==
    /\ connected \in SUBSET Drivers
    /\ pc \in [Rides -> Label]
    /\ cand \in [Rides -> Drivers \cup {NoDriver}]
    /\ tried \in [Rides -> SUBSET Drivers]
    /\ offersMade \in [Rides -> Nat]
    /\ shown \in [Rides -> Status]
    /\ faults \in Nat

DispatchInit ==
    /\ connected = Drivers
    /\ pc = [r \in Rides |-> "off"]
    /\ cand = [r \in Rides |-> NoDriver]
    /\ tried = [r \in Rides |-> {}]
    /\ offersMade = [r \in Rides |-> 0]
    /\ shown = [r \in Rides |-> "absent"]
    /\ faults = 0

Goto(r, label) ==
    /\ pc' = [pc EXCEPT ![r] = label]
    /\ UNCHANGED <<cand, tried, offersMade>>

\* continue: the loop forgets its candidate and searches again.
Continue(r) ==
    /\ pc' = [pc EXCEPT ![r] = "search"]
    /\ cand' = [cand EXCEPT ![r] = NoDriver]
    /\ UNCHANGED <<tried, offersMade>>

At(r, label) == pc[r] = label

TellRider(r, what) == shown' = [shown EXCEPT ![r] = what]

\* A loop step that is one Redis command, one Postgres statement, or neither.
RedisStep == UNCHANGED <<storeVars, connected, shown, faults>>
StoreStep == UNCHANGED <<redisVars, connected, shown, faults>>
LocalStep == UNCHANGED redisVars /\ RedisStep

----------------------------------------------------------------------------
(* Searching and claiming.                                                  *)

\* findNearby, and the first driver of its list not tried yet.  Distances
\* are left out, so any such driver may be the nearest.
Candidates(r) == Nearby \ tried[r]

BudgetLeft(r) ==
    /\ offersMade[r] < MaxCandidates
    /\ Cardinality(tried[r]) < MaxScan

PickCandidate(r, d) ==
    /\ At(r, "search")
    /\ BudgetLeft(r)
    /\ d \in Candidates(r)
    /\ pc' = [pc EXCEPT ![r] = "claim"]
    /\ cand' = [cand EXCEPT ![r] = d]
    /\ tried' = [tried EXCEPT ![r] = @ \cup {d}]
    /\ UNCHANGED offersMade
    /\ LocalStep

\* GEOSEARCH returns the nearest 3 * limit members, stale ones included: when
\* all of them are stale or tried, the fresh ones behind them are not seen
\* (NearestDriver; drivers:geo stands for its members within the radius).
AllHidden(r) ==
    Cardinality(geo \ Candidates(r)) >= 3 * (Cardinality(tried[r]) + Slack)

\* Deviation for a mutant: the loop polls on when nobody is nearby.
RunOutOfBudget(r) ==
    /\ At(r, "search")
    /\ ~BudgetLeft(r)
    /\ Goto(r, "giveUp")
    /\ LocalStep

\* The loop ends without a match: a budget is spent, or nobody is found.
RunOut(r) ==
    /\ At(r, "search")
    /\ ~BudgetLeft(r) \/ Candidates(r) = {} \/ AllHidden(r)
    /\ Goto(r, "giveUp")
    /\ LocalStep

\* Deviations for mutants: SET without NX; SET NX without PX.
ClaimWithoutNX(r) ==
    /\ At(r, "claim")
    /\ ~UnsafeDisableLock
    /\ SetLock(cand[r], r)
    /\ Goto(r, "zrem")
    /\ RedisStep

ClaimWithoutPX(r) ==
    /\ At(r, "claim")
    /\ ~UnsafeDisableLock
    /\ lock[cand[r]] = NoRide
    /\ lock' = [lock EXCEPT ![cand[r]] = r]
    /\ held' = held \cup {cand[r]}
    /\ UNCHANGED <<geo, meta, ptr, cache>>
    /\ Goto(r, "zrem")
    /\ RedisStep

\* tryLockDriver: SET NX; in the unsafe demo a plain SET that always wins.
ClaimDriver(r) ==
    /\ At(r, "claim")
    /\ ~UnsafeDisableLock
    /\ SetNX(cand[r], r)
    /\ Goto(r, "zrem")
    /\ RedisStep

\* Deviation for a mutant: one budget for offers and lost claims, the bug that
\* the comment in dispatch remembers.
LoseClaimAsOffer(r) ==
    /\ At(r, "claim")
    /\ ~UnsafeDisableLock
    /\ lock[cand[r]] # NoRide
    /\ pc' = [pc EXCEPT ![r] = "lost"]
    /\ offersMade' = [offersMade EXCEPT ![r] = @ + 1]
    /\ UNCHANGED <<cand, tried>>
    /\ LocalStep

LoseClaim(r) ==
    /\ At(r, "claim")
    /\ ~UnsafeDisableLock
    /\ lock[cand[r]] # NoRide
    /\ Goto(r, "lost")
    /\ LocalStep

ClaimUnsafely(r) ==
    /\ At(r, "claim")
    /\ UnsafeDisableLock
    /\ SetLock(cand[r], r)
    /\ Goto(r, "claimed")
    /\ RedisStep

\* Deviation for a mutant: the claimed driver stays in the pool.
StayInPool(r) ==
    /\ At(r, "zrem")
    /\ Goto(r, "claimed")
    /\ LocalStep

LeavePool(r) ==
    /\ At(r, "zrem")
    /\ RemoveFromPool(cand[r])
    /\ Goto(r, "claimed")
    /\ RedisStep

\* Deviation for a mutant: a response the CHECK of ride_offers does not list.
RecordLostMisspelt(r) ==
    /\ At(r, "lost")
    /\ WriteOffer(r, cand[r], "lost")
    /\ Continue(r)
    /\ StoreStep

RecordLost(r) ==
    /\ At(r, "lost")
    /\ WriteOffer(r, cand[r], "lock_failed")
    /\ Continue(r)
    /\ StoreStep

----------------------------------------------------------------------------
(* A claimed driver without a socket is let go at once.                     *)

LetGoAbsent(r) ==
    /\ At(r, "claimed")
    /\ cand[r] \notin connected
    /\ Unlock(cand[r], r)
    /\ Goto(r, "absentPool")
    /\ RedisStep

RepoolAbsent(r) ==
    /\ At(r, "absentPool")
    /\ UpdatePosition(cand[r])
    /\ Goto(r, "absentRecord")
    /\ RedisStep

RecordAbsent(r) ==
    /\ At(r, "absentRecord")
    /\ WriteOffer(r, cand[r], "timeout")
    /\ Continue(r)
    /\ StoreStep

----------------------------------------------------------------------------
(* The offer and its answer.                                                *)

OfferStep == UNCHANGED <<redisVars, storeVars, connected, shown, faults>>

RecordOffer(r) ==
    /\ At(r, "claimed")
    /\ cand[r] \in connected
    /\ WriteOffer(r, cand[r], "pending")
    /\ Goto(r, "send")
    /\ StoreStep

\* sendToDriver and waitForOffer run in one turn; a driver whose socket went
\* away during the INSERT never hears of the offer.
SendOffer(r) ==
    /\ At(r, "send")
    /\ offersMade' = [offersMade EXCEPT ![r] = @ + 1]
    /\ pc' = [pc EXCEPT ![r] = IF cand[r] \in connected THEN "wait" ELSE "unheard"]
    /\ UNCHANGED <<cand, tried>>
    /\ OfferStep

\* driver:accept passes the lockHolder check ...
AcceptOffer(r) ==
    /\ At(r, "wait")
    /\ cand[r] \in connected
    /\ lock[cand[r]] = r
    /\ Goto(r, "answering")
    /\ OfferStep

\* ... and, after that await, resolves the offer if it is still open.
ResolveAccept(r) ==
    /\ At(r, "answering")
    /\ Goto(r, "accepted")
    /\ OfferStep

RejectOffer(r) ==
    /\ pc[r] \in {"wait", "answering"}
    /\ cand[r] \in connected
    /\ Goto(r, "rejected")
    /\ OfferStep

OfferTimeout(r) ==
    /\ pc[r] \in Waiting
    /\ Goto(r, "timeout")
    /\ OfferStep

\* Deviations for mutants: only a rejection refuses; the row of an accepted
\* offer, or of one that timed out, is left open.
CloseOfferUnlessRejected(r) ==
    /\ pc[r] \in {"accepted", "rejected", "timeout"}
    /\ WriteOffer(r, cand[r], pc[r])
    /\ Goto(r, IF pc[r] = "rejected" THEN "refuseUnlock" ELSE "commit")
    /\ StoreStep

CloseRefusedOffer(r) ==
    /\ pc[r] \in {"accepted", "rejected", "timeout"}
    /\ WriteOffer(r, cand[r], IF pc[r] = "accepted" THEN "pending" ELSE pc[r])
    /\ Goto(r, IF pc[r] = "accepted" THEN "commit" ELSE "refuseUnlock")
    /\ StoreStep

CloseAnsweredOffer(r) ==
    /\ pc[r] \in {"accepted", "rejected", "timeout"}
    /\ WriteOffer(r, cand[r], IF pc[r] = "timeout" THEN "pending" ELSE pc[r])
    /\ Goto(r, IF pc[r] = "accepted" THEN "commit" ELSE "refuseUnlock")
    /\ StoreStep

CloseOffer(r) ==
    /\ pc[r] \in {"accepted", "rejected", "timeout"}
    /\ WriteOffer(r, cand[r], pc[r])
    /\ Goto(r, IF pc[r] = "accepted" THEN "commit" ELSE "refuseUnlock")
    /\ StoreStep

----------------------------------------------------------------------------
(* After a rejection or a timeout: unlockDriver, then updatePosition.       *)

RefuseUnlock(r) ==
    /\ At(r, "refuseUnlock")
    /\ Unlock(cand[r], r)
    /\ Goto(r, "refusePool")
    /\ RedisStep

\* Deviation for a mutant: who refused is left to his next ping.
RefuseOnly(r) ==
    /\ At(r, "refusePool")
    /\ Continue(r)
    /\ LocalStep

RefusePool(r) ==
    /\ At(r, "refusePool")
    /\ UpdatePosition(cand[r])
    /\ Continue(r)
    /\ RedisStep

----------------------------------------------------------------------------
(* confirmMatch, and notifyDispatchResult for a match.                      *)

CommitMatch(r) ==
    /\ At(r, "commit")
    /\ MatchRide(r, cand[r])
    /\ Goto(r, "hold")
    /\ StoreStep

\* Deviation for a mutant: the result of the UPDATE is not looked at.
HoldUnmatched(r) ==
    /\ At(r, "commit")
    /\ ~CanMatch(r, cand[r])
    /\ Goto(r, "hold")
    /\ LocalStep

\* Zero rows (the ride was cancelled) or a unique violation (the backstop).
RefuseMatch(r) ==
    /\ At(r, "commit")
    /\ ~CanMatch(r, cand[r])
    /\ Goto(r, "undoUnlock")
    /\ LocalStep

\* Deviations for mutants: no PERSIST; a lapsed lock treated as no match.
PointWithoutHold(r) ==
    /\ At(r, "hold")
    /\ Goto(r, "point")
    /\ LocalStep

HoldOrGiveUp(r) ==
    /\ At(r, "hold")
    /\ \/ HoldLock(cand[r], r) /\ Goto(r, "point")
       \/ ~CanHold(cand[r], r) /\ UNCHANGED redisVars /\ Goto(r, "giveUp")
    /\ RedisStep

\* holdForRide; a lock that has lapsed is not an error to confirmMatch.
HoldForRide(r) ==
    /\ At(r, "hold")
    /\ \/ HoldLock(cand[r], r) /\ Goto(r, "point")
       \/ ~CanHold(cand[r], r) /\ UNCHANGED redisVars /\ Goto(r, "cacheMatch")
    /\ RedisStep

PointAtRide(r) ==
    /\ At(r, "point")
    /\ SetPointer(cand[r], r)
    /\ Goto(r, "cacheMatch")
    /\ RedisStep

CacheMatch(r) ==
    /\ At(r, "cacheMatch")
    /\ SetCache(r, "matched")
    /\ Goto(r, "tell")
    /\ RedisStep

\* The loop has returned.
Finish(r) ==
    /\ pc' = [pc EXCEPT ![r] = "over"]
    /\ cand' = [cand EXCEPT ![r] = NoDriver]
    /\ UNCHANGED <<tried, offersMade>>

TellMatched(r) ==
    /\ At(r, "tell")
    /\ TellRider(r, "matched")
    /\ Finish(r)
    /\ UNCHANGED <<storeVars, redisVars, connected, faults>>

\* releaseDriver after a refused match: unlock, then DEL driver:ride.
UndoUnlock(r) ==
    /\ At(r, "undoUnlock")
    /\ Unlock(cand[r], r)
    /\ Goto(r, "undoPtr")
    /\ RedisStep

UndoPointer(r) ==
    /\ At(r, "undoPtr")
    /\ DelPointer(cand[r])
    /\ Continue(r)
    /\ RedisStep

----------------------------------------------------------------------------
(* Giving up, and the catch of requestRide.                                 *)

\* markNoDrivers, or the same UPDATE in the catch.
MarkNoDrivers(r) ==
    /\ pc[r] \in {"giveUp", "failed"}
    /\ MoveRideIfStill(r, {"requested"}, "no_drivers")
    /\ Goto(r, "tellNone")
    /\ StoreStep

\* ride:no_drivers is sent even when the UPDATE found no row to change.
TellNoDrivers(r) ==
    /\ At(r, "tellNone")
    /\ TellRider(r, "no_drivers")
    /\ Finish(r)
    /\ UNCHANGED <<storeVars, redisVars, connected, faults>>

\* A Postgres call of the loop throws ...
FailStore(r) ==
    /\ faults < MaxFaults
    /\ \/ pc[r] \in {"lost", "absentRecord", "accepted", "rejected", "timeout",
                     "commit", "giveUp", "tell"}
       \/ At(r, "claimed") /\ cand[r] \in connected
    /\ faults' = faults + 1
    /\ Goto(r, "failed")
    /\ UNCHANGED <<storeVars, redisVars, connected, shown>>

\* ... or COMMIT is applied and its answer is lost with the connection.
LoseCommitReply(r) ==
    /\ faults < MaxFaults
    /\ At(r, "commit")
    /\ MatchRide(r, cand[r])
    /\ faults' = faults + 1
    /\ Goto(r, "failed")
    /\ UNCHANGED <<redisVars, connected, shown>>

----------------------------------------------------------------------------

\* Steps the server takes on its own once a ride is requested.
LoopStep(r) ==
    \/ \E d \in Drivers : PickCandidate(r, d)
    \/ RunOut(r) \/ ClaimDriver(r) \/ LoseClaim(r) \/ ClaimUnsafely(r)
    \/ LeavePool(r) \/ RecordLost(r)
    \/ LetGoAbsent(r) \/ RepoolAbsent(r) \/ RecordAbsent(r)
    \/ RecordOffer(r) \/ SendOffer(r) \/ ResolveAccept(r) \/ CloseOffer(r)
    \/ RefuseUnlock(r) \/ RefusePool(r)
    \/ CommitMatch(r) \/ RefuseMatch(r) \/ HoldForRide(r) \/ PointAtRide(r)
    \/ CacheMatch(r) \/ TellMatched(r) \/ UndoUnlock(r) \/ UndoPointer(r)
    \/ MarkNoDrivers(r) \/ TellNoDrivers(r)
=============================================================================
