# Verification of the ride dispatch and tracking server

TLA+ models of the server in `src/src/` (matching, nearest-driver search, driver
locks, ride life cycle, driver availability, restart) and of the rider and
driver pages in `src/public/`, TLC runs over small instances, and TLAPS proofs
for every size. `PROJECT.json` lists components, runs, mutants,
the map from definitions to source lines, findings, hazards and theorems.

## 1. The system

One Node process serves HTTP and WebSockets. Postgres is durable and decides
what a ride is; Redis holds what is live and may be lost at any time.

| Part | State | Operations | Talks to |
|---|---|---|---|
| Postgres (`db/schema.sql`, `db.js`) | `rides`, `ride_offers`, `drivers.is_online` | single statements, one transaction; `rides_one_active_per_driver`, `rides_one_active_per_rider` | everybody |
| Redis (`redis.js`) | `lock:driver`, `drivers:geo`, `driver:meta`, `driver:ride`, `ride:` | commands, Lua `unlockDriver`, `holdDriverLock`, `updateDriverPosition` | services |
| lock service | none of its own | claim, unlock, hold for the ride, release | Redis |
| dispatch loop (`matching.service.js`) | per ride, in memory: `tried`, `offersMade`, candidate | search, claim, offer, wait, commit, give up; reconcile at boot | lock, geo, hub, both stores |
| hub and WebSocket handlers | sockets per driver and user, open offers | register, answer an offer, location, relay | dispatch, lock, geo |
| ride service | none of its own | request, start, complete, cancel, broadcast | both stores, lock, geo, hub |
| driver routes, geo service | none of its own | online, offline, location, nearest-driver search | both stores |
| process (`server.js`) | all of the in-memory state | boot, shutdown, crash | - |
| rider page (`public/rider.js`) | ride shown, request panel, `clearRide` timers | request, cancel, hear, reload | HTTP, WebSocket |
| driver page (`public/driver.js`) | offer shown, job shown | answer, start, complete, hear, reload | HTTP, WebSocket |
| fleet page, simulators (`sim/`), auth, `lib/geo.js` | - | not modelled, see section 8 | HTTP, WebSocket |

What is hard: a ride's loop runs concurrently with every other loop and with
the handlers of the same ride, and yields at every `await`; a claim is a lock
with a TTL that is turned into one without at the commit; the stores are
written one after the other; the process and Redis may go away between any two
writes; a page learns of all this over a socket that loses messages and over
HTTP replies that overtake them. What makes each part correct:

* **booking**: one live ride per driver, one open ride per rider, only after
  the driver's own yes, life cycle respected;
* **locks**: exclusive while a human looks at an offer, owned by the live ride
  afterwards, released when it ends, never taken away by a straggler;
* **pool**: contains no claimed driver;
* **dispatch**: every request gets an outcome, capacity is used, the rider is
  told the truth;
* **restart**: no driver on a live ride can be claimed after it;
* **search**: the driver picked is a nearest fresh one, and where there is
  one a search comes back without only if stale or tried drivers fill its window;
* **pages**: they show what has happened, and the order of what they send keeps
  the handlers of a trip apart from the loop that booked it.

## 2. Modules

`RideStore` to `Tracking` extend each other in that order; a definition has the
name the source uses where there is one.

| Module | Models | Variables |
|---|---|---|
| `RideStore` | tables and statements | `status`, `driverOf`, `offers` |
| `LiveState` | Redis commands and scripts, `reconcileLiveRides` | `lock`, `held` (locks without TTL), `geo`, `meta`, `ptr`, `cache` |
| `Dispatch` | one loop per ride and the offer handshake | `pc`, `cand`, `tried`, `offersMade`, `connected`, `shown`, `faults` |
| `RideService` | request, start, complete, cancel | `closing`, `starting` (handlers under way) |
| `DriverService` | sockets, pings, online, offline | `online`, `toggle` (handlers under way) |
| `Tracking` | the whole server, crash, boot, flush, time; `Spec`, `FairSpec` | `up`, `crashes`, `flushes`, `loose` (history) |
| `Booking` | abstract specification: what riders and drivers are promised | `phase`, `accepted`, `serving` |
| `Engagement` | abstract specification: what the driver lock is for, and what a restart may forget | `asks`, `booked`, `live`, `slipped` |
| `Guarantees` | every property, and the refinement mappings to `Booking` and `Engagement` | - |
| `NearestDriver` | `findNearby` and the pick of dispatch, with distances: as sets, and as the code runs them on lists | - |
| `Pages` | rider page, driver page, sockets and HTTP replies around `Tracking`; `PagesSpec` | `inbox`, `calls`, `view`, `form`, `fading`, `offer`, `early` (history) |
| `PageGuarantees` | properties of the server and its pages | - |
| `MCTracking` | instances for TLC: riders, `Env` sets, symmetry | - |
| `MCPages` | the same for `Pages` | - |
| `MCNearest` | all small fleets for `NearestDriver`; checked when `MCPages` is | - |
| `TrackingProofs` | proofs about types and bookings | - |
| `LockProofs` | proofs about locks, pool and pointer | - |
| `GuardProofs` | proofs about exclusive offers and restarts, and the refinement of `Engagement` | - |
| `OutcomeProofs` | proofs about how dispatch ends | - |
| `CapacityProofs` | proof of the load test: nothing is wasted when everybody says yes | - |
| `NearestProofs` | proofs about the search, and that `Dispatch` allows what it finds | - |
| `PageProofs` | proofs about the pages, and that they are users of the server | - |
| `ScreenProofs` | proofs about what stays on the screens: a driver's offer, a rider's open ride | - |

How code becomes actions:

* **One await, one step.** `pc[r]` names the next awaiting statement of the
  loop of ride `r`. One step is one Redis command or script, or one Postgres
  statement or transaction. `closing`, `starting` and `toggle` do the same for
  the HTTP handlers. Everything between two awaits belongs to the step before.
* **Order.** Every interleaving is allowed. The single Redis connection keeps
  commands in the order they were issued, so some interleavings of two
  handlers that issue at the same moment do not occur; the model has more
  behaviours than the program there, never fewer.
* **Merged.** The reads of `findNearby` are one step, so are `getPosition` and
  the `updatePosition` that follows it, `cacheRide`'s HSET and EXPIRE, and the
  broadcast with the last Redis call before it. `main()` clears the pool and
  reconciles in one step; it repeats all of it if it is interrupted, and
  serves nobody before the end.
* **Abstracted.** Distances: in `Dispatch` any fresh, untried member of the pool
  may be the nearest, and a search may come back empty when stale and tried
  members fill its window (`AllHidden`). `NearestDriver` has the distances, and
  `SearchIsAllowed` shows that it leads to nothing else. A position is absent, stale or fresh. The ride snapshot is its
  status. `shown` is the last status message sent to the rider. The `online`
  field of `driver:meta`, which nothing reads to decide, is left out.
* **A failing call.** `FailStore` is a Postgres call of the loop that throws,
  `LoseCommitReply` a COMMIT that is applied while its answer is lost; both
  lead to the `catch` of `requestRide`. An error nobody catches ends the
  process, which is `Crash`.
* **Sockets.** A driver has at most one. One that connects, disconnects or
  answers does so only while the process is up.
* **Positions.** `Ping` is possible whenever the process is up: neither
  `driver:location` nor `POST /location` asks whether the driver is on duty, the
  second needs no socket, and the page sends one whenever its marker is dragged.
* **Loose holds.** `loose` is a history variable: the pairs of a ride and a driver
  where the ride's hold on him went away before it could be made permanent.
  That is the TTL running out under a loop at work, which an ordinary timeout
  brings about, since the TTL starts at the claim and the wait, as long, at the
  offer; a flush under a running server; and a COMMIT whose answer is lost. No
  action reads `loose`. A crash empties it, because the boot that follows
  restores the lock of every live ride.

How the pages are modelled:

* **Messages.** `Send` appends to the inbox of each addressee; a socket delivers
  in order. The rider's socket may lose what is under way (`LoseNews`), a
  driver's loses it when it drops (`Quiet`). Nothing is sent again.
* **Calls.** A click reaches the server at once; a page that acts on what is no
  longer so is one whose inbox is behind. The reply is read at any time after
  the handler's last step, or never (`LoseReply`, and every crash). A refused
  call changes nothing but a toast, so it is no step.
* **Server.** `LoopOnline` and `HandlerOnline` are the steps of `Tracking`
  together with what they send. All requests, cancellations, answers and trips
  come from a page here; `PagesUseServer` shows that this is a user of `Spec`.
* **Reload.** `ReloadRider` and `ReloadDriver` close the socket, forget the
  screen and the calls under way, and show what `GET /active` and `GET /me`
  say, in one step. An answer older than the first message on the new socket
  is left out.
* **Left out.** The reset button, `driver:position`, the online toggle and the
  position stream as buttons (they are in `DriverService`), auto-drive (it only
  clicks), and what is drawn.

`*Unchecked`, `*WithoutNX`, `*Only`, `*Early` and the like, each marked as a deviation, are mutants:
what the definition after it would be with a plausible bug. Nothing uses them.

## 3. Properties

In `Guarantees.tla`, with a comment on each. Bookings: `FollowsBookingRules`
(refinement of `Booking`), `NoDoubleBooking`, `OneOpenRide`, `ClaimedIsFree`,
`OfferExclusive`, `BookedOnlyByAccept`, `EngagedByOne` (refinement of
`Engagement`, which lets a hold slip before the booking, and has a restart forget
every question and no booking). Redis against Postgres:
`PoolExcludesLocked`, `FreeIsPooled`, `LiveRideGuarded`, `HeldLockJustified`,
`UnlockOnlyByOwner` (an action property), `PointerOwned`, `StoresAgree`.
Outcomes: `ToldTruth`, `NoWastedCapacity`, and the liveness properties
`RequestResolved`, `LockReleased`, `OffersClosed`. Types: `TypeOK`.

`OfferExclusive`, `ClaimedIsFree`, `LiveRideGuarded`, `StoresAgree` and
`EngagedByOne` hold in every environment because they name their exception: the
pair of ride and driver whose hold is in `loose`. Among rides whose holds on a
driver are intact the exclusion is without exception. `StoresAgree` names two more: a
crash may leave a lock (section 6), and a loop cut short by a failing call leaves
one with a TTL.

`FreeIsPooled` is about the other direction of "a driver is in `drivers:geo` if
and only if they're available". Unlock and `updatePosition` are two calls, and the
second does nothing when another ride has claimed the driver in between; that
ride then has to put him back. `PoolIsDue` lists who still has to, and the two
cases in which nobody does: a refused match, whose loop only unlocks, and a hold
that was loose when the ride was booked.

In `PageGuarantees.tla`:

* `NothingAhead`: no page shows a state its ride has not reached, nor somebody
  else's ride.
* `OfferOnScreenIsHis`: an offer on the screen is open and made to this driver, and
  he is locked for it and on no other ride, except for loose holds; or its time
  is up (`TimeUp`: the timeout is recorded or about to be, or the loop was cut
  short), since the page is told of that only afterwards.
* `OnlyOldNewsHides` (an action property): the step in which an open ride
  disappears from the rider's page takes a message, a reply or a timer of
  *another* ride of his from the page (`Consumes`), and that one has ended. That
  it happens then is real: `ride:no_drivers` is taken without a look at the id,
  and `clearRide` fires 2.5 s after the end whatever is shown.
* `TripAfterTell`: a trip starts only after the loop has sent the announcement,
  which is its last act. The server checks nothing of the kind: `startRide` asks
  for `matched`, which is committed several awaits earlier. It is the page that
  waits, because it learns of the job by `ride:assigned`.
* `SnapshotInStep`: therefore `cacheRide` of the match cannot land on the snapshot
  of a started trip, which would have positions relayed with the ETA to the
  pickup for the whole trip. A driver who reloads in the window finds the ride
  in Postgres and can start it; `early` records those rides, the properties
  except them, and without the exception TLC shows the stale snapshot.
* `PagesType`.

`ListsAgree` in `MCNearest` compares `findNearby` on lists with `IsFound` on sets,
in both directions, and the pick with `IsChoice`.

## 4. Runs

The runs named first use `MCTracking`, `pages` and `reload` use `MCPages`. "World"
is `Env`, what people, phones and the network may do on top of requesting and
accepting rides and sending positions.

| Run | Instance | World | Shows |
|---|---|---|---|
| `race` | 3 rides, 2 drivers, one offer per ride, 7 thousand states | nothing else | the load test: full use of capacity although claims are lost, stores agree at rest, offers exclusive |
| `contention` | 2 rides, 1 driver, 633 thousand | start, cancel, reject, late, drop | lock, pool and pointer facts that survive lapsed locks and every race of cancel, match and release; pool, locks and live rides agree again in the end |
| `shifts` | 1 ride, 2 drivers, one failing call, 1.36 million | reject, late, drop, toggle, age | locks and pool in step for drivers who come and go and send positions off duty too, and for a loop that dies half way |
| `restart` | 2 rides, 1 driver, one crash, one flush, one failing call, 753 thousand | cancel, late | two rides share a driver only where a hold came loose; reconciliation restores the guard of every live ride before anybody can claim its driver |
| `outcome` | 2 rides, 1 driver, fair, 112 thousand | cancel, late | every request and offer is closed and no lock stays behind when its ride is over |
| `backstop` | 2 rides, 1 driver, lock disabled, one flush, 1.26 million | start, cancel, late, flushUp | the indexes alone keep the booking rules |
| `pages` | 2 rides of one rider, 1 driver, 865 thousand | start, cancel, reject | what the pages show while replies and messages overtake each other, and a rider who asks again while his first ride is open or its news under way |
| `reload` | 1 ride, 1 driver, one crash, one failing call, reloads, 584 thousand | start, cancel, reject, late, drop | the order of match, announcement and trip, the snapshot, and the offer on the screen, when pages are reloaded, offers time out and the server fails |
| `stranded`, `lost_request`, `offered_busy`, `offline_pool` | small | see section 6 | violations |

Which properties belong to which run follows from the code. `OfferExclusive`
and `StoresAgree` are checked in `race`, where nothing comes loose and they allow
nothing, and again, with `ClaimedIsFree`, `LiveRideGuarded` and `EngagedByOne`, in
`restart`, where locks lapse, calls fail and the process dies; `offered_busy` shows
what a loose hold looks like to a driver. `HeldLockJustified` excludes crashes in
its statement; `stranded` shows why. `FreeIsPooled` excludes crashes, failing calls
and drivers who go off duty: after those only a ping brings a driver back. `ToldTruth`
is claimed without failing calls: a `driverCard` that fails after the match makes
the rider hear `no_drivers`. `OnlyOldNewsHides` says so in its statement. The world
of `outcome` has no lost socket, which with liveness is beyond the time of a run: to
the loop an offer nobody hears is one nobody answers. Unheard offers are in
`contention`, `shifts` and `reload`, for the safety properties.

### Bounds

* **2 rides, 1 driver** is the smallest instance in which two loops compete;
  every property about locks, pool and pointer speaks of one driver and at
  most two rides. 2 drivers let a ride go on to its second candidate, and 3
  rides over 2 drivers make some ride lose twice. Each ride id is requested
  once; a rider asks again with the next id.
* `MaxCandidates` 1 or 2 and `MaxScan` 3: with one driver the loop ends for
  lack of candidates; in `race` a ride can afford one offer but more than one
  lost claim, which is what tells the two budgets apart.
* `MaxCrashes`, `MaxFlushes`, `MaxFaults` at most 1. A second crash finds a state
  that the first one and its reconciliation could have left.
* `Slack` 10, as in `limit: tried.size + 10`. With two drivers nothing is hidden.
  Whom a search may miss is the matter of `MCNearest`, which has limits of 1 and 2
  over fleets of four, and of `NearestProofs`, for every size.
* `MaxCalls` 1: one unread reply per page. A rider whose reply is under way can
  click again only after losing it, which is a step of its own.
* `MayReload` is off in `pages`: two rides with reloads are beyond five million
  states. A reload shows what Postgres says of one ride; a second ride adds
  nothing to `TripAfterTell` and `SnapshotInStep`, which speak of one.
* No counter of the code needs a bound: `tried` and `offersMade` are bounded
  by the drivers and by `MaxCandidates`.
* Symmetry over rides and drivers is used in runs without liveness. Riders
  are either one for all rides or one for each, so renaming rides is sound.

### Fairness

`ServerFairness` is weak fairness of what the process, its timers and Redis do
on their own: the steps of each loop and each handler (a resolved promise is
continued), the timeout of `waitForOffer`, the expiry of a TTL, and the
restart of the process (the supervisor). No driver has to answer, no rider has
to cancel, nobody has to send a position. Without "late" there is no timeout,
so liveness is only claimed, and only refuted, in worlds with "late".

## 5. Proofs

Proved for any sets of rides, drivers and riders, any budgets and any `Env`:

| Module | Theorem | States | Beyond the named assumptions |
|---|---|---|---|
| `TrackingProofs` | `TypeCorrect` | `Spec => []TypeOK` | - |
| | `AcceptBeforeBooking` | `Spec => []BookedOnlyByAccept` | - |
| | `OneLiveRidePerDriver` | `Spec => []NoDoubleBooking` | - |
| | `OneOpenRidePerRider` | `Spec => []OneOpenRide` | - |
| | `ServerFollowsBookingRules` | `Spec => FollowsBookingRules`, the refinement | - |
| `LockProofs` | `ClaimedOutOfPool` | `Spec => []PoolExcludesLocked` | lock in force |
| | `PositionsToOwnRide` | `Spec => []PointerOwned` | - |
| | `NobodyUnlocksOthers` | `Spec => UnlockOnlyByOwner` | lock in force |
| | `NoLeakWithoutCrash` | `Spec => []HeldLockJustified` | - |
| `GuardProofs` | `LiveRidesStayGuarded` | `Spec => []LiveRideGuarded` | lock in force |
| | `OffersAreExclusive` | `Spec => []OfferExclusive` | lock in force |
| | `ClaimsAreOnFreeDrivers` | `Spec => []ClaimedIsFree` | lock in force |
| | `ServerEngagesOneByOne` | `Spec => EngagedByOne`, the refinement | lock in force |
| `OutcomeProofs` | `RidersHearTheTruth` | `Spec => []ToldTruth` | no failing call |
| | `StoresEndInAgreement` | `Spec => []StoresAgree` | lock in force |
| `CapacityProofs` | `NoCapacityIsWasted` | `Spec => []NoWastedCapacity` | `LoadTest` |
| `NearestProofs` | `NearestIsChosen` | the driver picked is a nearest one of all that are fresh and untried | - |
| | `SearchIsAllowed` | what a search leads to, `Dispatch` allows | - |
| | `SmallFleetIsFoundWhole` | a fresh fleet within the limit is found whole | - |
| `PageProofs` | `PagesUseServer` | `PagesSpec => Spec`: what is proved of the server holds behind the pages | - |
| | `PagesTypeCorrect` | `PagesSpec => []PagesType` | - |
| | `TripsFollowTheAnnouncement` | `PagesSpec => []TripAfterTell` | - |
| | `PagesShowWhatHappened` | `PagesSpec => []NothingAhead` | - |
| | `TripsKeepTheirSnapshot` | `PagesSpec => []SnapshotInStep` | no "flushUp" |
| `ScreenProofs` | `OffersOnScreenHold` | `PagesSpec => []OfferOnScreenIsHis` | lock in force |
| | `OnlyOldNewsTakesARide` | `PagesSpec => OnlyOldNewsHides` | - |

Named assumptions, in the modules that declare the constants: `NoDriver` is not
a driver and `NoRide` not a ride, `RiderOf` gives every ride a rider, the
budgets are natural numbers, there are finitely many rides and drivers, `Env`
is a set of choices, and no page is shared (`PageAssumption`). "Lock in force" is
`~UnsafeDisableLock`, and no more: timeouts, lapsing locks, lost sockets, failing
calls, crashes and flushes are all in. What they cost is in the properties, as
the exceptions for loose holds; a hold is in `loose` only by `Expire` under a loop
at work, `Flush` under a running server or `LoseCommitReply`.

`LoadTest` is the world of `sim/load-test-match.js`, of any size: the lock in
force, drivers who only accept, nothing that fails or ages (`Env` empty, no
crash, no failing call), a loop that may make an offer and look at the whole
fleet. `race` is an instance of it.

The argument has ten layers.

1. `Wellformed`: types, and that a loop with an open claim has a candidate
   (`CandidateBound`), a live or completed ride has a driver (`LiveIsBooked`)
   and so does a ride being closed (`ClosingIsBooked`). `TypeOK` alone is not
   inductive: `MatchRide` writes `cand[r]` into `driverOf`, so the candidate
   must be known to be a driver at that label.
2. `StoreSteps`: whatever the server does, the tables change only by one of
   ten statements, each with the label its loop is at. From here on the proofs
   about bookings look at ten cases instead of every action.
3. `Audited`: the row of the current candidate follows the loop ("none" until
   the offer is recorded, "pending" until it is answered, "accepted" at the
   commit), a driver with a row has been tried and so is never offered the
   ride again, and a booked ride has left the part of the loop that writes
   offers. Without `OffersWereTried` a second offer to the same driver could
   overwrite the accept that justified a booking. `DoubleBookingNext` and
   `BookingSteps` follow statement by statement; the second maps each to a
   step of `Booking` or to a stutter.
4. `LockProofs`: the pool and the unlock properties are inductive on top of
   `Wellformed`, the pointer on top of `Audited` (a booked ride never changes
   its driver). `HeldLockJustified` needs `HoldIsBacked`: a loop at PERSIST
   serves a live ride, or one whose handler has yet to unlock, or has lost the
   lock. That is the race of `confirmMatch` with `cancelRide`.
5. `GuardProofs`: `Guarded` adds that no loop survives the process
   (`DownIsIdle`), that only rides out of `Live` are being closed, that a lock
   without a TTL names a booked ride past PERSIST (`HeldIsBooked`), and that a
   loop owns the lock of its candidate from claim to PERSIST unless that hold is
   loose (`LoopOwnsLock`). `LiveRideGuarded` is part of it: a loop that finds its
   lock gone at PERSIST has a loose hold. `Boot` restores it without exception
   because `NoDoubleBooking` makes the ride it chooses for a driver the only
   one. Two loops with the same candidate cannot both own his lock, so one is
   loose: `OfferExclusive`. For the refinement of `Engagement` the guard of `Ask`,
   that nobody whose hold has not slipped is asking the driver or has him, is
   read off `OfferExclusive` and `ClaimedIsFree` *after* the SET NX, since the
   step changes nothing for the other rides (`AsksAFreeDriver`); the guard of
   `Book` is the one of the index.
6. `OutcomeProofs`: `TellsTruth` follows the loop from giving up to telling the
   rider; a loop that gives up has no booking, since its driver would have an
   accepted offer. For `StoresAgree`, `TtlIsAtWork` adds to `Guarded` that, until
   a crash or a failing call, a lock with a TTL has a loop at work, so none is
   left when all is quiet.
7. `CapacityProofs`: `Rush` is what the load test's world looks like at any
   moment. Nobody leaves and nothing grows stale (`Calm`), a driver whose lock is
   free is in the pool (`FreeIsInPool`), a loop passes over a driver only for a
   lock, and no lock is given back (`TriedIsTaken`). So a loop gives up only when
   the whole fleet is locked (`GivesUpLast`), and a lock is that of a ride which
   is claiming the driver or has him (`LocksAreUsed`): when all loops have
   ended, it has him. `NoLapse` and `NoRefusal` rest on `Guarded`.
8. `NearestProofs` is about sets and cardinalities only: two applications of
   "nearest n of S", and the count behind `AllHidden`.
9. `PageProofs`: each step of the pages is a step of the server or leaves it
   alone, so layers 1 to 3 are available. `TripAfterTell` is not inductive on
   its own: that a driver can click "start" depends on what his page shows, and
   that on what is in his inbox and on the replies still under way. `Honest`
   says of all of these, of pages, inboxes and calls, what `Told` says of one:
   the ride has been in that state, it is this user's, and if he is its driver
   its loop is over. It is stable because the tables never go back
   (`StoreMono`) and a loop that is over stays so; a step that sends puts only
   what is true into an inbox (`LoopIsTrue`, `HandlerIsTrue`), and a page copies
   it (`HeadIsTrue`). `NothingAhead` and `TripAfterTell` are parts of it.
   `SnapshotInStep` then holds because its one enemy, a write of the loop or of
   a cancellation, needs a loop that is not over or a ride not yet started.
10. `ScreenProofs`: an offer stands (`Stands`) while its loop waits for this
   driver, and from then on its time is up, which never changes back: the row
   stays "timeout", or the loop that would have written it is gone
   (`RowsSettle`, `TroublesGrow`). `OffersStand` says that every offer stands that is
   on a driver's screen or under way to him, and that each is in one place
   only. A loop stops waiting for a driver at the timeout, by a failing call or
   a crash, which leave the time up, or by his own answer, which takes
   the offer off the screen (`AnswerTakesOffer`); that is why the second place
   must not exist. The offer a loop sends is new to its driver, since he has no
   row of this ride before (`LoopOffers`). That an open offer holds his lock and
   finds him free is layer 5. `OldNews` says that whatever a rider
   page takes as an end is one: `ride:no_drivers` in its inbox, a timer of
   `clearRide`, the reply to a cancellation. What hides an open ride is then
   about another one, since that one has ended and this one has not; or it is
   a message or reply of another ride that has been asked for, which with `Honest` and
   `OneOpenRide` has ended too.

Only model-checked: all liveness (`RequestResolved`, `LockReleased`,
`OffersClosed`), which is out of the reach of the prover used.
`FindNearby` on lists is compared with `IsFound` by TLC alone: what it computes
is an induction over the list.

## 6. Findings

* **A crash can strand a driver** (`stranded`, `ride.service.js:107`). The ride
  is cancelled or completed in Postgres, the process dies before
  `releaseDriver`, and the lock, which has no TTL any more, names a finished
  ride. Boot only adds locks. `updateDriverPosition` keeps the driver out of
  the pool at every ping.
* **A crash loses the request** (`lost_request`, `ride.service.js:47`). The row
  stays `requested`, no loop runs for it, and the index refuses the rider's
  next request until he cancels.
* **A busy driver can be offered a ride** (`offered_busy`,
  `matching.service.js:134`). The lock's TTL starts at the claim, before the
  offer is recorded and sent, and lasts as long as the wait. An accept near the
  end passes the check of the lock holder; the lock lapses before PERSIST;
  `holdForRide` returns false and is not asked. Another loop with the driver
  as its candidate (or after his next ping, which puts him back in the pool)
  claims him and offers him its ride.
* **An off-duty driver in the pool** (`offline_pool`, `geo.service.js:19`).
  `updateDriverPosition` asks for the lock only, not for `is_online`, and so do its
  callers. Any position a driver sends after going offline puts him back in the
  pool, where he is offered rides until it is stale: his page sends one whenever
  he drags his marker (`driver.js:292`), and `POST /location` takes one from any
  client. No race is needed. An offer that is refused or times out after its
  driver has gone offline does the same.

Seen in the model and kept as no run: the offline request reads the active ride
and writes `is_online` in a second statement (`drivers.routes.js:57-61`). An
accept that commits in between (`GoOffline`, the match, `OfflineUpdate`) leaves
a matched driver off duty, whom the first statement was there to refuse.

## 7. Plan

Done in this order: stores, loop, handlers, world, abstract booking rules,
proofs about types, bookings, locks and restarts; then the search, the pages,
and proofs about outcomes, search and pages; then the refinement of `Engagement`,
the load test and the screens. What is left, in the order of
what it would add:

1. Several sockets of one driver, and the listener and timer of `waitForOffer`
   for a driver who answers on two of them.
2. `restoreState` and `restoreActiveRide` as two steps, with the older answer
   overwriting newer messages.
3. Liveness with lost sockets, in an instance small enough for a run.
4. Coordinates: the position written back by `RefusePool`, and the two reads of
   `relayToRider`.

## 8. Not modelled

Authentication (pure functions and two inserts), `lib/geo.js` (floating-point
trigonometry), reads that no page acts on (quote, `GET /:id`, history, nearby
list, fleet page), the map and what is drawn, the simulators (they drive the
server through the same calls as the pages; the assertions of the load test and
of `verify-nearby.js` are properties here), graceful shutdown as distinct from a
crash, and the connection retries at boot. The model has more interleavings of
two handlers than the one Redis connection gives, and the pages drop and delay
more than a browser does; both are safe for what is claimed to hold, and no
finding rests on either.
