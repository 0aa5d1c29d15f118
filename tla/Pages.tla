-------------------------------- MODULE Pages --------------------------------
(***************************************************************************)
(* The rider page (rider.js) and the driver page (driver.js) in front of   *)
(* the server: what they show, what their buttons send, and the messages   *)
(* in between.  A socket delivers in order (inbox); the reply to an HTTP   *)
(* call travels on its own, so it may overtake a message or be overtaken.  *)
(* A click reaches the server at once: a page that acts on what is no      *)
(* longer so is one whose inbox is behind.  A refusal changes nothing.     *)
(***************************************************************************)
EXTENDS Tracking, Sequences

\* A page is named by whoever is signed in on it.
Page == Riders \cup Drivers

CONSTANTS
    MaxCalls,   \* bound: HTTP calls of one page without a reply
    MayReload   \* whether people reload their pages

ASSUME PageAssumption ==
    /\ MaxCalls \in Nat /\ MayReload \in BOOLEAN
    /\ Riders \cap Drivers = {}
    /\ NoDriver \notin Page

VARIABLES
    inbox,      \* ws messages on their way to each page
    calls,      \* accepted HTTP calls whose reply a page has not read
    view,       \* state.ride of a rider page, state.job of a driver page
    form,       \* the request panel of a rider page
    fading,     \* rides whose end set a timer for clearRide
    offer,      \* state.offer of a driver page
    early       \* history: rides a driver found by a reload while the loop
                \* had not told him yet

screenVars == <<view, form, fading, offer>>
pageVars == <<inbox, calls, screenVars, early>>

Snapshot == [ride : Rides, status : Status]
Blank == [ride |-> NoRide, status |-> "absent"]

\* What the server pushes; "matched" is ride:matched to the rider and
\* ride:assigned to the driver.
Push == {"offer", "offer_expired", "matched", "no_drivers", "status"}
News == [what : Push, ride : Rides, status : Status]

Call == [by : Page, do : {"request", "cancel", "start", "complete"}, ride : Rides]

\* "hidden": the ride panel is shown instead.  "ready": both points are set
\* and the button is enabled.  "busy": the request is under way.
Form == {"empty", "ready", "busy", "hidden"}

PagesType ==
    /\ inbox \in [Page -> Seq(News)]
    /\ calls \in SUBSET Call
    /\ view \in [Page -> Snapshot \cup {Blank}]
    /\ form \in [Riders -> Form]
    /\ fading \in SUBSET Rides
    /\ offer \in [Drivers -> Rides \cup {NoRide}]
    /\ early \in SUBSET Rides

PagesInit ==
    /\ inbox = [p \in Page |-> <<>>]
    /\ calls = {}
    /\ view = [p \in Page |-> Blank]
    /\ form = [u \in Riders |-> "empty"]
    /\ fading = {}
    /\ offer = [d \in Drivers |-> NoRide]
    /\ early = {}

----------------------------------------------------------------------------
(* The net.                                                                 *)

\* hub.send: nothing is kept for a driver without a socket, and what was
\* under way to him is gone.
Send(to, what, r, s) ==
    inbox' = [p \in Page |->
        IF p \in Drivers \ connected' THEN <<>>
        ELSE IF p \in to THEN Append(inbox[p], [what |-> what, ride |-> r, status |-> s])
        ELSE inbox[p]]

Quiet ==
    IF connected' = connected THEN UNCHANGED inbox
    ELSE inbox' = [p \in Page |-> IF p \in Drivers \ connected' THEN <<>> ELSE inbox[p]]

\* broadcastStatus: to the rider, and to the driver if there is one.
SendStatus(r, s) == Send({RiderOf[r], driverOf[r]}, "status", r, s)

\* A click whose call the server takes.
Ask(p, do, r) ==
    /\ Cardinality({c \in calls : c.by = p}) < MaxCalls
    /\ calls' = calls \cup {[by |-> p, do |-> do, ride |-> r]}
    /\ Quiet

\* The handler of the call has come to its end, and replied.
Replied(c) ==
    CASE c.do = "request" -> ~At(c.ride, "cacheNew")
      [] c.do = "start" -> c.ride \notin starting
      [] OTHER -> closing[c.ride] = "none"

\* Calls whose reply never comes; the catch of the request button enables it.
Drop(lost) ==
    /\ calls' = calls \ lost
    /\ form' = [u \in Riders |->
                    IF form[u] = "busy" /\ \E c \in lost : c.by = u /\ c.do = "request"
                    THEN "ready" ELSE form[u]]
    /\ UNCHANGED <<view, fading, offer>>

----------------------------------------------------------------------------
(* The server, with what it sends.                                          *)

\* Deviation for a mutant: the match is announced once it is committed.
LoopNewsEarly(r) ==
    CASE At(r, "send") -> Send({cand[r]}, "offer", r, "requested")
      [] At(r, "refusePool") -> Send({cand[r]}, "offer_expired", r, "requested")
      [] At(r, "hold") -> Send({RiderOf[r], cand[r]}, "matched", r, "matched")
      [] At(r, "tellNone") -> Send({RiderOf[r]}, "no_drivers", r, "no_drivers")
      [] OTHER -> Quiet

\* What each statement of the loop sends.
LoopNews(r) ==
    CASE At(r, "send") -> Send({cand[r]}, "offer", r, "requested")
      [] At(r, "refusePool") -> Send({cand[r]}, "offer_expired", r, "requested")
      [] At(r, "tell") -> Send({RiderOf[r], cand[r]}, "matched", r, "matched")
      [] At(r, "tellNone") -> Send({RiderOf[r]}, "no_drivers", r, "no_drivers")
      [] OTHER -> Quiet

\* startRide, completeRide and cancelRide broadcast the new status.
HandlerNews(r) ==
    CASE starting' # starting -> SendStatus(r, "in_progress")
      [] closing' # closing /\ closing'[r] = "none" -> SendStatus(r, status[r])
      [] OTHER -> Quiet

LoopOnline(r) == Loop(r) /\ LoopNews(r) /\ UNCHANGED <<calls, screenVars>>

HandlerOnline(r) == Handler(r) /\ HandlerNews(r) /\ UNCHANGED <<calls, screenVars>>

\* Everything else the server and the world do; the pages hear nothing of it,
\* but a crash breaks their connections.
Unheard ==
    /\ \/ \E r \in Rides : (Timeout(r) \/ Fault(r)) /\ UNCHANGED <<rideVars, driverVars, processVars>>
       \/ \E d \in Drivers : DriverNext(d)
       \/ Crash \/ Boot \/ Flush
    /\ Drop(IF up' THEN {} ELSE calls)
    /\ Quiet

----------------------------------------------------------------------------
(* The rider page.                                                          *)

Show(p, r, s) == view' = [view EXCEPT ![p] = [ride |-> r, status |-> s]]

SetForm(u, f) == form' = [form EXCEPT ![u] = f]

\* Deviation for a mutant: the label of the last status stays.
ClearRideOnly(u) ==
    /\ view' = [view EXCEPT ![u].ride = NoRide]
    /\ SetForm(u, "empty")

ClearRide(u) ==
    /\ view' = [view EXCEPT ![u] = Blank]
    /\ SetForm(u, "empty")

\* Map clicks: "points are locked once a ride is live".
PickPoints(u) ==
    /\ view[u] = Blank
    /\ form[u] = "empty"
    /\ SetForm(u, "ready")
    /\ UNCHANGED <<vars, inbox, calls, view, fading, offer>>

ClickRequest(u, r) ==
    /\ up
    /\ form[u] = "ready"
    /\ RiderOf[r] = u
    /\ RequestRide(r) /\ UNCHANGED <<driverVars, worldVars>>
    /\ Ask(u, "request", r)
    /\ SetForm(u, "busy")
    /\ UNCHANGED <<view, fading, offer>>

ClickCancel(u) ==
    LET r == view[u].ride
    IN  /\ up
        /\ May("cancel")
        /\ form[u] = "hidden"
        /\ view[u] # Blank
        /\ CancelRide(r) /\ UNCHANGED <<driverVars, worldVars>>
        /\ Ask(u, "cancel", r)
        /\ UNCHANGED screenVars

\* Deviation for a mutant: a timer for every status.
HearStatusAndFade(u, m) ==
    /\ m.what = "status"
    /\ Show(u, m.ride, m.status)
    /\ fading' = fading \cup {m.ride}
    /\ UNCHANGED form

\* ride:status; a ride that has ended is cleared by a timer.
HearStatus(u, m) ==
    /\ m.what = "status"
    /\ Show(u, m.ride, m.status)
    /\ fading' = fading \cup {s \in {m.ride} : m.status \in {"completed", "cancelled"}}
    /\ UNCHANGED form

HearMatched(u, m) ==
    /\ m.what = "matched"
    /\ Show(u, m.ride, m.status)
    /\ SetForm(u, "hidden")
    /\ UNCHANGED fading

\* ride:no_drivers: no look at the id.
HearNoDrivers(u, m) ==
    /\ m.what = "no_drivers"
    /\ ClearRide(u)
    /\ UNCHANGED fading

\* handleMessage.
RiderHears(u) ==
    LET m == Head(inbox[u])
    IN  /\ inbox[u] # <<>>
        /\ HearStatus(u, m) \/ HearMatched(u, m) \/ HearNoDrivers(u, m)
        /\ inbox' = [inbox EXCEPT ![u] = Tail(@)]
        /\ UNCHANGED <<vars, calls, offer>>

\* setTimeout(clearRide, 2500), whatever the page shows by then.
Fade(r) ==
    /\ r \in fading
    /\ fading' = fading \ {r}
    /\ ClearRide(RiderOf[r])
    /\ UNCHANGED <<vars, inbox, calls, offer>>

\* The 201 of a request, the 200 of a cancellation.
RiderReads(c) ==
    /\ Replied(c)
    /\ \/ c.do = "request" /\ Show(c.by, c.ride, "requested") /\ SetForm(c.by, "hidden")
       \/ c.do = "cancel" /\ ClearRide(c.by)
    /\ calls' = calls \ {c}
    /\ UNCHANGED <<vars, inbox, fading, offer>>

\* The rider's socket is down: what is under way is gone, and not asked for
\* again (connectSocket).
LoseNews(u) ==
    /\ inbox[u] # <<>>
    /\ inbox' = [inbox EXCEPT ![u] = <<>>]
    /\ UNCHANGED <<vars, calls, screenVars>>

----------------------------------------------------------------------------
(* The driver page.                                                         *)

HideOffer(d) == offer' = [offer EXCEPT ![d] = NoRide]

\* driver:accept: refused when the lock is not the ride's any more, without
\* effect when the offer is not open.
AcceptShown(d) ==
    LET r == offer[d]
    IN  \/ /\ cand[r] = d /\ AcceptOffer(r) /\ UNCHANGED <<rideVars, driverVars, worldVars>>
           /\ Quiet
        \/ lock[d] # r /\ UNCHANGED vars /\ Send({d}, "offer_expired", r, "requested")
        \/ lock[d] = r /\ ~(At(r, "wait") /\ cand[r] = d) /\ UNCHANGED <<vars, inbox>>

RejectShown(d) ==
    LET r == offer[d]
    IN  /\ May("reject")
        /\ \/ cand[r] = d /\ RejectOffer(r) /\ UNCHANGED <<rideVars, driverVars, worldVars>>
           \/ ~(pc[r] \in {"wait", "answering"} /\ cand[r] = d) /\ UNCHANGED vars
        /\ Quiet

\* respond: the offer is hidden, also when there is no socket to answer on or
\* the countdown has ended.
ClickAnswer(d) ==
    /\ offer[d] # NoRide
    /\ \/ up /\ d \in connected /\ (AcceptShown(d) \/ RejectShown(d))
       \/ UNCHANGED <<vars, inbox>>
    /\ HideOffer(d)
    /\ UNCHANGED <<calls, view, form, fading>>

\* The start button, or the complete button, whichever the job box shows.
ClickJob(d) ==
    LET r == view[d].ride
    IN  /\ up
        /\ May("start")
        /\ view[d] # Blank
        /\ IF view[d].status = "in_progress"
           THEN CompleteRide(r) /\ Ask(d, "complete", r)
           ELSE StartRide(r) /\ Ask(d, "start", r)
        /\ UNCHANGED <<driverVars, worldVars, screenVars>>

HearOffer(d, m) ==
    /\ m.what = "offer"
    /\ offer' = [offer EXCEPT ![d] = m.ride]
    /\ UNCHANGED view

HearExpired(d, m) ==
    /\ m.what = "offer_expired"
    /\ offer' = [offer EXCEPT ![d] = IF @ = m.ride THEN NoRide ELSE @]
    /\ UNCHANGED view

HearAssigned(d, m) ==
    /\ m.what = "matched"
    /\ Show(d, m.ride, m.status)
    /\ HideOffer(d)

ClearJob(d) == view' = [view EXCEPT ![d] = Blank]

HearJobStatus(d, m) ==
    /\ m.what = "status"
    /\ IF m.status \in {"completed", "cancelled"}
       THEN ClearJob(d)
       ELSE Show(d, m.ride, m.status)
    /\ UNCHANGED offer

DriverHears(d) ==
    LET m == Head(inbox[d])
    IN  /\ inbox[d] # <<>>
        /\ HearOffer(d, m) \/ HearExpired(d, m) \/ HearAssigned(d, m) \/ HearJobStatus(d, m)
        /\ inbox' = [inbox EXCEPT ![d] = Tail(@)]
        /\ UNCHANGED <<vars, calls, form, fading>>

DriverReads(c) ==
    /\ Replied(c)
    /\ \/ c.do = "start" /\ Show(c.by, c.ride, "in_progress")
       \/ c.do = "complete" /\ ClearJob(c.by)
    /\ calls' = calls \ {c}
    /\ UNCHANGED <<vars, inbox, form, fading, offer>>

----------------------------------------------------------------------------

(* Losses and reloads.                                                      *)

\* A call whose connection breaks.
LoseReply(c) == Drop({c}) /\ UNCHANGED <<vars, inbox>>

\* A page forgets what it showed and what it waited for ...
Forget(p) ==
    /\ up /\ MayReload
    /\ inbox' = [inbox EXCEPT ![p] = <<>>]
    /\ calls' = {c \in calls : c.by # p}
    /\ UNCHANGED vars

\* ... and shows the ride that Postgres has for its user, if there is one.
Restore(p, rides) ==
    \/ rides = {} /\ view' = [view EXCEPT ![p] = Blank]
    \/ \E r \in rides : Show(p, r, status[r])

\* restoreActiveRide.
ReloadRider(u) ==
    /\ Forget(u)
    /\ Restore(u, OpenRidesOf(u))
    /\ SetForm(u, IF OpenRidesOf(u) = {} THEN "empty" ELSE "hidden")
    /\ fading' = {r \in fading : RiderOf[r] # u}
    /\ UNCHANGED offer

\* restoreState.
ReloadDriver(d) ==
    /\ Forget(d)
    /\ Restore(d, LiveRidesOf(d))
    /\ HideOffer(d)
    /\ early' = early \cup {r \in LiveRidesOf(d) : ~At(r, "over")}
    /\ UNCHANGED <<form, fading>>

----------------------------------------------------------------------------

PageStep(p) ==
    \/ p \in Riders /\ (PickPoints(p) \/ ClickCancel(p) \/ RiderHears(p) \/ LoseNews(p)
                        \/ ReloadRider(p) \/ \E r \in Rides : ClickRequest(p, r))
    \/ p \in Drivers /\ (ClickAnswer(p) \/ ClickJob(p) \/ DriverHears(p))

PagesNext ==
    \/ /\ UNCHANGED early
       /\ \/ \E r \in Rides : LoopOnline(r) \/ HandlerOnline(r) \/ Fade(r)
          \/ Unheard
          \/ \E p \in Page : PageStep(p)
          \/ \E c \in calls : RiderReads(c) \/ DriverReads(c) \/ LoseReply(c)
    \/ \E d \in Drivers : ReloadDriver(d)

PagesSpec == Init /\ PagesInit /\ [][PagesNext]_<<vars, pageVars>>
=============================================================================
