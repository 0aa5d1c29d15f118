---------------------------- MODULE PageGuarantees ----------------------------
(***************************************************************************)
(* What holds of the server and its pages together.                        *)
(***************************************************************************)
EXTENDS Guarantees, Pages

\* What a page may say of a ride, given its row in Postgres.
Happened(r, s) ==
    CASE s = "requested" -> status[r] # "absent"
      [] s = "matched" -> driverOf[r] # NoDriver
      [] s = "in_progress" -> status[r] \in {"in_progress", "completed"}
      [] OTHER -> status[r] = s

\* No page shows a state its ride has not reached, and no driver a job that is
\* not his, however replies and messages overtake each other.
NothingAhead ==
    \A p \in Page : view[p] # Blank =>
        /\ Happened(view[p].ride, view[p].status)
        /\ p \in Drivers => driverOf[view[p].ride] = p
        /\ p \in Riders => RiderOf[view[p].ride] = p

\* A trip is started only after its match has been announced: the tail of
\* the dispatch loop never runs against the handlers of the trip, unless the
\* driver found his job by reloading the page.
TripAfterTell ==
    \A r \in Rides : status[r] \in {"in_progress", "completed"} =>
        pc[r] = "over" \/ r \in early

\* The snapshot of a trip under way says so, and the positions are relayed
\* as on the way to the dropoff: no late write of "matched" lands on it,
\* with the same exception.
SnapshotInStep ==
    up => \A r \in Rides : status[r] = "in_progress" /\ r \notin starting =>
            cache[r] = "in_progress" \/ r \in early

\* The time to answer is up: the loop of r is about to record it, has recorded
\* it, or was cut short by a crash or a failing call of Postgres.
TimeUp(r, d) ==
    \/ At(r, "timeout") /\ cand[r] = d
    \/ offers[r][d] = "timeout"
    \/ /\ offers[r][d] = "pending" /\ pc[r] \in {"failed", "tellNone", "over"}
       /\ faults > 0 \/ crashes > 0

\* The offer a driver looks at is open, made to him, holds his lock and finds
\* him without a live ride; or its time is up; or a hold came loose, since the
\* TTL of the lock ends before the wait does.
OfferOnScreenIsHis ==
    \A d \in Drivers : offer[d] # NoRide =>
        LET r == offer[d]
        IN  \/ /\ At(r, "wait") /\ cand[r] = d
               /\ \/ lock[d] = r /\ \A s \in LiveRidesOf(d) : <<s, d>> \in loose
                  \/ <<r, d>> \in loose
            \/ TimeUp(r, d)

\* The step takes a message, a timer or a reply about s from the page of u.
Consumes(u, s) ==
    \/ inbox[u] # <<>> /\ Head(inbox[u]).ride = s /\ inbox'[u] = Tail(inbox[u])
    \/ s \in fading \ fading'
    \/ \E c \in calls \ calls' : c.by = u /\ c.ride = s

\* As long as Postgres answers, what makes a rider page let go of an open ride
\* is a message, a timer or a reply about another ride of his, which has ended.
OnlyOldNewsHides ==
    [][faults = 0 => \A u \in Riders : \A r \in Rides :
        view[u].ride = r /\ status[r] \in Open /\ view'[u].ride # r =>
            \E s \in Rides \ {r} :
                RiderOf[s] = u /\ status[s] \in Closed /\ Consumes(u, s)]_<<vars, pageVars>>
=============================================================================
