------------------------------ MODULE Engagement ------------------------------
(***************************************************************************)
(* What the driver lock is for, without locks, pools or messages: a driver *)
(* is engaged by one ride at a time, first while he is asked and then,     *)
(* after his yes, until the ride ends.  A hold on a driver may slip before *)
(* his yes is booked, and he is then free to be asked by another ride; but *)
(* he is booked only where no other ride has him.  A restart forgets the   *)
(* questions and none of the bookings, and mends every hold.               *)
(***************************************************************************)
CONSTANTS Rides, Drivers, NoDriver

VARIABLES
    asks,       \* the driver each ride is asking, if any
    booked,     \* the driver each ride was booked on, for good
    live,       \* the rides that have their driver now
    slipped     \* pairs of a ride and a driver: holds that have slipped

engagementVars == <<asks, booked, live, slipped>>

Nobody == [r \in Rides |-> NoDriver]

Init == asks = Nobody /\ booked = Nobody /\ live = {} /\ slipped = {}

Has(r, d) == r \in live /\ booked[r] = d

Engaged(d) == \E r \in Rides : <<r, d>> \notin slipped /\ (asks[r] = d \/ Has(r, d))

StopAsking(r) == asks' = [asks EXCEPT ![r] = NoDriver]

Ask(r, d) ==
    /\ asks[r] = NoDriver /\ booked[r] = NoDriver
    /\ ~Engaged(d)
    /\ asks' = [asks EXCEPT ![r] = d]
    /\ UNCHANGED <<booked, live, slipped>>

\* The booking takes hold, or the one who booked does not learn of it.
Book(r) ==
    /\ asks[r] # NoDriver
    /\ \A s \in Rides : ~Has(s, asks[r])
    /\ booked' = [booked EXCEPT ![r] = asks[r]]
    /\ live' = live \cup {r}
    /\ StopAsking(r)
    /\ UNCHANGED slipped \/ slipped' = slipped \cup {<<r, asks[r]>>}

LetGo(r) ==
    /\ asks[r] # NoDriver
    /\ StopAsking(r)
    /\ UNCHANGED <<booked, live, slipped>>

End(r) ==
    /\ r \in live
    /\ live' = live \ {r}
    /\ UNCHANGED <<asks, booked, slipped>>

Slip ==
    /\ \E gone \in SUBSET (Rides \X Drivers) : slipped' = slipped \cup gone
    /\ UNCHANGED <<asks, booked, live>>

Restart ==
    /\ asks' = Nobody
    /\ slipped' = {}
    /\ UNCHANGED <<booked, live>>

Next ==
    \/ \E r \in Rides :
        \/ Book(r) \/ LetGo(r) \/ End(r)
        \/ \E d \in Drivers : Ask(r, d)
    \/ Slip \/ Restart

Spec == Init /\ [][Next]_engagementVars
=============================================================================
