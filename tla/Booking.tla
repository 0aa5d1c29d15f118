-------------------------------- MODULE Booking --------------------------------
(***************************************************************************)
(* What riders and drivers are promised, without locks, pools or loops:    *)
(* a driver serves one ride at a time and only rides he accepted, a rider  *)
(* has one open ride at a time, and a ride follows its life cycle.         *)
(***************************************************************************)
CONSTANTS Rides, Drivers, RiderOf

VARIABLES
    phase,      \* where each ride is in its life
    accepted,   \* pairs <<r, d>>: driver d said yes to ride r
    serving     \* the rides each driver is on

bookingVars == <<phase, accepted, serving>>

Active == {"requested", "matched", "in_progress"}

Init ==
    /\ phase = [r \in Rides |-> "absent"]
    /\ accepted = {}
    /\ serving = [d \in Drivers |-> {}]

Move(r, new) == phase' = [phase EXCEPT ![r] = new]

Release(r) == serving' = [d \in Drivers |-> serving[d] \ {r}]

Request(r) ==
    /\ phase[r] = "absent"
    /\ \A s \in Rides : RiderOf[s] = RiderOf[r] => phase[s] \notin Active
    /\ Move(r, "requested")
    /\ UNCHANGED <<accepted, serving>>

\* A driver may say yes too late: nothing follows from it then.
Accept(r, d) ==
    /\ phase[r] # "absent"
    /\ accepted' = accepted \cup {<<r, d>>}
    /\ UNCHANGED <<phase, serving>>

Assign(r, d) ==
    /\ phase[r] = "requested"
    /\ <<r, d>> \in accepted
    /\ serving[d] = {}
    /\ Move(r, "matched")
    /\ serving' = [serving EXCEPT ![d] = {r}]
    /\ UNCHANGED accepted

Start(r) ==
    /\ phase[r] = "matched"
    /\ Move(r, "in_progress")
    /\ UNCHANGED <<accepted, serving>>

Complete(r) ==
    /\ phase[r] = "in_progress"
    /\ Move(r, "completed")
    /\ Release(r)
    /\ UNCHANGED accepted

Cancel(r) ==
    /\ phase[r] \in {"requested", "matched"}
    /\ Move(r, "cancelled")
    /\ Release(r)
    /\ UNCHANGED accepted

GiveUp(r) ==
    /\ phase[r] = "requested"
    /\ Move(r, "no_drivers")
    /\ UNCHANGED <<accepted, serving>>

Next ==
    \E r \in Rides :
        \/ Request(r) \/ Start(r) \/ Complete(r) \/ Cancel(r) \/ GiveUp(r)
        \/ \E d \in Drivers : Accept(r, d) \/ Assign(r, d)

Spec == Init /\ [][Next]_bookingVars
=============================================================================
