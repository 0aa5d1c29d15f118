----------------------------- MODULE DriverService -----------------------------
(***************************************************************************)
(* drivers.routes.js (online, offline, location), the socket registry of   *)
(* ws/hub.js and the location message of ws/handlers.js.                   *)
(***************************************************************************)
EXTENDS RideService

VARIABLES
    online,     \* drivers.is_online
    toggle      \* next call of the online or offline handler of each driver

driverVars == <<online, toggle>>

ToggleLabel == {"none", "offUpdate", "offZrem", "offReply", "onPool"}

DriverType ==
    /\ online \in SUBSET Drivers
    /\ toggle \in [Drivers -> ToggleLabel]

DriverInit ==
    /\ online = Drivers
    /\ toggle = [d \in Drivers |-> "none"]

ToggleGoto(d, label) == toggle' = [toggle EXCEPT ![d] = label]

NoRideStep == UNCHANGED <<dispatchVars, rideVars>>

----------------------------------------------------------------------------
(* Sockets and positions.                                                   *)

Connect(d) ==
    /\ d \notin connected
    /\ connected' = connected \cup {d}
    /\ UNCHANGED <<storeVars, redisVars, loopVars, shown, faults, rideVars, driverVars>>

Disconnect(d) ==
    /\ d \in connected
    /\ connected' = connected \ {d}
    /\ UNCHANGED <<storeVars, redisVars, loopVars, shown, faults, rideVars, driverVars>>

\* driver:location, or POST /location without a socket.  Neither asks whether
\* the driver is on duty, and a page sends one whenever its marker is dragged.
Ping(d) ==
    /\ UpdatePosition(d)
    /\ UNCHANGED <<storeVars, driverVars>>
    /\ NoRideStep

GrowStale(d) ==
    /\ AgePosition(d)
    /\ UNCHANGED <<storeVars, driverVars>>
    /\ NoRideStep

----------------------------------------------------------------------------
(* POST /offline: read the active ride, UPDATE, ZREM, HSET online 0, reply. *)

GoOffline(d) ==
    /\ toggle[d] = "none"
    /\ d \in online
    /\ LiveRidesOf(d) = {}
    /\ ToggleGoto(d, "offUpdate")
    /\ UNCHANGED <<storeVars, redisVars, online>>
    /\ NoRideStep

OfflineUpdate(d) ==
    /\ toggle[d] = "offUpdate"
    /\ online' = online \ {d}
    /\ ToggleGoto(d, "offZrem")
    /\ UNCHANGED <<storeVars, redisVars>>
    /\ NoRideStep

OfflineLeave(d) ==
    /\ toggle[d] = "offZrem"
    /\ RemoveFromPool(d)
    /\ ToggleGoto(d, "offReply")
    /\ UNCHANGED <<storeVars, online>>
    /\ NoRideStep

OfflineReply(d) ==
    /\ toggle[d] = "offReply"
    /\ ToggleGoto(d, "none")
    /\ UNCHANGED <<storeVars, redisVars, online>>
    /\ NoRideStep

----------------------------------------------------------------------------
(* POST /online: UPDATE, then goOnline with or without a position.          *)

GoOnline(d) ==
    /\ toggle[d] = "none"
    /\ d \notin online
    /\ online' = online \cup {d}
    /\ ToggleGoto(d, "onPool")
    /\ UNCHANGED <<storeVars, redisVars>>
    /\ NoRideStep

OnlinePool(d) ==
    /\ toggle[d] = "onPool"
    /\ UpdatePosition(d) \/ UNCHANGED redisVars
    /\ ToggleGoto(d, "none")
    /\ UNCHANGED <<storeVars, online>>
    /\ NoRideStep

ToggleStep(d) ==
    \/ OfflineUpdate(d) \/ OfflineLeave(d) \/ OfflineReply(d) \/ OnlinePool(d)
=============================================================================
