SPECIFICATION Spec
CONSTANTS
  r1 = r1
  r2 = r2
  r3 = r3
  d1 = d1
  d2 = d2
  u1 = u1
  u2 = u2
  u3 = u3
  Rides = {r1, r2}
  Drivers = {d1}
  Riders = {u1, u2, u3}
  RiderOf <- RidersOfRides
  NoDriver = NoDriver
  NoRide = NoRide
  MaxCandidates = 2
  MaxScan = 3
  Slack = 10
  UnsafeDisableLock = FALSE
  MaxFaults = 0
  Env <- LateAnswers
  MaxCrashes = 0
  MaxFlushes = 0
SYMMETRY Symmetry
INVARIANTS
  NotOfferedWhileBusy
