SPECIFICATION Spec
CONSTANTS
  Devices = {"pc", "mtproto"}
  Payments = {1, 2}
  SubscriptionDays = 1
  Adjustments = {1, 2}
  MaxNow = 4
  MaxAdjusts = 2
  MaxFaults = 2
INVARIANT InForceServed
\* the days and the runs of the script are bounded
CHECK_DEADLOCK FALSE
