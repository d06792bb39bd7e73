\* Two payments of a user whose photos may be handled at once: receipts,
\* competing clicks, bundles, renewals and retries of one day, with a failure.
SPECIFICATION Spec
CONSTANTS
  Users = {u1}
  fl_pc = fl_pc
  fl_mt = fl_mt
  awgNode = awgNode
  mtNode = mtNode
  Slots <- MCSlots
  Nodes <- MCNodes
  NodeOf <- MCNodeOf
  AwgSlots = {}
  MaxPayments = 2
  SubscriptionDays = 1
  PaymentExpireDays = 1
  PurgeDays = 1
  MaxRetries = 1
  MaxFaults = 1
  Msgs = {m1, m2}
  EscapePoints = {}
  Jobs = {"partial_provision"}
  MaxNow = 1
  MaxRestarts = 0
INVARIANT ServedOrQueued
PROPERTIES OnePending LedgerSpec
SYMMETRY ReceiptsAlike
\* users and admins may do nothing more, and the bounded counters run out
CHECK_DEADLOCK FALSE
