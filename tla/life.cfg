\* A subscription through its days: bought, cut off or queued, retried, expired,
\* renewed beside the expiry job or purged, with a renewal and a failure or with
\* two failures.
SPECIFICATION Spec
CONSTANTS
  Users = {u1}
  fl_pc = fl_pc
  fl_mt = fl_mt
  awgNode = awgNode
  mtNode = mtNode
  Slots <- MCSlots
  Nodes <- MCNodes
  NodeOf <- MCNodeOf
  AwgSlots = {}
  MaxPayments = 2
  SubscriptionDays = 1
  PaymentExpireDays = 1
  PurgeDays = 1
  MaxRetries = 1
  MaxFaults = 2
  Msgs = {m1}
  EscapePoints <- SendEscapes
  Jobs = {"check_expired", "purge_zombies", "partial_provision", "expire_pending"}
  MaxNow = 4
  MaxRestarts = 0
CONSTRAINT SecondRequest
INVARIANT ServedUnlessDropped
PROPERTY SealOnMark
\* users and admins may do nothing more, and the bounded counters run out
CHECK_DEADLOCK FALSE
