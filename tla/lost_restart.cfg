\* The process dies after the confirmation: nothing is provisioned, nothing
\* retries.
SPECIFICATION Spec
CONSTANTS
  Users = {u1}
  fl_pc = fl_pc
  fl_mt = fl_mt
  awgNode = awgNode
  mtNode = mtNode
  Slots <- MCSlots
  Nodes <- MCNodes
  NodeOf <- MCNodeOf
  AwgSlots <- MCAwgSlots
  MaxPayments = 1
  SubscriptionDays = 1
  PaymentExpireDays = 1
  PurgeDays = 1
  MaxRetries = 1
  MaxFaults = 0
  Msgs = {m1}
  EscapePoints = {}
  Jobs = {"check_expired", "purge_zombies", "partial_provision", "expire_pending"}
  MaxNow = 1
  MaxRestarts = 1
INVARIANT ServedOrQueued
\* users and admins may do nothing more, and the bounded counters run out
CHECK_DEADLOCK FALSE
