\* One bundle with two attempts a slot, three failures, an escaped exception or
\* a death of the process, and the retry job: what is left on nodes and in the
\* tables.
SPECIFICATION Spec
CONSTANTS
  Users = {u1}
  fl_pc = fl_pc
  fl_mt = fl_mt
  awgNode = awgNode
  mtNode = mtNode
  Slots <- MCSlots
  Nodes <- MCNodes
  NodeOf <- MCNodeOf
  AwgSlots <- MCAwgSlots
  MaxPayments = 1
  SubscriptionDays = 1
  PaymentExpireDays = 1
  PurgeDays = 1
  MaxRetries = 2
  MaxFaults = 3
  Msgs = {m1}
  EscapePoints <- AllEscapes
  Jobs = {"partial_provision"}
  MaxNow = 1
  MaxRestarts = 1
INVARIANT NameUnique
PROPERTIES LeakOnlyOnLoss LedgerSpec
\* users and admins may do nothing more, and the bounded counters run out
CHECK_DEADLOCK FALSE
