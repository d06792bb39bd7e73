-------------------------------- MODULE Bot --------------------------------
(***************************************************************************)
(* The running bot: the payment handlers and the scheduled jobs over one   *)
(* database and one set of nodes, with restarts and the passing of days.   *)
(***************************************************************************)
EXTENDS PaymentDesk, SubscriptionJobs

CONSTANTS
  MaxNow,      \* bound on the clock
  MaxRestarts  \* bound on the restarts of the process

ASSUME BotAssumption == MaxNow \in Nat /\ MaxRestarts \in Nat

VARIABLE restarts  \* restarts so far (auxiliary)

vars == <<storeVars, nodeVars, deskVars, jobVars, restarts>>

TypeOK ==
  /\ StoreTypeOK /\ ProvisionerTypeOK /\ DeskTypeOK /\ JobsTypeOK
  /\ restarts \in 0 .. MaxRestarts

Init == StoreInit /\ ProvisionerInit /\ DeskInit /\ JobsInit /\ restarts = 0

(* A node call times out after 15 seconds and is tried three times, so no  *)
(* handler or job lives for a day: days pass between them.                 *)
Quiet == DeskIdle /\ jobVars = <<NoSweep, NoPurge, NoResume>>

Tick ==
  /\ Quiet
  /\ now < MaxNow
  /\ now' = now + 1
  /\ UNCHANGED <<users, payments, devices, lastDevice, nodeVars, deskVars, jobVars,
                 restarts>>

(* The process dies at any point and the container starts again.  The      *)
(* database and the nodes stay.                                            *)
Restart ==
  /\ restarts < MaxRestarts
  /\ restarts' = restarts + 1
  /\ ProvisionerRestart
  /\ DeskRestart
  /\ JobsRestart
  /\ UNCHANGED storeVars

Tasks ==
  \E p \in PaymentIds, s \in Slots :
    TaskStep(p, s) /\ UNCHANGED <<deskVars, jobVars, restarts>>

Next ==
  \/ DeskNext /\ UNCHANGED <<jobVars, restarts>>
  \/ JobsNext /\ UNCHANGED <<deskVars, restarts>>
  \/ Tasks
  \/ Tick
  \/ Restart

Spec == Init /\ [][Next]_vars

-----------------------------------------------------------------------------
(* The payment desk implements the ledger: whatever interleaving of        *)
(* receipts, clicks, retries, failures and restarts, no payment is decided *)
(* twice or extends a subscription twice, and only paid ones go partial.   *)
Ledger == INSTANCE PaymentLedger WITH
  status <- [p \in PaymentIds |-> payments[p].status], credited <- credits

LedgerSpec == Ledger!LedgerSpec

(* "You already have an active request in queue": while a user has a       *)
(* pending request, no photo makes another, however photos, decisions,     *)
(* lapses, restarts and the checks of buy_subscription and process_receipt *)
(* interleave; only photos that were both past the check before either had *)
(* made its request can make two.                                          *)
OnePending ==
  [][\A m \in Msgs :
       receipt[m].pay = 0 /\ receipt'[m].pay # 0 /\ HasPendingPayment(receipt[m].user)
         => receipt[m].crowded]_vars

Busy(u) ==
  \/ \E p \in PaymentIds : /\ payments[p].tg_id = u
                           /\ desk[p].pc \notin {"idle", "done", "dead"}
  \/ resume.pay # 0 /\ payments[resume.pay].tg_id = u

Served(u) == \A s \in BundleSlots : \E d \in GetUserDevices(u) : d.slot = s
Queued(u) == \E p \in GetPartialPayments : payments[p].tg_id = u

(* A subscriber nobody is working for has the whole bundle the mounted     *)
(* nodes offer, or a partial payment the retry job will find.              *)
ServedOrQueued ==
  \A u \in Users : users[u].status = "active" /\ ~Busy(u) => Served(u) \/ Queued(u)

(* An approval of u was cut off by an exception (or the process died). *)
Dropped(u) == \E p \in PaymentIds : payments[p].tg_id = u /\ desk[p].pc = "dead"

(* An approval of u that had to create the bundle ran to its end. *)
Bundled(u) ==
  \E p \in PaymentIds :
    payments[p].tg_id = u /\ desk[p].pc = "done" /\ ~desk[p].renewal

(* No row was ever deleted: every AUTOINCREMENT id is still there. *)
Unpurged == 1 .. lastDevice \subseteq {d.id : d \in devices}

(* The same where exceptions escape and days go by: an approval that was   *)
(* cut off costs the place in the queue only if none before or after it    *)
(* saw the bundle through (a renewal does not), and nothing else does      *)
(* until the process starts again or an access is purged.                  *)
ServedUnlessDropped ==
  restarts = 0 /\ Unpurged =>
    \A u \in Users :
      users[u].status = "active" /\ ~Busy(u) /\ (Dropped(u) => Bundled(u))
        => Served(u) \/ Queued(u)

On(d) == \E c \in Client(d.slot, d.pid) : c.on

(* A renewal of u has overtaken the expiry job: u is paid up again, or an  *)
(* approval of theirs was claimed and has not been credited.               *)
Renewing(u) ==
  \/ users[u].sub_end >= now
  \/ \E p \in PaymentIds :
       payments[p].tg_id = u /\ payments[p].status = "approved" /\ credits[p] = 0

(* When check_expired marks a user, an access of theirs still enabled is   *)
(* the trace of a failed call: every row was disabled before, and a row    *)
(* the retry job added meanwhile was missing for a failure.  A renewal     *)
(* that overtakes the job enables rows behind it; after a restart a row    *)
(* may be on a node nobody knows; a purged row is missing for no failure.  *)
SealOnMark ==
  [][sweep.pc = "mark" /\ users'[sweep.user].status = "expired"
     /\ restarts = 0 /\ Unpurged /\ ~Renewing(sweep.user)
       => Cardinality({d \in GetUserDevices(sweep.user) : On(d)}) <= faults]_vars

(* Clients are left behind on a node only by a step in which a call of     *)
(* that task failed, at the POST or after it, or the process died; a task  *)
(* that gives up otherwise has deleted what it created (_execute_single's  *)
(* roll-back, and create_client's lookups by name).                        *)
LeakOnlyOnLoss ==
  [][\A s \in Slots :
       \/ Cardinality(Orphans(s)') <= Cardinality(Orphans(s))
       \/ restarts' = restarts + 1
       \/ faults' = faults + 1 /\ \E p \in PaymentIds :
            task[p][s].pc \in {"post", "relist", "config", "rollback"}]_vars

-----------------------------------------------------------------------------
(* The event loop runs every ready coroutine, the scheduler starts its     *)
(* jobs, calls end (they time out), and days pass.  Users and admins are   *)
(* under no obligation.                                                    *)
Fairness ==
  /\ \A p \in PaymentIds, s \in Slots :
       WF_vars(TaskStep(p, s) /\ UNCHANGED <<deskVars, jobVars, restarts>>)
  /\ \A p \in PaymentIds : WF_vars(ApproveStep(p) /\ UNCHANGED <<jobVars, restarts>>)
  /\ \A m \in Msgs : WF_vars(ReceiptNext(m) /\ UNCHANGED <<jobVars, restarts>>)
  /\ \A u \in Users : WF_vars(BuyShow(u) /\ UNCHANGED <<jobVars, restarts>>)
  /\ WF_vars(SweepNext /\ UNCHANGED <<deskVars, restarts>>)
  /\ WF_vars(PurgeNext /\ UNCHANGED <<deskVars, restarts>>)
  /\ WF_vars(ResumeStep /\ UNCHANGED <<deskVars, restarts>>)
  /\ WF_vars(ExpirePending /\ UNCHANGED <<deskVars, restarts>>)
  /\ SF_vars(Tick)

FairSpec == Spec /\ Fairness

(* A partial payment is completed in the end, failures being finite: the   *)
(* retry job never loses one.                                              *)
PartialCompletes ==
  \A p \in PaymentIds : payments[p].status = "partial" ~> payments[p].status = "approved"

(* "Request auto-destructs in 24h": an unanswered request is decided or    *)
(* lapses, even when its notice never reached an admin, and so cannot      *)
(* block its user for good.  (Within the clock's bound.)                   *)
RequestLapses ==
  \A p \in PaymentIds :
    payments[p].status = "pending" /\ payments[p].created + PaymentExpireDays < MaxNow
      ~> payments[p].status # "pending"

(* A subscription that ran out is noticed: its user is marked or renewed.  *)
ExpiryNoticed ==
  \A u \in Users : u \in GetExpiredUsers ~> u \notin GetExpiredUsers
=============================================================================
