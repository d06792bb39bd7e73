-------------------------- MODULE SubscriptionJobs --------------------------
(***************************************************************************)
(* The scheduler's jobs over the same tables and nodes                     *)
(* (services/scheduler.py).  APScheduler never runs two instances of a job *)
(* at once, so each is one process; different jobs, and the handlers,      *)
(* interleave at every await.                                              *)
(***************************************************************************)
EXTENDS Provisioner

CONSTANT Jobs   \* the jobs this instance schedules

JobNames == {"check_expired", "purge_zombies", "partial_provision", "expire_pending"}

ASSUME JobsAssumption == Jobs \subseteq JobNames

VARIABLES
  sweep,  \* check_expired_subscriptions
  purge,  \* job_purge_zombies
  resume  \* job_partial_provision

jobVars == <<sweep, purge, resume>>

NoSweep == [pc |-> "idle", queue |-> {}, user |-> NoUser, todo |-> {}]
NoPurge == [pc |-> "idle", todo |-> {}]
NoResume == [pc |-> "idle", queue |-> {}, pay |-> 0]

JobsTypeOK ==
  /\ sweep \in [pc : {"idle", "load", "disable", "mark", "notify"},
                queue : SUBSET Users, user : Users \cup {NoUser},
                todo : SUBSET DeviceRow]
  /\ purge \in [pc : {"idle", "revoke", "delete"}, todo : SUBSET DeviceRow]
  /\ resume \in [pc : {"idle", "load", "run", "approve", "notify"},
                 queue : SUBSET PaymentIds, pay : PaymentIds \cup {0}]

JobsInit == sweep = NoSweep /\ purge = NoPurge /\ resume = NoResume

(* The jobs die with the process and are scheduled afresh. *)
JobsRestart == sweep' = NoSweep /\ purge' = NoPurge /\ resume' = NoResume

-----------------------------------------------------------------------------
(* check_expired_subscriptions: for each user found expired at the start,  *)
(* disable what the node knows of them, then mark and tell them.           *)

SweepStart ==
  /\ "check_expired" \in Jobs
  /\ sweep.pc = "idle"
  /\ GetExpiredUsers # {}
  /\ sweep' = [NoSweep EXCEPT !.pc = "load", !.queue = GetExpiredUsers]
  /\ UNCHANGED <<storeVars, nodeVars, purge, resume>>

SweepLoad ==
  /\ sweep.pc = "load"
  /\ \E u \in sweep.queue :
       sweep' = [pc |-> IF GetUserDevices(u) = {} THEN "mark" ELSE "disable",
                 queue |-> sweep.queue \ {u}, user |-> u, todo |-> GetUserDevices(u)]
  /\ UNCHANGED <<storeVars, nodeVars, purge, resume>>

(* Mutant: the loop ends after the first device. *)
SweepDisableFirst ==
  /\ sweep.pc = "disable"
  /\ LET d == FirstRow(sweep.todo)
         off == SwitchedTo(d.slot, d.pid, FALSE)
     IN  /\ sweep' = [sweep EXCEPT !.todo = {}, !.pc = "mark"]
         /\ IF HasProvider(d.slot)
              THEN Answered(d.slot, d.pid, off) \/ NotAnswered(d.slot, d.pid, off)
              ELSE UNCHANGED <<clients, faults>>
  /\ UNCHANGED <<storeVars, mounted, lastPid, task, purge, resume>>

(* disable_access reports failure by its return value, which is ignored. *)
SweepDisable ==
  /\ sweep.pc = "disable"
  /\ LET d == FirstRow(sweep.todo)
         rest == sweep.todo \ {d}
         off == SwitchedTo(d.slot, d.pid, FALSE)
     IN  /\ sweep' = [sweep EXCEPT !.todo = rest,
                                   !.pc = IF rest = {} THEN "mark" ELSE "disable"]
         /\ IF HasProvider(d.slot)
              THEN Answered(d.slot, d.pid, off) \/ NotAnswered(d.slot, d.pid, off)
              ELSE UNCHANGED <<clients, faults>>
  /\ UNCHANGED <<storeVars, mounted, lastPid, task, purge, resume>>

(* Mutant: the user is told but keeps the status. *)
SweepForgetsMark ==
  /\ sweep.pc = "mark"
  /\ sweep' = [sweep EXCEPT !.pc = "notify"]
  /\ UNCHANGED <<storeVars, nodeVars, purge, resume>>

SweepMark ==
  /\ sweep.pc = "mark"
  /\ UpdateUserStatus(sweep.user, "expired")
  /\ sweep' = [sweep EXCEPT !.pc = "notify"]
  /\ UNCHANGED <<payments, devices, lastDevice, now, nodeVars, purge, resume>>

(* "Access revoked. Tunnel sealed."; every send error is caught. *)
SweepNotify ==
  /\ sweep.pc = "notify"
  /\ sweep' = IF sweep.queue = {} THEN NoSweep
              ELSE [sweep EXCEPT !.pc = "load", !.user = NoUser]
  /\ UNCHANGED <<storeVars, nodeVars, purge, resume>>

(* No database error is caught inside the loop: the rest waits for the     *)
(* next run of the job.                                                    *)
SweepEscapes ==
  /\ sweep.pc \in {"load", "mark"}
  /\ Fault
  /\ sweep' = NoSweep
  /\ UNCHANGED <<storeVars, mounted, clients, lastPid, task, purge, resume>>

-----------------------------------------------------------------------------
(* job_purge_zombies: a row goes only after its client did. *)

PurgeStart ==
  /\ "purge_zombies" \in Jobs
  /\ purge.pc = "idle"
  /\ GetExpiredDevices # {}
  /\ purge' = [pc |-> "revoke", todo |-> GetExpiredDevices]
  /\ UNCHANGED <<storeVars, nodeVars, sweep, resume>>

PurgeRest(rest) ==
  purge' = IF rest = {} THEN NoPurge ELSE [pc |-> "revoke", todo |-> rest]

PurgeRevoke ==
  /\ purge.pc = "revoke"
  /\ LET d == FirstRow(purge.todo)
         gone == Without(d.slot, d.pid)
     IN  \/ /\ HasProvider(d.slot)
            /\ Answered(d.slot, d.pid, gone)
            /\ purge' = [purge EXCEPT !.pc = "delete"]
         \/ /\ HasProvider(d.slot)
            /\ NotAnswered(d.slot, d.pid, gone)
            /\ PurgeRest(purge.todo \ {d})
         \/ /\ ~HasProvider(d.slot)
            /\ PurgeRest(purge.todo \ {d})
            /\ UNCHANGED <<clients, faults>>
  /\ UNCHANGED <<storeVars, mounted, lastPid, task, sweep, resume>>

(* The delete may fail; the loop logs it and goes on. *)
PurgeDelete ==
  /\ purge.pc = "delete"
  /\ LET d == FirstRow(purge.todo)
     IN  /\ PurgeRest(purge.todo \ {d})
         /\ \/ DeleteDeviceRecord(d) /\ UNCHANGED faults
            \/ Fault /\ UNCHANGED devices
  /\ UNCHANGED <<users, payments, lastDevice, now, mounted, clients, lastPid,
                 task, sweep, resume>>

-----------------------------------------------------------------------------
(* job_partial_provision: one more attempt at what each partial payment    *)
(* misses, in the order of their ids.                                      *)

ResumeStart ==
  /\ "partial_provision" \in Jobs
  /\ resume.pc = "idle"
  /\ GetPartialPayments # {}
  /\ resume' = [NoResume EXCEPT !.pc = "load", !.queue = GetPartialPayments]
  /\ UNCHANGED <<storeVars, nodeVars, sweep, purge>>

ResumeNext ==
  resume' = IF resume.queue = {} THEN NoResume
            ELSE [resume EXCEPT !.pc = "load", !.pay = 0]

ResumeLoad ==
  /\ resume.pc = "load"
  /\ \E p \in resume.queue :
       /\ \A q \in resume.queue : p <= q
       /\ RetryPartial(p)
       /\ resume' = [pc |-> "run", queue |-> resume.queue \ {p}, pay |-> p]
  /\ UNCHANGED <<storeVars, mounted, clients, lastPid, faults, sweep, purge>>

(* Full success approves the payment; otherwise it stays partial. *)
ResumeSettle ==
  /\ resume.pc = "run"
  /\ TasksOver(resume.pay)
  /\ IF FullySuccessful(resume.pay) THEN resume' = [resume EXCEPT !.pc = "approve"]
                                    ELSE ResumeNext
  /\ ClearTasks(resume.pay)
  /\ UNCHANGED <<storeVars, mounted, clients, lastPid, faults, sweep, purge>>

(* Mutant: the user is told but the payment stays partial. *)
ResumeForgets ==
  /\ resume.pc = "approve"
  /\ resume' = [resume EXCEPT !.pc = "notify"]
  /\ UNCHANGED <<storeVars, nodeVars, sweep, purge>>

ResumeApprove ==
  /\ resume.pc = "approve"
  /\ SetPaymentStatus(resume.pay, "approved")
  /\ resume' = [resume EXCEPT !.pc = "notify"]
  /\ UNCHANGED <<users, devices, lastDevice, now, nodeVars, sweep, purge>>

(* "Full bundle deployed"; every send error is caught. *)
ResumeNotify ==
  /\ resume.pc = "notify"
  /\ ResumeNext
  /\ UNCHANGED <<storeVars, nodeVars, sweep, purge>>

(* A database error about one payment is caught; the others go on. *)
ResumeFails ==
  /\ Fault
  /\ \/ resume.pc = "approve" /\ ResumeNext
     \/ /\ resume.pc = "load"
        /\ \E p \in resume.queue :
             /\ \A q \in resume.queue : p <= q
             /\ resume' = IF resume.queue = {p} THEN NoResume
                          ELSE [resume EXCEPT !.queue = @ \ {p}]
  /\ UNCHANGED <<storeVars, mounted, clients, lastPid, task, sweep, purge>>

-----------------------------------------------------------------------------
(* job_expire_pending_payments is a single UPDATE. *)
ExpirePending ==
  /\ "expire_pending" \in Jobs
  /\ ExpireOldPendingPayments
  /\ UNCHANGED <<users, devices, lastDevice, now, nodeVars, jobVars>>

SweepNext == SweepStart \/ SweepLoad \/ SweepDisable \/ SweepMark \/ SweepNotify
             \/ SweepEscapes
PurgeNext == PurgeStart \/ PurgeRevoke \/ PurgeDelete
ResumeStep ==
  ResumeStart \/ ResumeLoad \/ ResumeSettle \/ ResumeApprove \/ ResumeNotify
  \/ ResumeFails

JobsNext == SweepNext \/ PurgeNext \/ ResumeStep \/ ExpirePending
=============================================================================
