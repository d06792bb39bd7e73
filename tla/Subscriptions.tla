--------------------------- MODULE Subscriptions ---------------------------
(***************************************************************************)
(* The end date and the status of one subscriber against the accesses that *)
(* are enabled.  Three parties write them without a lock: the approval of  *)
(* a renewal (handlers/admin.py), the expiry job (services/scheduler.py),  *)
(* and the administrator's script, which moves the end date (menu entries  *)
(* 5 to 7 of scripts/db_admin.py) beside the running bot.                  *)
(*                                                                         *)
(* The subscriber has a device on every node throughout: the first         *)
(* purchase and the purge, a month after the expiry, are in Bot.           *)
(***************************************************************************)
EXTENDS Integers, FiniteSets

CONSTANTS
  Devices,           \* the subscriber's devices
  Payments,          \* renewals requested
  SubscriptionDays,
  Adjustments,       \* numbers of days the script adds or removes
  MaxNow,            \* bound on the days
  MaxAdjusts,        \* bound on the runs of the script
  MaxFaults          \* bound on failed calls, failed statements and restarts

ASSUME SubscriptionsAssumption ==
  /\ SubscriptionDays \in Nat \ {0} /\ Adjustments \subseteq Nat
  /\ MaxNow \in Nat /\ MaxAdjusts \in Nat /\ MaxFaults \in Nat

VARIABLES
  now,      \* the day
  end,      \* users.sub_end_date
  status,   \* users.status
  on,       \* devices the nodes have enabled
  renewal,  \* renewal[p]: the approval of p, the devices to go, the end it read
  script,   \* the adjustment in progress: what it will write
  sweep,    \* check_expired_subscriptions: the devices to go
  adjusts,  \* adjustments so far
  faults,   \* failures so far
  missed,   \* devices whose last call failed, or whose party ended before it
            \* could record what it had switched (history)
  mixed     \* a party began while another was at work, or the script changed
            \* the status, since a party last began alone (history)

vars == <<now, end, status, on, renewal, script, sweep, adjusts, faults, missed, mixed>>

Waiting == [pc |-> "waiting", todo |-> {}, seen |-> 0, end |-> 0]
Done == [pc |-> "done", todo |-> {}, seen |-> 0, end |-> 0]
NoScript == [pc |-> "idle", end |-> 0, status |-> "active"]
NoSweep == [pc |-> "idle", todo |-> {}]

TypeOK ==
  /\ now \in 0 .. MaxNow
  /\ end \in Nat
  /\ status \in {"active", "expired"}
  /\ on \subseteq Devices /\ missed \subseteq Devices
  /\ renewal \in [Payments -> [pc : {"waiting", "enable", "read", "write", "done"},
                               todo : SUBSET Devices, seen : Nat, end : Nat]]
  /\ script \in [pc : {"idle", "write"}, end : Nat, status : {"active", "expired"}]
  /\ sweep \in [pc : {"idle", "disable", "mark"}, todo : SUBSET Devices]
  /\ adjusts \in 0 .. MaxAdjusts /\ faults \in 0 .. MaxFaults
  /\ mixed \in BOOLEAN

Init ==
  /\ now = 0 /\ end = SubscriptionDays /\ status = "active" /\ on = Devices
  /\ renewal = [p \in Payments |-> Waiting]
  /\ script = NoScript /\ sweep = NoSweep
  /\ adjusts = 0 /\ faults = 0 /\ missed = {} /\ mixed = FALSE

Renewing == \E p \in Payments : renewal[p].pc \notin {"waiting", "done"}
Adjusting == script # NoScript
Sweeping == sweep # NoSweep
Quiet == ~Renewing /\ ~Adjusting /\ ~Sweeping

Fails == faults < MaxFaults /\ faults' = faults + 1

(* A call of enable_access or disable_access: a failure is logged at most. *)
Switch(d, devices) ==
  \/ on' = devices /\ missed' = missed \ {d} /\ UNCHANGED faults
  \/ on' \in {on, devices} /\ missed' = missed \cup {d} /\ Fails

-----------------------------------------------------------------------------
(* approve_payment, once the claim of the payment succeeded.               *)
Approve(p) ==
  /\ renewal[p].pc = "waiting"
  /\ renewal' = [renewal EXCEPT ![p].pc = "enable", ![p].todo = Devices]
  /\ mixed' = (~Quiet /\ (mixed \/ Adjusting \/ Sweeping))
  /\ UNCHANGED <<now, end, status, on, script, sweep, adjusts, faults, missed>>

(* Mutant: the devices are not enabled again. *)
EnableNone(p) ==
  /\ renewal[p].pc = "enable"
  /\ renewal' = [renewal EXCEPT ![p].pc = "read", ![p].todo = {}]
  /\ UNCHANGED <<now, end, status, on, script, sweep, adjusts, faults, missed, mixed>>

Enable(p) ==
  /\ renewal[p].pc = "enable"
  /\ \/ \E d \in renewal[p].todo :
          /\ renewal' = [renewal EXCEPT ![p].todo = @ \ {d}]
          /\ Switch(d, on \cup {d})
     \/ /\ renewal[p].todo = {}
        /\ renewal' = [renewal EXCEPT ![p].pc = "read"]
        /\ UNCHANGED <<on, faults, missed>>
  /\ UNCHANGED <<now, end, status, script, sweep, adjusts, mixed>>

(* Mutant: a renewal counts from today. *)
FromNow == now + SubscriptionDays

ExtendedEnd == (IF end > now THEN end ELSE now) + SubscriptionDays

(* update_user_subscription: get_user, then UPDATE. *)
ReadEnd(p) ==
  /\ renewal[p].pc = "read"
  /\ renewal' = [renewal EXCEPT ![p].pc = "write", ![p].seen = end, ![p].end = ExtendedEnd]
  /\ UNCHANGED <<now, end, status, on, script, sweep, adjusts, faults, missed, mixed>>

WriteEnd(p) ==
  /\ renewal[p].pc = "write"
  /\ end' = renewal[p].end /\ status' = "active"
  /\ renewal' = [renewal EXCEPT ![p] = Done]
  /\ UNCHANGED <<now, on, script, sweep, adjusts, faults, missed, mixed>>

(* A statement of the database fails and ends the handler: get_user_devices *)
(* before the first device, or get_user or the UPDATE after the last.      *)
RenewalEscapes(p) ==
  /\ \/ renewal[p].pc = "enable" /\ renewal[p].todo = Devices
     \/ renewal[p].pc \in {"read", "write"}
  /\ Fails
  /\ renewal' = [renewal EXCEPT ![p] = Done]
  /\ missed' = IF renewal[p].pc = "enable" \/ status = "expired" THEN Devices ELSE missed
  /\ UNCHANGED <<now, end, status, on, script, sweep, adjusts, mixed>>

-----------------------------------------------------------------------------
(* adjust_user_subscription: get_user, then UPDATE.                        *)

(* Mutant: the end date may come to lie in the past. *)
EndBefore(delta) == (IF end > now THEN end ELSE now) + delta

AdjustedEnd(delta) ==
  LET moved == (IF end > now THEN end ELSE now) + delta IN IF moved > now THEN moved ELSE now

Adjust ==
  /\ script = NoScript
  /\ adjusts < MaxAdjusts /\ adjusts' = adjusts + 1
  /\ \E delta \in Adjustments \cup {-d : d \in Adjustments} :
       LET to == AdjustedEnd(delta) IN
         script' = [pc |-> "write", end |-> to,
                    status |-> IF to > now THEN "active" ELSE "expired"]
  /\ mixed' = (mixed \/ Renewing \/ Sweeping)
  /\ UNCHANGED <<now, end, status, on, renewal, sweep, faults, missed>>

(* No access is enabled or disabled. *)
WriteAdjusted ==
  /\ script.pc = "write"
  /\ end' = script.end /\ status' = script.status
  /\ script' = NoScript
  /\ mixed' = (mixed \/ status' # status)
  /\ UNCHANGED <<now, on, renewal, sweep, adjusts, faults, missed>>

(* The UPDATE fails, and the script with it. *)
ScriptEscapes ==
  /\ script.pc = "write" /\ script' = NoScript
  /\ Fails
  /\ UNCHANGED <<now, end, status, on, renewal, sweep, adjusts, missed, mixed>>

-----------------------------------------------------------------------------
(* check_expired_subscriptions for this subscriber. *)
SweepBegin ==
  /\ sweep = NoSweep
  /\ end < now /\ status = "active"
  /\ sweep' = [pc |-> "disable", todo |-> Devices]
  /\ mixed' = ~Quiet
  /\ UNCHANGED <<now, end, status, on, renewal, script, adjusts, faults, missed>>

SweepDisable ==
  /\ sweep.pc = "disable"
  /\ \/ \E d \in sweep.todo :
          /\ sweep' = [sweep EXCEPT !.todo = @ \ {d}]
          /\ Switch(d, on \ {d})
     \/ /\ sweep.todo = {} /\ sweep' = [sweep EXCEPT !.pc = "mark"]
        /\ UNCHANGED <<on, faults, missed>>
  /\ UNCHANGED <<now, end, status, renewal, script, adjusts, mixed>>

(* update_user_status: the end date is not looked at again. *)
SweepMark ==
  /\ sweep.pc = "mark" /\ sweep' = NoSweep
  /\ status' = "expired"
  /\ UNCHANGED <<now, end, on, renewal, script, adjusts, faults, missed, mixed>>

(* get_user_devices or update_user_status fails and ends the job. *)
SweepEscapes ==
  /\ \/ sweep.pc = "disable" /\ sweep.todo = Devices
     \/ sweep.pc = "mark"
  /\ Fails
  /\ sweep' = NoSweep
  /\ missed' = IF sweep.pc = "disable" \/ status = "active" THEN Devices ELSE missed
  /\ UNCHANGED <<now, end, status, on, renewal, script, adjusts, mixed>>

-----------------------------------------------------------------------------
(* The bot's process dies; payments in hand stay approved. *)
Restart ==
  /\ Fails
  /\ renewal' = [p \in Payments |-> IF renewal[p] = Waiting THEN Waiting ELSE Done]
  /\ sweep' = NoSweep
  /\ missed' = IF Renewing \/ Sweeping THEN Devices ELSE missed
  /\ UNCHANGED <<now, end, status, on, script, adjusts, mixed>>

(* A day is long beside the two statements of an update. *)
Tick ==
  /\ ~Adjusting /\ \A p \in Payments : renewal[p].pc # "write"
  /\ now < MaxNow /\ now' = now + 1
  /\ UNCHANGED <<end, status, on, renewal, script, sweep, adjusts, faults, missed, mixed>>

Next ==
  \/ \E p \in Payments : \/ Approve(p) \/ Enable(p) \/ ReadEnd(p) \/ WriteEnd(p)
                       \/ RenewalEscapes(p)
  \/ SweepBegin \/ SweepDisable \/ SweepMark \/ SweepEscapes
  \/ Adjust \/ WriteAdjusted \/ ScriptEscapes
  \/ Restart \/ Tick

Spec == Init /\ [][Next]_vars

-----------------------------------------------------------------------------
(* The accesses follow the status: enabled for an active subscriber and    *)
(* disabled for an expired one, but for devices whose last call failed and *)
(* for those of a party that ended early: killed with the bot, or by a     *)
(* statement that raised (a renewal whose UPDATE fails leaves an expired   *)
(* subscriber served).  Any number of renewals may overlap; a renewal and  *)
(* the expiry job that overlap, or a status the script changed, may leave  *)
(* it otherwise.  The next renewal or expiry that has the subscriber to    *)
(* itself and comes to its end sets all of it right.                       *)
AccessFollows ==
  Quiet /\ ~mixed =>
    IF status = "active" THEN Devices \ missed \subseteq on ELSE on \subseteq missed

(* "Access renewed": the days of a renewal are added to those left, unless *)
(* another update came between its read and its write, the UPDATE raised   *)
(* or the bot died.                                                        *)
RenewalAdds ==
  [][\A p \in Payments :
       renewal[p].pc = "write" /\ renewal'[p].pc = "done" /\ faults' = faults =>
         end' >= end + SubscriptionDays \/ renewal[p].seen # end]_vars

(* "The subscription is extended until ..." (db_admin.py): with nothing in *)
(* progress and no failed call, who is active with days left is served.    *)
InForceServed ==
  Quiet /\ missed = {} /\ status = "active" /\ end > now => on = Devices
=============================================================================
