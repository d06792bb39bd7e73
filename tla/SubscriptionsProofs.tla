------------------------ MODULE SubscriptionsProofs ------------------------
(***************************************************************************)
(* Theorems about the end date, the status and the accesses of a           *)
(* subscriber, for any devices, renewals, adjustments and days.            *)
(***************************************************************************)
EXTENDS Subscriptions, TLAPS

(* Where the parties are: what a step leaves to do, and what it has read.  *)
Places ==
  /\ \A p \in Payments :
       /\ renewal[p].pc \in {"read", "write"} => renewal[p].todo = {}
       /\ renewal[p].pc = "write" => renewal[p].end >= renewal[p].seen + SubscriptionDays
  /\ sweep.pc = "mark" => sweep.todo = {}
  /\ sweep.pc = "idle" => sweep = NoSweep
  /\ script.pc = "idle" => script = NoScript

TypeInv == TypeOK /\ Places

Follows ==
  IF status = "active" THEN Devices \ missed \subseteq on ELSE on \subseteq missed

(* While no other kind of party came between, each leaves behind it only   *)
(* devices it switched, or failed to.                                      *)
AccessInv ==
  ~mixed =>
    /\ Sweeping => ~Renewing /\ on \subseteq sweep.todo \cup missed
    /\ Adjusting => ~Renewing /\ ~Sweeping
    /\ ~Renewing /\ ~Sweeping => Follows
    /\ \A p \in Payments :
         renewal[p].pc \in {"enable", "read", "write"} =>
           Devices \ renewal[p].todo \subseteq on \cup missed

IInv == TypeInv /\ AccessInv

-----------------------------------------------------------------------------
(* Types.                                                                  *)

Approvals == [pc : {"waiting", "enable", "read", "write", "done"},
              todo : SUBSET Devices, seen : Nat, end : Nat]

(* What the invariant says of one approval.                                *)
Placed(r) ==
  /\ r.pc \in {"read", "write"} => r.todo = {}
  /\ r.pc = "write" => r.end >= r.seen + SubscriptionDays

(* The parameters are numbers.                                             *)
LEMMA Numbers ==
  /\ SubscriptionDays \in Nat /\ SubscriptionDays > 0 /\ Adjustments \subseteq Nat
  /\ MaxNow \in Nat /\ MaxAdjusts \in Nat /\ MaxFaults \in Nat
  BY SubscriptionsAssumption

(* The two dates an update may write lie neither in the past nor before    *)
(* what they extend.                                                       *)
LEMMA Dates ==
  ASSUME now \in Nat, end \in Nat
  PROVE  /\ ExtendedEnd \in Nat /\ ExtendedEnd >= end + SubscriptionDays
         /\ \A delta \in Int : AdjustedEnd(delta) \in Nat /\ AdjustedEnd(delta) >= now
<1>1. ExtendedEnd \in Nat /\ ExtendedEnd >= end + SubscriptionDays
  BY Numbers DEF ExtendedEnd
<1>2. ASSUME NEW delta \in Int PROVE AdjustedEnd(delta) \in Nat /\ AdjustedEnd(delta) >= now
  <2> DEFINE moved == (IF end > now THEN end ELSE now) + delta
  <2>1. moved \in Int
    OBVIOUS
  <2>2. AdjustedEnd(delta) = IF moved > now THEN moved ELSE now
    BY DEF AdjustedEnd
  <2> HIDE DEF moved
  <2> QED
    BY <2>1, <2>2
<1> QED
  BY <1>1, <1>2

(* A failure is counted within its bound.                                  *)
LEMMA FailsType ==
  ASSUME faults \in 0 .. MaxFaults, Fails
  PROVE  faults' \in 0 .. MaxFaults
  BY Numbers DEF Fails

(* A call touches one device.                                              *)
LEMMA SwitchType ==
  ASSUME TypeOK, NEW d \in Devices, NEW devices \in SUBSET Devices, Switch(d, devices)
  PROVE  on' \subseteq Devices /\ missed' \subseteq Devices /\ faults' \in 0 .. MaxFaults
<1>1. CASE on' = devices /\ missed' = missed \ {d} /\ UNCHANGED faults
  BY <1>1 DEF TypeOK
<1>2. CASE on' \in {on, devices} /\ missed' = missed \cup {d} /\ Fails
  BY <1>2, FailsType DEF TypeOK
<1> QED
  BY <1>1, <1>2 DEF Switch

(* One approval moves and the others stay.                                 *)
LEMMA ApprovalMoves ==
  ASSUME TypeInv, NEW p \in Payments, NEW r \in Approvals, Placed(r),
         renewal' = [renewal EXCEPT ![p] = r]
  PROVE  /\ renewal' \in [Payments -> Approvals] /\ renewal'[p] = r
         /\ \A q \in Payments \ {p} : renewal'[q] = renewal[q]
         /\ \A q \in Payments : Placed(renewal'[q])
<1>1. /\ renewal' \in [Payments -> Approvals] /\ renewal'[p] = r
      /\ \A q \in Payments \ {p} : renewal'[q] = renewal[q]
  BY DEF TypeInv, TypeOK, Approvals
<1>2. \A q \in Payments : Placed(renewal[q])
  BY DEF TypeInv, Places, Placed
<1> QED
  BY <1>1, <1>2

(* Each step of an approval, as the record it leaves.                      *)
LEMMA ApprovalSteps ==
  ASSUME TypeInv, NEW p \in Payments,
         Approve(p) \/ Enable(p) \/ ReadEnd(p) \/ WriteEnd(p) \/ RenewalEscapes(p)
  PROVE  \E r \in Approvals :
           Placed(r) /\ renewal' = [renewal EXCEPT ![p] = r]
<1>0. /\ renewal \in [Payments -> Approvals] /\ renewal[p] \in Approvals
      /\ now \in Nat /\ end \in Nat /\ Placed(renewal[p])
  BY Numbers DEF TypeInv, TypeOK, Approvals, Places, Placed
<1>1. CASE Approve(p)
  <2> DEFINE r == [renewal[p] EXCEPT !.pc = "enable", !.todo = Devices]
  <2>1. r \in Approvals /\ r.pc = "enable"
    BY <1>0 DEF Approvals
  <2>2. renewal' = [renewal EXCEPT ![p] = r]
    BY <1>0, <1>1 DEF Approve, Approvals
  <2>3. Placed(r)
    BY <2>1 DEF Placed
  <2> QED
    BY <2>1, <2>2, <2>3
<1>2. CASE Enable(p) /\ \E d \in renewal[p].todo : renewal' = [renewal EXCEPT ![p].todo = @ \ {d}]
  <2>1. PICK d \in renewal[p].todo : renewal' = [renewal EXCEPT ![p].todo = @ \ {d}]
    BY <1>2
  <2> DEFINE r == [renewal[p] EXCEPT !.todo = @ \ {d}]
  <2>2. r \in Approvals /\ r.pc = "enable"
    BY <1>0, <1>2 DEF Approvals, Enable
  <2>3. renewal' = [renewal EXCEPT ![p] = r]
    BY <1>0, <2>1 DEF Approvals
  <2>4. Placed(r)
    BY <2>2 DEF Placed
  <2> QED
    BY <2>2, <2>3, <2>4
<1>3. CASE Enable(p) /\ renewal[p].todo = {} /\ renewal' = [renewal EXCEPT ![p].pc = "read"]
  <2> DEFINE r == [renewal[p] EXCEPT !.pc = "read"]
  <2>1. r \in Approvals /\ r.pc = "read" /\ r.todo = {}
    BY <1>0, <1>3 DEF Approvals
  <2>2. renewal' = [renewal EXCEPT ![p] = r]
    BY <1>0, <1>3 DEF Approvals
  <2>3. Placed(r)
    BY <2>1 DEF Placed
  <2> QED
    BY <2>1, <2>2, <2>3
<1>4. CASE ReadEnd(p)
  <2> DEFINE r == [renewal[p] EXCEPT !.pc = "write", !.seen = end, !.end = ExtendedEnd]
  <2>1. r \in Approvals /\ r.pc = "write" /\ r.todo = {} /\ r.seen = end /\ r.end = ExtendedEnd
    BY <1>0, <1>4, Dates DEF Approvals, ReadEnd, Placed
  <2>2. renewal' = [renewal EXCEPT ![p] = r]
    BY <1>0, <1>4 DEF Approvals, ReadEnd
  <2>3. Placed(r)
    BY <1>0, <2>1, Dates DEF Placed
  <2> QED
    BY <2>1, <2>2, <2>3
<1>5. CASE WriteEnd(p) \/ RenewalEscapes(p)
  <2>1. Done \in Approvals /\ Placed(Done)
    BY DEF Done, Approvals, Placed
  <2> QED
    BY <1>5, <2>1 DEF WriteEnd, RenewalEscapes
<1> QED
  BY <1>1, <1>2, <1>3, <1>4, <1>5 DEF Enable

(* Types and places hold at the start.                                     *)
LEMMA TypeInit == Init => TypeInv
<1> SUFFICES ASSUME Init PROVE TypeInv
  OBVIOUS
<1>1. /\ renewal = [p \in Payments |-> Waiting] /\ sweep = NoSweep /\ script = NoScript
      /\ now = 0 /\ end = SubscriptionDays /\ adjusts = 0 /\ faults = 0
      /\ status = "active" /\ on = Devices /\ missed = {} /\ mixed = FALSE
  BY DEF Init
<1>2. 0 \in 0 .. MaxNow /\ 0 \in 0 .. MaxAdjusts /\ 0 \in 0 .. MaxFaults /\ SubscriptionDays \in Nat
  BY Numbers
<1>3. Waiting \in Approvals
  BY DEF Waiting, Approvals
<1>4. renewal \in [Payments -> Approvals]
  BY <1>1, <1>3
<1>5. TypeOK
  BY <1>1, <1>2, <1>4 DEF TypeOK, Approvals, NoSweep, NoScript
<1>6. Places
  BY <1>1 DEF Places, Waiting, NoSweep, NoScript
<1> QED
  BY <1>5, <1>6 DEF TypeInv

(* The bot dies: the approvals in hand are over.                           *)
LEMMA RestartMoves ==
  ASSUME TypeInv, Restart
  PROVE  /\ renewal' \in [Payments -> Approvals]
         /\ \A p \in Payments : Placed(renewal'[p]) /\ renewal'[p].pc \in {"waiting", "done"}
         /\ sweep' = NoSweep
<1>1. Waiting \in Approvals /\ Done \in Approvals
  BY DEF Waiting, Done, Approvals
<1>2. renewal' = [p \in Payments |-> IF renewal[p] = Waiting THEN Waiting ELSE Done]
  BY DEF Restart
<1>3. renewal' \in [Payments -> Approvals]
  BY <1>1, <1>2
<1>4. \A p \in Payments : renewal'[p] \in {Waiting, Done}
  BY <1>2
<1>5. Placed(Waiting) /\ Placed(Done) /\ Waiting.pc = "waiting" /\ Done.pc = "done"
  BY DEF Placed, Waiting, Done
<1> QED
  BY <1>3, <1>4, <1>5 DEF Restart

(* Every step keeps types and places.                                      *)
LEMMA TypeStep == TypeInv /\ [Next]_vars => TypeInv'
<1> SUFFICES ASSUME TypeInv, [Next]_vars PROVE TypeInv'
  OBVIOUS
<1>0. \A p \in Payments : Placed(renewal[p])
  BY DEF TypeInv, Places, Placed
<1>1. CASE \E p \in Payments : Approve(p) \/ Enable(p) \/ ReadEnd(p) \/ WriteEnd(p) \/ RenewalEscapes(p)
  <2>1. PICK p \in Payments : Approve(p) \/ Enable(p) \/ ReadEnd(p) \/ WriteEnd(p) \/ RenewalEscapes(p)
    BY <1>1
  <2>2. renewal' \in [Payments -> Approvals] /\ \A q \in Payments : Placed(renewal'[q])
    BY <2>1, ApprovalSteps, ApprovalMoves
  <2>3. UNCHANGED <<now, script, sweep, adjusts>>
    BY <2>1 DEF Approve, Enable, ReadEnd, WriteEnd, RenewalEscapes
  <2>4. end' \in Nat /\ status' \in {"active", "expired"} /\ mixed' \in BOOLEAN
    BY <2>1 DEF Approve, Enable, ReadEnd, WriteEnd, RenewalEscapes, TypeInv, TypeOK
  <2>5. on' \subseteq Devices /\ missed' \subseteq Devices /\ faults' \in 0 .. MaxFaults
    <3>1. CASE UNCHANGED <<on, missed, faults>>
      BY <3>1 DEF TypeInv, TypeOK
    <3>2. CASE Enable(p) /\ ~UNCHANGED <<on, missed, faults>>
      <4>1. PICK d \in renewal[p].todo : Switch(d, on \cup {d})
        BY <3>2 DEF Enable
      <4>2. d \in Devices /\ on \cup {d} \in SUBSET Devices
        BY <4>1 DEF TypeInv, TypeOK
      <4> QED
        BY <4>1, <4>2, SwitchType DEF TypeInv
    <3>3. CASE RenewalEscapes(p)
      BY <3>3, FailsType DEF RenewalEscapes, TypeInv, TypeOK
    <3> QED
      BY <2>1, <3>1, <3>2, <3>3 DEF Approve, ReadEnd, WriteEnd
  <2>6. TypeOK'
    BY <2>2, <2>3, <2>4, <2>5 DEF TypeInv, TypeOK, Approvals
  <2>7. Places'
    BY <2>2, <2>3 DEF TypeInv, Places, Placed
  <2> QED
    BY <2>6, <2>7 DEF TypeInv
<1>2. CASE SweepBegin \/ SweepDisable \/ SweepMark \/ SweepEscapes
  <2>1. UNCHANGED <<now, end, renewal, script, adjusts>>
    BY <1>2 DEF SweepBegin, SweepDisable, SweepMark, SweepEscapes
  <2>2. status' \in {"active", "expired"} /\ mixed' \in BOOLEAN
    BY <1>2 DEF SweepBegin, SweepDisable, SweepMark, SweepEscapes, TypeInv, TypeOK
  <2>3. /\ sweep' \in [pc : {"idle", "disable", "mark"}, todo : SUBSET Devices]
        /\ (sweep'.pc = "mark" => sweep'.todo = {}) /\ (sweep'.pc = "idle" => sweep' = NoSweep)
    <3>1. CASE SweepBegin
      BY <3>1 DEF SweepBegin
    <3>2. CASE SweepDisable
      <4>1. sweep.pc = "disable" /\ sweep.todo \subseteq Devices
        BY <3>2 DEF SweepDisable, TypeInv, TypeOK
      <4>2. CASE \E d \in sweep.todo : sweep' = [sweep EXCEPT !.todo = @ \ {d}]
        BY <4>1, <4>2 DEF TypeInv, TypeOK
      <4>3. CASE sweep.todo = {} /\ sweep' = [sweep EXCEPT !.pc = "mark"]
        BY <4>1, <4>3 DEF TypeInv, TypeOK
      <4> QED
        BY <3>2, <4>2, <4>3 DEF SweepDisable
    <3>3. CASE SweepMark \/ SweepEscapes
      BY <3>3 DEF SweepMark, SweepEscapes, NoSweep
    <3> QED
      BY <1>2, <3>1, <3>2, <3>3
  <2>4. on' \subseteq Devices /\ missed' \subseteq Devices /\ faults' \in 0 .. MaxFaults
    <3>1. CASE UNCHANGED <<on, missed, faults>>
      BY <3>1 DEF TypeInv, TypeOK
    <3>2. CASE SweepDisable /\ ~UNCHANGED <<on, missed, faults>>
      <4>1. PICK d \in sweep.todo : Switch(d, on \ {d})
        BY <3>2 DEF SweepDisable
      <4>2. d \in Devices /\ on \ {d} \in SUBSET Devices
        BY <4>1 DEF TypeInv, TypeOK
      <4> QED
        BY <4>1, <4>2, SwitchType DEF TypeInv
    <3>3. CASE SweepEscapes
      BY <3>3, FailsType DEF SweepEscapes, TypeInv, TypeOK
    <3> QED
      BY <1>2, <3>1, <3>2, <3>3 DEF SweepBegin, SweepMark
  <2>5. TypeOK'
    BY <2>1, <2>2, <2>3, <2>4 DEF TypeInv, TypeOK
  <2>6. Places'
    BY <2>1, <2>3 DEF TypeInv, Places, NoScript, NoSweep
  <2> QED
    BY <2>5, <2>6 DEF TypeInv
<1>3. CASE Adjust
  <2>1. PICK delta \in Adjustments \cup {-d : d \in Adjustments} :
          script' = [pc |-> "write", end |-> AdjustedEnd(delta),
                     status |-> IF AdjustedEnd(delta) > now THEN "active" ELSE "expired"]
    BY <1>3 DEF Adjust
  <2>2. delta \in Int
    <3>1. \A d \in Adjustments : d \in Int /\ -d \in Int
      BY Numbers
    <3>2. delta \in Adjustments \/ \E d \in Adjustments : delta = -d
      OBVIOUS
    <3> QED
      BY <3>1, <3>2
  <2>3. now \in Nat /\ end \in Nat
    BY Numbers DEF TypeInv, TypeOK
  <2>4. AdjustedEnd(delta) \in Nat
    BY <2>2, <2>3, Dates
  <2>5. script' \in [pc : {"idle", "write"}, end : Nat, status : {"active", "expired"}] /\ script'.pc = "write"
    BY <2>1, <2>4
  <2>6. adjusts' \in 0 .. MaxAdjusts
    BY <1>3, Numbers DEF Adjust, TypeInv, TypeOK
  <2>7. UNCHANGED <<now, end, status, on, renewal, sweep, faults, missed>> /\ mixed' \in BOOLEAN
    BY <1>3 DEF Adjust, TypeInv, TypeOK
  <2>8. TypeOK'
    BY <2>5, <2>6, <2>7 DEF TypeInv, TypeOK
  <2>9. Places'
    BY <2>5, <2>7 DEF TypeInv, Places, NoSweep
  <2> QED
    BY <2>8, <2>9 DEF TypeInv
<1>4. CASE WriteAdjusted
  <2>1. /\ end' \in Nat /\ status' \in {"active", "expired"} /\ mixed' \in BOOLEAN
        /\ script' = NoScript /\ UNCHANGED <<now, on, renewal, sweep, adjusts, faults, missed>>
    BY <1>4 DEF WriteAdjusted, TypeInv, TypeOK
  <2>2. TypeOK'
    BY <2>1 DEF TypeInv, TypeOK, NoScript
  <2>3. Places'
    BY <2>1 DEF TypeInv, Places, NoScript, NoSweep
  <2> QED
    BY <2>2, <2>3 DEF TypeInv
<1>8. CASE ScriptEscapes
  <2>1. /\ UNCHANGED <<now, end, status, on, renewal, sweep, adjusts, missed, mixed>>
        /\ script' = NoScript /\ faults' \in 0 .. MaxFaults
    BY <1>8, FailsType DEF ScriptEscapes, TypeInv, TypeOK
  <2>2. TypeOK'
    BY <2>1 DEF TypeInv, TypeOK, NoScript
  <2>3. Places'
    BY <2>1 DEF TypeInv, Places, NoScript, NoSweep
  <2> QED
    BY <2>2, <2>3 DEF TypeInv
<1>5. CASE Restart
  <2>1. /\ renewal' \in [Payments -> Approvals] /\ \A p \in Payments : Placed(renewal'[p])
        /\ sweep' = NoSweep
    BY <1>5, RestartMoves
  <2>2. faults' \in 0 .. MaxFaults /\ missed' \subseteq Devices
    BY <1>5, FailsType DEF Restart, TypeInv, TypeOK
  <2>3. UNCHANGED <<now, end, status, on, script, adjusts, mixed>>
    BY <1>5 DEF Restart
  <2>4. TypeOK'
    BY <2>1, <2>2, <2>3 DEF TypeInv, TypeOK, Approvals, NoSweep
  <2>5. Places'
    BY <2>1, <2>3 DEF TypeInv, Places, Placed, NoScript, NoSweep
  <2> QED
    BY <2>4, <2>5 DEF TypeInv
<1>6. CASE Tick
  <2>1. now' \in 0 .. MaxNow
    BY <1>6, Numbers DEF Tick, TypeInv, TypeOK
  <2>2. UNCHANGED <<end, status, on, renewal, script, sweep, adjusts, faults, missed, mixed>>
    BY <1>6 DEF Tick
  <2>3. TypeOK'
    BY <2>1, <2>2 DEF TypeInv, TypeOK
  <2>4. Places'
    BY <2>2 DEF TypeInv, Places, NoScript, NoSweep
  <2> QED
    BY <2>3, <2>4 DEF TypeInv
<1>7. CASE UNCHANGED vars
  BY <1>7 DEF vars, TypeInv, TypeOK, Places, NoScript, NoSweep
<1> QED
  BY <1>1, <1>2, <1>3, <1>4, <1>5, <1>6, <1>7, <1>8 DEF Next

-----------------------------------------------------------------------------
(* The accesses.                                                           *)

(* What an approval has enabled, or failed to.                             *)
Enabled(r) ==
  r.pc \in {"enable", "read", "write"} => Devices \ r.todo \subseteq on \cup missed

(* Enabling a device, whatever comes of the call, leaves it and those      *)
(* enabled before either on or missed.                                     *)
LEMMA SwitchOn ==
  ASSUME NEW d \in Devices, Switch(d, on \cup {d})
  PROVE  on \cup missed \cup {d} \subseteq on' \cup missed'
<1>1. CASE on' = on \cup {d} /\ missed' = missed \ {d}
  BY <1>1
<1>2. CASE on' \in {on, on \cup {d}} /\ missed' = missed \cup {d}
  BY <1>2
<1> QED
  BY <1>1, <1>2 DEF Switch

(* Disabling a device leaves it off or missed.                             *)
LEMMA SwitchOff ==
  ASSUME NEW d \in Devices, NEW todo, on \subseteq todo \cup missed, Switch(d, on \ {d})
  PROVE  on' \subseteq (todo \ {d}) \cup missed'
<1>1. CASE on' = on \ {d} /\ missed' = missed \ {d}
  BY <1>1
<1>2. CASE on' \in {on, on \ {d}} /\ missed' = missed \cup {d}
  BY <1>2
<1> QED
  BY <1>1, <1>2 DEF Switch

(* Nothing but a renewal's own steps and the restart moves its approval.   *)
LEMMA RenewingIs ==
  ASSUME TypeOK
  PROVE  Renewing <=> \E p \in Payments : renewal[p].pc \in {"enable", "read", "write"}
  BY DEF Renewing, TypeOK

(* An approval begins: with the subscriber to itself, or beside renewals   *)
(* that had it.                                                            *)
LEMMA ApproveAccess ==
  ASSUME TypeInv, AccessInv, NEW p \in Payments, Approve(p)
  PROVE  AccessInv'
<1>1. CASE mixed'
  BY <1>1 DEF AccessInv
<1>2. CASE ~mixed'
  <2>1. ~Adjusting /\ ~Sweeping /\ (Renewing => ~mixed)
    BY <1>2 DEF Approve, Quiet
  <2>2. /\ renewal' = [renewal EXCEPT ![p].pc = "enable", ![p].todo = Devices]
        /\ UNCHANGED <<status, on, script, sweep, missed>>
    BY DEF Approve
  <2>3. /\ renewal'[p].pc = "enable" /\ renewal'[p].todo = Devices
        /\ \A q \in Payments \ {p} : renewal'[q] = renewal[q]
    BY <2>2 DEF TypeInv, TypeOK
  <2>4. Renewing' /\ ~Adjusting' /\ ~Sweeping'
    BY <2>1, <2>2, <2>3 DEF Renewing, Adjusting, Sweeping, NoSweep, NoScript
  <2>5. ASSUME NEW q \in Payments PROVE Enabled(renewal[q])'
    <3>1. CASE q = p
      BY <2>3, <3>1 DEF Enabled
    <3>2. CASE q # p
      <4>1. CASE Renewing
        BY <2>1, <2>2, <2>3, <3>2, <4>1 DEF AccessInv, Enabled
      <4>2. CASE ~Renewing
        BY <2>3, <3>2, <4>2, RenewingIs DEF Enabled, TypeInv
      <4> QED
        BY <4>1, <4>2
    <3> QED
      BY <3>1, <3>2
  <2> QED
    BY <2>4, <2>5 DEF AccessInv, Enabled
<1> QED
  BY <1>1, <1>2

(* A renewal at work has the subscriber to itself and other renewals.      *)
LEMMA RenewalAlone ==
  ASSUME TypeInv, AccessInv, ~mixed, Renewing
  PROVE  ~Adjusting /\ ~Sweeping /\ \A q \in Payments : Enabled(renewal[q])
  BY DEF AccessInv, Enabled

(* The steps of a renewal.                                                 *)
LEMMA RenewalAccess ==
  ASSUME TypeInv, AccessInv, NEW p \in Payments, Enable(p) \/ ReadEnd(p) \/ WriteEnd(p)
  PROVE  AccessInv'
<1>1. CASE mixed
  <2>1. mixed'
    BY <1>1 DEF Enable, ReadEnd, WriteEnd
  <2> QED
    BY <2>1 DEF AccessInv
<1>2. CASE ~mixed
  <2>1. renewal[p].pc \in {"enable", "read", "write"} /\ Renewing
    BY DEF Enable, ReadEnd, WriteEnd, Renewing
  <2>2. ~Adjusting /\ ~Sweeping /\ \A q \in Payments : Enabled(renewal[q])
    BY <1>2, <2>1, RenewalAlone
  <2>3. ~Adjusting' /\ ~Sweeping'
    BY <2>2 DEF Enable, ReadEnd, WriteEnd, Adjusting, Sweeping, NoScript, NoSweep
  <2>4. /\ renewal' \in [Payments -> Approvals]
        /\ \A q \in Payments \ {p} : renewal'[q] = renewal[q]
    BY ApprovalSteps, ApprovalMoves
  <2>5. on \cup missed \subseteq on' \cup missed'
    <3>1. CASE on' = on /\ missed' = missed
      BY <3>1
    <3>2. CASE Enable(p) /\ \E d \in renewal[p].todo : Switch(d, on \cup {d})
      <4>1. PICK d \in renewal[p].todo : Switch(d, on \cup {d})
        BY <3>2
      <4>2. d \in Devices
        BY <4>1 DEF TypeInv, TypeOK
      <4> QED
        BY <4>1, <4>2, SwitchOn
    <3> QED
      BY <3>1, <3>2 DEF Enable, ReadEnd, WriteEnd
  <2>6. \A q \in Payments \ {p} : Enabled(renewal[q])'
    BY <2>2, <2>4, <2>5 DEF Enabled
  <2>7. CASE Enable(p)
    <3>1. renewal[p].pc = "enable" /\ Devices \ renewal[p].todo \subseteq on \cup missed
      BY <2>2, <2>7 DEF Enable, Enabled
    <3>2. CASE \E d \in renewal[p].todo :
                 renewal' = [renewal EXCEPT ![p].todo = @ \ {d}] /\ Switch(d, on \cup {d})
      <4>1. PICK d \in renewal[p].todo :
              renewal' = [renewal EXCEPT ![p].todo = @ \ {d}] /\ Switch(d, on \cup {d})
        BY <3>2
      <4>2. d \in Devices
        BY <4>1 DEF TypeInv, TypeOK
      <4>3. renewal'[p].todo = renewal[p].todo \ {d} /\ renewal'[p].pc = "enable"
        BY <3>1, <4>1 DEF TypeInv, TypeOK
      <4>4. on \cup missed \cup {d} \subseteq on' \cup missed'
        BY <4>1, <4>2, SwitchOn
      <4>5. Devices \ renewal'[p].todo \subseteq on' \cup missed'
        BY <3>1, <4>3, <4>4
      <4>6. Enabled(renewal[p])'
        BY <4>5 DEF Enabled
      <4>7. Renewing'
        BY <4>3 DEF Renewing
      <4> QED
        BY <2>3, <2>6, <4>6, <4>7 DEF AccessInv, Enabled
    <3>3. CASE renewal' = [renewal EXCEPT ![p].pc = "read"]
      <4>1. renewal'[p].pc = "read" /\ renewal'[p].todo = renewal[p].todo
        BY <3>3 DEF TypeInv, TypeOK
      <4>2. Enabled(renewal[p])'
        BY <2>5, <3>1, <4>1 DEF Enabled
      <4>3. Renewing'
        BY <4>1 DEF Renewing
      <4> QED
        BY <2>3, <2>6, <4>2, <4>3 DEF AccessInv, Enabled
    <3> QED
      BY <2>7, <3>2, <3>3 DEF Enable
  <2>8. CASE ReadEnd(p)
    <3>1. renewal'[p].pc = "write" /\ renewal'[p].todo = renewal[p].todo
      BY <2>8 DEF ReadEnd, TypeInv, TypeOK
    <3>2. Enabled(renewal[p])'
      BY <2>1, <2>2, <2>5, <3>1 DEF Enabled
    <3>3. Renewing'
      BY <3>1 DEF Renewing
    <3> QED
      BY <2>3, <2>6, <3>2, <3>3 DEF AccessInv, Enabled
  <2>9. CASE WriteEnd(p)
    <3>1. renewal'[p] = Done /\ status' = "active" /\ on' = on /\ missed' = missed
      BY <2>9 DEF WriteEnd, TypeInv, TypeOK
    <3>2. Enabled(renewal[p])'
      BY <3>1 DEF Enabled, Done
    <3>3. Devices \subseteq on \cup missed
      <4>1. renewal[p].todo = {}
        BY <2>9 DEF WriteEnd, TypeInv, Places
      <4> QED
        BY <2>1, <2>2, <4>1 DEF Enabled
    <3>4. Follows'
      BY <3>1, <3>3 DEF Follows
    <3> QED
      BY <2>3, <2>6, <3>2, <3>4 DEF AccessInv, Enabled
  <2> QED
    BY <2>7, <2>8, <2>9
<1> QED
  BY <1>1, <1>2

(* The expiry job.                                                         *)
LEMMA SweepAccess ==
  ASSUME TypeInv, AccessInv, SweepBegin \/ SweepDisable \/ SweepMark
  PROVE  AccessInv'
<1>0. /\ UNCHANGED <<renewal, script>> /\ (Renewing' <=> Renewing)
      /\ (Adjusting' <=> Adjusting)
  BY DEF SweepBegin, SweepDisable, SweepMark, Renewing, Adjusting, NoScript
<1>1. CASE mixed'
  BY <1>1 DEF AccessInv
<1>2. CASE SweepBegin /\ ~mixed'
  <2>1. Quiet /\ sweep' = [pc |-> "disable", todo |-> Devices] /\ on' = on /\ missed' = missed
    BY <1>2 DEF SweepBegin
  <2>2. on' \subseteq sweep'.todo \cup missed' /\ Sweeping'
    BY <2>1 DEF TypeInv, TypeOK, Sweeping, NoSweep
  <2>3. \A q \in Payments : renewal'[q].pc \notin {"enable", "read", "write"}
    BY <1>0, <2>1, RenewingIs DEF Quiet, TypeInv
  <2> QED
    BY <1>0, <2>1, <2>2, <2>3 DEF AccessInv, Quiet
<1>3. CASE SweepDisable /\ ~mixed'
  <2>1. ~mixed /\ sweep.pc = "disable" /\ Sweeping
    BY <1>3 DEF SweepDisable, Sweeping, NoSweep
  <2>2. ~Renewing /\ ~Adjusting /\ on \subseteq sweep.todo \cup missed
    BY <2>1 DEF AccessInv
  <2>3. on' \subseteq sweep'.todo \cup missed' /\ Sweeping'
    <3>1. CASE \E d \in sweep.todo : sweep' = [sweep EXCEPT !.todo = @ \ {d}] /\ Switch(d, on \ {d})
      <4>1. PICK d \in sweep.todo : sweep' = [sweep EXCEPT !.todo = @ \ {d}] /\ Switch(d, on \ {d})
        BY <3>1
      <4>2. d \in Devices
        BY <4>1 DEF TypeInv, TypeOK
      <4>3. on' \subseteq (sweep.todo \ {d}) \cup missed'
        BY <2>2, <4>1, <4>2, SwitchOff
      <4>4. sweep'.todo = sweep.todo \ {d} /\ sweep'.pc = "disable"
        BY <2>1, <4>1 DEF TypeInv, TypeOK
      <4> QED
        BY <4>3, <4>4 DEF Sweeping, NoSweep
    <3>2. CASE sweep' = [sweep EXCEPT !.pc = "mark"] /\ UNCHANGED <<on, missed>>
      <4>1. sweep'.todo = sweep.todo /\ sweep'.pc = "mark"
        BY <3>2 DEF TypeInv, TypeOK
      <4> QED
        BY <2>2, <3>2, <4>1 DEF Sweeping, NoSweep
    <3> QED
      BY <1>3, <3>1, <3>2 DEF SweepDisable
  <2>4. \A q \in Payments : renewal'[q].pc \notin {"enable", "read", "write"}
    BY <1>0, <2>2, RenewingIs DEF TypeInv
  <2> QED
    BY <1>0, <2>2, <2>3, <2>4 DEF AccessInv
<1>4. CASE SweepMark /\ ~mixed'
  <2>1. /\ ~mixed /\ sweep.pc = "mark" /\ sweep' = NoSweep /\ status' = "expired"
        /\ on' = on /\ missed' = missed
    BY <1>4 DEF SweepMark
  <2>2. Sweeping /\ sweep.todo = {}
    BY <2>1 DEF Sweeping, NoSweep, TypeInv, Places
  <2>3. ~Renewing /\ ~Adjusting /\ on \subseteq missed
    BY <2>1, <2>2 DEF AccessInv
  <2>4. Follows' /\ ~Sweeping'
    BY <2>1, <2>3 DEF Follows, Sweeping, NoSweep
  <2>5. \A q \in Payments : renewal'[q].pc \notin {"enable", "read", "write"}
    BY <1>0, <2>3, RenewingIs DEF TypeInv
  <2> QED
    BY <1>0, <2>3, <2>4, <2>5 DEF AccessInv
<1> QED
  BY <1>1, <1>2, <1>3, <1>4

(* The script: it is alone, and a status it changes is mixed.              *)
LEMMA ScriptAccess ==
  ASSUME TypeInv, AccessInv, Adjust \/ WriteAdjusted
  PROVE  AccessInv'
<1>0. /\ UNCHANGED <<renewal, sweep, on, missed>>
      /\ (Renewing' <=> Renewing) /\ (Sweeping' <=> Sweeping)
  BY DEF Adjust, WriteAdjusted, Renewing, Sweeping, NoSweep
<1>1. CASE mixed'
  BY <1>1 DEF AccessInv
<1>2. CASE ~mixed'
  <2>1. ~mixed /\ status' = status
    BY <1>2 DEF Adjust, WriteAdjusted
  <2>2. ~Renewing /\ ~Sweeping
    <3>1. CASE Adjust
      BY <1>2, <3>1 DEF Adjust
    <3>2. CASE WriteAdjusted
      <4>1. Adjusting
        BY <3>2 DEF WriteAdjusted, Adjusting, NoScript
      <4> QED
        BY <2>1, <4>1 DEF AccessInv
    <3> QED
      BY <3>1, <3>2
  <2>3. Follows'
    BY <1>0, <2>1, <2>2 DEF AccessInv, Follows
  <2>4. \A q \in Payments : renewal'[q].pc \notin {"enable", "read", "write"}
    BY <1>0, <2>2, RenewingIs DEF TypeInv
  <2> QED
    BY <1>0, <2>2, <2>3, <2>4 DEF AccessInv
<1> QED
  BY <1>1, <1>2

(* An error ends a renewal: on an expired subscriber, or before the first  *)
(* device, it may have left any device behind; else it enabled them all.   *)
LEMMA RenewalEscapesAccess ==
  ASSUME TypeInv, AccessInv, NEW p \in Payments, RenewalEscapes(p)
  PROVE  AccessInv'
<1>1. UNCHANGED <<status, on, script, sweep, mixed>>
  BY DEF RenewalEscapes
<1>2. CASE mixed
  BY <1>1, <1>2 DEF AccessInv
<1>3. CASE ~mixed
  <2>1. renewal[p].pc \in {"enable", "read", "write"} /\ Renewing
    BY DEF RenewalEscapes, Renewing
  <2>2. ~Adjusting /\ ~Sweeping /\ \A q \in Payments : Enabled(renewal[q])
    BY <1>3, <2>1, RenewalAlone
  <2>3. ~Adjusting' /\ ~Sweeping'
    BY <1>1, <2>2 DEF Adjusting, Sweeping, NoScript, NoSweep
  <2>4. /\ renewal'[p] = Done
        /\ \A q \in Payments \ {p} : renewal'[q] = renewal[q]
    BY DEF RenewalEscapes, TypeInv, TypeOK
  <2>5. missed \subseteq missed'
    BY DEF RenewalEscapes, TypeInv, TypeOK
  <2>6. \A q \in Payments : Enabled(renewal[q])'
    BY <1>1, <2>2, <2>4, <2>5 DEF Enabled, Done
  <2>7. Follows'
    <3>1. CASE renewal[p].pc = "enable" \/ status = "expired"
      <4>1. missed' = Devices
        BY <3>1 DEF RenewalEscapes
      <4> QED
        BY <1>1, <4>1 DEF Follows, TypeInv, TypeOK
    <3>2. CASE renewal[p].pc # "enable" /\ status # "expired"
      <4>1. renewal[p].todo = {} /\ status = "active"
        BY <2>1, <3>2 DEF TypeInv, TypeOK, Places
      <4>2. Devices \subseteq on \cup missed
        BY <2>1, <2>2, <4>1 DEF Enabled
      <4> QED
        BY <1>1, <2>5, <4>1, <4>2 DEF Follows
    <3> QED
      BY <3>1, <3>2
  <2> QED
    BY <2>3, <2>6, <2>7 DEF AccessInv, Enabled
<1> QED
  BY <1>2, <1>3

(* An error ends the expiry job: on an active subscriber, or before the    *)
(* first device, it may have left any device behind; else all are off.     *)
LEMMA SweepEscapesAccess ==
  ASSUME TypeInv, AccessInv, SweepEscapes
  PROVE  AccessInv'
<1>1. UNCHANGED <<status, on, renewal, script, mixed>> /\ sweep' = NoSweep
  BY DEF SweepEscapes
<1>2. CASE mixed
  BY <1>1, <1>2 DEF AccessInv
<1>3. CASE ~mixed
  <2>1. Sweeping
    BY DEF SweepEscapes, Sweeping, NoSweep
  <2>2. ~Renewing /\ ~Adjusting /\ on \subseteq sweep.todo \cup missed
    BY <1>3, <2>1 DEF AccessInv
  <2>3. ~Adjusting' /\ ~Sweeping' /\ (Renewing' <=> Renewing)
    BY <1>1, <2>2 DEF Adjusting, Sweeping, Renewing, NoScript
  <2>4. Follows'
    <3>1. CASE sweep.pc = "disable" \/ status = "active"
      <4>1. missed' = Devices
        BY <3>1 DEF SweepEscapes
      <4> QED
        BY <1>1, <4>1 DEF Follows, TypeInv, TypeOK
    <3>2. CASE sweep.pc # "disable" /\ status # "active"
      <4>1. sweep.todo = {} /\ missed' = missed
        BY <3>2 DEF SweepEscapes, TypeInv, Places
      <4> QED
        BY <1>1, <2>2, <3>2, <4>1 DEF Follows
    <3> QED
      BY <3>1, <3>2
  <2>5. \A q \in Payments : renewal'[q].pc \notin {"enable", "read", "write"}
    BY <1>1, <2>2, RenewingIs DEF TypeInv
  <2> QED
    BY <2>2, <2>3, <2>4, <2>5 DEF AccessInv
<1> QED
  BY <1>2, <1>3

(* The script fails: it has switched nothing and written nothing.          *)
LEMMA ScriptEscapesAccess ==
  ASSUME TypeInv, AccessInv, ScriptEscapes
  PROVE  AccessInv'
<1>1. UNCHANGED <<status, on, renewal, sweep, missed, mixed>> /\ script' = NoScript
  BY DEF ScriptEscapes
<1>2. ~Adjusting' /\ (Renewing' <=> Renewing) /\ (Sweeping' <=> Sweeping)
  BY <1>1 DEF Adjusting, Renewing, Sweeping, NoSweep
<1>3. Follows' <=> Follows
  BY <1>1 DEF Follows
<1> QED
  BY <1>1, <1>2, <1>3 DEF AccessInv

(* The bot dies: what was in progress may be missing on every device.      *)
LEMMA RestartAccess ==
  ASSUME TypeInv, AccessInv, Restart
  PROVE  AccessInv'
<1>1. /\ \A p \in Payments : renewal'[p].pc \in {"waiting", "done"}
      /\ sweep' = NoSweep
  BY RestartMoves
<1>2. ~Renewing' /\ ~Sweeping'
  BY <1>1 DEF Renewing, Sweeping
<1>3. UNCHANGED <<status, on, script, mixed>>
  BY DEF Restart
<1>4. CASE mixed
  BY <1>3, <1>4 DEF AccessInv
<1>5. CASE Renewing \/ Sweeping
  <2>1. missed' = Devices
    BY <1>5 DEF Restart
  <2>2. Follows'
    BY <1>3, <2>1 DEF Follows, TypeInv, TypeOK
  <2> QED
    BY <1>1, <1>2, <2>2 DEF AccessInv
<1>6. CASE ~mixed /\ ~Renewing /\ ~Sweeping
  <2>1. missed' = missed
    BY <1>6 DEF Restart
  <2>2. Follows'
    BY <1>3, <1>6, <2>1 DEF AccessInv, Follows
  <2> QED
    BY <1>1, <1>2, <2>2 DEF AccessInv
<1> QED
  BY <1>4, <1>5, <1>6

(* Every step keeps the accesses in order.                                 *)
LEMMA AccessStep == TypeInv /\ AccessInv /\ [Next]_vars => AccessInv'
<1> SUFFICES ASSUME TypeInv, AccessInv, [Next]_vars PROVE AccessInv'
  OBVIOUS
<1>1. CASE \E p \in Payments : Approve(p)
  BY <1>1, ApproveAccess
<1>2. CASE \E p \in Payments : Enable(p) \/ ReadEnd(p) \/ WriteEnd(p)
  BY <1>2, RenewalAccess
<1>3. CASE SweepBegin \/ SweepDisable \/ SweepMark
  BY <1>3, SweepAccess
<1>4. CASE Adjust \/ WriteAdjusted
  BY <1>4, ScriptAccess
<1>7. CASE \E p \in Payments : RenewalEscapes(p)
  BY <1>7, RenewalEscapesAccess
<1>8. CASE SweepEscapes \/ ScriptEscapes
  BY <1>8, SweepEscapesAccess, ScriptEscapesAccess
<1>5. CASE Restart
  BY <1>5, RestartAccess
<1>6. CASE Tick \/ UNCHANGED vars
  <2>1. UNCHANGED <<status, on, renewal, script, sweep, missed, mixed>>
    BY <1>6 DEF Tick, vars
  <2> QED
    BY <2>1 DEF AccessInv, Follows, Renewing, Adjusting, Sweeping, NoScript, NoSweep
<1> QED
  BY <1>1, <1>2, <1>3, <1>4, <1>5, <1>6, <1>7, <1>8 DEF Next

-----------------------------------------------------------------------------
(* The theorems.                                                           *)

(* The invariant holds throughout.                                         *)
LEMMA AlwaysIInv == Spec => []IInv
<1>1. Init => AccessInv
  BY DEF Init, AccessInv, Follows, Sweeping, Adjusting, Renewing, Waiting
<1>2. Init => IInv
  BY <1>1, TypeInit DEF IInv
<1>3. IInv /\ [Next]_vars => IInv'
  BY TypeStep, AccessStep DEF IInv
<1> QED
  BY <1>2, <1>3, PTL DEF Spec

(* Every variable has its type.                                            *)
THEOREM TypeCorrect == Spec => []TypeOK
<1>1. IInv => TypeOK
  BY DEF IInv, TypeInv
<1> QED
  BY <1>1, AlwaysIInv, PTL

(* Whatever overlapped, failed, raised or was killed before, the accesses  *)
(* follow the status again after the next renewal or expiry that has the   *)
(* subscriber to itself and comes to its end, each call that fails then    *)
(* apart (approve_payment, check_expired_subscriptions,                    *)
(* adjust_user_subscription).                                              *)
THEOREM AccessFollowsAlways == Spec => []AccessFollows
<1>1. IInv => AccessFollows
  BY DEF IInv, AccessInv, AccessFollows, Follows, Quiet
<1> QED
  BY <1>1, AlwaysIInv, PTL

(* No step of another party ends an approval at its last statement, and    *)
(* that one adds the days to the end it read (update_user_subscription).   *)
THEOREM RenewalAddsAlways == Spec => RenewalAdds
<1>1. IInv /\ [Next]_vars =>
        [\A p \in Payments :
           renewal[p].pc = "write" /\ renewal'[p].pc = "done" /\ faults' = faults =>
             end' >= end + SubscriptionDays \/ renewal[p].seen # end]_vars
  <2> SUFFICES ASSUME IInv, [Next]_vars, NEW p \in Payments,
                      renewal[p].pc = "write", renewal'[p].pc = "done", faults' = faults
               PROVE  end' >= end + SubscriptionDays \/ renewal[p].seen # end
    OBVIOUS
  <2>0. TypeInv
    BY DEF IInv
  <2>1. renewal' # renewal
    BY <2>0 DEF TypeInv, TypeOK
  <2>2. ~Fails
    <3>1. faults \in Nat
      BY <2>0, Numbers DEF TypeInv, TypeOK
    <3> QED
      BY <3>1 DEF Fails
  <2>3. PICK q \in Payments : Approve(q) \/ Enable(q) \/ ReadEnd(q) \/ WriteEnd(q)
    BY <2>1, <2>2 DEF Next, vars, RenewalEscapes, SweepBegin, SweepDisable, SweepMark,
                      SweepEscapes, Adjust, WriteAdjusted, ScriptEscapes, Restart, Tick
  <2>4. q = p
    <3>1. ASSUME q # p PROVE renewal'[p] = renewal[p]
      BY <2>0, <2>3, <3>1, ApprovalSteps, ApprovalMoves
    <3> QED
      BY <2>1, <3>1
  <2>5. WriteEnd(p)
    BY <2>3, <2>4 DEF Approve, Enable, ReadEnd
  <2>6. end' = renewal[p].end /\ renewal[p].end >= renewal[p].seen + SubscriptionDays
    BY <2>0, <2>5 DEF WriteEnd, TypeInv, Places
  <2> QED
    BY <2>6
<1> QED
  BY <1>1, AlwaysIInv, PTL DEF Spec, RenewalAdds
=============================================================================
