-------------------------- MODULE ProvisionProofs --------------------------
(***************************************************************************)
(* What provisioning, purges and retries leave behind, for any users,      *)
(* payments, nodes and slots: the device rows, the clients on the nodes    *)
(* and the tasks between them; that whoever is active has the bundle or a  *)
(* place in the retry queue; and that whoever expires is cut off.          *)
(***************************************************************************)
EXTENDS BotProofs, WellFoundedInduction

Running == {"list", "post", "relist", "config", "insert", "rollback"}
Before == {"idle", "renewed", "confirm"} \cup Unpaid

(* Whoever runs tasks of p: the handler that approved it, or the retry job. *)
Runs(p) == desk[p].pc = "provision" \/ (resume.pc = "run" /\ resume.pay = p)
TaskOwner == \A p \in PaymentIds, s \in Slots : task[p][s].pc # "off" => Runs(p)

(* A row is its payment's, and is stored when the task for it is over. *)
RowInv ==
  /\ IsFiniteSet(devices)
  /\ \A d \in devices : /\ d.id \in 1 .. lastDevice
                        /\ d.user = payments[d.pay].tg_id /\ payments[d.pay].status # "none"
  /\ \A d, e \in devices : d.id = e.id => d = e
  /\ NameUnique
FreshInv ==
  \A d \in devices : desk[d.pay].pc \notin Before /\ task[d.pay][d.slot].pc \notin Running

(* The identifiers of a slot's node in use, and the payment each is for:   *)
(* that of a client, of a row, of a task.                                  *)
ClientClaims(s) == {<<c.pid, c.name>> : c \in clients[s]}
RowClaims(s) == {<<d.pid, d.pay>> : d \in {e \in devices : e.slot = s}}
TaskClaims(s) == {<<task[p][s].pid, p>> : p \in {q \in PaymentIds : task[q][s].pid # 0}}
Claims(s) == ClientClaims(s) \cup RowClaims(s) \cup TaskClaims(s)

(* Each is in use for one payment. *)
PidsOK(s) ==
  /\ IsFiniteSet(clients[s])
  /\ \A c, e \in clients[s] : c.pid = e.pid => c = e
  /\ \A x \in Claims(s) : x[1] \in 1 .. lastPid[s]
  /\ \A x, y \in Claims(s) : x[1] = y[1] => x[2] = y[2]
PidInv == \A s \in Slots : PidsOK(s)

(* A task knows the client it created until the row is stored. *)
TaskShape ==
  \A p \in PaymentIds, s \in Slots :
    /\ task[p][s].pc \notin {"config", "insert", "rollback"} => task[p][s].pid = 0
    /\ task[p][s].pc \in {"config", "insert"} => Client(s, task[p][s].pid) # {}

(* The rows a purge has to do are rows still, and the client of the one it *)
(* is about to delete is gone.                                             *)
PurgeInv ==
  /\ purge.todo \subseteq devices
  /\ purge.pc # "idle" => purge.todo # {}
  /\ purge.pc = "delete" =>
       Client(FirstRow(purge.todo).slot, FirstRow(purge.todo).pid) = {}

(* The rows that a renewal or the expiry job has read are rows still, or   *)
(* their clients are gone for good.                                        *)
Known == sweep.todo \cup UNION {desk[p].todo : p \in PaymentIds}
KnownInv ==
  \A d \in Known : /\ d.pid \in 1 .. lastPid[d.slot]
                   /\ d \in devices \/ Client(d.slot, d.pid) = {}
TodoInv ==
  /\ sweep.pc = "disable" => sweep.todo # {}
  /\ \A p \in PaymentIds : desk[p].pc = "enable" => desk[p].todo # {}

NodeInv == TaskOwner /\ RowInv /\ FreshInv /\ PidInv /\ TaskShape /\ PurgeInv /\ KnownInv

-----------------------------------------------------------------------------
(* Rows that were read have a first one. *)
LEMMA FirstRowIn ==
  ASSUME NEW R \in SUBSET DeviceRow, R # {}
  PROVE  FirstRow(R) \in R
  <1> DEFINE T == {d.id : d \in R}
  <1>1. T \subseteq Nat /\ T # {}
    BY DEF DeviceRow
  <1>2. PICK i \in T : \A j \in T : ~ (<<j, i>> \in OpToRel(<, Nat))
    BY <1>1, NatLessThanWellFounded, WFMin
  <1>3. \A j \in T : ~ (j < i)
    BY <1>1, <1>2 DEF OpToRel
  <1>4. PICK d \in R : i = d.id
    OBVIOUS
  <1>5. ASSUME NEW e \in R PROVE d.id <= e.id
    <2>1. e.id \in Nat /\ d.id \in Nat /\ ~ (e.id < d.id)
      BY <1>3, <1>4 DEF DeviceRow
    <2> QED
      BY <2>1
  <1> QED
    BY <1>5 DEF FirstRow

SweepType ==
  [pc : {"idle", "load", "disable", "mark", "notify"}, queue : SUBSET Users,
   user : Users \cup {NoUser}, todo : SUBSET DeviceRow]

(* The types used throughout. *)
LEMMA NodeTypes ==
  ASSUME IInv
  PROVE  /\ devices \subseteq DeviceRow /\ lastDevice \in Nat
         /\ clients \in ClientsType /\ lastPid \in [Slots -> Nat] /\ task \in TaskType
         /\ desk \in DeskType /\ payments \in PaymentsType
         /\ sweep.todo \subseteq DeviceRow /\ purge.todo \subseteq DeviceRow
         /\ resume.pay \in PaymentIds \cup {0} /\ resume.queue \subseteq PaymentIds
         /\ faults \in 0 .. MaxFaults
  BY DEF IInv, TypeOK, StoreTypeOK, ProvisionerTypeOK, DeskTypeOK, JobsTypeOK, ClientsType,
         ClientRec, TaskType, TaskRec, DeskType, DeskRec, PaymentsType

(* A loop over rows is in its loop while there are some. *)
LEMMA TodoStep == IInv /\ TodoInv /\ [Next]_vars => TodoInv'
  <1> SUFFICES ASSUME IInv, TodoInv, [Next]_vars PROVE TodoInv'
    OBVIOUS
  <1>0. desk \in DeskType /\ sweep \in SweepType
    BY NodeTypes DEF IInv, TypeOK, JobsTypeOK, SweepType
  <1>1. ASSUME desk' = desk, sweep' = sweep PROVE TodoInv'
    BY <1>1 DEF TodoInv
  <1>2. ASSUME sweep' = sweep, NEW p \in PaymentIds,
               \A q \in PaymentIds : q # p => desk'[q] = desk[q],
               desk'[p].pc = "enable" => desk'[p].todo # {}
        PROVE  TodoInv'
    BY <1>2 DEF TodoInv
  <1>3. CASE DeskNext /\ UNCHANGED <<jobVars, restarts>>
    <2>1. sweep' = sweep
      BY <1>3 DEF jobVars
    <2>2. CASE \/ \E u \in Users : BuyCheck(u) \/ BuyShow(u) \/ LeaveMenu(u)
               \/ \E m \in Msgs, u \in Users : ReceiptArrives(m, u)
               \/ \E m \in Msgs : ReceiptNext(m)
      <3>1. desk' = desk
        BY <2>2 DEF BuyCheck, BuyShow, LeaveMenu, ReceiptArrives, ReceiptNext, ReceiptCheck,
           ReceiptCreate, ReceiptClear, ReceiptNotify, ReceiptEscapes
      <3> QED
        BY <2>1, <3>1, <1>1
    <2>3. ASSUME NEW p \in PaymentIds,
                 ApproveClaim(p) \/ RejectPayment(p) \/ ApproveStep(p) \/ HandlerEscapes(p)
          PROVE  TodoInv'
      <3>1. CASE RejectPayment(p)
        <4>1. desk' = desk
          BY <3>1 DEF RejectPayment, deskVars
        <4> QED
          BY <2>1, <4>1, <1>1
      <3>2. CASE LoadDevices(p)
        <4>1. desk' = [desk EXCEPT ![p].pc = IF GetUserDevices(payments[p].tg_id) = {} THEN "read"
                                                                                      ELSE "enable",
                              ![p].todo = GetUserDevices(payments[p].tg_id),
                              ![p].renewal = GetUserDevices(payments[p].tg_id) # {}]
          BY <3>2 DEF LoadDevices
        <4>2. /\ desk'[p].pc = "enable" => desk'[p].todo # {}
              /\ \A q \in PaymentIds : q # p => desk'[q] = desk[q]
          BY <1>0, <4>1 DEF DeskType, DeskRec
        <4> QED
          BY <2>1, <4>2, <1>2
      <3>3. CASE EnableNext(p)
        <4>1. PICK rest :
                desk' = [desk EXCEPT ![p].todo = rest,
                                     ![p].pc = IF rest = {} THEN "read" ELSE "enable"]
          BY <3>3 DEF EnableNext
        <4>2. /\ desk'[p].pc = "enable" => desk'[p].todo # {}
              /\ \A q \in PaymentIds : q # p => desk'[q] = desk[q]
          BY <1>0, <4>1 DEF DeskType, DeskRec
        <4> QED
          BY <2>1, <4>2, <1>2
      <3>4. CASE \/ ApproveClaim(p) \/ ReadSubscription(p) \/ CreditSubscription(p)
                 \/ SendRenewed(p) \/ SendConfirmed(p) \/ ProvisionOver(p) \/ MarkPartial(p)
                 \/ HandlerEscapes(p)
        <4>1. /\ desk'[p].pc # "enable"
              /\ \A q \in PaymentIds : q # p => desk'[q] = desk[q]
          BY <1>0, <3>4 DEF DeskType, DeskRec, ApproveClaim, ReadSubscription,
             CreditSubscription, SendRenewed, SendConfirmed, ProvisionOver, MarkPartial,
             HandlerEscapes, NoHandler
        <4> QED
          BY <2>1, <4>1, <1>2
      <3> QED
        BY <2>3, <3>1, <3>2, <3>3, <3>4 DEF ApproveStep
    <2> QED
      BY <1>3, <2>2, <2>3 DEF DeskNext
  <1>4. CASE JobsNext /\ UNCHANGED <<deskVars, restarts>>
    <2>1. desk' = desk
      BY <1>4 DEF deskVars
    <2>2. CASE SweepNext
      <3>1. sweep'.pc = "disable" => sweep'.todo # {}
        <4>1. CASE SweepLoad
          <5>1. PICK u \in sweep.queue :
                  sweep' = [pc |-> IF GetUserDevices(u) = {} THEN "mark" ELSE "disable",
                            queue |-> sweep.queue \ {u}, user |-> u, todo |-> GetUserDevices(u)]
            BY <4>1 DEF SweepLoad
          <5> QED
            BY <5>1
        <4>2. CASE SweepDisable
          <5>1. PICK rest :
                  sweep' = [sweep EXCEPT !.todo = rest,
                                         !.pc = IF rest = {} THEN "mark" ELSE "disable"]
            BY <4>2 DEF SweepDisable
          <5>2. sweep'.todo = rest /\ sweep'.pc = (IF rest = {} THEN "mark" ELSE "disable")
            BY <1>0, <5>1 DEF SweepType
          <5> QED
            BY <5>2
        <4>3. CASE SweepStart \/ SweepMark \/ SweepNotify \/ SweepEscapes
          <5>1. sweep'.pc \in {"idle", "load", "notify"}
            <6>1. CASE SweepStart
              <7>1. sweep' = [NoSweep EXCEPT !.pc = "load", !.queue = GetExpiredUsers]
                BY <6>1 DEF SweepStart
              <7>2. sweep'.pc = "load"
                BY <7>1 DEF NoSweep
              <7> QED
                BY <7>2
            <6>4. CASE SweepEscapes
              BY <6>4 DEF SweepEscapes, NoSweep
            <6>2. CASE SweepMark
              BY <6>2, <1>0 DEF SweepMark, SweepType
            <6>3. CASE SweepNotify
              BY <6>3, <1>0 DEF SweepNotify, SweepType, NoSweep
            <6> QED
              BY <4>3, <6>1, <6>2, <6>3, <6>4
          <5> QED
            BY <5>1
        <4> QED
          BY <2>2, <4>1, <4>2, <4>3 DEF SweepNext
      <3> QED
        BY <2>1, <3>1 DEF TodoInv
    <2>3. CASE PurgeNext \/ ResumeStep \/ ExpirePending
      <3>1. sweep' = sweep
        BY <2>3 DEF PurgeNext, PurgeStart, PurgeRevoke, PurgeDelete, ResumeStep, ResumeStart,
           ResumeLoad, ResumeSettle, ResumeApprove, ResumeNotify, ResumeFails, ExpirePending,
           jobVars
      <3> QED
        BY <2>1, <3>1, <1>1
    <2> QED
      BY <1>4, <2>2, <2>3 DEF JobsNext
  <1>5. CASE Tasks \/ Tick \/ UNCHANGED vars
    <2>1. desk' = desk /\ sweep' = sweep
      BY <1>5 DEF Tasks, Tick, vars, deskVars, jobVars
    <2> QED
      BY <2>1, <1>1
  <1>6. CASE Restart
    <2>1. sweep' = NoSweep /\ desk' = [p \in PaymentIds |->
                IF desk[p].pc \in {"idle", "done"} THEN desk[p]
                ELSE [NoHandler EXCEPT !.pc = "dead"]]
      BY <1>6 DEF Restart, DeskRestart, JobsRestart
    <2>2. \A p \in PaymentIds : desk'[p].pc # "enable"
      BY <2>1 DEF NoHandler
    <2> QED
      BY <2>1, <2>2 DEF TodoInv, NoSweep
  <1> QED
    BY <1>3, <1>4, <1>5, <1>6 DEF Next

-----------------------------------------------------------------------------
(* What every step respects: payments keep their users, a handler does not *)
(* go back to before it claimed or provisioned, and rows are read from the *)
(* table.                                                                  *)

UsersStay ==
  \A p \in PaymentIds :
    payments[p].status # "none" =>
      payments'[p].status # "none" /\ payments'[p].tg_id = payments[p].tg_id
DeskOnward ==
  \A p \in PaymentIds :
    /\ desk'[p].pc \in Before => desk[p].pc \in Before
    /\ desk'[p].todo \subseteq desk[p].todo \cup devices
SweepReads == sweep'.todo \subseteq sweep.todo \cup devices

(* Writing the status of a payment keeps its user. *)
LEMMA StatusWritten ==
  ASSUME IInv, NEW p \in PaymentIds, NEW st, st # "none",
         payments' = [payments EXCEPT ![p].status = st]
  PROVE  UsersStay
  <1>1. payments \in PaymentsType
    BY NodeTypes
  <1>2. /\ payments'[p].status = st /\ payments'[p].tg_id = payments[p].tg_id
        /\ \A q \in PaymentIds : q # p => payments'[q] = payments[q]
    BY <1>1 DEF PaymentsType
  <1> QED
    BY <1>2 DEF UsersStay

LEMMA UsersStayAlways ==
  ASSUME IInv, [Next]_vars
  PROVE  UsersStay
  <1>0. ASSUME payments' = payments PROVE UsersStay
    BY <1>0 DEF UsersStay
  <1>1. CASE DeskNext
    <2>1. CASE \E u \in Users : BuyCheck(u) \/ BuyShow(u) \/ LeaveMenu(u)
      BY <2>1, <1>0 DEF BuyCheck, BuyShow, LeaveMenu, storeVars
    <2>2. CASE \E m \in Msgs : \/ \E u \in Users : ReceiptArrives(m, u)
                               \/ ReceiptCheck(m) \/ ReceiptClear(m) \/ ReceiptNotify(m)
                               \/ ReceiptEscapes(m)
      BY <2>2, <1>0 DEF ReceiptArrives, ReceiptCheck, ReceiptClear, ReceiptNotify,
         ReceiptEscapes, storeVars
    <2>3. ASSUME NEW m \in Msgs, ReceiptCreate(m) PROVE UsersStay
      <3>1. PICK p \in PaymentIds :
              payments[p].status = "none" /\ \E r : payments' = [payments EXCEPT ![p] = r]
        BY <2>3 DEF ReceiptCreate, CreatePayment
      <3>2. \A q \in PaymentIds : q # p => payments'[q] = payments[q]
        BY <3>1, NodeTypes DEF PaymentsType
      <3> QED
        BY <3>1, <3>2 DEF UsersStay
    <2>4. ASSUME NEW p \in PaymentIds, ApproveClaim(p) \/ RejectPayment(p) \/ MarkPartial(p)
          PROVE  UsersStay
      <3>1. PICK st \in {"approved", "rejected", "partial"} :
              payments' = [payments EXCEPT ![p].status = st]
        <4>1. CASE ApproveClaim(p) \/ RejectPayment(p)
          BY <4>1 DEF ApproveClaim, RejectPayment, UpdatePaymentStatus
        <4>2. CASE MarkPartial(p)
          BY <4>2 DEF MarkPartial, SetPaymentStatus
        <4> QED
          BY <2>4, <4>1, <4>2
      <3>2. st # "none"
        OBVIOUS
      <3> QED
        BY <3>1, <3>2, StatusWritten
    <2>5. ASSUME NEW p \in PaymentIds,
                 \/ LoadDevices(p) \/ EnableNext(p) \/ ReadSubscription(p) \/ SendRenewed(p)
                 \/ CreditSubscription(p) \/ SendConfirmed(p) \/ ProvisionOver(p)
                 \/ HandlerEscapes(p)
          PROVE  UsersStay
      <3>1. CASE LoadDevices(p) \/ EnableNext(p) \/ ReadSubscription(p)
        BY <3>1, <1>0 DEF LoadDevices, EnableNext, ReadSubscription, storeVars
      <3>2. CASE CreditSubscription(p) \/ SendRenewed(p) \/ SendConfirmed(p)
        BY <3>2, <1>0 DEF CreditSubscription, SendRenewed, SendConfirmed, storeVars
      <3>3. CASE ProvisionOver(p) \/ HandlerEscapes(p)
        BY <3>3, <1>0 DEF ProvisionOver, HandlerEscapes, storeVars
      <3> QED
        BY <2>5, <3>1, <3>2, <3>3
    <2> QED
      BY <1>1, <2>1, <2>2, <2>3, <2>4, <2>5, Zenon DEF DeskNext, ReceiptNext, ApproveStep
  <1>2. CASE ResumeApprove
    <2>1. resume.pay \in PaymentIds
      BY <1>2 DEF ResumeApprove, IInv, LedgerInv, ResumeInv, TypeOK, JobsTypeOK
    <2>2. payments' = [payments EXCEPT ![resume.pay].status = "approved"]
      BY <1>2 DEF ResumeApprove, SetPaymentStatus
    <2>3. "approved" # "none"
      OBVIOUS
    <2> QED
      BY <2>1, <2>2, <2>3, StatusWritten
  <1>3. CASE ExpirePending
    <2> DEFINE old == {p \in PaymentIds : /\ payments[p].status = "pending"
                                          /\ payments[p].created < now - PaymentExpireDays}
    <2>1. payments' = [p \in PaymentIds |->
                         IF p \in old THEN [payments[p] EXCEPT !.status = "expired"]
                                      ELSE payments[p]]
      BY <1>3 DEF ExpirePending, ExpireOldPendingPayments
    <2>2. \A p \in PaymentIds : payments[p] \in [tg_id : Users \cup {NoUser},
                                                status : PaymentStatus, created : Nat]
      BY NodeTypes DEF PaymentsType
    <2> HIDE DEF old
    <2>3. \A p \in PaymentIds : \/ payments'[p] = payments[p]
                                \/ /\ payments'[p].status = "expired"
                                   /\ payments'[p].tg_id = payments[p].tg_id
      BY <2>1, <2>2
    <2>4. "expired" # "none"
      OBVIOUS
    <2> QED
      BY <2>3, <2>4 DEF UsersStay
  <1>4. CASE SweepNext \/ PurgeNext
    BY <1>4, <1>0 DEF SweepNext, SweepStart, SweepLoad, SweepDisable, SweepMark, SweepNotify,
       SweepEscapes, PurgeNext, PurgeStart, PurgeRevoke, PurgeDelete, storeVars
  <1>5. CASE \/ ResumeStart \/ ResumeLoad \/ ResumeSettle \/ ResumeNotify \/ ResumeFails
    BY <1>5, <1>0 DEF ResumeStart, ResumeLoad, ResumeSettle, ResumeNotify, ResumeFails, storeVars
  <1>6. ASSUME NEW p \in PaymentIds, NEW s \in Slots, TaskStep(p, s) PROVE UsersStay
    BY <1>6, <1>0 DEF TaskStep, ListClients, Post, LosePost, GetConfig, CallFails, Insert,
       InsertFails, Rollback, storeVars
  <1>7. CASE Tick \/ Restart \/ UNCHANGED vars
    BY <1>7, <1>0 DEF Tick, Restart, vars, storeVars
  <1> QED
    BY <1>1, <1>2, <1>3, <1>4, <1>5, <1>6, <1>7 DEF Next, JobsNext, ResumeStep, Tasks

(* The rows of a user are rows. *)
LEMMA ReadRows == \A u : GetUserDevices(u) \subseteq devices
  BY DEF GetUserDevices

LEMMA DeskOnwardAlways ==
  ASSUME IInv, [Next]_vars
  PROVE  DeskOnward
  <1>0. desk \in DeskType
    BY NodeTypes
  <1>1. ASSUME desk' = desk PROVE DeskOnward
    BY <1>1 DEF DeskOnward
  <1>2. ASSUME NEW p \in PaymentIds,
               \A q \in PaymentIds : q # p => desk'[q] = desk[q],
               desk'[p].pc \in Before => desk[p].pc \in Before,
               desk'[p].todo \subseteq desk[p].todo \cup devices
        PROVE  DeskOnward
    BY <1>2 DEF DeskOnward
  <1>3. CASE DeskNext
    <2>2. CASE \/ \E u \in Users : BuyCheck(u) \/ BuyShow(u) \/ LeaveMenu(u)
               \/ \E m \in Msgs, u \in Users : ReceiptArrives(m, u)
               \/ \E m \in Msgs : ReceiptNext(m)
      <3>1. desk' = desk
        BY <2>2 DEF BuyCheck, BuyShow, LeaveMenu, ReceiptArrives, ReceiptNext, ReceiptCheck,
           ReceiptCreate, ReceiptClear, ReceiptNotify, ReceiptEscapes
      <3> QED
        BY <3>1, <1>1
    <2>3. ASSUME NEW p \in PaymentIds,
                 ApproveClaim(p) \/ RejectPayment(p) \/ ApproveStep(p) \/ HandlerEscapes(p)
          PROVE  DeskOnward
      <3>1. CASE RejectPayment(p)
        <4>1. desk' = desk
          BY <3>1 DEF RejectPayment, deskVars
        <4> QED
          BY <4>1, <1>1
      <3>2. CASE LoadDevices(p)
        <4>1. desk' = [desk EXCEPT ![p].pc = IF GetUserDevices(payments[p].tg_id) = {} THEN "read"
                                                                                      ELSE "enable",
                              ![p].todo = GetUserDevices(payments[p].tg_id),
                              ![p].renewal = GetUserDevices(payments[p].tg_id) # {}]
          BY <3>2 DEF LoadDevices
        <4>2. /\ desk'[p].todo = GetUserDevices(payments[p].tg_id)
              /\ \A q \in PaymentIds : q # p => desk'[q] = desk[q]
          BY <1>0, <4>1 DEF DeskType, DeskRec
        <4>3. desk[p].pc \in Before
          BY <3>2 DEF LoadDevices, Before, Unpaid
        <4> QED
          BY <4>2, <4>3, <1>2, ReadRows
      <3>3. CASE EnableNext(p)
        <4>1. PICK rest \in SUBSET desk[p].todo :
                desk' = [desk EXCEPT ![p].todo = rest,
                                     ![p].pc = IF rest = {} THEN "read" ELSE "enable"]
          BY <3>3 DEF EnableNext
        <4>2. /\ desk'[p].todo = rest
              /\ \A q \in PaymentIds : q # p => desk'[q] = desk[q]
          BY <1>0, <4>1 DEF DeskType, DeskRec
        <4>3. desk[p].pc \in Before
          BY <3>3 DEF EnableNext, Before, Unpaid
        <4> QED
          BY <4>2, <4>3, <1>2
      <3>4. CASE ApproveClaim(p)
        <4>1. desk' = [desk EXCEPT ![p] = [NoHandler EXCEPT !.pc = "devices"]]
              /\ payments[p].status = "pending"
          BY <3>4 DEF ApproveClaim, UpdatePaymentStatus
        <4>2. /\ desk'[p].todo = {}
              /\ \A q \in PaymentIds : q # p => desk'[q] = desk[q]
          BY <1>0, <4>1 DEF DeskType, DeskRec, NoHandler
        <4>3. desk[p].pc \in Before
          BY <4>1 DEF IInv, LedgerInv, Stage, Undecided, Before
        <4> QED
          BY <4>2, <4>3, <1>2
      <3>5. CASE ReadSubscription(p) \/ CreditSubscription(p)
        <4>1. desk[p].pc \in Before
          BY <3>5 DEF ReadSubscription, CreditSubscription, Before, Unpaid
        <4>2. /\ desk'[p].todo = desk[p].todo
              /\ \A q \in PaymentIds : q # p => desk'[q] = desk[q]
          BY <1>0, <3>5 DEF DeskType, DeskRec, ReadSubscription, CreditSubscription
        <4> QED
          BY <4>1, <4>2, <1>2
      <3>6. CASE SendRenewed(p) \/ SendConfirmed(p) \/ ProvisionOver(p) \/ MarkPartial(p)
        <4>1. PICK pc \in {"done", "provision", "degrade"} : desk' = [desk EXCEPT ![p].pc = pc]
          BY <3>6 DEF SendRenewed, SendConfirmed, ProvisionOver, MarkPartial
        <4>2. /\ desk'[p].todo = desk[p].todo /\ desk'[p].pc = pc
              /\ \A q \in PaymentIds : q # p => desk'[q] = desk[q]
          BY <1>0, <4>1 DEF DeskType, DeskRec
        <4>3. pc \notin Before
          BY DEF Before, Unpaid
        <4> QED
          BY <4>2, <4>3, <1>2
      <3>7. CASE HandlerEscapes(p)
        <4>1. desk' = [desk EXCEPT ![p] = [NoHandler EXCEPT !.pc = "dead"]]
          BY <3>7 DEF HandlerEscapes
        <4>2. /\ desk'[p].todo = {} /\ desk'[p].pc = "dead"
              /\ \A q \in PaymentIds : q # p => desk'[q] = desk[q]
          BY <1>0, <4>1 DEF DeskType, DeskRec, NoHandler
        <4>3. "dead" \notin Before
          BY DEF Before, Unpaid
        <4> QED
          BY <4>2, <4>3, <1>2
      <3> QED
        BY <2>3, <3>1, <3>2, <3>3, <3>4, <3>5, <3>6, <3>7 DEF ApproveStep
    <2> QED
      BY <1>3, <2>2, <2>3 DEF DeskNext
  <1>4. CASE \/ JobsNext /\ UNCHANGED deskVars
             \/ Tasks \/ Tick \/ UNCHANGED vars
    BY <1>4, <1>1 DEF Tasks, Tick, vars, deskVars
  <1>5. CASE Restart
    <2>1. desk' = [p \in PaymentIds |->
                IF desk[p].pc \in {"idle", "done"} THEN desk[p]
                ELSE [NoHandler EXCEPT !.pc = "dead"]]
      BY <1>5 DEF Restart, DeskRestart
    <2>2. "dead" \notin Before
      BY DEF Before, Unpaid
    <2>3. ASSUME NEW p \in PaymentIds
          PROVE  desk'[p] = desk[p] \/ (desk'[p].pc = "dead" /\ desk'[p].todo = {})
      BY <2>1 DEF NoHandler
    <2> QED
      BY <2>2, <2>3 DEF DeskOnward
  <1> QED
    BY <1>3, <1>4, <1>5 DEF Next

LEMMA SweepReadsAlways ==
  ASSUME IInv, [Next]_vars
  PROVE  SweepReads
  <1>0. sweep \in SweepType
    BY DEF IInv, TypeOK, JobsTypeOK, SweepType
  <1>1. ASSUME sweep' = sweep PROVE SweepReads
    BY <1>1 DEF SweepReads
  <1>2. CASE SweepStart
    <2>1. sweep' = [NoSweep EXCEPT !.pc = "load", !.queue = GetExpiredUsers]
      BY <1>2 DEF SweepStart
    <2>2. sweep'.todo = {}
      BY <2>1 DEF NoSweep
    <2> QED
      BY <2>2 DEF SweepReads
  <1>3. CASE SweepLoad
    <2>1. PICK u \in sweep.queue :
            sweep' = [pc |-> IF GetUserDevices(u) = {} THEN "mark" ELSE "disable",
                      queue |-> sweep.queue \ {u}, user |-> u, todo |-> GetUserDevices(u)]
      BY <1>3 DEF SweepLoad
    <2>2. sweep'.todo = GetUserDevices(u)
      BY <2>1
    <2> QED
      BY <2>2, ReadRows DEF SweepReads
  <1>4. CASE SweepDisable
    <2>1. PICK rest \in SUBSET sweep.todo :
            sweep' = [sweep EXCEPT !.todo = rest,
                                   !.pc = IF rest = {} THEN "mark" ELSE "disable"]
      BY <1>4 DEF SweepDisable
    <2>2. sweep'.todo = rest
      BY <1>0, <2>1 DEF SweepType
    <2> QED
      BY <2>2 DEF SweepReads
  <1>5. CASE SweepMark
    BY <1>5, <1>0 DEF SweepMark, SweepReads, SweepType
  <1>6. CASE SweepNotify
    <2>1. CASE sweep' = NoSweep
      BY <2>1 DEF SweepReads, NoSweep
    <2>2. CASE sweep' = [sweep EXCEPT !.pc = "load", !.user = NoUser]
      <3>1. sweep'.todo = sweep.todo
        BY <1>0, <2>2 DEF SweepType
      <3> QED
        BY <3>1 DEF SweepReads
    <2> QED
      BY <1>6, <2>1, <2>2 DEF SweepNotify
  <1>7. CASE SweepEscapes
    BY <1>7 DEF SweepEscapes, SweepReads, NoSweep
  <1>8. CASE PurgeNext \/ ResumeStep \/ ExpirePending
    BY <1>8, <1>1 DEF PurgeNext, PurgeStart, PurgeRevoke, PurgeDelete, ResumeStep, ResumeStart,
       ResumeLoad, ResumeSettle, ResumeApprove, ResumeNotify, ResumeFails, ExpirePending, jobVars
  <1>9. CASE \/ DeskNext /\ UNCHANGED jobVars
             \/ Tasks \/ Tick \/ UNCHANGED vars
    BY <1>9, <1>1 DEF Tasks, Tick, vars, jobVars
  <1>10. CASE Restart
    BY <1>10 DEF Restart, JobsRestart, NoSweep, SweepReads
  <1> QED
    BY <1>2, <1>3, <1>4, <1>5, <1>6, <1>7, <1>8, <1>9, <1>10 DEF Next, JobsNext, SweepNext

-----------------------------------------------------------------------------
(* What a step does to rows, clients, identifiers and tasks. *)

RunsStay == \A p \in PaymentIds : Runs(p) => Runs(p)'
NodesRest == UNCHANGED <<devices, lastDevice, clients, lastPid>>
PurgeStarts ==
  purge.pc = "idle" /\ purge'.pc = "revoke" /\ purge'.todo # {} /\ purge'.todo \subseteq devices

Bystands == NodesRest /\ task' = task /\ RunsStay /\ (purge' = purge \/ PurgeStarts)

Works == RunsStay /\ purge' = purge /\ \E p \in PaymentIds, s \in Slots : TaskStep(p, s)

Switches ==
  /\ \E d \in Known, on \in BOOLEAN :
       clients' \in {clients, [clients EXCEPT ![d.slot] = SwitchedTo(d.slot, d.pid, on)]}
  /\ UNCHANGED <<devices, lastDevice, lastPid, task, purge>> /\ RunsStay

Purges == RunsStay /\ UNCHANGED lastDevice /\ (PurgeRevoke \/ PurgeDelete)

(* Nobody ran tasks for p, and the slots to do are on nodes that are       *)
(* mounted and have no row for it.                                         *)
Starts ==
  /\ NodesRest /\ purge' = purge /\ RunsStay
  /\ \E p \in PaymentIds, S \in SUBSET Slots, n \in Nat :
       /\ ~Runs(p) /\ Runs(p)' /\ StartTasks(p, S, n) /\ S \subseteq BundleSlots
       /\ \A d \in devices : d.pay = p => d.slot \notin S

Clears ==
  /\ NodesRest /\ purge' = purge
  /\ \E p \in PaymentIds :
       /\ TasksOver(p) /\ ClearTasks(p) /\ ~Runs(p)'
       /\ \A q \in PaymentIds : q # p /\ Runs(q) => Runs(q)'

Dies ==
  /\ NodesRest /\ purge' = NoPurge /\ restarts' = restarts + 1
  /\ \A p \in PaymentIds : ~Runs(p)'
  /\ task' = [p \in PaymentIds |-> [s \in Slots |-> Off]]

Kinds == Bystands \/ Works \/ Switches \/ Purges \/ Starts \/ Clears \/ Dies

(* Handlers and jobs that are not at their tasks leave them alone. *)
LEMMA RunsKept ==
  ASSUME \A p \in PaymentIds : desk'[p].pc = desk[p].pc \/ desk[p].pc # "provision",
         resume' = resume \/ resume.pc # "run"
  PROVE  RunsStay
  BY DEF RunsStay, Runs

(* A call about a row that was read. *)
LEMMA SwitchKind ==
  ASSUME NEW d \in Known, NEW on \in BOOLEAN,
         IF HasProvider(d.slot)
           THEN \/ Answered(d.slot, d.pid, SwitchedTo(d.slot, d.pid, on))
                \/ NotAnswered(d.slot, d.pid, SwitchedTo(d.slot, d.pid, on))
           ELSE UNCHANGED <<clients, faults>>,
         UNCHANGED <<storeVars, lastPid, task, purge>>, RunsStay
  PROVE  Switches
  BY DEF Switches, Answered, NotAnswered, storeVars

LEMMA UserKind ==
  ASSUME IInv, UNCHANGED <<jobVars, restarts>>,
         \/ \E u \in Users : BuyCheck(u) \/ BuyShow(u) \/ LeaveMenu(u)
         \/ \E m \in Msgs, u \in Users : ReceiptArrives(m, u)
         \/ \E m \in Msgs : ReceiptNext(m)
  PROVE  Bystands
  <1>1. /\ NodesRest /\ task' = task /\ desk' = desk
    BY DEF BuyCheck, BuyShow, LeaveMenu, ReceiptArrives, ReceiptNext, ReceiptCheck, ReceiptCreate,
           ReceiptClear, ReceiptNotify, ReceiptEscapes, NodesRest, storeVars, nodeVars
  <1>2. RunsStay
    BY <1>1, RunsKept DEF jobVars
  <1> QED
    BY <1>1, <1>2 DEF Bystands, jobVars

LEMMA DeskKind ==
  ASSUME IInv, TodoInv, NodeInv, UNCHANGED <<jobVars, restarts>>, NEW p \in PaymentIds,
         ApproveClaim(p) \/ RejectPayment(p) \/ ApproveStep(p) \/ HandlerEscapes(p)
  PROVE  Kinds
  <1>0. desk \in DeskType /\ purge' = purge /\ resume' = resume
    BY NodeTypes DEF jobVars
  <1>1. CASE ApproveClaim(p) \/ RejectPayment(p) \/ HandlerEscapes(p)
    <2>1. NodesRest /\ task' = task
      BY <1>1 DEF ApproveClaim, RejectPayment, HandlerEscapes, NodesRest, nodeVars, storeVars
    <2>2. \A q \in PaymentIds : desk'[q].pc = desk[q].pc \/ desk[q].pc # "provision"
      <3>1. CASE ApproveClaim(p)
        <4>0. payments[p].status = "pending" /\ Stage(p)
          BY <3>1 DEF ApproveClaim, UpdatePaymentStatus, IInv, LedgerInv
        <4>1. desk[p].pc # "provision"
          BY <4>0 DEF Stage, Undecided
        <4> QED
          BY <4>1, <3>1, <1>0 DEF ApproveClaim, DeskType
      <3>2. CASE RejectPayment(p)
        BY <3>2 DEF RejectPayment, deskVars
      <3>3. CASE HandlerEscapes(p)
        <4>1. desk[p].pc # "provision"
          BY <3>3, DeskAssumption DEF HandlerEscapes
        <4> QED
          BY <4>1, <3>3, <1>0 DEF HandlerEscapes, DeskType
      <3> QED
        BY <1>1, <3>1, <3>2, <3>3, Zenon
    <2>3. \A q \in PaymentIds : desk[q].pc = "provision" => desk'[q].pc = desk[q].pc
      BY <2>2
    <2>4. RunsStay
      BY <2>3, <1>0 DEF RunsStay, Runs
    <2> QED
      BY <1>0, <2>1, <2>4 DEF Kinds, Bystands
  <1>2. CASE \/ LoadDevices(p) \/ ReadSubscription(p) \/ CreditSubscription(p) \/ SendRenewed(p)
             \/ MarkPartial(p)
    <2>1. NodesRest /\ task' = task
      BY <1>2 DEF LoadDevices, ReadSubscription, CreditSubscription, SendRenewed, MarkPartial,
         NodesRest, nodeVars, storeVars
    <2>2. /\ desk[p].pc # "provision"
          /\ \A q \in PaymentIds : q # p => desk'[q] = desk[q]
      BY <1>2, <1>0 DEF LoadDevices, ReadSubscription, CreditSubscription, SendRenewed, MarkPartial,
         DeskType
    <2>3. RunsStay
      BY <2>2, <1>0, RunsKept
    <2> QED
      BY <1>0, <2>1, <2>3 DEF Kinds, Bystands
  <1>3. CASE EnableNext(p)
    <2> DEFINE d == FirstRow(desk[p].todo)
    <2>1. /\ desk[p].pc = "enable"
          /\ \A q \in PaymentIds : q # p => desk'[q] = desk[q]
      BY <1>3, <1>0 DEF EnableNext, DeskType
    <2>2. d \in Known
      <3>1. desk[p].todo \in SUBSET DeviceRow /\ desk[p].todo # {}
        BY <1>0, <2>1 DEF DeskType, DeskRec, TodoInv
      <3>2. d \in desk[p].todo
        BY <3>1, FirstRowIn
      <3> QED
        BY <3>2 DEF Known
    <2>3. RunsStay
      BY <2>1, <1>0, RunsKept
    <2>4. UNCHANGED <<storeVars, lastPid, task, purge>>
      BY <1>3, <1>0 DEF EnableNext
    <2>5. IF HasProvider(d.slot)
            THEN \/ Answered(d.slot, d.pid, SwitchedTo(d.slot, d.pid, TRUE))
                 \/ NotAnswered(d.slot, d.pid, SwitchedTo(d.slot, d.pid, TRUE))
            ELSE UNCHANGED <<clients, faults>>
      BY <1>3 DEF EnableNext
    <2> HIDE DEF d
    <2> QED
      BY <2>2, <2>3, <2>4, <2>5, SwitchKind DEF Kinds
  <1>4. CASE SendConfirmed(p)
    <2>1. /\ desk[p].pc = "confirm" /\ desk'[p].pc = "provision"
          /\ \A q \in PaymentIds : q # p => desk'[q] = desk[q]
      BY <1>4, <1>0 DEF SendConfirmed, DeskType, DeskRec
    <2>2. RunsStay /\ Runs(p)'
      BY <2>1, <1>0 DEF RunsStay, Runs
    <2>3. ~Runs(p)
      BY <2>1 DEF Runs, IInv, LedgerInv, ResumeInv, Settled
    <2>4. \A d \in devices : d.pay # p
      BY <2>1 DEF NodeInv, FreshInv, Before
    <2>5. BundleSlots \in SUBSET Slots /\ MaxRetries \in Nat
      BY ProvisionerAssumption DEF BundleSlots
    <2>6. StartTasks(p, BundleSlots, MaxRetries) /\ NodesRest
      BY <1>4 DEF SendConfirmed, Provision, NodesRest, storeVars
    <2> QED
      BY <1>0, <2>2, <2>3, <2>4, <2>5, <2>6 DEF Kinds, Starts
  <1>5. CASE ProvisionOver(p)
    <2>1. /\ desk[p].pc = "provision" /\ desk'[p].pc # "provision"
          /\ \A q \in PaymentIds : q # p => desk'[q] = desk[q]
      BY <1>5, <1>0 DEF ProvisionOver, DeskType, DeskRec
    <2>2. \A q \in PaymentIds : q # p /\ Runs(q) => Runs(q)'
      BY <2>1, <1>0 DEF Runs
    <2>3. NodesRest /\ TasksOver(p) /\ ClearTasks(p)
      BY <1>5 DEF ProvisionOver, NodesRest, storeVars
    <2>4. resume'.pay # p \/ resume'.pc # "run"
      BY <1>0, <2>1 DEF IInv, LedgerInv, ResumeInv, Settled
    <2>5. ~Runs(p)'
      BY <2>1, <2>4 DEF Runs
    <2> QED
      BY <1>0, <2>2, <2>3, <2>5 DEF Kinds, Clears
  <1> QED
    BY <1>1, <1>2, <1>3, <1>4, <1>5 DEF ApproveStep

LEMMA SweepKind ==
  ASSUME IInv, TodoInv, SweepNext, UNCHANGED <<deskVars, restarts>>
  PROVE  Kinds
  <1>1. purge' = purge /\ resume' = resume /\ desk' = desk
    BY DEF SweepNext, SweepStart, SweepLoad, SweepDisable, SweepMark, SweepNotify, SweepEscapes,
           deskVars
  <1>2. RunsStay
    BY <1>1, RunsKept
  <1>3. CASE SweepDisable
    <2> DEFINE d == FirstRow(sweep.todo)
    <2>1. d \in Known
      <3>1. sweep.todo \in SUBSET DeviceRow /\ sweep.todo # {}
        BY <1>3, NodeTypes DEF TodoInv, SweepDisable
      <3>2. d \in sweep.todo
        BY <3>1, FirstRowIn
      <3> QED
        BY <3>2 DEF Known
    <2>2. UNCHANGED <<storeVars, lastPid, task, purge>>
      BY <1>3 DEF SweepDisable
    <2>3. IF HasProvider(d.slot)
            THEN \/ Answered(d.slot, d.pid, SwitchedTo(d.slot, d.pid, FALSE))
                 \/ NotAnswered(d.slot, d.pid, SwitchedTo(d.slot, d.pid, FALSE))
            ELSE UNCHANGED <<clients, faults>>
      BY <1>3 DEF SweepDisable
    <2> HIDE DEF d
    <2> QED
      BY <1>2, <2>1, <2>2, <2>3, SwitchKind DEF Kinds
  <1>4. CASE SweepStart \/ SweepLoad \/ SweepMark \/ SweepNotify \/ SweepEscapes
    <2>1. NodesRest /\ task' = task
      BY <1>4 DEF SweepStart, SweepLoad, SweepMark, SweepNotify, SweepEscapes, NodesRest,
         storeVars, nodeVars
    <2> QED
      BY <1>1, <1>2, <2>1 DEF Kinds, Bystands
  <1> QED
    BY <1>3, <1>4 DEF SweepNext

LEMMA PurgeKind ==
  ASSUME PurgeNext, UNCHANGED <<deskVars, restarts>>
  PROVE  Kinds
  <1>1. resume' = resume /\ desk' = desk
    BY DEF PurgeNext, PurgeStart, PurgeRevoke, PurgeDelete, deskVars
  <1>2. RunsStay
    BY <1>1, RunsKept
  <1>3. CASE PurgeStart
    <2>1. GetExpiredDevices \subseteq devices
      BY DEF GetExpiredDevices
    <2>2. PurgeStarts
      BY <1>3, <2>1 DEF PurgeStart, PurgeStarts
    <2>3. NodesRest /\ task' = task
      BY <1>3 DEF PurgeStart, NodesRest, nodeVars, storeVars
    <2> QED
      BY <1>2, <2>2, <2>3 DEF Kinds, Bystands
  <1>4. CASE PurgeRevoke \/ PurgeDelete
    BY <1>2, <1>4 DEF Kinds, Purges, PurgeRevoke, PurgeDelete, storeVars
  <1> QED
    BY <1>3, <1>4 DEF PurgeNext

LEMMA ResumeKind ==
  ASSUME IInv, NodeInv, ResumeStep, UNCHANGED <<deskVars, restarts>>
  PROVE  Kinds
  <1>1. purge' = purge /\ desk' = desk
    BY DEF ResumeStep, ResumeStart, ResumeLoad, ResumeSettle, ResumeApprove, ResumeNotify,
           ResumeFails, deskVars
  <1>2. CASE ResumeStart \/ ResumeApprove \/ ResumeNotify \/ ResumeFails
    <2>1. NodesRest /\ task' = task
      BY <1>2 DEF ResumeStart, ResumeApprove, ResumeNotify, ResumeFails, NodesRest, storeVars,
         nodeVars
    <2>2. resume.pc # "run"
      BY <1>2 DEF ResumeStart, ResumeApprove, ResumeNotify, ResumeFails
    <2>3. RunsStay
      BY <1>1, <2>2, RunsKept
    <2> QED
      BY <1>1, <2>1, <2>3 DEF Kinds, Bystands
  <1>3. CASE ResumeLoad
    <2>1. PICK p \in resume.queue :
            /\ RetryPartial(p)
            /\ resume' = [pc |-> "run", queue |-> resume.queue \ {p}, pay |-> p]
      BY <1>3 DEF ResumeLoad
    <2>2. p \in PaymentIds /\ Settled(p) /\ resume.pc = "load"
      BY <1>3, NodeTypes DEF IInv, LedgerInv, ResumeInv, ResumeLoad
    <2>3. ~Runs(p)
      BY <2>2 DEF Runs, Settled
    <2>4. resume'.pc = "run" /\ resume'.pay = p
      BY <2>1
    <2>5. RunsStay /\ Runs(p)'
      BY <2>4, <2>2, <1>1 DEF RunsStay, Runs
    <2>6. Missing(p) \in SUBSET Slots /\ Missing(p) \subseteq BundleSlots
      BY DEF Missing, BundleSlots
    <2>7. \A d \in devices : d.pay = p => d.slot \notin Missing(p)
      BY DEF Missing, GetUserDevices, NodeInv, RowInv
    <2>8. NodesRest
      BY <1>3 DEF ResumeLoad, NodesRest, storeVars
    <2> QED
      BY <1>1, <2>1, <2>2, <2>3, <2>5, <2>6, <2>7, <2>8 DEF Kinds, Starts, RetryPartial
  <1>4. CASE ResumeSettle
    <2>1. PICK p \in PaymentIds : p = resume.pay
      BY <1>4, NodeTypes DEF ResumeSettle, IInv, LedgerInv, ResumeInv
    <2>2. \A q \in PaymentIds : q # p /\ Runs(q) => Runs(q)'
      BY <1>1, <2>1 DEF Runs
    <2>3. NodesRest /\ TasksOver(p) /\ ClearTasks(p)
      BY <1>4, <2>1 DEF ResumeSettle, NodesRest, storeVars
    <2>4. resume'.pc # "run"
      <3>1. resume \in [pc : {"idle", "load", "run", "approve", "notify"},
                        queue : SUBSET PaymentIds, pay : PaymentIds \cup {0}]
        BY DEF IInv, TypeOK, JobsTypeOK
      <3>2. \/ resume' = [resume EXCEPT !.pc = "approve"] \/ resume' = NoResume
            \/ resume' = [resume EXCEPT !.pc = "load", !.pay = 0]
        BY <1>4 DEF ResumeSettle, ResumeNext
      <3>3. NoResume.pc = "idle"
        BY DEF NoResume
      <3> QED
        BY <3>1, <3>2, <3>3
    <2>5. desk'[p].pc = "done"
      BY <1>1, <1>4, <2>1 DEF ResumeSettle, IInv, LedgerInv, ResumeInv, Settled
    <2>6. ~Runs(p)'
      BY <2>4, <2>5 DEF Runs
    <2> QED
      BY <1>1, <2>2, <2>3, <2>6 DEF Kinds, Clears
  <1> QED
    BY <1>2, <1>3, <1>4 DEF ResumeStep

LEMMA KindsAlways ==
  ASSUME IInv, TodoInv, NodeInv, [Next]_vars
  PROVE  Kinds
  <1>1. CASE DeskNext /\ UNCHANGED <<jobVars, restarts>>
    BY <1>1, UserKind, DeskKind DEF DeskNext, Kinds
  <1>2. CASE JobsNext /\ UNCHANGED <<deskVars, restarts>>
    <2>1. CASE ExpirePending
      <3>1. /\ NodesRest /\ task' = task /\ UNCHANGED <<desk, resume, purge>>
        BY <1>2, <2>1 DEF ExpirePending, NodesRest, nodeVars, jobVars, deskVars
      <3>2. RunsStay
        BY <3>1, RunsKept
      <3> QED
        BY <3>1, <3>2 DEF Kinds, Bystands
    <2> QED
      BY <1>2, <2>1, SweepKind, PurgeKind, ResumeKind DEF JobsNext
  <1>3. CASE Tasks
    <2>1. UNCHANGED <<desk, resume, purge>>
      BY <1>3 DEF Tasks, deskVars, jobVars
    <2>2. RunsStay
      BY <2>1, RunsKept
    <2> QED
      BY <1>3, <2>1, <2>2 DEF Kinds, Works, Tasks
  <1>4. CASE Tick \/ UNCHANGED vars
    <2>1. /\ NodesRest /\ task' = task /\ UNCHANGED <<desk, resume, purge>>
      BY <1>4 DEF Tick, vars, storeVars, nodeVars, deskVars, jobVars, NodesRest
    <2>2. RunsStay
      BY <2>1, RunsKept
    <2> QED
      BY <2>1, <2>2 DEF Kinds, Bystands
  <1>5. CASE Restart
    <2>1. \A p \in PaymentIds : ~Runs(p)'
      <3>1. resume'.pc # "run"
        BY <1>5 DEF Restart, JobsRestart, NoResume
      <3>2. \A p \in PaymentIds : desk'[p].pc # "provision"
        BY <1>5 DEF Restart, DeskRestart, NoHandler
      <3> QED
        BY <3>1, <3>2 DEF Runs
    <2> QED
      BY <1>5, <2>1 DEF Restart, ProvisionerRestart, JobsRestart, Kinds, Dies, NodesRest,
         storeVars
  <1> QED
    BY <1>1, <1>2, <1>3, <1>4, <1>5 DEF Next

-----------------------------------------------------------------------------
(* One step of a task, by what it does to the node and the table. *)

Assigns(p, s, t) == task' = [task EXCEPT ![p][s] = t]
Knows(t) == t.pc \in {"config", "insert", "rollback"}

(* It looks at the node or fails, and keeps, forgets or finds its client. *)
Looks(p, s, t) ==
  /\ NodesRest
  /\ \/ t.pid = 0
     \/ t.pid = task[p][s].pid /\ Knows(task[p][s])
          /\ (task[p][s].pc = "rollback" => t.pc = "rollback")
     \/ \E c \in clients[s] : c.name = p /\ c.pid = t.pid
Creates(p, s, t) ==
  Create(p, s) /\ UNCHANGED <<devices, lastDevice>> /\ t.pid \in {0, lastPid[s] + 1}
Stores(p, s, t) ==
  /\ task[p][s].pc = "insert" /\ t.pid = 0 /\ UNCHANGED <<clients, lastPid>>
  /\ AddDevice(payments[p].tg_id, s, task[p][s].pid, p)
Removes(p, s, t) ==
  /\ task[p][s].pc = "rollback" /\ t.pid = 0 /\ UNCHANGED <<devices, lastDevice, lastPid>>
  /\ clients' = [clients EXCEPT ![s] = Without(s, task[p][s].pid)]

Moves(p, s, t) ==
  /\ Assigns(p, s, t)
  /\ task[p][s].pc \in Running
  /\ Knows(t) \/ t.pid = 0
  /\ t.pc \in {"config", "insert"} => t.pid # 0
  /\ Looks(p, s, t) \/ Creates(p, s, t) \/ (Stores(p, s, t) /\ t.pc = "ok") \/ Removes(p, s, t)

(* A failed attempt knows no client. *)
LEMMA FailMoves ==
  ASSUME NEW p \in PaymentIds, NEW s \in Slots, AttemptFailed(p, s), task \in TaskType
  PROVE  \E t \in TaskRec : Assigns(p, s, t) /\ t.pid = 0 /\ ~Knows(t)
  <1> DEFINE t == IF task[p][s].left > 1
                    THEN [pc |-> FirstCall(s), left |-> task[p][s].left - 1, pid |-> 0]
                    ELSE [pc |-> "fail", left |-> 0, pid |-> 0]
  <1>1. t \in TaskRec
    BY DEF TaskType, TaskRec, TaskPC, FirstCall
  <1>2. t.pid = 0 /\ ~Knows(t)
    BY DEF FirstCall, Knows
  <1>3. Assigns(p, s, t)
    BY DEF AttemptFailed, Assigns
  <1> HIDE DEF t
  <1> QED
    BY <1>1, <1>2, <1>3

LEMMA GotoMoves ==
  ASSUME NEW p \in PaymentIds, NEW s \in Slots, NEW pc \in TaskPC, NEW pid \in Nat,
         Goto(p, s, pc, pid), task \in TaskType
  PROVE  \E t \in TaskRec : Assigns(p, s, t) /\ t.pid = pid /\ t.pc = pc
  <1> DEFINE t == [pc |-> pc, left |-> task[p][s].left, pid |-> pid]
  <1>1. t \in TaskRec
    BY DEF TaskType, TaskRec
  <1>2. t.pid = pid /\ t.pc = pc /\ Assigns(p, s, t)
    BY DEF Goto, Assigns
  <1> HIDE DEF t
  <1> QED
    BY <1>1, <1>2

LEMMA TaskMoves ==
  ASSUME IInv, NodeInv, NEW p \in PaymentIds, NEW s \in Slots, TaskStep(p, s)
  PROVE  \E t \in TaskRec : Moves(p, s, t)
  <1>0. /\ task \in TaskType /\ lastPid \in [Slots -> Nat] /\ clients \in ClientsType
        /\ task[p][s].pid \in Nat
        /\ \A c \in clients[s] : c.pid \in Nat /\ c.pid # 0
        /\ lastPid[s] + 1 \in Nat /\ lastPid[s] + 1 # 0
    <2>1. task \in TaskType /\ lastPid \in [Slots -> Nat] /\ clients \in ClientsType
      BY NodeTypes
    <2>2. \A c \in clients[s] : c.pid \in 1 .. lastPid[s]
      <3>1. \A c \in clients[s] : <<c.pid, c.name>> \in Claims(s)
        BY DEF Claims, ClientClaims
      <3> QED
        BY <3>1 DEF NodeInv, PidInv, PidsOK
    <2> QED
      BY <2>1, <2>2 DEF TaskType, TaskRec, ClientsType
  <1>1. /\ task[p][s].pc \in {"list", "post", "relist"} => task[p][s].pid = 0
        /\ task[p][s].pc \in {"config", "insert"} => task[p][s].pid # 0
    <2>1. task[p][s].pc \in {"config", "insert"} => \E c \in clients[s] : c.pid = task[p][s].pid
      BY DEF NodeInv, TaskShape, Client
    <2> QED
      BY <1>0, <2>1 DEF NodeInv, TaskShape
  <1> USE DEF Moves, Running, Knows, TaskPC
  <1>2. CASE ListClients(p, s)
    <2>0. NodesRest /\ task[p][s].pc \in Running
      BY <1>2 DEF ListClients, NodesRest, storeVars
    <2>1. ASSUME NEW c \in clients[s], c.name = p, Goto(p, s, "config", c.pid)
          PROVE  \E t \in TaskRec : Moves(p, s, t)
      <3>1. PICK t \in TaskRec : Assigns(p, s, t) /\ t.pid = c.pid /\ t.pc = "config"
        BY <1>0, <2>1, GotoMoves
      <3> QED
        BY <1>0, <2>0, <2>1, <3>1 DEF Looks
    <2>2. CASE Goto(p, s, "post", 0)
      <3>1. PICK t \in TaskRec : Assigns(p, s, t) /\ t.pid = 0 /\ t.pc = "post"
        BY <1>0, <2>2, GotoMoves
      <3> QED
        BY <2>0, <3>1 DEF Looks
    <2>3. CASE AttemptFailed(p, s)
      <3>1. PICK t \in TaskRec : Assigns(p, s, t) /\ t.pid = 0 /\ ~Knows(t)
        BY <1>0, <2>3, FailMoves
      <3> QED
        BY <2>0, <3>1 DEF Looks
    <2> QED
      BY <1>2, <2>1, <2>2, <2>3 DEF ListClients
  <1>3. CASE Post(p, s)
    <2>0. /\ task[p][s].pc \in Running
          /\ Create(p, s) /\ UNCHANGED <<devices, lastDevice>>
      BY <1>3 DEF Post, storeVars
    <2>1. ASSUME NEW pc \in {"config", "insert"}, Goto(p, s, pc, lastPid[s] + 1)
          PROVE  \E t \in TaskRec : Moves(p, s, t)
      <3>1. PICK t \in TaskRec : Assigns(p, s, t) /\ t.pid = lastPid[s] + 1 /\ t.pc = pc
        BY <1>0, <2>1, GotoMoves
      <3> QED
        BY <1>0, <2>0, <3>1 DEF Creates
    <2>2. CASE Goto(p, s, "relist", 0)
      <3>1. PICK t \in TaskRec : Assigns(p, s, t) /\ t.pid = 0 /\ t.pc = "relist"
        BY <1>0, <2>2, GotoMoves
      <3> QED
        BY <2>0, <3>1 DEF Creates
    <2> QED
      BY <1>3, <2>1, <2>2 DEF Post
  <1>4. CASE LosePost(p, s)
    <2>0. /\ task[p][s].pc = "post"
          /\ Create(p, s) /\ UNCHANGED <<devices, lastDevice>>
      BY <1>4 DEF LosePost, storeVars
    <2>1. CASE UNCHANGED task
      <3>1. Assigns(p, s, task[p][s]) /\ task[p][s] \in TaskRec
        BY <2>1, <1>0 DEF Assigns, TaskType
      <3> QED
        BY <1>1, <2>0, <3>1 DEF Creates
    <2>2. CASE Goto(p, s, "relist", 0)
      <3>1. PICK t \in TaskRec : Assigns(p, s, t) /\ t.pid = 0 /\ t.pc = "relist"
        BY <1>0, <2>2, GotoMoves
      <3> QED
        BY <2>0, <3>1 DEF Creates
    <2>3. CASE AttemptFailed(p, s)
      <3>1. PICK t \in TaskRec : Assigns(p, s, t) /\ t.pid = 0 /\ ~Knows(t)
        BY <1>0, <2>3, FailMoves
      <3> QED
        BY <2>0, <3>1 DEF Creates
    <2> QED
      BY <1>4, <2>1, <2>2, <2>3 DEF LosePost
  <1>5. CASE GetConfig(p, s) \/ InsertFails(p, s)
    <2>0. NodesRest /\ task[p][s].pc \in {"config", "insert"}
      BY <1>5 DEF GetConfig, InsertFails, NodesRest, storeVars
    <2>1. PICK pc \in {"insert", "rollback"} : Goto(p, s, pc, task[p][s].pid)
      BY <1>5 DEF GetConfig, InsertFails
    <2>2. PICK t \in TaskRec : Assigns(p, s, t) /\ t.pid = task[p][s].pid /\ t.pc = pc
      BY <1>0, <2>1, GotoMoves
    <2> QED
      BY <1>1, <2>0, <2>2 DEF Looks
  <1>6. CASE CallFails(p, s)
    <2>0. NodesRest /\ task[p][s].pc \in Running
      BY <1>6 DEF CallFails, NodesRest, storeVars
    <2>1. PICK t \in TaskRec : Assigns(p, s, t) /\ t.pid = 0 /\ ~Knows(t)
      <3>1. CASE Goto(p, s, "relist", 0)
        BY <1>0, <3>1, GotoMoves
      <3>2. CASE AttemptFailed(p, s)
        BY <1>0, <3>2, FailMoves
      <3> QED
        BY <1>6, <3>1, <3>2 DEF CallFails
    <2> QED
      BY <2>0, <2>1 DEF Looks
  <1>7. CASE Insert(p, s)
    <2>1. PICK t \in TaskRec : Assigns(p, s, t) /\ t.pid = 0 /\ t.pc = "ok"
      BY <1>0, <1>7, GotoMoves DEF Insert
    <2> QED
      BY <1>7, <2>1 DEF Insert, Stores
  <1>8. CASE Rollback(p, s)
    <2>1. PICK t \in TaskRec : Assigns(p, s, t) /\ t.pid = 0 /\ ~Knows(t)
      BY <1>0, <1>8, FailMoves DEF Rollback
    <2>2. clients' = clients \/ clients' = [clients EXCEPT ![s] = Without(s, task[p][s].pid)]
      BY <1>8 DEF Rollback, Answered, NotAnswered
    <2>3. task[p][s].pc = "rollback" /\ UNCHANGED <<devices, lastDevice, lastPid>>
      BY <1>8 DEF Rollback, storeVars
    <2> QED
      BY <2>1, <2>2, <2>3 DEF Looks, Removes, NodesRest
  <1> QED
    BY <1>2, <1>3, <1>4, <1>5, <1>6, <1>7, <1>8 DEF TaskStep

(* Only the task that moved is another. *)
LEMMA MovedTask ==
  ASSUME task \in TaskType, NEW p \in PaymentIds, NEW s \in Slots, NEW t \in TaskRec,
         Assigns(p, s, t)
  PROVE  /\ task'[p][s] = t /\ task' \in TaskType
         /\ \A q \in PaymentIds, r \in Slots : q # p \/ r # s => task'[q][r] = task[q][r]
  BY DEF Assigns, TaskType

(* The tasks of a payment that start or are put away. *)
LEMMA ResetTasks ==
  ASSUME task \in TaskType, NEW p \in PaymentIds, NEW S \in SUBSET Slots, NEW n \in Nat,
         StartTasks(p, S, n)
  PROVE  /\ \A q \in PaymentIds : q # p => task'[q] = task[q]
         /\ \A s \in Slots : /\ task'[p][s].pid = 0 /\ task'[p][s].pc \in {"off", "list", "post"}
                             /\ s \notin S => task'[p][s].pc = "off"
  <1> DEFINE row == [s \in Slots |->
                      IF s \in S THEN [pc |-> FirstCall(s), left |-> n, pid |-> 0] ELSE Off]
  <1>1. \A s \in Slots : /\ row[s].pid = 0 /\ row[s].pc \in {"off", "list", "post"}
                         /\ s \notin S => row[s].pc = "off"
    BY DEF Off, FirstCall
  <1>2. task' = [task EXCEPT ![p] = row]
    BY DEF StartTasks
  <1> HIDE DEF row
  <1> QED
    BY <1>1, <1>2 DEF TaskType

-----------------------------------------------------------------------------
(* Who runs a task, and one row for it *)

LEMMA OwnerStep ==
  ASSUME IInv, NodeInv, Kinds
  PROVE  TaskOwner'
  <1>0. task \in TaskType /\ TaskOwner
    BY NodeTypes DEF NodeInv
  <1>1. CASE Bystands \/ Switches \/ Purges
    <2>1. task' = task /\ RunsStay
      BY <1>1 DEF Bystands, Switches, Purges, PurgeRevoke, PurgeDelete
    <2> QED
      BY <1>0, <2>1 DEF TaskOwner, RunsStay
  <1>2. CASE Works
    <2>1. PICK p \in PaymentIds, s \in Slots : TaskStep(p, s)
      BY <1>2 DEF Works
    <2>2. PICK t \in TaskRec : Moves(p, s, t)
      BY <2>1, TaskMoves
    <2>3. task[p][s].pc # "off"
      BY <2>2 DEF Moves, Running
    <2>4. \A q \in PaymentIds, r \in Slots : q # p \/ r # s => task'[q][r] = task[q][r]
      BY <1>0, <2>2, MovedTask DEF Moves
    <2> QED
      BY <1>0, <1>2, <2>3, <2>4 DEF Works, TaskOwner, RunsStay
  <1>3. CASE Starts
    <2>1. PICK p \in PaymentIds, S \in SUBSET Slots, n \in Nat :
            ~Runs(p) /\ Runs(p)' /\ StartTasks(p, S, n)
      BY <1>3 DEF Starts
    <2>2. \A q \in PaymentIds : q # p => task'[q] = task[q]
      BY <1>0, <2>1, ResetTasks
    <2> QED
      BY <1>0, <1>3, <2>1, <2>2 DEF Starts, TaskOwner, RunsStay
  <1>4. CASE Clears
    <2>1. PICK p \in PaymentIds :
            ClearTasks(p) /\ \A q \in PaymentIds : q # p /\ Runs(q) => Runs(q)'
      BY <1>4 DEF Clears
    <2>2. /\ \A q \in PaymentIds : q # p => task'[q] = task[q]
          /\ \A s \in Slots : task'[p][s].pc = "off"
      BY <1>0, <2>1, ResetTasks DEF ClearTasks
    <2> QED
      BY <1>0, <2>1, <2>2 DEF TaskOwner
  <1>5. CASE Dies
    BY <1>5 DEF Dies, TaskOwner, Off
  <1> QED
    BY <1>1, <1>2, <1>3, <1>4, <1>5 DEF Kinds

(* A payment with a row in a slot runs no task for it, and none starts. *)
LEMMA RowsFinished ==
  ASSUME IInv, NodeInv, Kinds, NEW d \in devices
  PROVE  task'[d.pay][d.slot].pc \notin Running
  <1>0. /\ task \in TaskType /\ d.pay \in PaymentIds /\ d.slot \in Slots
        /\ task[d.pay][d.slot].pc \notin Running
    BY NodeTypes DEF NodeInv, FreshInv, DeviceRow
  <1>1. CASE Bystands \/ Switches \/ Purges
    BY <1>0, <1>1 DEF Bystands, Switches, Purges, PurgeRevoke, PurgeDelete
  <1>2. CASE Works
    <2>1. PICK p \in PaymentIds, s \in Slots : TaskStep(p, s)
      BY <1>2 DEF Works
    <2>2. PICK t \in TaskRec : Moves(p, s, t)
      BY <2>1, TaskMoves
    <2>3. d.pay # p \/ d.slot # s
      BY <1>0, <2>2 DEF Moves
    <2> QED
      BY <1>0, <2>2, <2>3, MovedTask DEF Moves
  <1>3. CASE Starts
    <2>1. PICK p \in PaymentIds, S \in SUBSET Slots, n \in Nat :
            StartTasks(p, S, n) /\ (d.pay = p => d.slot \notin S)
      BY <1>3 DEF Starts
    <2>2. /\ \A q \in PaymentIds : q # p => task'[q] = task[q]
          /\ \A s \in Slots : s \notin S => task'[p][s].pc = "off"
      BY <1>0, <2>1, ResetTasks
    <2>3. CASE d.pay = p
      BY <1>0, <2>1, <2>2, <2>3 DEF Running
    <2>4. CASE d.pay # p
      BY <1>0, <2>2, <2>4
    <2> QED
      BY <2>3, <2>4
  <1>4. CASE Clears
    <2>1. PICK p \in PaymentIds : StartTasks(p, {}, 0)
      BY <1>4 DEF Clears, ClearTasks
    <2>2. /\ \A q \in PaymentIds : q # p => task'[q] = task[q]
          /\ \A s \in Slots : task'[p][s].pc = "off"
      BY <1>0, <2>1, ResetTasks
    <2> QED
      BY <1>0, <2>2 DEF Running
  <1>5. CASE Dies
    BY <1>0, <1>5 DEF Dies, Off, Running
  <1> QED
    BY <1>1, <1>2, <1>3, <1>4, <1>5 DEF Kinds

(* Fewer rows, or one row more: that of a task that is over. *)
Stored(p, s) ==
  /\ task[p][s].pc = "insert" /\ task'[p][s].pc = "ok"
  /\ AddDevice(payments[p].tg_id, s, task[p][s].pid, p)
RowsShrink == devices' \subseteq devices /\ lastDevice' = lastDevice

LEMMA RowsChange ==
  ASSUME IInv, NodeInv, Kinds
  PROVE  RowsShrink \/ \E p \in PaymentIds, s \in Slots : Stored(p, s)
  <1>1. CASE Bystands \/ Switches \/ Purges \/ Starts \/ Clears \/ Dies
    BY <1>1 DEF Bystands, Switches, Purges, Starts, Clears, Dies, NodesRest, PurgeRevoke, PurgeDelete,
       DeleteDeviceRecord, storeVars, RowsShrink
  <1>2. CASE Works
    <2>1. PICK p \in PaymentIds, s \in Slots : TaskStep(p, s)
      BY <1>2 DEF Works
    <2>2. PICK t \in TaskRec : Moves(p, s, t)
      BY <2>1, TaskMoves
    <2>3. CASE Stores(p, s, t) /\ t.pc = "ok"
      <3>1. task'[p][s] = t
        BY <2>2, NodeTypes, MovedTask DEF Moves
      <3> QED
        BY <2>3, <3>1 DEF Stores, Stored
    <2> QED
      BY <2>2, <2>3 DEF Moves, Looks, Creates, Removes, NodesRest, RowsShrink
  <1> QED
    BY <1>1, <1>2 DEF Kinds

LEMMA RowsStep ==
  ASSUME IInv, NodeInv, Kinds, UsersStay, DeskOnward
  PROVE  RowInv' /\ FreshInv'
  <1>0. /\ devices \subseteq DeviceRow /\ lastDevice \in Nat
        /\ RowInv /\ FreshInv
    BY NodeTypes DEF NodeInv
  <1>1. \A d \in devices : /\ d.user = payments'[d.pay].tg_id /\ payments'[d.pay].status # "none"
                           /\ desk'[d.pay].pc \notin Before
                           /\ task'[d.pay][d.slot].pc \notin Running
    <2> TAKE d \in devices
    <2>1. d.pay \in PaymentIds
      BY <1>0 DEF DeviceRow
    <2>2. d.user = payments'[d.pay].tg_id /\ payments'[d.pay].status # "none"
      BY <1>0, <2>1 DEF RowInv, UsersStay
    <2>3. desk'[d.pay].pc \notin Before
      BY <1>0, <2>1 DEF FreshInv, DeskOnward
    <2> QED
      BY <2>2, <2>3, RowsFinished
  <1>2. CASE RowsShrink
    <2>1. IsFiniteSet(devices')
      BY <1>0, <1>2, FS_Subset DEF RowInv, RowsShrink
    <2>2. NameUnique'
      BY <1>0, <1>2 DEF RowInv, RowsShrink, NameUnique
    <2>3. RowInv'
      BY <1>0, <1>1, <1>2, <2>1, <2>2 DEF RowInv, RowsShrink
    <2>4. FreshInv'
      BY <1>1, <1>2 DEF FreshInv, RowsShrink
    <2> QED
      BY <2>3, <2>4
  <1>3. ASSUME NEW p \in PaymentIds, NEW s \in Slots, Stored(p, s)
        PROVE  RowInv' /\ FreshInv'
    <2> DEFINE n == [id |-> lastDevice + 1, user |-> payments[p].tg_id, slot |-> s,
                     pid |-> task[p][s].pid, pay |-> p]
    <2>1. /\ n.id = lastDevice + 1 /\ n.user = payments[p].tg_id /\ n.slot = s /\ n.pay = p
      OBVIOUS
    <2>2. devices' = devices \cup {n} /\ lastDevice' = lastDevice + 1
      BY <1>3 DEF Stored, AddDevice
    <2> HIDE DEF n
    <2>3. task[p][s].pc \in Running /\ task'[p][s].pc \notin Running /\ task[p][s].pc # "off"
      BY <1>3 DEF Stored, Running
    <2>4. payments[p].status # "none" /\ Runs(p)
      BY <2>3 DEF IInv, TaskInv, NodeInv, TaskOwner
    <2>5. desk[p].pc \notin Before
      BY <2>4 DEF Runs, IInv, LedgerInv, ResumeInv, Settled, Before, Unpaid
    <2>6. /\ n.user = payments'[n.pay].tg_id /\ payments'[n.pay].status # "none"
          /\ desk'[n.pay].pc \notin Before /\ task'[n.pay][n.slot].pc \notin Running
      BY <2>1, <2>3, <2>4, <2>5 DEF UsersStay, DeskOnward
    <2>7. \A d \in devices : d.id # n.id /\ d.id \in 1 .. lastDevice'
      BY <1>0, <2>1, <2>2 DEF RowInv, DeviceRow
    <2>8. \A d \in devices : ~ (d.slot = n.slot /\ d.pay = n.pay)
      BY <1>0, <2>1, <2>3 DEF FreshInv
    <2>9. IsFiniteSet(devices')
      BY <1>0, <2>2, FS_AddElement DEF RowInv
    <2>10. NameUnique'
      BY <1>0, <2>2, <2>8 DEF RowInv, NameUnique
    <2>11. n.id \in 1 .. lastDevice'
      BY <1>0, <2>1, <2>2
    <2>12. \A d, e \in devices' : d.id = e.id => d = e
      BY <1>0, <2>2, <2>7 DEF RowInv
    <2>13. RowInv'
      BY <1>1, <2>2, <2>6, <2>7, <2>9, <2>10, <2>11, <2>12 DEF RowInv
    <2>14. FreshInv'
      BY <1>1, <2>2, <2>6 DEF FreshInv
    <2> QED
      BY <2>13, <2>14
  <1> QED
    BY <1>2, <1>3, RowsChange

-----------------------------------------------------------------------------
(* Identifiers *)

(* Switching a client on or off keeps its identifier and its name. *)
LEMMA Switched ==
  ASSUME clients \in ClientsType, NEW s \in Slots, NEW pid, NEW on
  PROVE  /\ \A c \in SwitchedTo(s, pid, on) : \E e \in clients[s] :
              c.pid = e.pid /\ c.name = e.name /\ c = IF e.pid = pid THEN [e EXCEPT !.on = on] ELSE e
         /\ \A e \in clients[s] : \E c \in SwitchedTo(s, pid, on) :
              c.pid = e.pid /\ c.name = e.name /\ (e.pid # pid => c = e)
  <1>1. \A e \in clients[s] : LET c == [e EXCEPT !.on = on] IN c.pid = e.pid /\ c.name = e.name
    BY DEF ClientsType, ClientRec
  <1>2. ASSUME NEW c \in SwitchedTo(s, pid, on)
        PROVE  \E e \in clients[s] : /\ c.pid = e.pid /\ c.name = e.name
                                     /\ c = IF e.pid = pid THEN [e EXCEPT !.on = on] ELSE e
    <2>1. CASE c \in clients[s] \ Client(s, pid)
      BY <2>1 DEF Client
    <2>2. ASSUME NEW e \in Client(s, pid), c = [e EXCEPT !.on = on]
          PROVE  \E f \in clients[s] : /\ c.pid = f.pid /\ c.name = f.name
                                       /\ c = IF f.pid = pid THEN [f EXCEPT !.on = on] ELSE f
      <3>1. e \in clients[s] /\ e.pid = pid
        BY DEF Client
      <3>2. c.pid = e.pid /\ c.name = e.name
        BY <1>1, <2>2, <3>1
      <3> QED
        BY <2>2, <3>1, <3>2
    <2> QED
      BY <2>1, <2>2 DEF SwitchedTo
  <1>3. ASSUME NEW e \in clients[s]
        PROVE  \E c \in SwitchedTo(s, pid, on) :
                 c.pid = e.pid /\ c.name = e.name /\ (e.pid # pid => c = e)
    <2>1. CASE e.pid = pid
      <3>1. [e EXCEPT !.on = on] \in SwitchedTo(s, pid, on)
        BY <2>1 DEF SwitchedTo, Client
      <3> QED
        BY <1>1, <2>1, <3>1
    <2>2. CASE e.pid # pid
      BY <2>2 DEF SwitchedTo, Client
    <2> QED
      BY <2>1, <2>2
  <1> QED
    BY <1>2, <1>3

LEMMA SwitchedFinite ==
  ASSUME NEW s, NEW pid, NEW on, IsFiniteSet(clients[s])
  PROVE  IsFiniteSet(SwitchedTo(s, pid, on))
  <1> DEFINE C == Client(s, pid)
  <1>1. IsFiniteSet(C) /\ IsFiniteSet(clients[s] \ C)
    BY FS_Subset DEF Client
  <1> HIDE DEF C
  <1>2. IsFiniteSet({[c EXCEPT !.on = on] : c \in C})
    <2> DEFINE T == {[c EXCEPT !.on = on] : c \in C}
               f == [c \in C |-> [c EXCEPT !.on = on]]
    <2>1. f \in Surjection(C, T)
      BY DEF Surjection
    <2> HIDE DEF f, T
    <2>2. IsFiniteSet(T)
      BY <1>1, <2>1, FS_Surjection
    <2> QED
      BY <2>2 DEF T
  <1>3. IsFiniteSet((clients[s] \ C) \cup {[c EXCEPT !.on = on] : c \in C})
    BY <1>1, <1>2, FS_Union
  <1> QED
    BY <1>3 DEF SwitchedTo, C

ClientsOK(s) == IsFiniteSet(clients[s]) /\ \A c, e \in clients[s] : c.pid = e.pid => c = e
ClientsFit(s) == ClientsOK(s)' /\ ClientClaims(s)' \subseteq ClientClaims(s)

LEMMA SwitchFits ==
  ASSUME clients \in ClientsType, NEW s \in Slots, NEW pid, NEW on, ClientsOK(s),
         clients'[s] = SwitchedTo(s, pid, on)
  PROVE  ClientsFit(s)
  <1>1. \A c \in clients'[s] : \E e \in clients[s] :
          c.pid = e.pid /\ c.name = e.name /\ c = IF e.pid = pid THEN [e EXCEPT !.on = on] ELSE e
    BY Switched
  <1>2. ASSUME NEW c \in clients'[s], NEW e \in clients'[s], c.pid = e.pid PROVE c = e
    <2>1. PICK f \in clients[s] :
            c.pid = f.pid /\ c = IF f.pid = pid THEN [f EXCEPT !.on = on] ELSE f
      BY <1>1
    <2>2. PICK g \in clients[s] :
            e.pid = g.pid /\ e = IF g.pid = pid THEN [g EXCEPT !.on = on] ELSE g
      BY <1>1
    <2>3. f = g
      BY <1>2, <2>1, <2>2 DEF ClientsOK
    <2> QED
      BY <2>1, <2>2, <2>3
  <1>3. IsFiniteSet(clients'[s])
    BY SwitchedFinite DEF ClientsOK
  <1>4. ClientClaims(s)' \subseteq ClientClaims(s)
    BY <1>1 DEF ClientClaims
  <1> QED
    BY <1>2, <1>3, <1>4 DEF ClientsFit, ClientsOK

LEMMA FewerFit ==
  ASSUME NEW s, ClientsOK(s), clients'[s] \subseteq clients[s]
  PROVE  ClientsFit(s)
  BY FS_Subset DEF ClientsFit, ClientsOK, ClientClaims

(* A slot where nothing new is claimed. *)
LEMMA ClaimsKept ==
  ASSUME NEW s, PidsOK(s), lastPid'[s] = lastPid[s], ClientsFit(s),
         RowClaims(s)' \subseteq Claims(s), TaskClaims(s)' \subseteq Claims(s)
  PROVE  PidsOK(s)'
  <1>1. Claims(s)' \subseteq Claims(s)
    BY DEF Claims, ClientsFit
  <1> QED
    BY <1>1 DEF PidsOK, ClientsFit, ClientsOK

LEMMA RowClaimsKept ==
  ASSUME NEW s, \A d \in devices' : d.slot = s => d \in devices
  PROVE  RowClaims(s)' \subseteq Claims(s)
  BY DEF RowClaims, Claims

LEMMA TaskClaimsKept ==
  ASSUME NEW s, \A q \in PaymentIds : task'[q][s].pid \in {0, task[q][s].pid}
  PROVE  TaskClaims(s)' \subseteq Claims(s)
  BY DEF TaskClaims, Claims

(* What is claimed, by those who claim it. *)
LEMMA Claimants ==
  ASSUME NEW s
  PROVE  /\ \A c \in clients[s] : <<c.pid, c.name>> \in Claims(s)
         /\ \A d \in devices : d.slot = s => <<d.pid, d.pay>> \in Claims(s)
         /\ \A p \in PaymentIds : task[p][s].pid # 0 => <<task[p][s].pid, p>> \in Claims(s)
  BY DEF Claims, ClientClaims, RowClaims, TaskClaims

LEMMA SameClaim ==
  ASSUME NodeInv, NEW s \in Slots, NEW i, NEW p, NEW q,
         <<i, p>> \in Claims(s), <<i, q>> \in Claims(s)
  PROVE  p = q /\ i \in 1 .. lastPid[s]
  <1> DEFINE x == <<i, p>>
             y == <<i, q>>
  <1>1. x \in Claims(s) /\ y \in Claims(s) /\ x[1] = i /\ y[1] = i /\ x[2] = p /\ y[2] = q
    OBVIOUS
  <1> HIDE DEF x, y
  <1> QED
    BY <1>1 DEF NodeInv, PidInv, PidsOK

(* Nobody but the task itself claims the client it knows. *)
LEMMA TaskAlone ==
  ASSUME NodeInv, IInv, NEW p \in PaymentIds, NEW s \in Slots, task[p][s].pid # 0,
         task[p][s].pc \in Running
  PROVE  /\ \A d \in devices : d.slot = s => d.pid # task[p][s].pid
         /\ \A q \in PaymentIds : q # p => task[q][s].pid # task[p][s].pid
         /\ \A c \in clients[s] : c.pid = task[p][s].pid => c.name = p
  <1>1. <<task[p][s].pid, p>> \in Claims(s)
    BY Claimants
  <1>2. ASSUME NEW d \in devices, d.slot = s, d.pid = task[p][s].pid PROVE FALSE
    <2>1. <<d.pid, d.pay>> \in Claims(s)
      BY <1>2, Claimants
    <2>2. d.pay = p
      BY <1>1, <1>2, <2>1, SameClaim
    <2> QED
      BY <1>2, <2>2 DEF NodeInv, FreshInv
  <1>3. ASSUME NEW q \in PaymentIds, q # p, task[q][s].pid = task[p][s].pid PROVE FALSE
    <2>1. <<task[q][s].pid, q>> \in Claims(s)
      BY <1>3, Claimants
    <2> QED
      BY <1>1, <1>3, <2>1, SameClaim
  <1>4. ASSUME NEW c \in clients[s], c.pid = task[p][s].pid PROVE c.name = p
    <2>1. <<c.pid, c.name>> \in Claims(s)
      BY Claimants
    <2> QED
      BY <1>1, <1>4, <2>1, SameClaim
  <1> QED
    BY <1>2, <1>3, <1>4

(* Rows of a slot have clients of their own. *)
LEMMA RowAlone ==
  ASSUME NodeInv, IInv, NEW d \in devices
  PROVE  /\ \A e \in devices : e.slot = d.slot /\ e.pid = d.pid => e = d
         /\ \A q \in PaymentIds : task[q][d.slot].pc \in Running => task[q][d.slot].pid # d.pid
         /\ d.pid \in 1 .. lastPid[d.slot]
  <1>0. d.slot \in Slots /\ <<d.pid, d.pay>> \in Claims(d.slot)
    BY NodeTypes, Claimants DEF DeviceRow
  <1>1. d.pid \in 1 .. lastPid[d.slot]
    BY <1>0, SameClaim
  <1>2. ASSUME NEW e \in devices, e.slot = d.slot, e.pid = d.pid PROVE e = d
    <2>1. <<e.pid, e.pay>> \in Claims(d.slot)
      BY <1>2, Claimants
    <2>2. e.pay = d.pay
      BY <1>0, <1>2, <2>1, SameClaim
    <2> QED
      BY <1>2, <2>2 DEF NodeInv, RowInv, NameUnique
  <1>3. ASSUME NEW q \in PaymentIds, task[q][d.slot].pc \in Running PROVE task[q][d.slot].pid # d.pid
    <2>1. lastPid[d.slot] \in Nat
      BY <1>0, NodeTypes
    <2>2. d.pid # 0
      BY <1>1, <2>1
    <2> QED
      BY <1>0, <1>3, <2>2, TaskAlone
  <1> QED
    BY <1>1, <1>2, <1>3

(* The ways the clients of a slot change. *)
Kept(s) == clients'[s] = clients[s] /\ lastPid'[s] = lastPid[s]
Toggled(s) ==
  /\ \E pid, on : clients'[s] = SwitchedTo(s, pid, on)
  /\ lastPid'[s] = lastPid[s]
Grown(s, p) ==
  /\ clients'[s] = clients[s] \cup {NewClient(p, s)} /\ lastPid'[s] = lastPid[s] + 1
  /\ task[p][s].pc \in Running
RolledBack(s, p) ==
  /\ clients'[s] = Without(s, task[p][s].pid) /\ lastPid'[s] = lastPid[s]
  /\ task[p][s].pc = "rollback" /\ task'[p][s].pid = 0
Revoked(s) ==
  /\ PurgeRevoke /\ FirstRow(purge.todo).slot = s /\ lastPid'[s] = lastPid[s]
  /\ clients'[s] = Without(s, FirstRow(purge.todo).pid)

LEMMA ClientsChange ==
  ASSUME IInv, NodeInv, Kinds, NEW s \in Slots
  PROVE  \/ Kept(s) \/ Toggled(s) \/ Revoked(s)
         \/ \E p \in PaymentIds : Grown(s, p) \/ RolledBack(s, p)
  <1>0. task \in TaskType /\ clients \in ClientsType /\ lastPid \in [Slots -> Nat]
    BY NodeTypes
  <1>1. CASE Bystands \/ Starts \/ Clears \/ Dies
    BY <1>1 DEF Bystands, Starts, Clears, Dies, NodesRest, Kept
  <1>2. CASE Switches
    <2>1. PICK d \in Known, on \in BOOLEAN :
            clients' \in {clients, [clients EXCEPT ![d.slot] = SwitchedTo(d.slot, d.pid, on)]}
      BY <1>2 DEF Switches
    <2>2. lastPid' = lastPid
      BY <1>2 DEF Switches
    <2>3. clients'[s] = clients[s] \/ clients'[s] = SwitchedTo(s, d.pid, on)
      BY <1>0, <2>1 DEF ClientsType
    <2> QED
      BY <2>2, <2>3 DEF Kept, Toggled
  <1>3. CASE Purges
    <2>1. CASE PurgeDelete
      BY <2>1 DEF PurgeDelete, Kept
    <2>2. CASE PurgeRevoke
      <3> DEFINE d == FirstRow(purge.todo)
      <3>1. /\ lastPid' = lastPid
            /\ clients' = clients \/ clients' = [clients EXCEPT ![d.slot] = Without(d.slot, d.pid)]
        BY <2>2 DEF PurgeRevoke, Answered, NotAnswered
      <3>2. clients'[s] = clients[s] \/ (d.slot = s /\ clients'[s] = Without(s, d.pid))
        BY <1>0, <3>1 DEF ClientsType
      <3> QED
        BY <2>2, <3>1, <3>2 DEF Kept, Revoked
    <2> QED
      BY <1>3, <2>1, <2>2 DEF Purges
  <1>4. CASE Works
    <2>1. PICK p \in PaymentIds, r \in Slots : TaskStep(p, r)
      BY <1>4 DEF Works
    <2>2. PICK t \in TaskRec : Moves(p, r, t)
      BY <2>1, TaskMoves
    <2>3. CASE Looks(p, r, t) \/ Stores(p, r, t)
      BY <2>3 DEF Looks, Stores, NodesRest, Kept
    <2>4. CASE Creates(p, r, t)
      <3>1. /\ r = s => /\ clients'[s] = clients[s] \cup {NewClient(p, s)}
                        /\ lastPid'[s] = lastPid[s] + 1
            /\ r # s => Kept(s)
        BY <1>0, <2>4 DEF Creates, Create, Kept, ClientsType
      <3> QED
        BY <2>2, <3>1 DEF Grown, Moves
    <2>5. CASE Removes(p, r, t)
      <3>1. /\ r = s => clients'[s] = Without(s, task[p][s].pid)
            /\ r # s => Kept(s)
            /\ lastPid'[s] = lastPid[s]
        BY <1>0, <2>5 DEF Removes, Kept, ClientsType
      <3>2. task'[p][r] = t
        BY <1>0, <2>2, MovedTask DEF Moves
      <3> QED
        BY <2>5, <3>1, <3>2 DEF Removes, RolledBack
    <2> QED
      BY <2>2, <2>3, <2>4, <2>5 DEF Moves
  <1> QED
    BY <1>1, <1>2, <1>3, <1>4 DEF Kinds

(* Clients that are gone stay so, for identifiers are not given out again. *)
Gone(C, i) == \A c \in C : c.pid # i
LEMMA GoneForGood ==
  ASSUME IInv, NodeInv, Kinds, NEW s \in Slots
  PROVE  /\ lastPid[s] \in Nat /\ lastPid'[s] \in {lastPid[s], lastPid[s] + 1}
         /\ \A i \in 1 .. lastPid[s] : Gone(clients[s], i) => Gone(clients'[s], i)
  <1>0. clients \in ClientsType /\ lastPid[s] \in Nat
    BY NodeTypes
  <1>1. CASE Kept(s)
    BY <1>0, <1>1 DEF Kept, Gone
  <1>2. CASE Toggled(s)
    <2>1. \A c \in clients'[s] : \E e \in clients[s] : c.pid = e.pid
      BY <1>0, <1>2, Switched DEF Toggled
    <2> QED
      BY <1>0, <1>2, <2>1 DEF Toggled, Gone
  <1>3. CASE Revoked(s) \/ \E p \in PaymentIds : RolledBack(s, p)
    <2>1. clients'[s] \subseteq clients[s] /\ lastPid'[s] = lastPid[s]
      BY <1>3 DEF Revoked, RolledBack, Without
    <2> QED
      BY <1>0, <2>1 DEF Gone
  <1>4. ASSUME NEW p \in PaymentIds, Grown(s, p)
        PROVE  /\ lastPid'[s] = lastPid[s] + 1
               /\ \A i \in 1 .. lastPid[s] : Gone(clients[s], i) => Gone(clients'[s], i)
    <2>1. clients'[s] = clients[s] \cup {NewClient(p, s)} /\ lastPid'[s] = lastPid[s] + 1
      BY <1>4 DEF Grown
    <2>2. \A i \in 1 .. lastPid[s] : NewClient(p, s).pid # i
      BY <1>0 DEF NewClient
    <2> QED
      BY <2>1, <2>2 DEF Gone
  <1> QED
    BY <1>0, <1>1, <1>2, <1>3, <1>4, ClientsChange

(* A client leaves its node by a roll-back or a purge of its own. *)
LEMMA ClientStays ==
  ASSUME IInv, NodeInv, Kinds, NEW s \in Slots, NEW i, ~Gone(clients[s], i),
         ~ (Revoked(s) /\ FirstRow(purge.todo).pid = i),
         \A p \in PaymentIds : ~ (RolledBack(s, p) /\ task[p][s].pid = i)
  PROVE  ~Gone(clients'[s], i)
  <1>0. PICK c \in clients[s] : c.pid = i
    BY DEF Gone
  <1>1. CASE Kept(s)
    BY <1>0, <1>1 DEF Kept, Gone
  <1>2. CASE Toggled(s)
    <2>1. PICK e \in clients'[s] : e.pid = c.pid
      BY <1>2, NodeTypes, Switched DEF Toggled
    <2> QED
      BY <1>0, <2>1 DEF Gone
  <1>3. CASE Revoked(s)
    BY <1>0, <1>3 DEF Revoked, Gone, Client, Without
  <1>4. ASSUME NEW p \in PaymentIds, RolledBack(s, p) PROVE ~Gone(clients'[s], i)
    BY <1>0, <1>4 DEF RolledBack, Gone, Client, Without
  <1>5. ASSUME NEW p \in PaymentIds, Grown(s, p) PROVE ~Gone(clients'[s], i)
    BY <1>0, <1>5 DEF Grown, Gone
  <1> QED
    BY <1>1, <1>2, <1>3, <1>4, <1>5, ClientsChange

(* What tasks know: what they knew, a client of their name, or a new one. *)
LEMMA TaskPids ==
  ASSUME IInv, NodeInv, Kinds, NEW q \in PaymentIds, NEW s \in Slots
  PROVE  /\ \/ task'[q][s].pid = 0
            \/ /\ task'[q][s].pid = task[q][s].pid
               /\ task[q][s].pc = "rollback" => task'[q][s].pc = "rollback"
            \/ Kept(s) /\ \E c \in clients[s] : c.name = q /\ c.pid = task'[q][s].pid
            \/ task'[q][s].pid = lastPid[s] + 1 /\ Grown(s, q)
         /\ Knows(task'[q][s]) \/ task'[q][s].pid = 0
         /\ task'[q][s].pc \in {"config", "insert"} => task'[q][s].pid # 0
  <1>0. /\ task \in TaskType /\ clients \in ClientsType /\ lastPid \in [Slots -> Nat]
        /\ Knows(task[q][s]) \/ task[q][s].pid = 0
        /\ task[q][s].pc \in {"config", "insert"} => task[q][s].pid # 0
    <2>1. \A c \in clients[s] : c.pid \in 1 .. lastPid[s]
      BY Claimants, SameClaim
    <2>2. task[q][s].pc \in {"config", "insert"} => \E c \in clients[s] : c.pid = task[q][s].pid
      BY DEF NodeInv, TaskShape, Client
    <2> QED
      BY <2>1, <2>2, NodeTypes DEF NodeInv, TaskShape, Knows
  <1>00. task \in TaskType
    BY <1>0
  <1>1. CASE Bystands \/ Switches \/ Purges
    BY <1>0, <1>1 DEF Bystands, Switches, Purges, PurgeRevoke, PurgeDelete
  <1>2. CASE Works
    <2>1. PICK p \in PaymentIds, r \in Slots : TaskStep(p, r)
      BY <1>2 DEF Works
    <2>2. PICK t \in TaskRec : Moves(p, r, t)
      BY <2>1, TaskMoves
    <2>3. CASE q # p \/ s # r
      BY <1>0, <2>2, <2>3, MovedTask DEF Moves
    <2>4. CASE q = p /\ s = r
      <3>1. /\ task'[q][s] = t /\ (Knows(t) \/ t.pid = 0)
            /\ t.pc \in {"config", "insert"} => t.pid # 0
        BY <1>0, <2>2, <2>4, MovedTask DEF Moves
      <3>2. CASE Looks(p, r, t) \/ Stores(p, r, t) \/ Removes(p, r, t)
        BY <2>4, <3>1, <3>2 DEF Looks, Stores, Removes, NodesRest, Kept
      <3>3. CASE Creates(p, r, t)
        <4>1. /\ clients'[s] = clients[s] \cup {NewClient(q, s)}
              /\ lastPid'[s] = lastPid[s] + 1
          BY <1>0, <2>4, <3>3 DEF Creates, Create, ClientsType
        <4>2. Grown(s, q)
          BY <2>2, <2>4, <4>1 DEF Grown, Moves
        <4> QED
          BY <2>4, <3>1, <3>3, <4>2 DEF Creates
      <3> QED
        BY <2>2, <3>2, <3>3 DEF Moves
    <2> QED
      BY <2>3, <2>4
  <1>3. CASE Starts
    <2>1. PICK p \in PaymentIds, S \in SUBSET Slots, n \in Nat : StartTasks(p, S, n)
      BY <1>3 DEF Starts
    <2>2. /\ p # q => task'[q] = task[q]
          /\ p = q => /\ task'[q][s].pid = 0
                      /\ task'[q][s].pc \in {"off", "list", "post"}
      <3>1. task'[p][s].pid = 0 /\ task'[p][s].pc \in {"off", "list", "post"}
        BY <1>00, <2>1, ResetTasks
      <3>2. p # q => task'[q] = task[q]
        BY <1>00, <2>1, ResetTasks
      <3> QED
        BY <3>1, <3>2
    <2> QED
      BY <1>0, <2>2
  <1>4. CASE Clears
    <2>1. PICK p \in PaymentIds : StartTasks(p, {}, 0)
      BY <1>4 DEF Clears, ClearTasks
    <2>2. /\ p # q => task'[q] = task[q]
          /\ p = q => /\ task'[q][s].pid = 0
                      /\ task'[q][s].pc \in {"off", "list", "post"}
      <3>1. task'[p][s].pid = 0 /\ task'[p][s].pc \in {"off", "list", "post"}
        BY <1>00, <2>1, ResetTasks
      <3>2. p # q => task'[q] = task[q]
        BY <1>00, <2>1, ResetTasks
      <3> QED
        BY <3>1, <3>2
    <2> QED
      BY <1>0, <2>2
  <1>5. CASE Dies
    BY <1>5 DEF Dies, Off
  <1> QED
    BY <1>1, <1>2, <1>3, <1>4, <1>5 DEF Kinds

(* A stored row claims what its task did. *)
LEMMA RowClaimsStay ==
  ASSUME IInv, NodeInv, Kinds, NEW s \in Slots
  PROVE  RowClaims(s)' \subseteq Claims(s)
  <1>1. CASE RowsShrink
    BY <1>1, RowClaimsKept DEF RowsShrink
  <1>2. ASSUME NEW p \in PaymentIds, NEW r \in Slots, Stored(p, r)
        PROVE  RowClaims(s)' \subseteq Claims(s)
    <2> DEFINE n == [id |-> lastDevice + 1, user |-> payments[p].tg_id, slot |-> r,
                     pid |-> task[p][r].pid, pay |-> p]
    <2>1. n.slot = r /\ n.pid = task[p][r].pid /\ n.pay = p
      OBVIOUS
    <2>2. devices' = devices \cup {n}
      BY <1>2 DEF Stored, AddDevice
    <2> HIDE DEF n
    <2>3. task[p][r].pid # 0
      <3>1. PICK c \in clients[r] : c.pid = task[p][r].pid
        BY <1>2 DEF Stored, NodeInv, TaskShape, Client
      <3>2. c.pid \in 1 .. lastPid[r]
        BY Claimants, SameClaim
      <3> QED
        BY <3>1, <3>2, NodeTypes
    <2>4. <<task[p][r].pid, p>> \in Claims(r)
      BY <2>3, Claimants
    <2>5. \A d \in devices' : d.slot = s => <<d.pid, d.pay>> \in Claims(s)
      BY <2>1, <2>2, <2>4, Claimants
    <2> QED
      BY <2>5 DEF RowClaims
  <1> QED
    BY <1>1, <1>2, RowsChange

LEMMA PidsStep ==
  ASSUME IInv, NodeInv, Kinds
  PROVE  PidInv'
  <1> SUFFICES ASSUME NEW s \in Slots PROVE PidsOK(s)'
    BY DEF PidInv
  <1>0. /\ clients \in ClientsType /\ lastPid[s] \in Nat
        /\ PidsOK(s) /\ ClientsOK(s)
    BY NodeTypes DEF NodeInv, PidInv, PidsOK, ClientsOK
  <1>1. ASSUME \A q \in PaymentIds : ~Grown(s, q), lastPid'[s] = lastPid[s], ClientsFit(s)
        PROVE  PidsOK(s)'
    <2>1. \A q \in PaymentIds : task'[q][s].pid # 0 => <<task'[q][s].pid, q>> \in Claims(s)
      BY <1>1, TaskPids, Claimants
    <2>2. TaskClaims(s)' \subseteq Claims(s)
      BY <2>1 DEF TaskClaims
    <2> QED
      BY <1>0, <1>1, <2>2, RowClaimsStay, ClaimsKept
  <1>2. CASE \A q \in PaymentIds : ~Grown(s, q)
    <2>1. lastPid'[s] = lastPid[s] /\ ClientsFit(s)
      <3>1. CASE Kept(s) \/ Revoked(s) \/ \E p \in PaymentIds : RolledBack(s, p)
        <4>1. clients'[s] \subseteq clients[s] /\ lastPid'[s] = lastPid[s]
          BY <3>1 DEF Kept, Revoked, RolledBack, Without
        <4> QED
          BY <1>0, <4>1, FewerFit
      <3>2. CASE Toggled(s)
        BY <1>0, <3>2, SwitchFits DEF Toggled
      <3> QED
        BY <1>2, <3>1, <3>2, ClientsChange
    <2> QED
      BY <1>1, <1>2, <2>1
  <1>3. ASSUME NEW p \in PaymentIds, Grown(s, p) PROVE PidsOK(s)'
    <2> DEFINE n == NewClient(p, s)
    <2>1. n.pid = lastPid[s] + 1 /\ n.name = p
      BY DEF NewClient
    <2>2. clients'[s] = clients[s] \cup {n} /\ lastPid'[s] = lastPid[s] + 1
      BY <1>3 DEF Grown
    <2>3. ASSUME NEW q \in PaymentIds, Grown(s, q) PROVE q = p
      <3>1. clients'[s] = clients[s] \cup {NewClient(q, s)}
        BY <2>3 DEF Grown
      <3>2. NewClient(q, s).pid = lastPid[s] + 1 /\ NewClient(q, s).name = q
        BY DEF NewClient
      <3>3. \A c \in clients[s] : c.pid \in 1 .. lastPid[s]
        BY Claimants, SameClaim
      <3>4. NewClient(q, s) \notin clients[s]
        BY <1>0, <3>2, <3>3
      <3>5. NewClient(q, s) = n
        BY <2>2, <3>1, <3>4
      <3> QED
        BY <2>1, <3>2, <3>5
    <2> HIDE DEF n
    <2> DEFINE z == <<lastPid[s] + 1, p>>
    <2>4. ClientClaims(s)' \subseteq Claims(s) \cup {z}
      BY <2>1, <2>2, Claimants DEF ClientClaims
    <2>5. \A q \in PaymentIds :
            task'[q][s].pid # 0 => <<task'[q][s].pid, q>> \in Claims(s) \cup {z}
      BY <2>3, TaskPids, Claimants
    <2>6. TaskClaims(s)' \subseteq Claims(s) \cup {z}
      BY <2>5 DEF TaskClaims
    <2>7. Claims(s)' \subseteq Claims(s) \cup {z}
      BY <2>4, <2>6, RowClaimsStay DEF Claims
    <2>8. z[1] = lastPid[s] + 1 /\ z[2] = p
      OBVIOUS
    <2> HIDE DEF z
    <2>9. \A x \in Claims(s) : x[1] \in 1 .. lastPid[s] /\ x[1] # z[1]
      BY <1>0, <2>8 DEF PidsOK
    <2>10. \A x \in Claims(s)' : x[1] \in 1 .. lastPid'[s]
      BY <1>0, <2>2, <2>7, <2>8, <2>9
    <2>11. \A x, y \in Claims(s)' : x[1] = y[1] => x[2] = y[2]
      BY <1>0, <2>7, <2>9 DEF PidsOK
    <2>12. \A c \in clients[s] : c.pid # n.pid
      <3>1. \A c \in clients[s] : c.pid \in 1 .. lastPid[s]
        BY Claimants, SameClaim
      <3> QED
        BY <1>0, <2>1, <3>1
    <2>13. IsFiniteSet(clients'[s]) /\ \A c, e \in clients'[s] : c.pid = e.pid => c = e
      BY <1>0, <2>2, <2>12, FS_AddElement DEF ClientsOK
    <2> QED
      BY <2>10, <2>11, <2>13 DEF PidsOK
  <1> QED
    BY <1>2, <1>3

-----------------------------------------------------------------------------
(* Tasks, purges and what they rely on *)

LEMMA PurgeFirst ==
  ASSUME IInv, NodeInv, purge.pc # "idle"
  PROVE  FirstRow(purge.todo) \in purge.todo /\ FirstRow(purge.todo) \in devices
  BY FirstRowIn, NodeTypes DEF NodeInv, PurgeInv

(* A running task's client is not the one being purged. *)
LEMMA NotPurged ==
  ASSUME IInv, NodeInv, NEW q \in PaymentIds, NEW s \in Slots, task[q][s].pc \in Running
  PROVE  ~ (Revoked(s) /\ FirstRow(purge.todo).pid = task[q][s].pid)
  <1> SUFFICES ASSUME Revoked(s), FirstRow(purge.todo).pid = task[q][s].pid PROVE FALSE
    OBVIOUS
  <1>1. FirstRow(purge.todo) \in devices /\ FirstRow(purge.todo).slot = s
    BY PurgeFirst DEF Revoked, PurgeRevoke
  <1> QED
    BY <1>1, RowAlone

LEMMA ShapeStep ==
  ASSUME IInv, NodeInv, Kinds
  PROVE  TaskShape'
  <1> SUFFICES ASSUME NEW q \in PaymentIds, NEW s \in Slots
               PROVE  /\ Knows(task'[q][s]) \/ task'[q][s].pid = 0
                      /\ task'[q][s].pc \in {"config", "insert"}
                           => ~Gone(clients'[s], task'[q][s].pid)
    BY DEF TaskShape, Knows, Gone, Client
  <1>1. ASSUME task'[q][s].pc \in {"config", "insert"}
        PROVE  ~Gone(clients'[s], task'[q][s].pid)
    <2>0. task'[q][s].pid # 0
      BY <1>1, TaskPids
    <2>1. CASE task'[q][s].pid = task[q][s].pid /\ task[q][s].pc # "rollback"
      <3>1. task[q][s].pc \in {"config", "insert"} /\ task[q][s].pc \in Running
        BY <2>0, <2>1 DEF NodeInv, TaskShape, Running
      <3>2. ~Gone(clients[s], task[q][s].pid)
        BY <3>1 DEF NodeInv, TaskShape, Gone, Client
      <3>3. \A p \in PaymentIds : ~ (RolledBack(s, p) /\ task[p][s].pid = task[q][s].pid)
        BY <2>0, <2>1, <3>1, TaskAlone DEF RolledBack
      <3>4. ~Gone(clients'[s], task[q][s].pid)
        BY <3>1, <3>2, <3>3, NotPurged, ClientStays
      <3> QED
        BY <2>1, <3>4
    <2>2. ASSUME NEW c \in clients[s], c.pid = task'[q][s].pid, Kept(s)
          PROVE  ~Gone(clients'[s], task'[q][s].pid)
      BY <2>2 DEF Kept, Gone
    <2>3. CASE task'[q][s].pid = lastPid[s] + 1 /\ Grown(s, q)
      <3>1. NewClient(q, s) \in clients'[s] /\ NewClient(q, s).pid = task'[q][s].pid
        BY <2>3 DEF Grown, NewClient
      <3> QED
        BY <3>1 DEF Gone
    <2> QED
      BY <1>1, <2>0, <2>1, <2>2, <2>3, TaskPids
  <1> QED
    BY <1>1, TaskPids

(* A row that is deleted had lost its client. *)
LEMMA RowGoes ==
  ASSUME IInv, NodeInv, Kinds, NEW d \in devices, d \notin devices'
  PROVE  /\ PurgeDelete /\ d = FirstRow(purge.todo) /\ Gone(clients[d.slot], d.pid)
  <1>1. PurgeDelete
    <2>1. CASE Bystands \/ Switches \/ Starts \/ Clears \/ Dies
      BY <2>1 DEF Bystands, Switches, Starts, Clears, Dies, NodesRest
    <2>2. CASE Works
      <3>1. PICK p \in PaymentIds, s \in Slots : TaskStep(p, s)
        BY <2>2 DEF Works
      <3>2. PICK t \in TaskRec : Moves(p, s, t)
        BY <3>1, TaskMoves
      <3> QED
        BY <3>2 DEF Moves, Looks, Creates, Stores, Removes, AddDevice, NodesRest
    <2>3. CASE PurgeRevoke
      BY <2>3 DEF PurgeRevoke, storeVars
    <2> QED
      BY <2>1, <2>2, <2>3 DEF Kinds, Purges
  <1>2. DeleteDeviceRecord(FirstRow(purge.todo)) /\ purge.pc = "delete"
    BY <1>1 DEF PurgeDelete
  <1>3. d.id = FirstRow(purge.todo).id
    BY <1>2 DEF DeleteDeviceRecord
  <1>4. d = FirstRow(purge.todo)
    BY <1>2, <1>3, PurgeFirst DEF NodeInv, RowInv
  <1> QED
    BY <1>1, <1>2, <1>4 DEF NodeInv, PurgeInv, Gone, Client

LEMMA PurgeRestKeeps ==
  ASSUME NEW R, PurgeRest(R), R \subseteq devices'
  PROVE  PurgeInv' /\ purge'.pc # "delete"
  <1>1. CASE R = {}
    BY <1>1 DEF PurgeRest, PurgeInv, NoPurge
  <1>2. CASE R # {}
    <2>1. purge' = [pc |-> "revoke", todo |-> R]
      BY <1>2 DEF PurgeRest
    <2>2. purge'.pc = "revoke" /\ purge'.todo = R
      BY <2>1
    <2> QED
      BY <1>2, <2>2 DEF PurgeInv
  <1> QED
    BY <1>1, <1>2

LEMMA PurgeStep ==
  ASSUME IInv, NodeInv, Kinds
  PROVE  PurgeInv'
  <1>0. PurgeInv
    BY DEF NodeInv
  <1>1. CASE purge' = purge /\ ~PurgeDelete
    <2>1. devices \subseteq devices'
      BY <1>1, RowGoes
    <2>2. ASSUME purge.pc = "delete"
          PROVE  Gone(clients'[FirstRow(purge.todo).slot], FirstRow(purge.todo).pid)
      <3>1. PICK d \in devices : d = FirstRow(purge.todo)
        BY <2>2, PurgeFirst
      <3>2. d.slot \in Slots /\ d.pid \in 1 .. lastPid[d.slot]
        BY <3>1, NodeTypes, RowAlone DEF DeviceRow
      <3>3. Gone(clients[d.slot], d.pid)
        BY <1>0, <2>2, <3>1 DEF PurgeInv, Gone, Client
      <3>4. Gone(clients'[d.slot], d.pid)
        BY <3>2, <3>3, GoneForGood
      <3> QED
        BY <3>1, <3>4
    <2>3. (FirstRow(purge.todo))' = FirstRow(purge.todo)
      BY <1>1 DEF FirstRow
    <2>4. (purge.pc = "delete" =>
             Client(FirstRow(purge.todo).slot, FirstRow(purge.todo).pid) = {})'
      BY <1>1, <2>2, <2>3 DEF Client, Gone
    <2> QED
      BY <1>0, <1>1, <2>1, <2>4 DEF PurgeInv
  <1>2. CASE PurgeStarts /\ devices' = devices
    BY <1>2 DEF PurgeStarts, PurgeInv
  <1>3. CASE PurgeRevoke
    <2> DEFINE d == FirstRow(purge.todo)
    <2>0. devices' = devices /\ purge.pc = "revoke"
      BY <1>3 DEF PurgeRevoke, storeVars
    <2>1. CASE purge' = [purge EXCEPT !.pc = "delete"] /\ Answered(d.slot, d.pid, Without(d.slot, d.pid))
      <3>1. purge'.pc = "delete" /\ purge'.todo = purge.todo
        BY <2>1 DEF IInv, TypeOK, JobsTypeOK
      <3>2. d \in devices
        BY <2>0, PurgeFirst
      <3>3. d.slot \in Slots
        BY <3>2, NodeTypes DEF DeviceRow
      <3>4. clients'[d.slot] = Without(d.slot, d.pid)
        BY <2>1, <3>3, NodeTypes DEF Answered, ClientsType
      <3>5. Gone(clients'[d.slot], d.pid)
        BY <3>4 DEF Gone, Client, Without
      <3>6. (FirstRow(purge.todo))' = d
        BY <3>1 DEF FirstRow
      <3> HIDE DEF d
      <3>7. (Client(FirstRow(purge.todo).slot, FirstRow(purge.todo).pid) = {})'
        BY <3>5, <3>6 DEF Client, Gone
      <3> QED
        BY <1>0, <2>0, <3>1, <3>7 DEF PurgeInv
    <2>2. CASE PurgeRest(purge.todo \ {d})
      BY <1>0, <2>0, <2>2, PurgeRestKeeps DEF PurgeInv
    <2> QED
      BY <1>3, <2>1, <2>2 DEF PurgeRevoke
  <1>4. CASE PurgeDelete
    <2>1. PurgeRest(purge.todo \ {FirstRow(purge.todo)})
      BY <1>4 DEF PurgeDelete
    <2>2. purge.todo \ {FirstRow(purge.todo)} \subseteq devices'
      BY <1>0, RowGoes DEF PurgeInv
    <2> QED
      BY <2>1, <2>2, PurgeRestKeeps
  <1>5. CASE Dies
    BY <1>5 DEF Dies, PurgeInv, NoPurge
  <1> QED
    BY <1>1, <1>2, <1>3, <1>4, <1>5
    DEF Kinds, Bystands, Works, Switches, Purges, Starts, Clears, NodesRest

LEMMA KnownStep ==
  ASSUME IInv, NodeInv, Kinds, DeskOnward, SweepReads
  PROVE  KnownInv'
  <1> SUFFICES ASSUME NEW d, d \in Known'
               PROVE  /\ d.pid \in 1 .. lastPid'[d.slot]
                      /\ d \in devices' \/ Gone(clients'[d.slot], d.pid)
    BY DEF KnownInv, Gone, Client
  <1>1. d \in Known \/ d \in devices
    BY DEF Known, SweepReads, DeskOnward
  <1>2. d \in DeviceRow
    <2>1. Known \subseteq DeviceRow
      <3>1. \A p \in PaymentIds : desk[p].todo \subseteq DeviceRow
        BY NodeTypes DEF DeskType, DeskRec
      <3> QED
        BY <3>1, NodeTypes DEF Known
    <2> QED
      BY <1>1, <2>1, NodeTypes
  <1>3. d.slot \in Slots /\ d.pid \in 1 .. lastPid[d.slot]
    BY <1>1, <1>2, RowAlone DEF DeviceRow, NodeInv, KnownInv
  <1>4. d \in devices' \/ Gone(clients[d.slot], d.pid)
    <2>1. CASE d \in devices
      BY <2>1, RowGoes
    <2>2. CASE d \notin devices
      BY <1>1, <2>2 DEF NodeInv, KnownInv, Gone, Client
    <2> QED
      BY <2>1, <2>2
  <1>5. d \in devices' \/ Gone(clients'[d.slot], d.pid)
    BY <1>3, <1>4, GoneForGood
  <1>6. d.pid \in 1 .. lastPid'[d.slot]
    <2>1. lastPid[d.slot] \in Nat /\ lastPid'[d.slot] \in {lastPid[d.slot], lastPid[d.slot] + 1}
      BY <1>3, GoneForGood
    <2> QED
      BY <1>3, <2>1
  <1> QED
    BY <1>5, <1>6

-----------------------------------------------------------------------------
(* All of it, from the start and with every step *)

LEMMA InitNodeInv == Init => NodeInv /\ TodoInv
  <1> SUFFICES ASSUME Init PROVE NodeInv /\ TodoInv
    OBVIOUS
  <1>1. /\ devices = {} /\ lastDevice = 0
        /\ clients = [s \in Slots |-> {}] /\ lastPid = [s \in Slots |-> 0]
        /\ task = [p \in PaymentIds |-> [s \in Slots |-> Off]]
        /\ desk = [p \in PaymentIds |-> NoHandler]
        /\ sweep = NoSweep /\ purge = NoPurge
    BY DEF Init, StoreInit, ProvisionerInit, DeskInit, JobsInit
  <1>2. \A p \in PaymentIds : desk[p].todo = {} /\ desk[p].pc = "idle"
    BY <1>1 DEF NoHandler
  <1>3. \A p \in PaymentIds, s \in Slots : task[p][s].pc = "off" /\ task[p][s].pid = 0
    BY <1>1 DEF Off
  <1>4. Known = {} /\ TodoInv
    BY <1>1, <1>2 DEF Known, TodoInv, NoSweep
  <1>5. \A s \in Slots : PidsOK(s)
    <2> TAKE s \in Slots
    <2>1. clients[s] = {} /\ Claims(s) = {}
      BY <1>1, <1>3 DEF Claims, ClientClaims, RowClaims, TaskClaims
    <2> QED
      BY <2>1, FS_EmptySet DEF PidsOK
  <1>6. RowInv /\ FreshInv
    BY <1>1, FS_EmptySet DEF RowInv, FreshInv, NameUnique
  <1>7. TaskOwner /\ TaskShape
    BY <1>3 DEF TaskOwner, TaskShape
  <1>8. PurgeInv
    BY <1>1 DEF PurgeInv, NoPurge
  <1> QED
    BY <1>4, <1>5, <1>6, <1>7, <1>8 DEF NodeInv, PidInv, KnownInv

LEMMA NextNodeInv == IInv /\ TodoInv /\ NodeInv /\ [Next]_vars => NodeInv'
  <1> SUFFICES ASSUME IInv, TodoInv, NodeInv, [Next]_vars PROVE NodeInv'
    OBVIOUS
  <1>1. Kinds /\ UsersStay /\ DeskOnward /\ SweepReads
    BY KindsAlways, UsersStayAlways, DeskOnwardAlways, SweepReadsAlways
  <1> QED
    BY <1>1, OwnerStep, RowsStep, PidsStep, ShapeStep, PurgeStep, KnownStep DEF NodeInv

LEMMA AlwaysNodeInv == Spec => [](IInv /\ TodoInv /\ NodeInv)
  <1>1. Init => IInv /\ TodoInv /\ NodeInv
    BY InitIInv, InitNodeInv
  <1>2. IInv /\ TodoInv /\ NodeInv /\ [Next]_vars => (IInv /\ TodoInv /\ NodeInv)'
    BY NextIInv, TodoStep, NextNodeInv
  <1> QED
    BY <1>1, <1>2, PTL DEF Spec

(* No slot of a payment is ever stored twice, whoever provisions it, how   *)
(* often it is tried again, and whatever fails or is cut short.            *)
THEOREM NameUniqueAlways == Spec => []NameUnique
  <1>1. NodeInv => NameUnique
    BY DEF NodeInv, RowInv
  <1> QED
    BY <1>1, AlwaysNodeInv, PTL

-----------------------------------------------------------------------------
(* Failures are only ever added to. *)

LEMMA FaultsOnward ==
  ASSUME IInv, [Next]_vars
  PROVE  /\ faults \in Nat /\ faults' \in Nat /\ restarts \in Nat /\ restarts' \in Nat
         /\ faults <= faults' /\ restarts <= restarts'
  <1>0. IInv'
    BY NextIInv
  <1>1. faults \in Nat /\ faults' \in Nat /\ restarts \in Nat /\ restarts' \in Nat
    BY <1>0, ProvisionerAssumption, BotAssumption DEF IInv, TypeOK, ProvisionerTypeOK
  <1>2. CASE Restart
    <2>1. PICK up \in SUBSET Nodes : faults' = faults + Cardinality(Nodes \ up)
      BY <1>2 DEF Restart, ProvisionerRestart
    <2>2. Cardinality(Nodes \ up) \in Nat
      BY ProvisionerAssumption, FS_Subset, FS_CardinalityType
    <2>3. restarts' = restarts + 1
      BY <1>2 DEF Restart
    <2> QED
      BY <1>1, <2>1, <2>2, <2>3
  <1>3. CASE ~Restart
    <2>1. restarts' = restarts
      BY <1>3 DEF Next, Tasks, Tick, vars
    <2>2. faults' = faults \/ faults' = faults + 1
      <3>1. CASE \/ \E u \in Users : BuyCheck(u) \/ BuyShow(u) \/ LeaveMenu(u)
                 \/ \E m \in Msgs, u \in Users : ReceiptArrives(m, u)
                 \/ \E m \in Msgs : ReceiptNext(m)
        BY <3>1 DEF BuyCheck, BuyShow, LeaveMenu, ReceiptArrives, ReceiptNext, ReceiptCheck,
           ReceiptCreate, ReceiptClear, ReceiptNotify, ReceiptEscapes, nodeVars, Fault
      <3>2. CASE \E p \in PaymentIds : ApproveClaim(p) \/ RejectPayment(p) \/ HandlerEscapes(p)
        BY <3>2 DEF ApproveClaim, RejectPayment, HandlerEscapes, nodeVars, Fault
      <3>3. ASSUME NEW p \in PaymentIds, ApproveStep(p) PROVE faults' = faults \/ faults' = faults + 1
        <4>1. CASE EnableNext(p)
          BY <4>1 DEF EnableNext, Answered, NotAnswered, Fault
        <4>2. CASE ~EnableNext(p)
          BY <3>3, <4>2 DEF ApproveStep, LoadDevices, ReadSubscription, CreditSubscription,
             SendRenewed, SendConfirmed, ProvisionOver, MarkPartial, nodeVars
        <4> QED
          BY <4>1, <4>2
      <3>4. CASE SweepNext
        BY <3>4 DEF SweepNext, SweepStart, SweepLoad, SweepDisable, SweepMark, SweepNotify,
           SweepEscapes, nodeVars, Answered, NotAnswered, Fault
      <3>5. CASE PurgeNext
        BY <3>5 DEF PurgeNext, PurgeStart, PurgeRevoke, PurgeDelete, nodeVars, Answered,
           NotAnswered, Fault
      <3>6. CASE ResumeStep \/ ExpirePending
        BY <3>6 DEF ResumeStep, ResumeStart, ResumeLoad, ResumeSettle, ResumeApprove,
           ResumeNotify, ResumeFails, ExpirePending, nodeVars, Fault
      <3>7. ASSUME NEW p \in PaymentIds, NEW s \in Slots, TaskStep(p, s)
            PROVE  faults' = faults \/ faults' = faults + 1
        BY <3>7 DEF TaskStep, ListClients, Post, LosePost, GetConfig, CallFails, Insert,
           InsertFails, Rollback, Answered, NotAnswered, Fault
      <3>8. CASE Tick \/ UNCHANGED vars
        BY <3>8 DEF Tick, vars, nodeVars
      <3> QED
        BY <1>3, <3>1, <3>2, <3>3, <3>4, <3>5, <3>6, <3>7, <3>8
        DEF Next, DeskNext, JobsNext, Tasks
    <2> QED
      BY <1>1, <2>1, <2>2
  <1> QED
    BY <1>1, <1>2, <1>3

-----------------------------------------------------------------------------
(* Clients nobody refers to *)

HeldByTask(p, s, c) ==
  \/ task[p][s].pid = c.pid
  \/ /\ task[p][s].pc = "relist" /\ c.name = p
     /\ \A e \in clients[s] : e.name = p => c.pid <= e.pid
HeldByRow(s, c) == \E d \in devices : d.slot = s /\ d.pid = c.pid

LEMMA HeldBy ==
  ASSUME NEW s, NEW c
  PROVE  Held(s, c) <=> HeldByRow(s, c) \/ \E p \in PaymentIds : HeldByTask(p, s, c)
  BY DEF Held, HeldByRow, HeldByTask

(* A task that held c still does, now knows it, or never held it. *)
Lets(p, s, c) ==
  \/ ~HeldByTask(p, s, c)
  \/ task'[p][s].pid = c.pid
  \/ task'[p][s].pc = task[p][s].pc /\ task'[p][s].pid = task[p][s].pid

(* Whoever looks for a client by its name finds no other. *)
NamesKept(s) ==
  \A q \in PaymentIds : task[q][s].pc = "relist" =>
    \A e \in clients'[s] : e.name = q => \E f \in clients[s] : f.pid = e.pid /\ f.name = q

(* A row is deleted after its client, so it held none. *)
LEMMA HeldStays ==
  ASSUME IInv, NodeInv, Kinds, NEW s \in Slots, NEW c \in clients[s], Held(s, c),
         NamesKept(s), \A p \in PaymentIds : Lets(p, s, c)
  PROVE  Held(s, c)'
  <1>1. CASE HeldByRow(s, c)
    <2>1. PICK d \in devices : d.slot = s /\ d.pid = c.pid
      BY <1>1 DEF HeldByRow
    <2>2. d \in devices'
      BY <2>1, RowGoes DEF Gone
    <2> QED
      BY <2>1, <2>2 DEF Held
  <1>2. ASSUME NEW p \in PaymentIds, HeldByTask(p, s, c) PROVE Held(s, c)'
    <2>1. CASE task'[p][s].pid = c.pid
      BY <2>1 DEF Held
    <2>2. CASE task'[p][s].pc = task[p][s].pc /\ task'[p][s].pid = task[p][s].pid
      <3>1. CASE task[p][s].pid = c.pid
        BY <2>2, <3>1 DEF Held
      <3>2. CASE /\ task[p][s].pc = "relist" /\ c.name = p
                 /\ \A e \in clients[s] : e.name = p => c.pid <= e.pid
        <4>1. \A e \in clients'[s] : e.name = p => c.pid <= e.pid
          BY <3>2 DEF NamesKept
        <4> QED
          BY <2>2, <3>2, <4>1 DEF Held
      <3> QED
        BY <1>2, <3>1, <3>2 DEF HeldByTask
    <2> QED
      BY <1>2, <2>1, <2>2 DEF Lets
  <1> QED
    BY <1>1, <1>2, HeldBy

LEMMA FewerNames ==
  ASSUME NEW s, \A e \in clients'[s] : \E f \in clients[s] : f.pid = e.pid /\ f.name = e.name
  PROVE  NamesKept(s)
  BY DEF NamesKept

FewerOrphans(s) == Orphans(s)' \subseteq Orphans(s)

(* Tasks that have not started, or are over, hold nothing. *)
LEMMA IdleHolds ==
  ASSUME IInv, NodeInv, NEW p \in PaymentIds, NEW s \in Slots, NEW c \in clients[s],
         task[p][s].pc \notin {"config", "insert", "rollback", "relist"}
  PROVE  ~HeldByTask(p, s, c)
  <1>1. c.pid \in 1 .. lastPid[s]
    BY Claimants, SameClaim
  <1>2. task[p][s].pid = 0 /\ c.pid # 0
    BY <1>1, NodeTypes DEF NodeInv, TaskShape
  <1> QED
    BY <1>2 DEF HeldByTask

(* Handlers and jobs leave no client behind. *)
LEMMA OthersOrphans ==
  ASSUME IInv, NodeInv, Bystands \/ Switches \/ Purges \/ Starts \/ Clears, NEW s \in Slots
  PROVE  FewerOrphans(s)
  <1> SUFFICES ASSUME NEW c, c \in Orphans(s)' PROVE c \in Orphans(s)
    BY DEF FewerOrphans
  <1>0. Kinds /\ c \in clients'[s] /\ ~(Held(s, c)') /\ task \in TaskType
    BY NodeTypes DEF Kinds, Orphans
  <1>1. ASSUME NEW p \in PaymentIds, c \in clients[s] PROVE Lets(p, s, c)
    <2>1. CASE Bystands \/ Switches \/ Purges
      BY <2>1 DEF Bystands, Switches, Purges, PurgeRevoke, PurgeDelete, Lets
    <2>2. CASE Starts
      <3>1. PICK q \in PaymentIds, S \in SUBSET Slots, n \in Nat : ~Runs(q) /\ StartTasks(q, S, n)
        BY <2>2 DEF Starts
      <3>2. CASE p = q
        <4>1. task[p][s].pc = "off"
          BY <3>1, <3>2 DEF NodeInv, TaskOwner
        <4> QED
          BY <1>1, <4>1, IdleHolds DEF Lets
      <3>3. CASE p # q
        <4>1. task'[p] = task[p]
          BY <1>0, <3>1, <3>3, ResetTasks
        <4> QED
          BY <4>1 DEF Lets
      <3> QED
        BY <3>2, <3>3
    <2>3. CASE Clears
      <3>1. PICK q \in PaymentIds : TasksOver(q) /\ StartTasks(q, {}, 0)
        BY <2>3 DEF Clears, ClearTasks
      <3>2. CASE p = q
        <4>1. task[p][s].pc \in {"off", "ok", "fail"}
          BY <3>1, <3>2 DEF TasksOver
        <4> QED
          BY <1>1, <4>1, IdleHolds DEF Lets
      <3>3. CASE p # q
        <4>1. task'[p] = task[p]
          BY <1>0, <3>1, <3>3, ResetTasks
        <4> QED
          BY <4>1 DEF Lets
      <3> QED
        BY <3>2, <3>3
    <2> QED
      BY <2>1, <2>2, <2>3
  <1>2. ASSUME NamesKept(s), c \in clients[s] PROVE c \in Orphans(s)
    <2>1. Held(s, c) => Held(s, c)'
      BY <1>0, <1>1, <1>2, HeldStays
    <2> QED
      BY <1>0, <1>2, <2>1 DEF Orphans
  <1>3. CASE ~Switches
    <2>1. clients'[s] \subseteq clients[s]
      <3>1. CASE PurgeRevoke
        <4>1. \/ clients' = clients
              \/ clients' = [clients EXCEPT ![FirstRow(purge.todo).slot] =
                               Without(FirstRow(purge.todo).slot, FirstRow(purge.todo).pid)]
          BY <3>1 DEF PurgeRevoke, Answered, NotAnswered
        <4> QED
          BY <4>1, NodeTypes DEF ClientsType, Without
      <3>2. CASE ~PurgeRevoke
        BY <1>3, <3>2 DEF Bystands, Purges, PurgeDelete, Starts, Clears, NodesRest
      <3> QED
        BY <3>1, <3>2
    <2>2. NamesKept(s)
      BY <2>1, FewerNames
    <2> QED
      BY <1>0, <1>2, <2>1, <2>2
  <1>4. CASE Switches
    <2>1. PICK d \in Known, on \in BOOLEAN :
            clients' \in {clients, [clients EXCEPT ![d.slot] = SwitchedTo(d.slot, d.pid, on)]}
      BY <1>4 DEF Switches
    <2>2. devices' = devices /\ clients \in ClientsType
      BY <1>4, NodeTypes DEF Switches
    <2>3. CASE clients'[s] = clients[s]
      BY <1>0, <1>2, <2>3, FewerNames
    <2>4. CASE d.slot = s /\ clients'[s] = SwitchedTo(s, d.pid, on)
      <3>1. \A x \in clients'[s] : \E e \in clients[s] :
              x.pid = e.pid /\ x.name = e.name /\ x = IF e.pid = d.pid THEN [e EXCEPT !.on = on] ELSE e
        BY <2>2, <2>4, Switched
      <3>2. NamesKept(s)
        BY <3>1, FewerNames
      <3>3. PICK e \in clients[s] :
              c.pid = e.pid /\ c = IF e.pid = d.pid THEN [e EXCEPT !.on = on] ELSE e
        BY <1>0, <3>1
      <3>4. CASE e.pid = d.pid
        <4>1. d \in devices
          BY <2>4, <3>4 DEF NodeInv, KnownInv, Client
        <4>2. Held(s, c)'
          BY <2>2, <2>4, <3>3, <3>4, <4>1 DEF Held
        <4> QED
          BY <1>0, <4>2
      <3>5. CASE e.pid # d.pid
        BY <1>2, <3>2, <3>3, <3>5
      <3> QED
        BY <3>4, <3>5
    <2> QED
      BY <2>1, <2>2, <2>3, <2>4 DEF ClientsType
  <1> QED
    BY <1>3, <1>4

(* A step of another slot's task changes nothing here. *)
LEMMA OtherSlot ==
  ASSUME IInv, NodeInv, Works, NEW p \in PaymentIds, NEW r \in Slots, TaskStep(p, r),
         NEW s \in Slots, s # r
  PROVE  FewerOrphans(s)
  <1> SUFFICES ASSUME NEW c, c \in Orphans(s)' PROVE c \in Orphans(s)
    BY DEF FewerOrphans
  <1>0. Kinds /\ task \in TaskType /\ clients \in ClientsType
    BY NodeTypes DEF Kinds
  <1>1. PICK t \in TaskRec : Moves(p, r, t)
    BY TaskMoves
  <1>2. clients'[s] = clients[s]
    BY <1>0, <1>1 DEF Moves, Looks, Creates, Create, Stores, Removes, NodesRest, ClientsType
  <1>3. \A q \in PaymentIds : task'[q][s] = task[q][s]
    BY <1>0, <1>1, MovedTask DEF Moves
  <1>4. c \in clients[s] /\ ~(Held(s, c)') /\ NamesKept(s)
    BY <1>2, FewerNames DEF Orphans
  <1>5. \A q \in PaymentIds : Lets(q, s, c)
    BY <1>3 DEF Lets
  <1>6. Held(s, c) => Held(s, c)'
    BY <1>0, <1>4, <1>5, HeldStays
  <1> QED
    BY <1>4, <1>6 DEF Orphans

(* A task that creates no client leaves none, if it lets go of none. *)
LEMMA MoverLets ==
  ASSUME IInv, NodeInv, Works, NEW p \in PaymentIds, NEW s \in Slots, NEW t \in TaskRec,
         Assigns(p, s, t), clients'[s] \subseteq clients[s],
         \A c \in clients'[s] : Held(s, c)' \/ Lets(p, s, c)
  PROVE  FewerOrphans(s)
  <1> SUFFICES ASSUME NEW c, c \in Orphans(s)' PROVE c \in Orphans(s)
    BY DEF FewerOrphans
  <1>0. Kinds /\ task \in TaskType
    BY NodeTypes DEF Kinds
  <1>1. c \in clients[s] /\ ~(Held(s, c)') /\ Lets(p, s, c) /\ NamesKept(s)
    BY FewerNames DEF Orphans
  <1>2. \A q \in PaymentIds : Lets(q, s, c)
    <2>1. \A q \in PaymentIds : q # p => task'[q][s] = task[q][s]
      BY <1>0, MovedTask
    <2> QED
      BY <1>1, <2>1 DEF Lets
  <1>3. Held(s, c) => Held(s, c)'
    BY <1>0, <1>1, <1>2, HeldStays
  <1> QED
    BY <1>1, <1>3 DEF Orphans

(* Identifiers of clients are numbers, and no two have the same. *)
LEMMA ClientPids ==
  ASSUME IInv, NodeInv, NEW s \in Slots
  PROVE  /\ \A c \in clients[s] : c.pid \in Nat /\ c.pid # 0 /\ c.pid <= lastPid[s]
         /\ \A c, e \in clients[s] : c.pid = e.pid => c = e
         /\ IsFiniteSet(clients[s])
  <1>1. \A c \in clients[s] : c.pid \in 1 .. lastPid[s]
    BY Claimants, SameClaim
  <1>2. lastPid[s] \in Nat
    BY NodeTypes
  <1> QED
    BY <1>1, <1>2 DEF NodeInv, PidInv, PidsOK

LEMMA ListOrphans ==
  ASSUME IInv, NodeInv, Works, NEW p \in PaymentIds, NEW s \in Slots, ListClients(p, s)
  PROVE  FewerOrphans(s)
  <1>0. task \in TaskType /\ clients' = clients /\ task[p][s].pc \in {"list", "relist"}
    BY NodeTypes DEF ListClients
  <1>1. task[p][s].pid = 0
    BY <1>0 DEF NodeInv, TaskShape
  <1>2. ASSUME NEW c \in clients[s], c.name = p, \A e \in clients[s] : e.name = p => c.pid <= e.pid,
               Goto(p, s, "config", c.pid)
        PROVE  FewerOrphans(s)
    <2>1. c.pid \in Nat
      BY ClientPids
    <2>2. PICK t \in TaskRec : Assigns(p, s, t) /\ t.pid = c.pid
      BY <1>0, <1>2, <2>1, GotoMoves DEF TaskPC
    <2>3. task'[p][s].pid = c.pid
      BY <1>0, <2>2, MovedTask
    <2>4. ASSUME NEW e \in clients'[s] PROVE Lets(p, s, e)
      <3>1. CASE e.name = p /\ \A f \in clients[s] : f.name = p => e.pid <= f.pid
        <4>1. e.pid <= c.pid /\ c.pid <= e.pid /\ e.pid \in Nat
          BY <1>0, <1>2, <3>1, ClientPids
        <4>2. e.pid = c.pid
          BY <2>1, <4>1
        <4> QED
          BY <2>3, <4>2 DEF Lets
      <3>2. CASE ~ (e.name = p /\ \A f \in clients[s] : f.name = p => e.pid <= f.pid)
        <4>1. e.pid # 0
          BY <1>0, ClientPids
        <4> QED
          BY <1>1, <3>2, <4>1 DEF Lets, HeldByTask
      <3> QED
        BY <3>1, <3>2
    <2> QED
      BY <1>0, <2>2, <2>4, MoverLets
  <1>3. ASSUME {c \in clients[s] : c.name = p} = {}, NEW t \in TaskRec, Assigns(p, s, t)
        PROVE  FewerOrphans(s)
    <2>1. \A e \in clients'[s] : Lets(p, s, e)
      BY <1>0, <1>1, <1>3, ClientPids DEF Lets, HeldByTask
    <2> QED
      BY <1>0, <1>3, <2>1, MoverLets
  <1>4. CASE {c \in clients[s] : c.name = p} = {} /\ Goto(p, s, "post", 0)
    <2>1. \E t \in TaskRec : Assigns(p, s, t)
      BY <1>0, <1>4, GotoMoves DEF TaskPC
    <2> QED
      BY <1>3, <1>4, <2>1
  <1>5. CASE {c \in clients[s] : c.name = p} = {} /\ AttemptFailed(p, s)
    <2>1. \E t \in TaskRec : Assigns(p, s, t)
      BY <1>0, <1>5, FailMoves
    <2> QED
      BY <1>3, <1>5, <2>1
  <1> QED
    BY <1>2, <1>4, <1>5 DEF ListClients

(* GET of the configuration and a failed insert keep the client known; a   *)
(* stored row holds it.                                                    *)
LEMMA KeepOrphans ==
  ASSUME IInv, NodeInv, Works, NEW p \in PaymentIds, NEW s \in Slots,
         GetConfig(p, s) \/ InsertFails(p, s)
  PROVE  FewerOrphans(s)
  <1>0. /\ task \in TaskType /\ clients' = clients /\ task[p][s].pc \in {"config", "insert"}
        /\ task[p][s].pid \in Nat
    BY NodeTypes DEF GetConfig, InsertFails, TaskType, TaskRec
  <1>1. PICK t \in TaskRec : Assigns(p, s, t) /\ t.pid = task[p][s].pid
    BY <1>0, GotoMoves DEF GetConfig, InsertFails, TaskPC
  <1>2. task'[p][s].pid = task[p][s].pid
    BY <1>0, <1>1, MovedTask
  <1>3. \A c \in clients'[s] : Lets(p, s, c)
    BY <1>0, <1>2 DEF Lets, HeldByTask
  <1> QED
    BY <1>0, <1>1, <1>3, MoverLets

LEMMA InsertOrphans ==
  ASSUME IInv, NodeInv, Works, NEW p \in PaymentIds, NEW s \in Slots, Insert(p, s)
  PROVE  FewerOrphans(s)
  <1>0. task \in TaskType /\ clients' = clients /\ task[p][s].pc = "insert"
    BY NodeTypes DEF Insert
  <1>1. PICK t \in TaskRec : Assigns(p, s, t)
    BY <1>0, GotoMoves DEF Insert, TaskPC
  <1>2. PICK n \in devices' : n.slot = s /\ n.pid = task[p][s].pid
    <2>1. PICK n : /\ n = [id |-> lastDevice + 1, user |-> payments[p].tg_id, slot |-> s,
                          pid |-> task[p][s].pid, pay |-> p]
                   /\ n \in devices'
      BY DEF Insert, AddDevice
    <2>2. n.slot = s /\ n.pid = task[p][s].pid
      BY <2>1
    <2> QED
      BY <2>1, <2>2
  <1>3. ASSUME NEW c \in clients'[s] PROVE Held(s, c)' \/ Lets(p, s, c)
    <2>1. CASE c.pid = task[p][s].pid
      BY <1>2, <2>1 DEF Held
    <2>2. CASE c.pid # task[p][s].pid
      BY <1>0, <2>2 DEF Lets, HeldByTask
    <2> QED
      BY <2>1, <2>2
  <1> QED
    BY <1>0, <1>1, <1>3, MoverLets

LEMMA RollbackOrphans ==
  ASSUME IInv, NodeInv, Works, NEW p \in PaymentIds, NEW s \in Slots, Rollback(p, s), ~Fault
  PROVE  FewerOrphans(s)
  <1>0. task \in TaskType /\ task[p][s].pc = "rollback"
    BY NodeTypes DEF Rollback
  <1>1. PICK t \in TaskRec : Assigns(p, s, t)
    BY <1>0, FailMoves DEF Rollback
  <1>2. clients'[s] = Without(s, task[p][s].pid)
    <2>1. CASE Answered(s, task[p][s].pid, Without(s, task[p][s].pid))
      BY <2>1, NodeTypes DEF Answered, ClientsType
    <2>2. CASE Client(s, task[p][s].pid) = {} /\ clients' = clients
      BY <2>2 DEF Without
    <2> QED
      BY <2>1, <2>2 DEF Rollback, NotAnswered
  <1>3. \A c \in clients'[s] : Lets(p, s, c)
    BY <1>0, <1>2 DEF Lets, HeldByTask, Without, Client
  <1>4. clients'[s] \subseteq clients[s]
    BY <1>2 DEF Without
  <1> QED
    BY <1>1, <1>3, <1>4, MoverLets

LEMMA CallFailsOrphans ==
  ASSUME IInv, NodeInv, Works, NEW p \in PaymentIds, NEW s \in Slots, CallFails(p, s),
         task[p][s].pc = "list"
  PROVE  FewerOrphans(s)
  <1>0. task \in TaskType /\ clients' = clients
    BY NodeTypes DEF CallFails
  <1>1. PICK t \in TaskRec : Assigns(p, s, t)
    BY <1>0, FailMoves DEF CallFails
  <1>2. \A c \in clients'[s] : Lets(p, s, c)
    BY <1>0, IdleHolds DEF Lets
  <1> QED
    BY <1>0, <1>1, <1>2, MoverLets

(* Of the clients with a name there is a first. *)
LEMMA FirstClient ==
  ASSUME NEW C, \A c \in C : c.pid \in Nat, C # {}
  PROVE  \E m \in C : \A e \in C : m.pid <= e.pid
  <1> DEFINE T == {c.pid : c \in C}
  <1>1. T \subseteq Nat /\ T # {}
    OBVIOUS
  <1>2. PICK i \in T : \A j \in T : ~ (<<j, i>> \in OpToRel(<, Nat))
    BY <1>1, NatLessThanWellFounded, WFMin
  <1>3. \A j \in T : ~ (j < i)
    BY <1>1, <1>2 DEF OpToRel
  <1>4. PICK m \in C : i = m.pid
    OBVIOUS
  <1>5. ASSUME NEW e \in C PROVE m.pid <= e.pid
    <2>1. e.pid \in Nat /\ m.pid \in Nat /\ ~ (e.pid < m.pid)
      BY <1>3, <1>4
    <2> QED
      BY <2>1
  <1> QED
    BY <1>5

(* After a POST the new client is known, or the task is about to find the  *)
(* first client of its name, which then is nobody's.                       *)
LEMMA PostOrphans ==
  ASSUME IInv, NodeInv, Works, NEW p \in PaymentIds, NEW s \in Slots, Post(p, s)
  PROVE  Cardinality(Orphans(s)') <= Cardinality(Orphans(s))
  <1> DEFINE O == Orphans(s)'
  <1> PICK n : n = NewClient(p, s)
    OBVIOUS
  <1>0. /\ Kinds /\ task \in TaskType /\ task[p][s].pc = "post" /\ devices' = devices
        /\ lastPid[s] \in Nat
    BY NodeTypes DEF Post, Kinds, storeVars
  <1>1. clients'[s] = clients[s] \cup {n} /\ n.pid = lastPid[s] + 1 /\ n.name = p
    BY NodeTypes DEF Post, Create, ClientsType, NewClient
  <1>2. \A c \in clients[s] : c.pid \in Nat /\ c.pid < n.pid
    <2>1. \A c \in clients[s] : c.pid \in Nat /\ c.pid <= lastPid[s]
      BY ClientPids
    <2> QED
      BY <1>0, <1>1, <2>1
  <1>3. IsFiniteSet(Orphans(s)) /\ Orphans(s) \subseteq clients[s]
    BY ClientPids, FS_Subset DEF Orphans
  <1>4. \A q \in PaymentIds : q # p => task'[q][s] = task[q][s]
    <2>1. \E t \in TaskRec : Assigns(p, s, t)
      <3>1. CASE Goto(p, s, IF s \in AwgSlots THEN "config" ELSE "insert", lastPid[s] + 1)
        BY <1>0, <3>1, GotoMoves DEF TaskPC
      <3>2. CASE Goto(p, s, "relist", 0)
        BY <1>0, <3>2, GotoMoves DEF TaskPC
      <3> QED
        BY <3>1, <3>2 DEF Post
    <2> QED
      BY <1>0, <2>1, MovedTask
  <1>5. ASSUME NEW c \in clients[s], Held(s, c) PROVE Held(s, c)'
    <2>1. NamesKept(s)
      BY <1>0, <1>1 DEF NamesKept
    <2>2. \A q \in PaymentIds : Lets(q, s, c)
      BY <1>0, <1>4, IdleHolds DEF Lets
    <2> QED
      BY <1>0, <1>5, <2>1, <2>2, HeldStays
  <1>6. \A c \in O : c = n \/ c \in Orphans(s)
    BY <1>1, <1>5 DEF Orphans
  <1>7. CASE n \notin O
    <2>1. O \subseteq Orphans(s)
      BY <1>6, <1>7
    <2> QED
      BY <1>3, <2>1, FS_Subset
  <1>8. CASE n \in O
    <2>1. ~(Held(s, n)')
      BY <1>8 DEF Orphans
    <2>2. Goto(p, s, "relist", 0)
      <3>1. CASE Goto(p, s, IF s \in AwgSlots THEN "config" ELSE "insert", lastPid[s] + 1)
        <4>1. PICK t \in TaskRec : Assigns(p, s, t) /\ t.pid = lastPid[s] + 1
          BY <1>0, <3>1, GotoMoves DEF TaskPC
        <4>2. task'[p][s].pid = n.pid
          BY <1>0, <1>1, <4>1, MovedTask
        <4> QED
          BY <2>1, <4>2 DEF Held
      <3> QED
        BY <3>1 DEF Post
    <2>3. task'[p][s].pc = "relist"
      <3>1. PICK t \in TaskRec : Assigns(p, s, t) /\ t.pc = "relist"
        BY <1>0, <2>2, GotoMoves DEF TaskPC
      <3> QED
        BY <1>0, <3>1, MovedTask
    <2>4. PICK m \in clients'[s] : m.name = p /\ \A e \in clients'[s] : e.name = p => m.pid <= e.pid
      <3> DEFINE C == {c \in clients'[s] : c.name = p}
      <3>1. \A c \in C : c.pid \in Nat
        BY <1>0, <1>1, <1>2
      <3>2. n \in C
        BY <1>1
      <3>3. \E m \in C : \A e \in C : m.pid <= e.pid
        BY <3>1, <3>2, FirstClient
      <3> QED
        BY <3>3
    <2>5. Held(s, m)'
      BY <2>3, <2>4 DEF Held
    <2>6. m \in clients[s] /\ m \notin O
      BY <1>1, <2>1, <2>4, <2>5 DEF Orphans
    <2>7. m \in Orphans(s)
      <3>1. ~HeldByTask(p, s, m)
        BY <1>0, <2>6, IdleHolds
      <3>2. <<m.pid, p>> \in Claims(s) /\ m.pid # 0
        BY <2>4, <2>6, Claimants, ClientPids
      <3>3. ASSUME NEW q \in PaymentIds, q # p PROVE ~HeldByTask(q, s, m)
        <4>1. task[q][s].pid # m.pid
          <5>1. task[q][s].pid # 0 => <<task[q][s].pid, q>> \in Claims(s)
            BY Claimants
          <5> QED
            BY <3>2, <3>3, <5>1, SameClaim
        <4> QED
          BY <2>4, <3>3, <4>1 DEF HeldByTask
      <3>4. ~HeldByRow(s, m)
        <4>1. SUFFICES ASSUME NEW d \in devices, d.slot = s, d.pid = m.pid PROVE FALSE
          BY DEF HeldByRow
        <4>2. <<d.pid, d.pay>> \in Claims(s)
          BY <4>1, Claimants
        <4>3. d.pay = p
          BY <3>2, <4>1, <4>2, SameClaim
        <4> QED
          BY <1>0, <4>1, <4>3 DEF NodeInv, FreshInv, Running
      <3> QED
        BY <2>6, <3>1, <3>3, <3>4, HeldBy DEF Orphans
    <2>8. O \subseteq (Orphans(s) \ {m}) \cup {n}
      BY <1>6, <2>6
    <2>9. /\ IsFiniteSet(Orphans(s) \ {m})
          /\ Cardinality(Orphans(s) \ {m}) = Cardinality(Orphans(s)) - 1
          /\ Cardinality(Orphans(s)) \in Nat
      BY <1>3, <2>7, FS_RemoveElement, FS_CardinalityType
    <2>10. n \notin Orphans(s) \ {m}
      BY <1>2, <1>3
    <2>11. /\ IsFiniteSet((Orphans(s) \ {m}) \cup {n})
           /\ Cardinality((Orphans(s) \ {m}) \cup {n}) = Cardinality(Orphans(s))
      <3> DEFINE R == Orphans(s) \ {m}
      <3> HIDE DEF R
      <3>1. /\ IsFiniteSet(R) /\ n \notin R /\ Cardinality(R) = Cardinality(Orphans(s)) - 1
            /\ Cardinality(Orphans(s)) \in Nat
        BY <2>9, <2>10 DEF R
      <3>2. IsFiniteSet(R \cup {n}) /\ Cardinality(R \cup {n}) = Cardinality(R) + 1
        BY <3>1, FS_AddElement
      <3>3. Cardinality(R \cup {n}) = Cardinality(Orphans(s))
        BY <3>1, <3>2
      <3> QED
        BY <3>2, <3>3 DEF R
    <2> HIDE DEF O
    <2>12. Cardinality(O) <= Cardinality(Orphans(s))
      BY <2>8, <2>11, FS_Subset
    <2> QED
      BY <2>12 DEF O
  <1> QED
    BY <1>7, <1>8

NoLeak(s) ==
  \/ Cardinality(Orphans(s)') <= Cardinality(Orphans(s))
  \/ restarts' = restarts + 1
  \/ faults' = faults + 1 /\ \E p \in PaymentIds :
       task[p][s].pc \in {"post", "relist", "config", "rollback"}

LEMMA NoLeakStep ==
  ASSUME IInv, NodeInv, Kinds, NEW s \in Slots
  PROVE  NoLeak(s)
  <1>0. ASSUME FewerOrphans(s) PROVE NoLeak(s)
    <2>1. IsFiniteSet(Orphans(s))
      BY ClientPids, FS_Subset DEF Orphans
    <2> DEFINE O == Orphans(s)'
    <2>2. O \subseteq Orphans(s)
      BY <1>0 DEF FewerOrphans
    <2> HIDE DEF O
    <2>3. Cardinality(O) <= Cardinality(Orphans(s))
      BY <2>1, <2>2, FS_Subset
    <2> QED
      BY <2>3 DEF NoLeak, O
  <1>1. CASE Bystands \/ Switches \/ Purges \/ Starts \/ Clears
    BY <1>0, <1>1, OthersOrphans
  <1>2. CASE Dies
    BY <1>2 DEF Dies, NoLeak
  <1>3. CASE Works
    <2>1. PICK p \in PaymentIds, r \in Slots : TaskStep(p, r)
      BY <1>3 DEF Works
    <2>2. CASE r # s
      BY <1>0, <1>3, <2>1, <2>2, OtherSlot
    <2>3. CASE r = s
      <3>1. CASE ListClients(p, s) \/ GetConfig(p, s) \/ InsertFails(p, s) \/ Insert(p, s)
        BY <1>0, <1>3, <3>1, ListOrphans, KeepOrphans, InsertOrphans
      <3>2. CASE Post(p, s)
        BY <1>3, <3>2, PostOrphans DEF NoLeak
      <3>3. CASE LosePost(p, s)
        BY <3>3 DEF LosePost, Fault, NoLeak
      <3>4. CASE CallFails(p, s)
        <4>1. CASE task[p][s].pc = "list"
          BY <1>0, <1>3, <3>4, <4>1, CallFailsOrphans
        <4>2. CASE task[p][s].pc # "list"
          BY <3>4, <4>2 DEF CallFails, Fault, NoLeak
        <4> QED
          BY <4>1, <4>2
      <3>5. CASE Rollback(p, s)
        <4>1. CASE ~Fault
          BY <1>0, <1>3, <3>5, <4>1, RollbackOrphans
        <4>2. CASE Fault
          BY <3>5, <4>2 DEF Rollback, Fault, NoLeak
        <4> QED
          BY <4>1, <4>2
      <3> QED
        BY <2>1, <2>3, <3>1, <3>2, <3>3, <3>4, <3>5 DEF TaskStep
    <2> QED
      BY <2>2, <2>3
  <1> QED
    BY <1>1, <1>2, <1>3 DEF Kinds

(* No step but a death of the process or a failed call of the task at work *)
(* there leaves a node with more clients that nothing refers to.           *)
THEOREM LeakOnlyOnLossAlways == Spec => LeakOnlyOnLoss
  <1>1. IInv /\ TodoInv /\ NodeInv /\ [Next]_vars => [\A s \in Slots : NoLeak(s)]_vars
    BY KindsAlways, NoLeakStep
  <1> QED
    BY <1>1, AlwaysNodeInv, PTL DEF Spec, LeakOnlyOnLoss, NoLeak

-----------------------------------------------------------------------------
(* Whoever is active is served: what the handlers, the retry job and the   *)
(* expiry job do to a user's place in the queue.                           *)

(* A step of the handler of p. *)
KeepsRenewal(p) == desk'[p].renewal = desk[p].renewal
Rests(p) == desk'[p].pc = desk[p].pc /\ KeepsRenewal(p)
Takes(p) == desk[p].pc = "idle" /\ desk'[p].pc = "devices" /\ ~desk'[p].renewal
Drops(p) ==
  /\ desk'[p].pc = "dead" /\ ~desk'[p].renewal
  /\ desk[p].pc \in EscapePoints \/ restarts' = restarts + 1
Loads(p) ==
  /\ desk[p].pc = "devices" /\ desk'[p].pc \in {"enable", "read"}
  /\ desk'[p].renewal => GetUserDevices(payments[p].tg_id) # {}
  /\ UNCHANGED <<payments, devices, resume>>
Extends(p) ==
  /\ desk[p].pc \in {"enable", "read", "write"}
  /\ \/ desk'[p].pc \in {"enable", "read", "write"}
     \/ desk'[p].pc = "renewed" /\ desk[p].renewal
     \/ desk'[p].pc = "confirm" /\ ~desk[p].renewal
  /\ KeepsRenewal(p)
Renews(p) == desk[p].pc = "renewed" /\ desk'[p].pc = "done" /\ KeepsRenewal(p)
Provisions(p) ==
  /\ desk[p].pc = "confirm" /\ desk'[p].pc = "provision" /\ KeepsRenewal(p)
  /\ Provision(p) /\ mounted' = mounted
Delivers(p) ==
  /\ desk[p].pc = "provision" /\ desk'[p].pc = "done" /\ KeepsRenewal(p)
  /\ FullySuccessful(p) /\ UNCHANGED <<mounted, payments, devices>>
Degrades(p) ==
  /\ desk[p].pc = "provision" /\ desk'[p].pc = "degrade" /\ KeepsRenewal(p)
  /\ TasksOver(p)
Marks(p) ==
  /\ desk[p].pc = "degrade" /\ desk'[p].pc = "done" /\ KeepsRenewal(p)
  /\ payments'[p].status = "partial"

Turn(p) ==
  \/ Rests(p) \/ Takes(p) \/ Drops(p) \/ Loads(p) \/ Extends(p) \/ Renews(p)
  \/ Provisions(p) \/ Delivers(p) \/ Degrades(p) \/ Marks(p)

LEMMA ApproveTurns ==
  ASSUME IInv, UNCHANGED <<jobVars, restarts>>, NEW p \in PaymentIds,
         ApproveClaim(p) \/ RejectPayment(p) \/ ApproveStep(p) \/ HandlerEscapes(p)
  PROVE  Turn(p) /\ \A q \in PaymentIds : q # p => desk'[q] = desk[q]
  <1>0. desk \in DeskType /\ resume' = resume /\ payments \in PaymentsType
    BY NodeTypes DEF jobVars
  <1>1. CASE RejectPayment(p)
    <2>1. desk' = desk
      BY <1>1 DEF RejectPayment, deskVars
    <2> QED
      BY <2>1 DEF Turn, Rests, KeepsRenewal
  <1>2. CASE ApproveClaim(p)
    <2>1. desk' = [desk EXCEPT ![p] = [NoHandler EXCEPT !.pc = "devices"]]
          /\ payments[p].status = "pending"
      BY <1>2 DEF ApproveClaim, UpdatePaymentStatus
    <2>2. /\ desk'[p].pc = "devices" /\ ~desk'[p].renewal
          /\ \A q \in PaymentIds : q # p => desk'[q] = desk[q]
      BY <1>0, <2>1 DEF DeskType, DeskRec, NoHandler
    <2>3. desk[p].pc = "idle"
      BY <2>1 DEF IInv, LedgerInv, Stage, Undecided
    <2> QED
      BY <2>2, <2>3 DEF Turn, Takes
  <1>3. CASE HandlerEscapes(p)
    <2>1. desk' = [desk EXCEPT ![p] = [NoHandler EXCEPT !.pc = "dead"]]
      BY <1>3 DEF HandlerEscapes
    <2>2. /\ desk'[p].pc = "dead" /\ ~desk'[p].renewal
          /\ \A q \in PaymentIds : q # p => desk'[q] = desk[q]
      BY <1>0, <2>1 DEF DeskType, DeskRec, NoHandler
    <2> QED
      BY <1>3, <2>2 DEF HandlerEscapes, Turn, Drops
  <1>4. CASE LoadDevices(p)
    <2>1. PICK rows : rows = GetUserDevices(payments[p].tg_id)
      OBVIOUS
    <2>2. /\ desk[p].pc = "devices" /\ UNCHANGED <<payments, devices, resume>>
          /\ desk' = [desk EXCEPT ![p].pc = IF rows = {} THEN "read" ELSE "enable",
                                  ![p].todo = rows, ![p].renewal = rows # {}]
      BY <1>0, <1>4, <2>1 DEF LoadDevices, storeVars
    <2>3. /\ desk'[p].pc \in {"enable", "read"} /\ desk'[p].renewal = (rows # {})
          /\ \A q \in PaymentIds : q # p => desk'[q] = desk[q]
      BY <1>0, <2>2 DEF DeskType, DeskRec
    <2> QED
      BY <2>1, <2>2, <2>3 DEF Turn, Loads
  <1>5. CASE EnableNext(p)
    <2>1. PICK rest : desk' = [desk EXCEPT ![p].todo = rest,
                                           ![p].pc = IF rest = {} THEN "read" ELSE "enable"]
      BY <1>5 DEF EnableNext
    <2>2. /\ desk[p].pc = "enable" /\ desk'[p].pc \in {"read", "enable"} /\ KeepsRenewal(p)
          /\ \A q \in PaymentIds : q # p => desk'[q] = desk[q]
      BY <1>0, <1>5, <2>1 DEF EnableNext, DeskType, DeskRec, KeepsRenewal
    <2> QED
      BY <2>2 DEF Turn, Extends
  <1>6. CASE ReadSubscription(p)
    <2>1. /\ desk[p].pc = "read" /\ desk'[p].pc = "write" /\ KeepsRenewal(p)
          /\ \A q \in PaymentIds : q # p => desk'[q] = desk[q]
      BY <1>0, <1>6 DEF ReadSubscription, DeskType, DeskRec, KeepsRenewal
    <2> QED
      BY <2>1 DEF Turn, Extends
  <1>7. CASE CreditSubscription(p)
    <2>1. /\ desk[p].pc = "write" /\ KeepsRenewal(p)
          /\ desk'[p].pc = IF desk[p].renewal THEN "renewed" ELSE "confirm"
          /\ \A q \in PaymentIds : q # p => desk'[q] = desk[q]
      BY <1>0, <1>7 DEF CreditSubscription, DeskType, DeskRec, KeepsRenewal
    <2> QED
      BY <2>1 DEF Turn, Extends
  <1>8. CASE SendRenewed(p)
    <2>1. /\ desk[p].pc = "renewed" /\ desk'[p].pc = "done" /\ KeepsRenewal(p)
          /\ \A q \in PaymentIds : q # p => desk'[q] = desk[q]
      BY <1>0, <1>8 DEF SendRenewed, DeskType, DeskRec, KeepsRenewal
    <2> QED
      BY <2>1 DEF Turn, Renews
  <1>9. CASE SendConfirmed(p)
    <2>1. /\ desk[p].pc = "confirm" /\ desk'[p].pc = "provision" /\ KeepsRenewal(p)
          /\ \A q \in PaymentIds : q # p => desk'[q] = desk[q]
      BY <1>0, <1>9 DEF SendConfirmed, DeskType, DeskRec, KeepsRenewal
    <2>2. Provision(p) /\ mounted' = mounted
      BY <1>9 DEF SendConfirmed
    <2> QED
      BY <2>1, <2>2 DEF Turn, Provisions
  <1>10. CASE ProvisionOver(p)
    <2>1. /\ desk[p].pc = "provision" /\ KeepsRenewal(p)
          /\ desk'[p].pc = IF FullySuccessful(p) THEN "done" ELSE "degrade"
          /\ \A q \in PaymentIds : q # p => desk'[q] = desk[q]
      BY <1>0, <1>10 DEF ProvisionOver, DeskType, DeskRec, KeepsRenewal
    <2>2. UNCHANGED <<mounted, payments, devices>> /\ TasksOver(p)
      BY <1>10 DEF ProvisionOver, storeVars
    <2> QED
      BY <2>1, <2>2 DEF Turn, Delivers, Degrades
  <1>11. CASE MarkPartial(p)
    <2>1. /\ desk[p].pc = "degrade" /\ desk'[p].pc = "done" /\ KeepsRenewal(p)
          /\ \A q \in PaymentIds : q # p => desk'[q] = desk[q]
      BY <1>0, <1>11 DEF MarkPartial, DeskType, DeskRec, KeepsRenewal
    <2>2. payments' = [payments EXCEPT ![p].status = "partial"]
      BY <1>11 DEF MarkPartial, SetPaymentStatus
    <2>3. payments'[p].status = "partial"
      BY <1>0, <2>2 DEF PaymentsType
    <2> QED
      BY <2>1, <2>3 DEF Turn, Marks
  <1> QED
    BY <1>1, <1>2, <1>3, <1>4, <1>5, <1>6, <1>7, <1>8, <1>9, <1>10, <1>11 DEF ApproveStep

LEMMA Turns ==
  ASSUME IInv, [Next]_vars
  PROVE  \A p \in PaymentIds : Turn(p)
  <1>1. ASSUME desk' = desk PROVE \A p \in PaymentIds : Turn(p)
    BY <1>1 DEF Turn, Rests, KeepsRenewal
  <1>2. CASE DeskNext /\ UNCHANGED <<jobVars, restarts>>
    <2>1. CASE \/ \E u \in Users : BuyCheck(u) \/ BuyShow(u) \/ LeaveMenu(u)
               \/ \E m \in Msgs, u \in Users : ReceiptArrives(m, u)
               \/ \E m \in Msgs : ReceiptNext(m)
      <3>1. desk' = desk
        BY <2>1 DEF BuyCheck, BuyShow, LeaveMenu, ReceiptArrives, ReceiptNext, ReceiptCheck,
           ReceiptCreate, ReceiptClear, ReceiptNotify, ReceiptEscapes
      <3> QED
        BY <3>1, <1>1
    <2>2. ASSUME NEW p \in PaymentIds,
                 ApproveClaim(p) \/ RejectPayment(p) \/ ApproveStep(p) \/ HandlerEscapes(p)
          PROVE  \A q \in PaymentIds : Turn(q)
      <3>1. Turn(p) /\ \A q \in PaymentIds : q # p => desk'[q] = desk[q]
        BY <1>2, <2>2, ApproveTurns
      <3>2. \A q \in PaymentIds : desk'[q] = desk[q] => Turn(q)
        BY DEF Turn, Rests, KeepsRenewal
      <3> QED
        BY <3>1, <3>2
    <2> QED
      BY <1>2, <2>1, <2>2 DEF DeskNext
  <1>3. CASE (JobsNext /\ UNCHANGED <<deskVars, restarts>>) \/ Tasks \/ Tick \/ UNCHANGED vars
    BY <1>3, <1>1 DEF Tasks, Tick, vars, deskVars
  <1>4. CASE Restart
    <2>1. desk' = [p \in PaymentIds |->
                IF desk[p].pc \in {"idle", "done"} THEN desk[p]
                ELSE [NoHandler EXCEPT !.pc = "dead"]]
      BY <1>4 DEF Restart, DeskRestart
    <2>2. ASSUME NEW p \in PaymentIds
          PROVE  desk'[p] = desk[p] \/ (desk'[p].pc = "dead" /\ ~desk'[p].renewal)
      BY <2>1 DEF NoHandler
    <2>3. restarts' = restarts + 1
      BY <1>4 DEF Restart
    <2> QED
      BY <2>2, <2>3 DEF Turn, Rests, Drops, KeepsRenewal
  <1> QED
    BY <1>2, <1>3, <1>4 DEF Next

(* A step of the retry job. *)
Waits ==
  /\ resume'.pc \in {"idle", "load"} /\ resume'.pay \in {0, resume.pay}
  /\ resume'.queue \subseteq resume.queue \cup GetPartialPayments
Retries ==
  \E p \in resume.queue :
    /\ resume'.pc = "run" /\ resume'.pay = p /\ resume'.queue \subseteq resume.queue \ {p}
    /\ RetryPartial(p) /\ UNCHANGED <<payments, devices, mounted>>
KeepsPay == resume'.pay = resume.pay /\ resume'.queue = resume.queue
Settles ==
  /\ resume.pc = "run" /\ resume'.pc = "approve" /\ KeepsPay
  /\ FullySuccessful(resume.pay) /\ UNCHANGED <<payments, devices, mounted>>
Approves == resume.pc = "approve" /\ resume'.pc = "notify" /\ KeepsPay

ResumeTurn == resume' = resume \/ Waits \/ Retries \/ Settles \/ Approves

LEMMA ResumeTurns ==
  ASSUME IInv, [Next]_vars
  PROVE  ResumeTurn
  <1>0. resume \in [pc : {"idle", "load", "run", "approve", "notify"},
                    queue : SUBSET PaymentIds, pay : PaymentIds \cup {0}]
    BY DEF IInv, TypeOK, JobsTypeOK
  <1>1. ASSUME resume' = NoResume PROVE Waits
    BY <1>1 DEF Waits, NoResume
  <1>2. ASSUME ResumeNext PROVE Waits
    <2>1. CASE resume' = NoResume
      BY <2>1, <1>1
    <2>2. CASE resume' = [resume EXCEPT !.pc = "load", !.pay = 0]
      <3>1. resume'.pc = "load" /\ resume'.pay = 0 /\ resume'.queue = resume.queue
        BY <1>0, <2>2
      <3> QED
        BY <3>1 DEF Waits
    <2> QED
      BY <1>2, <2>1, <2>2 DEF ResumeNext
  <1>3. CASE ResumeStart
    <2>1. resume' = [NoResume EXCEPT !.pc = "load", !.queue = GetPartialPayments]
      BY <1>3 DEF ResumeStart
    <2>2. resume'.pc = "load" /\ resume'.pay = 0 /\ resume'.queue = GetPartialPayments
      BY <2>1 DEF NoResume
    <2> QED
      BY <2>2 DEF Waits, ResumeTurn
  <1>4. CASE ResumeLoad
    <2>1. PICK p \in resume.queue :
            /\ RetryPartial(p)
            /\ resume' = [pc |-> "run", queue |-> resume.queue \ {p}, pay |-> p]
      BY <1>4 DEF ResumeLoad
    <2>2. /\ resume'.pc = "run" /\ resume'.pay = p
          /\ resume'.queue \subseteq resume.queue \ {p}
      BY <2>1
    <2>3. UNCHANGED <<payments, devices, mounted>>
      BY <1>4 DEF ResumeLoad, storeVars
    <2> QED
      BY <2>1, <2>2, <2>3 DEF Retries, ResumeTurn
  <1>5. CASE ResumeSettle
    <2>1. CASE FullySuccessful(resume.pay) /\ resume' = [resume EXCEPT !.pc = "approve"]
      <3>1. resume'.pc = "approve" /\ KeepsPay
        BY <1>0, <2>1 DEF KeepsPay
      <3>2. resume.pc = "run" /\ UNCHANGED <<payments, devices, mounted>>
        BY <1>5 DEF ResumeSettle, storeVars
      <3> QED
        BY <2>1, <3>1, <3>2 DEF Settles, ResumeTurn
    <2> QED
      BY <1>5, <2>1, <1>2 DEF ResumeSettle, ResumeTurn
  <1>6. CASE ResumeApprove
    <2>1. resume' = [resume EXCEPT !.pc = "notify"] /\ resume.pc = "approve"
      BY <1>6 DEF ResumeApprove
    <2>2. resume'.pc = "notify" /\ KeepsPay
      BY <1>0, <2>1 DEF KeepsPay
    <2> QED
      BY <2>1, <2>2 DEF Approves, ResumeTurn
  <1>7. CASE ResumeNotify
    BY <1>7, <1>2 DEF ResumeNotify, ResumeTurn
  <1>8. CASE ResumeFails
    <2>1. ASSUME NEW p \in resume.queue, resume.pc = "load",
                 resume' = [resume EXCEPT !.queue = resume.queue \ {p}]
          PROVE  Waits
      <3>1. /\ resume'.pc = "load" /\ resume'.pay = resume.pay
            /\ resume'.queue = resume.queue \ {p}
        BY <1>0, <2>1
      <3> QED
        BY <3>1 DEF Waits
    <2> QED
      BY <1>8, <2>1, <1>1, <1>2 DEF ResumeFails, ResumeTurn
  <1>9. CASE DeskNext /\ UNCHANGED <<jobVars, restarts>>
    BY <1>9 DEF jobVars, ResumeTurn
  <1>10. CASE SweepNext \/ PurgeNext \/ ExpirePending
    <2>1. resume' = resume
      BY <1>10 DEF SweepNext, SweepStart, SweepLoad, SweepDisable, SweepMark, SweepNotify,
         SweepEscapes, PurgeNext, PurgeStart, PurgeRevoke, PurgeDelete, ExpirePending, jobVars
    <2> QED
      BY <2>1 DEF ResumeTurn
  <1>11. CASE Tasks \/ Tick \/ UNCHANGED vars
    BY <1>11 DEF Tasks, Tick, vars, jobVars, ResumeTurn
  <1>12. CASE Restart
    BY <1>12, <1>1 DEF Restart, JobsRestart, ResumeTurn
  <1> QED
    BY <1>3, <1>4, <1>5, <1>6, <1>7, <1>8, <1>9, <1>10, <1>11, <1>12
    DEF Next, JobsNext, ResumeStep

(* Only a handler that degrades a payment queues it, and only the retry    *)
(* job takes it off.                                                       *)
StatusTurn ==
  \A p \in PaymentIds :
    /\ payments'[p].status = "partial" =>
         payments[p].status = "partial" \/ desk[p].pc = "degrade"
    /\ payments[p].status = "partial" =>
         \/ payments'[p].status = "partial"
         \/ resume.pc = "approve" /\ resume.pay = p /\ resume'.pc = "notify"

LEMMA StatusTurns ==
  ASSUME IInv, [Next]_vars
  PROVE  StatusTurn
  <1>0. payments \in PaymentsType
    BY NodeTypes
  <1>1. ASSUME payments' = payments PROVE StatusTurn
    BY <1>1 DEF StatusTurn
  <1>2. ASSUME NEW p \in PaymentIds, NEW st, payments' = [payments EXCEPT ![p].status = st],
               st = "partial" => desk[p].pc = "degrade",
               payments[p].status = "partial" =>
                 resume.pc = "approve" /\ resume.pay = p /\ resume'.pc = "notify"
        PROVE  StatusTurn
    <2>1. /\ payments'[p].status = st
          /\ \A q \in PaymentIds : q # p => payments'[q] = payments[q]
      BY <1>0, <1>2 DEF PaymentsType
    <2> QED
      BY <1>2, <2>1 DEF StatusTurn
  <1>3. ASSUME NEW p \in PaymentIds, ApproveClaim(p) \/ RejectPayment(p) PROVE StatusTurn
    <2>1. PICK st \in {"approved", "rejected"} : UpdatePaymentStatus(p, st)
      BY <1>3 DEF ApproveClaim, RejectPayment
    <2> QED
      BY <2>1, <1>2 DEF UpdatePaymentStatus
  <1>4. ASSUME NEW p \in PaymentIds, MarkPartial(p) PROVE StatusTurn
    <2>1. payments' = [payments EXCEPT ![p].status = "partial"] /\ desk[p].pc = "degrade"
      BY <1>4 DEF MarkPartial, SetPaymentStatus
    <2>2. payments[p].status # "partial"
      BY <2>1 DEF IInv, LedgerInv, Stage
    <2> QED
      BY <2>1, <2>2, <1>2
  <1>5. CASE ResumeApprove
    <2>1. PICK p \in PaymentIds : p = resume.pay
      BY <1>5, NodeTypes DEF ResumeApprove, IInv, LedgerInv, ResumeInv
    <2>2. payments' = [payments EXCEPT ![p].status = "approved"] /\ resume.pc = "approve"
      BY <1>5, <2>1 DEF ResumeApprove, SetPaymentStatus
    <2>3. resume'.pc = "notify"
      BY <1>5 DEF ResumeApprove, IInv, TypeOK, JobsTypeOK
    <2> QED
      BY <2>1, <2>2, <2>3, <1>2
  <1>6. CASE ExpirePending
    <2>1. PICK old \in SUBSET PaymentIds :
            /\ \A p \in old : payments[p].status = "pending"
            /\ payments' = [p \in PaymentIds |->
                 IF p \in old THEN [payments[p] EXCEPT !.status = "expired"] ELSE payments[p]]
      BY <1>6 DEF ExpirePending, ExpireOldPendingPayments
    <2>2. \A p \in PaymentIds :
            IF p \in old THEN payments'[p].status = "expired" ELSE payments'[p] = payments[p]
      BY <1>0, <2>1 DEF PaymentsType
    <2> QED
      BY <2>1, <2>2 DEF StatusTurn
  <1>7. ASSUME NEW m \in Msgs, ReceiptCreate(m) PROVE StatusTurn
    <2>1. PICK p \in PaymentIds :
            /\ payments[p].status = "none"
            /\ payments' = [payments EXCEPT ![p] =
                 [tg_id |-> receipt[m].user, status |-> "pending", created |-> now]]
      BY <1>7 DEF ReceiptCreate, CreatePayment
    <2>2. /\ payments'[p].status = "pending"
          /\ \A q \in PaymentIds : q # p => payments'[q] = payments[q]
      BY <1>0, <2>1 DEF PaymentsType
    <2> QED
      BY <2>1, <2>2 DEF StatusTurn
  <1>8. CASE \/ \E u \in Users : BuyCheck(u) \/ BuyShow(u) \/ LeaveMenu(u)
             \/ \E m \in Msgs, u \in Users : ReceiptArrives(m, u)
             \/ \E m \in Msgs : ReceiptCheck(m) \/ ReceiptClear(m) \/ ReceiptNotify(m)
                                \/ ReceiptEscapes(m)
    <2>1. payments' = payments
      BY <1>8 DEF BuyCheck, BuyShow, LeaveMenu, ReceiptArrives, ReceiptCheck, ReceiptClear,
         ReceiptNotify, ReceiptEscapes, storeVars
    <2> QED
      BY <2>1, <1>1
  <1>9. ASSUME NEW p \in PaymentIds, ApproveStep(p) \/ HandlerEscapes(p), ~MarkPartial(p)
        PROVE  StatusTurn
    <2>1. payments' = payments
      BY <1>9 DEF ApproveStep, LoadDevices, EnableNext, ReadSubscription, CreditSubscription,
         SendRenewed, SendConfirmed, ProvisionOver, HandlerEscapes, storeVars
    <2> QED
      BY <2>1, <1>1
  <1>10. CASE DeskNext
    BY <1>10, <1>3, <1>4, <1>7, <1>8, <1>9 DEF DeskNext, ReceiptNext
  <1>11. CASE (ResumeStep /\ ~ResumeApprove) \/ SweepNext \/ PurgeNext
    <2>1. payments' = payments
      BY <1>11 DEF ResumeStep, ResumeStart, ResumeLoad, ResumeSettle, ResumeNotify, ResumeFails,
         SweepNext, SweepStart, SweepLoad, SweepDisable, SweepMark, SweepNotify, SweepEscapes,
         PurgeNext, PurgeStart, PurgeRevoke, PurgeDelete, storeVars
    <2> QED
      BY <2>1, <1>1
  <1>12. CASE Tasks
    <2>1. payments' = payments
      BY <1>12 DEF Tasks, TaskStep, ListClients, Post, LosePost, GetConfig, CallFails, Insert,
         InsertFails, Rollback, storeVars
    <2> QED
      BY <2>1, <1>1
  <1>13. CASE Tick \/ Restart \/ UNCHANGED vars
    BY <1>13, <1>1 DEF Tick, Restart, vars, storeVars
  <1> QED
    BY <1>5, <1>6, <1>10, <1>11, <1>12, <1>13 DEF Next, JobsNext

(* Only a credit makes a user active. *)
UserTurn ==
  \A u \in Users : users'[u].status = "active" =>
    \/ users[u].status = "active"
    \/ payments' = payments /\ \E p \in PaymentIds : payments[p].tg_id = u
                                                     /\ desk'[p].pc \in {"renewed", "confirm"}

LEMMA UserTurns ==
  ASSUME IInv, [Next]_vars
  PROVE  UserTurn
  <1>0. desk \in DeskType /\ users \in [Users -> [status : UserStatus, sub_end : Nat]]
    BY NodeTypes DEF IInv, TypeOK, StoreTypeOK
  <1>1. ASSUME users' = users PROVE UserTurn
    BY <1>1 DEF UserTurn
  <1>2. ASSUME NEW p \in PaymentIds, CreditSubscription(p) PROVE UserTurn
    <2>1. /\ users' = [users EXCEPT ![payments[p].tg_id] =
                         [status |-> "active", sub_end |-> desk[p].end]]
          /\ payments' = payments
      BY <1>2 DEF CreditSubscription, WriteSubscription
    <2>2. desk'[p].pc \in {"renewed", "confirm"}
      BY <1>0, <1>2 DEF CreditSubscription, DeskType, DeskRec
    <2>3. \A u \in Users : u # payments[p].tg_id => users'[u] = users[u]
      BY <1>0, <2>1
    <2> QED
      BY <2>1, <2>2, <2>3 DEF UserTurn
  <1>3. CASE SweepMark
    <2>1. users' = [users EXCEPT ![sweep.user].status = "expired"]
      BY <1>3 DEF SweepMark, UpdateUserStatus
    <2>2. \A u \in Users : users'[u].status \in {users[u].status, "expired"}
      BY <1>0, <2>1
    <2> QED
      BY <2>2 DEF UserTurn
  <1>4. CASE \/ \E u \in Users : BuyCheck(u) \/ BuyShow(u) \/ LeaveMenu(u)
             \/ \E m \in Msgs, u \in Users : ReceiptArrives(m, u)
             \/ \E m \in Msgs : ReceiptNext(m)
             \/ \E p \in PaymentIds : ApproveClaim(p) \/ RejectPayment(p) \/ HandlerEscapes(p)
    <2>1. users' = users
      BY <1>4 DEF BuyCheck, BuyShow, LeaveMenu, ReceiptArrives, ReceiptNext, ReceiptCheck,
         ReceiptCreate, ReceiptClear, ReceiptNotify, ReceiptEscapes, ApproveClaim, RejectPayment,
         HandlerEscapes, storeVars
    <2> QED
      BY <2>1, <1>1
  <1>5. ASSUME NEW p \in PaymentIds, ApproveStep(p), ~CreditSubscription(p)
        PROVE  UserTurn
    <2>1. users' = users
      BY <1>5 DEF ApproveStep, LoadDevices, EnableNext, ReadSubscription, SendRenewed,
         SendConfirmed, ProvisionOver, MarkPartial, storeVars
    <2> QED
      BY <2>1, <1>1
  <1>6. CASE DeskNext
    BY <1>6, <1>2, <1>4, <1>5 DEF DeskNext
  <1>7. CASE ResumeStep \/ ExpirePending \/ (SweepNext /\ ~SweepMark) \/ PurgeNext
    <2>1. users' = users
      BY <1>7 DEF ResumeStep, ResumeStart, ResumeLoad, ResumeSettle, ResumeApprove, ResumeNotify,
         ResumeFails, ExpirePending, SweepNext, SweepStart, SweepLoad, SweepDisable, SweepNotify,
         SweepEscapes, PurgeNext, PurgeStart, PurgeRevoke, PurgeDelete, storeVars
    <2> QED
      BY <2>1, <1>1
  <1>8. CASE Tasks
    <2>1. users' = users
      BY <1>8 DEF Tasks, TaskStep, ListClients, Post, LosePost, GetConfig, CallFails, Insert,
         InsertFails, Rollback, storeVars
    <2> QED
      BY <2>1, <1>1
  <1>9. CASE Tick \/ Restart \/ UNCHANGED vars
    BY <1>9, <1>1 DEF Tick, Restart, vars, storeVars
  <1> QED
    BY <1>3, <1>6, <1>7, <1>8, <1>9 DEF Next, JobsNext

(* Nodes are mounted when the process starts, with nothing running. *)
MountTurn ==
  \/ mounted' = mounted /\ restarts' = restarts
  \/ /\ restarts' = restarts + 1 /\ resume' = NoResume
     /\ \A p \in PaymentIds : ~Runs(p)'

LEMMA MountTurns ==
  ASSUME IInv, [Next]_vars
  PROVE  MountTurn
  <1>1. CASE Restart
    <2>1. resume' = NoResume /\ restarts' = restarts + 1
      BY <1>1 DEF Restart, JobsRestart
    <2>2. resume'.pc # "run"
      BY <2>1 DEF NoResume
    <2>3. \A p \in PaymentIds : desk'[p].pc # "provision"
      BY <1>1 DEF Restart, DeskRestart, NoHandler
    <2>4. \A p \in PaymentIds : ~Runs(p)'
      BY <2>2, <2>3 DEF Runs
    <2> QED
      BY <2>1, <2>4 DEF MountTurn
  <1>2. CASE DeskNext /\ UNCHANGED <<jobVars, restarts>>
    <2>1. CASE \/ \E u \in Users : BuyCheck(u) \/ BuyShow(u) \/ LeaveMenu(u)
               \/ \E m \in Msgs, u \in Users : ReceiptArrives(m, u)
               \/ \E m \in Msgs : ReceiptNext(m)
      BY <1>2, <2>1 DEF BuyCheck, BuyShow, LeaveMenu, ReceiptArrives, ReceiptNext, ReceiptCheck,
         ReceiptCreate, ReceiptClear, ReceiptNotify, ReceiptEscapes, nodeVars, MountTurn
    <2>2. CASE \E p \in PaymentIds : \/ ApproveClaim(p) \/ RejectPayment(p) \/ ApproveStep(p)
                                     \/ HandlerEscapes(p)
      BY <1>2, <2>2 DEF ApproveClaim, RejectPayment, HandlerEscapes, ApproveStep, LoadDevices,
         EnableNext, ReadSubscription, CreditSubscription, SendRenewed, SendConfirmed,
         ProvisionOver, MarkPartial, nodeVars, MountTurn
    <2> QED
      BY <1>2, <2>1, <2>2 DEF DeskNext
  <1>3. CASE JobsNext /\ UNCHANGED <<deskVars, restarts>>
    BY <1>3 DEF JobsNext, SweepNext, SweepStart, SweepLoad, SweepDisable, SweepMark, SweepNotify,
       SweepEscapes, PurgeNext, PurgeStart, PurgeRevoke, PurgeDelete, ResumeStep, ResumeStart,
       ResumeLoad, ResumeSettle, ResumeApprove, ResumeNotify, ResumeFails, ExpirePending,
       nodeVars, MountTurn
  <1>4. CASE Tasks
    BY <1>4 DEF Tasks, TaskStep, ListClients, Post, LosePost, GetConfig, CallFails, Insert,
       InsertFails, Rollback, MountTurn
  <1>5. CASE Tick \/ UNCHANGED vars
    BY <1>5 DEF Tick, vars, nodeVars, MountTurn
  <1> QED
    BY <1>1, <1>2, <1>3, <1>4, <1>5 DEF Next

(* Whoever runs tasks keeps them until they are over, and one that ends    *)
(* well has stored its row.                                                *)
TaskTurn ==
  \A p \in PaymentIds, s \in Slots :
    /\ Runs(p) /\ Runs(p)' /\ task[p][s].pc # "off" => task'[p][s].pc # "off"
    /\ task'[p][s].pc = "ok" => task[p][s].pc = "ok" \/ Stored(p, s)

LEMMA TaskGoesOn ==
  ASSUME IInv, NEW p \in PaymentIds, NEW s \in Slots, TaskStep(p, s)
  PROVE  /\ task'[p][s].pc # "off" /\ (task'[p][s].pc = "ok" => Stored(p, s))
         /\ \A q \in PaymentIds, r \in Slots : q # p \/ r # s => task'[q][r] = task[q][r]
  <1>0. task \in TaskType /\ lastPid \in [Slots -> Nat] /\ clients \in ClientsType
    BY NodeTypes
  <1> DEFINE Else == \A q \in PaymentIds, r \in Slots :
                       q # p \/ r # s => task'[q][r] = task[q][r]
             Good == task'[p][s].pc \notin {"off", "ok"} /\ Else
  <1>1. ASSUME NEW t \in TaskRec, Assigns(p, s, t) PROVE task'[p][s] = t /\ Else
    BY <1>0, <1>1, MovedTask
  <1>2. ASSUME AttemptFailed(p, s) PROVE Good
    <2>1. PICK t : t = IF task[p][s].left > 1
                    THEN [pc |-> FirstCall(s), left |-> task[p][s].left - 1, pid |-> 0]
                    ELSE [pc |-> "fail", left |-> 0, pid |-> 0]
      OBVIOUS
    <2>2. t \in TaskRec /\ t.pc \notin {"off", "ok"}
      BY <1>0, <2>1 DEF TaskType, TaskRec, TaskPC, FirstCall
    <2>3. Assigns(p, s, t)
      BY <1>2, <2>1 DEF AttemptFailed, Assigns
    <2> QED
      BY <1>1, <2>2, <2>3
  <1>3. ASSUME NEW pc \in TaskPC \ {"off", "ok"}, NEW pid \in Nat, Goto(p, s, pc, pid)
        PROVE  Good
    <2>1. PICK t \in TaskRec : Assigns(p, s, t) /\ t.pc = pc
      BY <1>0, <1>3, GotoMoves
    <2> QED
      BY <1>1, <2>1
  <1>4. CASE Insert(p, s)
    <2>1. task[p][s].pc = "insert" /\ AddDevice(payments[p].tg_id, s, task[p][s].pid, p)
      BY <1>4 DEF Insert
    <2>2. PICK t \in TaskRec : Assigns(p, s, t) /\ t.pc = "ok"
      BY <1>0, <1>4, GotoMoves DEF Insert, TaskPC
    <2>3. task'[p][s].pc = "ok" /\ Else
      BY <1>1, <2>2
    <2> QED
      BY <2>1, <2>3 DEF Stored
  <1>5. CASE ~Insert(p, s)
    <2> USE DEF TaskPC
    <2>1. CASE ListClients(p, s)
      <3>1. \A c \in clients[s] : c.pid \in Nat
        BY <1>0 DEF ClientsType, ClientRec
      <3> QED
        BY <2>1, <3>1, <1>2, <1>3 DEF ListClients
    <2>2. CASE Post(p, s)
      <3>1. lastPid[s] + 1 \in Nat
        BY <1>0
      <3> QED
        BY <2>2, <3>1, <1>3 DEF Post
    <2>3. CASE LosePost(p, s)
      BY <2>3, <1>2, <1>3 DEF LosePost
    <2>4. CASE GetConfig(p, s) \/ InsertFails(p, s)
      <3>1. task[p][s].pid \in Nat
        BY <1>0 DEF TaskType, TaskRec
      <3> QED
        BY <2>4, <3>1, <1>3 DEF GetConfig, InsertFails
    <2>5. CASE CallFails(p, s)
      BY <2>5, <1>2, <1>3 DEF CallFails
    <2>6. CASE Rollback(p, s)
      BY <2>6, <1>2 DEF Rollback
    <2> QED
      BY <1>5, <2>1, <2>2, <2>3, <2>4, <2>5, <2>6 DEF TaskStep
  <1> QED
    BY <1>4, <1>5

LEMMA TaskTurns ==
  ASSUME IInv, NodeInv, Kinds
  PROVE  TaskTurn
  <1>0. task \in TaskType
    BY NodeTypes
  <1>1. CASE Bystands \/ Switches \/ Purges
    BY <1>1 DEF Bystands, Switches, Purges, PurgeRevoke, PurgeDelete, TaskTurn
  <1>2. CASE Works
    <2>1. PICK p \in PaymentIds, s \in Slots : TaskStep(p, s)
      BY <1>2 DEF Works
    <2>2. /\ task'[p][s].pc # "off" /\ (task'[p][s].pc = "ok" => Stored(p, s))
          /\ \A q \in PaymentIds, r \in Slots : q # p \/ r # s => task'[q][r] = task[q][r]
      BY <2>1, TaskGoesOn
    <2> QED
      BY <2>2 DEF TaskTurn
  <1>3. CASE Starts
    <2>1. PICK p \in PaymentIds, S \in SUBSET Slots, n \in Nat :
            ~Runs(p) /\ StartTasks(p, S, n)
      BY <1>3 DEF Starts
    <2>2. /\ \A q \in PaymentIds : q # p => task'[q] = task[q]
          /\ \A s \in Slots : task'[p][s].pc \in {"off", "list", "post"}
      BY <1>0, <2>1, ResetTasks
    <2> QED
      BY <2>1, <2>2 DEF TaskTurn
  <1>4. CASE Clears
    <2>1. PICK p \in PaymentIds : StartTasks(p, {}, 0) /\ ~Runs(p)'
      BY <1>4 DEF Clears, ClearTasks
    <2>2. /\ \A q \in PaymentIds : q # p => task'[q] = task[q]
          /\ \A s \in Slots : task'[p][s].pc \in {"off", "list", "post"}
      BY <1>0, <2>1, ResetTasks
    <2> QED
      BY <2>1, <2>2 DEF TaskTurn
  <1>5. CASE Dies
    BY <1>5 DEF Dies, TaskTurn, Off
  <1> QED
    BY <1>1, <1>2, <1>3, <1>4, <1>5 DEF Kinds

-----------------------------------------------------------------------------
(* Rows and bundles *)

HasRow(u, s) == \E d \in devices : d.user = u /\ d.slot = s

LEMMA ServedRows ==
  ASSUME NEW u
  PROVE  Served(u) <=> \A s \in BundleSlots : HasRow(u, s)
  BY DEF Served, GetUserDevices, HasRow

(* As long as no row is deleted, none was. *)
LEMMA RowsStay ==
  ASSUME IInv, NodeInv, Kinds
  PROVE  Unpurged' => Unpurged /\ devices \subseteq devices'
  <1> SUFFICES ASSUME Unpurged' PROVE Unpurged /\ devices \subseteq devices'
    OBVIOUS
  <1>0. /\ devices \subseteq DeviceRow /\ lastDevice \in Nat
        /\ \A d \in devices : d.id \in 1 .. lastDevice
        /\ \A d, e \in devices : d.id = e.id => d = e
        /\ \A i \in 1 .. lastDevice' : \E d \in devices' : d.id = i
    BY NodeTypes DEF NodeInv, RowInv, Unpurged
  <1>1. CASE RowsShrink
    <2>1. devices' \subseteq devices /\ lastDevice' = lastDevice
      BY <1>1 DEF RowsShrink
    <2>2. Unpurged
      BY <1>0, <2>1 DEF Unpurged
    <2>3. ASSUME NEW d \in devices PROVE d \in devices'
      <3>1. PICK e \in devices' : e.id = d.id
        BY <1>0, <2>1
      <3> QED
        BY <1>0, <2>1, <3>1
    <2> QED
      BY <2>2, <2>3
  <1>2. ASSUME NEW p \in PaymentIds, NEW s \in Slots, Stored(p, s)
        PROVE  Unpurged /\ devices \subseteq devices'
    <2>1. PICK n : n.id = lastDevice + 1 /\ devices' = devices \cup {n}
                   /\ lastDevice' = lastDevice + 1
      BY <1>2 DEF Stored, AddDevice
    <2>2. ASSUME NEW i \in 1 .. lastDevice PROVE \E d \in devices : d.id = i
      <3>1. PICK d \in devices' : d.id = i
        BY <1>0, <2>1
      <3>2. d.id # n.id
        BY <1>0, <2>1, <3>1
      <3> QED
        BY <2>1, <3>1, <3>2
    <2> QED
      BY <2>1, <2>2 DEF Unpurged
  <1> QED
    BY <1>1, <1>2, RowsChange

LEMMA StoredRow ==
  ASSUME NEW p \in PaymentIds, NEW s \in Slots, NEW u, Stored(p, s), u = payments[p].tg_id
  PROVE  HasRow(u, s)'
  <1>1. PICK n : n.user = u /\ n.slot = s /\ devices' = devices \cup {n}
    BY DEF Stored, AddDevice
  <1> QED
    BY <1>1 DEF HasRow

LEMMA RowStays ==
  ASSUME devices \subseteq devices', NEW u, NEW s, HasRow(u, s)
  PROVE  HasRow(u, s)'
  BY DEF HasRow

LEMMA ServedStays ==
  ASSUME devices \subseteq devices', mounted' = mounted, NEW u, Served(u)
  PROVE  Served(u)'
  BY DEF Served, GetUserDevices, BundleSlots, HasProvider

(* Tasks that are to start do. *)
LEMMA StartedTasks ==
  ASSUME task \in TaskType, NEW p \in PaymentIds, NEW S, NEW n, StartTasks(p, S, n),
         NEW s \in Slots, s \in S
  PROVE  task'[p][s].pc # "off"
  <1>1. PICK row : /\ row[s].pc # "off" /\ task' = [task EXCEPT ![p] = row]
    <2>1. PICK row : row = [r \in Slots |-> IF r \in S
                              THEN [pc |-> FirstCall(r), left |-> n, pid |-> 0] ELSE Off]
      OBVIOUS
    <2>2. row[s].pc = FirstCall(s)
      BY <2>1
    <2> QED
      BY <2>1, <2>2 DEF StartTasks, FirstCall
  <1> QED
    BY <1>1 DEF TaskType

(* A payment somebody handles or handled keeps its user. *)
LEMMA OwnerStays ==
  ASSUME IInv, UsersStay, NEW p \in PaymentIds, desk[p].pc # "idle"
  PROVE  payments'[p].tg_id = payments[p].tg_id
  <1>1. payments[p].status # "none"
    BY DEF IInv, LedgerInv, Stage, Undecided
  <1> QED
    BY <1>1 DEF UsersStay

-----------------------------------------------------------------------------
(* The inductive invariant *)

After == {"renewed", "confirm", "provision", "degrade", "done", "dead"}

(* A renewal creates nothing: it is not retried and no row is its own. *)
RenewalInv ==
  \A p \in PaymentIds :
    /\ desk[p].pc = "renewed" => desk[p].renewal
    /\ desk[p].renewal =>
         /\ desk[p].pc \in {"enable", "read", "write", "renewed", "done"}
         /\ payments[p].status # "partial" /\ p \notin resume.queue /\ resume.pay # p
         /\ \A d \in devices : d.pay # p

(* Whoever is active has paid, and the handler that took the money is      *)
(* past the credit.                                                        *)
PaidInv ==
  \A u \in Users : users[u].status = "active" =>
    \E p \in PaymentIds : payments[p].tg_id = u /\ desk[p].pc \in After

BegunInv ==
  \A p \in PaymentIds : desk[p].pc = "provision" =>
    \A s \in BundleSlots : task[p][s].pc # "off"

LEMMA RenewalStep ==
  ASSUME IInv, NodeInv, Kinds, RenewalInv, \A p \in PaymentIds : Turn(p), ResumeTurn, StatusTurn
  PROVE  RenewalInv'
  <1> SUFFICES ASSUME NEW p \in PaymentIds
               PROVE  /\ desk'[p].pc = "renewed" => desk'[p].renewal
                      /\ desk'[p].renewal =>
                           /\ desk'[p].pc \in {"enable", "read", "write", "renewed", "done"}
                           /\ payments'[p].status # "partial"
                           /\ p \notin resume'.queue /\ resume'.pay # p
                           /\ \A d \in devices' : d.pay # p
    BY DEF RenewalInv
  <1>0. Turn(p) /\ p # 0 /\ Stage(p)
    BY StoreAssumption DEF PaymentIds, IInv, LedgerInv
  <1>1. desk'[p].pc = "renewed" => desk'[p].renewal
    BY <1>0 DEF RenewalInv, Turn, Rests, Takes, Drops, Loads, Extends, Renews, Provisions, Delivers,
       Degrades, Marks, KeepsRenewal
  <1>2. ASSUME desk'[p].renewal
        PROVE  /\ desk'[p].pc \in {"enable", "read", "write", "renewed", "done"}
               /\ payments'[p].status # "partial"
               /\ p \notin resume'.queue /\ resume'.pay # p
               /\ \A d \in devices' : d.pay # p
    <2>1. desk[p].renewal \/ Loads(p)
      BY <1>0, <1>2 DEF Turn, Rests, Takes, Drops, Extends, Renews, Provisions, Delivers,
         Degrades, Marks, KeepsRenewal
    <2>2. /\ desk[p].pc \notin {"provision", "degrade"}
          /\ payments[p].status # "partial" /\ p \notin resume.queue /\ resume.pay # p
          /\ \A d \in devices : d.pay # p
      <3>1. CASE desk[p].renewal
        BY <3>1 DEF RenewalInv
      <3>2. CASE Loads(p)
        <4>1. desk[p].pc = "devices"
          BY <3>2 DEF Loads
        <4>2. payments[p].status # "partial" /\ p \notin resume.queue /\ resume.pay # p
          BY <1>0, <4>1 DEF Stage, IInv, LedgerInv, ResumeInv, Settled
        <4>3. \A d \in devices : d.pay # p
          BY <4>1 DEF NodeInv, FreshInv, Before, Unpaid
        <4> QED
          BY <4>1, <4>2, <4>3
      <3> QED
        BY <2>1, <3>1, <3>2
    <2>3. desk'[p].pc \in {"enable", "read", "write", "renewed", "done"}
      <3>1. CASE Loads(p)
        BY <3>1 DEF Loads
      <3>2. CASE desk[p].renewal /\ ~Loads(p)
        BY <1>0, <1>2, <3>2 DEF RenewalInv, Turn, Rests, Takes, Drops, Extends, Renews,
           Provisions, Delivers, Degrades, Marks, KeepsRenewal
      <3> QED
        BY <2>1, <3>1, <3>2
    <2>4. payments'[p].status # "partial"
      BY <2>2 DEF StatusTurn
    <2>5. p \notin resume'.queue /\ resume'.pay # p
      BY <1>0, <2>2 DEF ResumeTurn, Waits, Retries, Settles, Approves, KeepsPay,
         GetPartialPayments
    <2>6. ASSUME NEW d \in devices' PROVE d.pay # p
      <3>1. CASE RowsShrink
        BY <2>2, <2>6, <3>1 DEF RowsShrink
      <3>2. ASSUME NEW q \in PaymentIds, NEW s \in Slots, Stored(q, s) PROVE d.pay # p
        <4>1. PICK n : n.pay = q /\ devices' = devices \cup {n}
          BY <3>2 DEF Stored, AddDevice
        <4>2. Runs(q)
          BY <3>2 DEF Stored, NodeInv, TaskOwner
        <4>3. q # p
          BY <2>2, <4>2 DEF Runs
        <4> QED
          BY <2>2, <2>6, <4>1, <4>3
      <3> QED
        BY <3>1, <3>2, RowsChange
    <2> QED
      BY <2>3, <2>4, <2>5, <2>6
  <1> QED
    BY <1>1, <1>2

LEMMA PaidStep ==
  ASSUME IInv, UsersStay, PaidInv, UserTurn, \A p \in PaymentIds : Turn(p)
  PROVE  PaidInv'
  <1> SUFFICES ASSUME NEW u \in Users, users'[u].status = "active"
               PROVE  \E p \in PaymentIds : payments'[p].tg_id = u /\ desk'[p].pc \in After
    BY DEF PaidInv
  <1>1. CASE users[u].status = "active"
    <2>1. PICK p \in PaymentIds : payments[p].tg_id = u /\ desk[p].pc \in After
      BY <1>1 DEF PaidInv
    <2>2. desk'[p].pc \in After
      BY <2>1 DEF After, Turn, Rests, Takes, Drops, Loads, Extends, Renews, Provisions, Delivers,
         Degrades, Marks
    <2>3. payments'[p].tg_id = u
      BY <2>1, OwnerStays DEF After
    <2> QED
      BY <2>2, <2>3
  <1>2. CASE users[u].status # "active"
    BY <1>2 DEF UserTurn, After
  <1> QED
    BY <1>1, <1>2

LEMMA BegunStep ==
  ASSUME IInv, BegunInv, TaskTurn, MountTurn, \A p \in PaymentIds : Turn(p)
  PROVE  BegunInv'
  <1> SUFFICES ASSUME NEW p \in PaymentIds, desk'[p].pc = "provision"
               PROVE  \A s \in BundleSlots' : task'[p][s].pc # "off"
    BY DEF BegunInv
  <1>1. Runs(p)' /\ mounted' = mounted
    BY DEF Runs, MountTurn
  <1>2. BundleSlots' = BundleSlots /\ BundleSlots \subseteq Slots
    BY <1>1 DEF BundleSlots, HasProvider
  <1>3. CASE Rests(p)
    <2>1. Runs(p) /\ desk[p].pc = "provision"
      BY <1>3 DEF Rests, Runs
    <2> QED
      BY <1>1, <1>2, <2>1 DEF BegunInv, TaskTurn
  <1>4. CASE Provisions(p)
    <2>1. StartTasks(p, BundleSlots, MaxRetries)
      BY <1>4 DEF Provisions, Provision
    <2> QED
      BY <1>2, <2>1, NodeTypes, StartedTasks
  <1> QED
    BY <1>3, <1>4 DEF Turn, Takes, Drops, Loads, Extends, Renews, Delivers, Degrades, Marks

(* Whoever renews has rows, and so has every task that ended well. *)
RowedInv ==
  \A p \in PaymentIds :
    /\ desk[p].renewal => \E d \in devices : d.user = payments[p].tg_id
    /\ \A s \in Slots : task[p][s].pc = "ok" => HasRow(payments[p].tg_id, s)

(* A handler that was to create a bundle left it whole, or in the queue. *)
DoneInv ==
  restarts = 0 =>
    \A p \in PaymentIds :
      desk[p].pc = "done" /\ ~desk[p].renewal
        => Served(payments[p].tg_id) \/ payments[p].status = "partial"

(* The retry job has a task for every slot that is missing, and takes a    *)
(* payment off the queue when none is.                                     *)
RetryInv ==
  \A p \in PaymentIds :
    resume.pay = p =>
      /\ resume.pc = "run" =>
           \A s \in BundleSlots : task[p][s].pc # "off" \/ HasRow(payments[p].tg_id, s)
      /\ resume.pc = "approve" => Served(payments[p].tg_id)

BundleInv == RowedInv /\ DoneInv /\ RetryInv
ServeInv == RenewalInv /\ PaidInv /\ BegunInv /\ (Unpurged => BundleInv)

LEMMA RowedStep ==
  ASSUME IInv, NodeInv, UsersStay, RenewalInv, RowedInv, TaskTurn, \A p \in PaymentIds : Turn(p),
         devices \subseteq devices'
  PROVE  RowedInv'
  <1> SUFFICES ASSUME NEW p \in PaymentIds
               PROVE  /\ desk'[p].renewal => \E d \in devices' : d.user = payments'[p].tg_id
                      /\ \A s \in Slots : task'[p][s].pc = "ok" => HasRow(payments[p].tg_id, s)'
    BY DEF RowedInv
  <1>1. ASSUME desk'[p].renewal PROVE \E d \in devices' : d.user = payments'[p].tg_id
    <2>1. CASE desk[p].renewal
      <3>1. PICK d \in devices : d.user = payments[p].tg_id
        BY <2>1 DEF RowedInv
      <3>2. payments'[p].tg_id = payments[p].tg_id
        BY <2>1, OwnerStays DEF RenewalInv
      <3> QED
        BY <3>1, <3>2
    <2>2. CASE Loads(p)
      BY <1>1, <2>2 DEF Loads, GetUserDevices
    <2> QED
      BY <1>1, <2>1, <2>2 DEF Turn, Rests, Takes, Drops, Extends, Renews, Provisions, Delivers,
         Degrades, Marks, KeepsRenewal
  <1>2. ASSUME NEW s \in Slots, task'[p][s].pc = "ok" PROVE HasRow(payments[p].tg_id, s)'
    <2>1. PICK u : u = payments[p].tg_id
      OBVIOUS
    <2>2. task[p][s].pc = "ok" \/ Stored(p, s)
      BY <1>2 DEF TaskTurn
    <2>3. task[p][s].pc # "off"
      BY <2>2 DEF Stored
    <2>4. payments'[p].tg_id = u
      BY <2>1, <2>3 DEF IInv, TaskInv, UsersStay
    <2>5. HasRow(u, s)'
      <3>1. CASE task[p][s].pc = "ok"
        BY <2>1, <3>1, RowStays DEF RowedInv
      <3>2. CASE Stored(p, s)
        BY <2>1, <3>2, StoredRow
      <3> QED
        BY <2>2, <3>1, <3>2
    <2> QED
      BY <2>4, <2>5
  <1> QED
    BY <1>1, <1>2

(* Tasks that all ended well complete a bundle. *)
LEMMA AllServed ==
  ASSUME RowedInv, NEW p \in PaymentIds, FullySuccessful(p),
         \A s \in BundleSlots : task[p][s].pc # "off" \/ HasRow(payments[p].tg_id, s)
  PROVE  Served(payments[p].tg_id)
  <1>1. ASSUME NEW s \in BundleSlots PROVE HasRow(payments[p].tg_id, s)
    <2>1. s \in Slots /\ task[p][s].pc \in {"off", "ok"}
      BY DEF BundleSlots, FullySuccessful
    <2> QED
      BY <1>1, <2>1 DEF RowedInv
  <1> QED
    BY <1>1, ServedRows

LEMMA DoneStep ==
  ASSUME IInv, UsersStay, RenewalInv, BegunInv, BundleInv, \A p \in PaymentIds : Turn(p),
         StatusTurn, MountTurn, devices \subseteq devices'
  PROVE  DoneInv'
  <1> SUFFICES ASSUME NEW p \in PaymentIds, restarts' = 0,
                      desk'[p].pc = "done", ~desk'[p].renewal
               PROVE  Served(payments[p].tg_id)' \/ payments'[p].status = "partial"
    BY DEF DoneInv
  <1>0. PICK u : u = payments[p].tg_id
    OBVIOUS
  <1>1. mounted' = mounted /\ restarts = 0
    BY BotAssumption DEF MountTurn, IInv, TypeOK
  <1>2. desk[p].pc # "idle" /\ payments'[p].tg_id = u
    <2>1. desk[p].pc # "idle"
      <3>1. ASSUME Rests(p) PROVE desk[p].pc = "done"
        BY <3>1 DEF Rests
      <3> QED
        BY <3>1 DEF Turn, Takes, Drops, Loads, Extends, Renews, Provisions, Delivers, Degrades, Marks
    <2> QED
      BY <1>0, <2>1, OwnerStays
  <1>3. CASE Served(u)
    <2>1. Served(u)'
      BY <1>1, <1>3, ServedStays
    <2> QED
      BY <1>2, <2>1
  <1>4. CASE Rests(p) /\ ~Served(u)
    <2>1. desk[p].pc = "done" /\ ~desk[p].renewal
      BY <1>4 DEF Rests, KeepsRenewal
    <2>2. payments[p].status = "partial"
      BY <1>0, <1>1, <1>4, <2>1 DEF BundleInv, DoneInv
    <2>3. ~ (resume.pc = "approve" /\ resume.pay = p)
      BY <1>0, <1>4 DEF BundleInv, RetryInv
    <2> QED
      BY <2>2, <2>3 DEF StatusTurn
  <1>5. CASE Renews(p)
    BY <1>5 DEF Renews, KeepsRenewal, RenewalInv
  <1>6. CASE Delivers(p)
    <2>1. Served(u)
      BY <1>0, <1>6, AllServed DEF Delivers, BegunInv, BundleInv
    <2> QED
      BY <1>3, <2>1
  <1>7. CASE Marks(p)
    BY <1>7 DEF Marks
  <1> QED
    BY <1>3, <1>4, <1>5, <1>6, <1>7 DEF Turn, Takes, Drops, Loads, Extends, Provisions, Degrades

LEMMA RetryStep ==
  ASSUME IInv, UsersStay, BundleInv, ResumeTurn, TaskTurn, MountTurn, devices \subseteq devices'
  PROVE  RetryInv'
  <1> SUFFICES ASSUME NEW p \in PaymentIds, resume'.pay = p
               PROVE  /\ resume'.pc = "run" =>
                           \A s \in BundleSlots' :
                             task'[p][s].pc # "off" \/ HasRow(payments[p].tg_id, s)'
                      /\ resume'.pc = "approve" => Served(payments[p].tg_id)'
    BY DEF RetryInv
  <1>0. PICK u : u = payments[p].tg_id
    OBVIOUS
  <1>1. resume'.pc \in {"run", "approve"} => Settled(p) /\ payments'[p].tg_id = u
    <2>1. ASSUME resume'.pc \in {"run", "approve"} PROVE Settled(p)
      <3>1. p # 0
        BY StoreAssumption DEF PaymentIds
      <3> QED
        BY <2>1, <3>1 DEF ResumeTurn, Waits, Retries, Settles, Approves, KeepsPay, IInv, LedgerInv,
           ResumeInv
    <2> QED
      BY <1>0, <2>1, OwnerStays DEF Settled
  <1>2. ASSUME resume'.pc = "run", NEW s \in BundleSlots'
        PROVE  task'[p][s].pc # "off" \/ HasRow(payments[p].tg_id, s)'
    <2>1. mounted' = mounted
      <3>1. Runs(p)'
        BY <1>2 DEF Runs
      <3> QED
        BY <3>1 DEF MountTurn
    <2>2. s \in BundleSlots /\ s \in Slots
      BY <2>1 DEF BundleSlots, HasProvider
    <2>3. task'[p][s].pc # "off" \/ HasRow(u, s)
      <3>1. CASE resume' = resume
        <4>1. Runs(p) /\ Runs(p)'
          BY <1>2, <3>1 DEF Runs
        <4> QED
          BY <1>0, <1>2, <2>2, <3>1, <4>1 DEF BundleInv, RetryInv, TaskTurn
      <3>2. CASE Retries
        <4>1. StartTasks(p, Missing(p), 1)
          BY <3>2 DEF Retries, RetryPartial
        <4>2. CASE s \in Missing(p)
          BY <2>2, <4>1, <4>2, NodeTypes, StartedTasks
        <4>3. CASE s \notin Missing(p)
          BY <1>0, <2>2, <4>3 DEF Missing, HasRow, GetUserDevices
        <4> QED
          BY <4>2, <4>3
      <3> QED
        BY <1>2, <3>1, <3>2 DEF ResumeTurn, Waits, Settles, Approves
    <2>4. HasRow(u, s) => HasRow(u, s)'
      BY RowStays
    <2> QED
      BY <1>1, <1>2, <2>3, <2>4
  <1>3. ASSUME resume'.pc = "approve" PROVE Served(payments[p].tg_id)'
    <2>1. mounted' = mounted
      BY <1>3 DEF MountTurn, NoResume
    <2>2. Served(u)
      <3>1. CASE resume' = resume
        BY <1>0, <1>3, <3>1 DEF BundleInv, RetryInv
      <3>2. CASE Settles
        <4>1. resume.pay = p /\ resume.pc = "run" /\ FullySuccessful(p)
          BY <3>2 DEF Settles, KeepsPay
        <4> QED
          BY <1>0, <4>1, AllServed DEF BundleInv, RetryInv
      <3> QED
        BY <1>3, <3>1, <3>2 DEF ResumeTurn, Waits, Retries, Approves
    <2>3. Served(u)'
      BY <2>1, <2>2, ServedStays
    <2> QED
      BY <1>1, <1>3, <2>3
  <1> QED
    BY <1>2, <1>3

LEMMA InitServe == Init => ServeInv
  <1> SUFFICES ASSUME Init PROVE ServeInv
    OBVIOUS
  <1>1. /\ devices = {} /\ resume.pay = 0 /\ resume.queue = {}
        /\ \A u \in Users : users[u].status = "inactive"
    BY DEF Init, StoreInit, JobsInit, NoResume
  <1>2. \A p \in PaymentIds : p # 0 /\ desk[p].pc = "idle" /\ ~desk[p].renewal
    BY StoreAssumption DEF PaymentIds, Init, DeskInit, NoHandler
  <1>3. \A p \in PaymentIds, s \in Slots : task[p][s].pc = "off"
    BY DEF Init, ProvisionerInit, Off
  <1>4. RenewalInv /\ PaidInv /\ BegunInv
    BY <1>1, <1>2 DEF RenewalInv, PaidInv, BegunInv
  <1>5. BundleInv
    BY <1>1, <1>2, <1>3 DEF BundleInv, RowedInv, DoneInv, RetryInv
  <1> QED
    BY <1>4, <1>5 DEF ServeInv

LEMMA NextServe == IInv /\ TodoInv /\ NodeInv /\ ServeInv /\ [Next]_vars => ServeInv'
  <1> SUFFICES ASSUME IInv, TodoInv, NodeInv, ServeInv, [Next]_vars PROVE ServeInv'
    OBVIOUS
  <1>1. /\ Kinds /\ UsersStay /\ \A p \in PaymentIds : Turn(p)
        /\ ResumeTurn /\ StatusTurn /\ UserTurn /\ MountTurn
    BY KindsAlways, UsersStayAlways, Turns, ResumeTurns, StatusTurns, UserTurns, MountTurns
  <1>2. TaskTurn
    BY <1>1, TaskTurns
  <1>3. RenewalInv' /\ PaidInv' /\ BegunInv'
    BY <1>1, <1>2, RenewalStep, PaidStep, BegunStep DEF ServeInv
  <1>4. ASSUME Unpurged' PROVE BundleInv'
    <2>1. devices \subseteq devices' /\ BundleInv
      BY <1>1, <1>4, RowsStay DEF ServeInv
    <2>2. RowedInv'
      BY <1>1, <1>2, <2>1, RowedStep DEF ServeInv, BundleInv
    <2>3. DoneInv'
      BY <1>1, <2>1, DoneStep DEF ServeInv
    <2>4. RetryInv'
      BY <1>1, <1>2, <2>1, RetryStep
    <2> QED
      BY <2>2, <2>3, <2>4 DEF BundleInv
  <1> QED
    BY <1>3, <1>4 DEF ServeInv

LEMMA AlwaysServe == Spec => [](IInv /\ NodeInv /\ ServeInv)
  <1> QED
    BY InitServe, NextServe, AlwaysNodeInv, PTL DEF Spec

(* A row of a user nobody is working for was created by a handler that is  *)
(* done or dead. *)
LEMMA RowsBundle ==
  ASSUME IInv, NodeInv, RenewalInv, NEW u \in Users, ~Busy(u), ~Dropped(u),
         NEW d \in devices, d.user = u
  PROVE  Bundled(u)
  <1>1. PICK p \in PaymentIds : p = d.pay
    BY NodeTypes DEF DeviceRow
  <1>2. payments[p].tg_id = u /\ desk[p].pc \notin Before
    BY <1>1 DEF NodeInv, RowInv, FreshInv
  <1>3. desk[p].pc = "done"
    BY <1>2 DEF Busy, Dropped, Before
  <1>4. ~desk[p].renewal
    BY <1>1 DEF RenewalInv
  <1> QED
    BY <1>2, <1>3, <1>4 DEF Bundled

(* For any users, payments, nodes and jobs: while no process has died and  *)
(* no access was purged, an active subscriber nobody is working for has    *)
(* the whole bundle or is in the retry queue, unless an exception cut off  *)
(* an approval and no other saw a bundle through.                          *)
THEOREM ServedUnlessDroppedAlways == Spec => []ServedUnlessDropped
  <1>1. IInv /\ NodeInv /\ ServeInv => ServedUnlessDropped
    <2> SUFFICES ASSUME IInv, NodeInv, ServeInv, restarts = 0, Unpurged, NEW u \in Users,
                        users[u].status = "active", ~Busy(u), Dropped(u) => Bundled(u)
                 PROVE  Served(u) \/ Queued(u)
      BY DEF ServedUnlessDropped
    <2>1. Bundled(u)
      <3>1. CASE ~Dropped(u)
        <4>1. PICK p \in PaymentIds : payments[p].tg_id = u /\ desk[p].pc \in After
          BY DEF ServeInv, PaidInv
        <4>2. desk[p].pc = "done"
          BY <3>1, <4>1 DEF Busy, Dropped, After
        <4>3. CASE desk[p].renewal
          <5>1. PICK d \in devices : d.user = u
            BY <4>1, <4>3 DEF ServeInv, BundleInv, RowedInv
          <5> QED
            BY <3>1, <5>1, RowsBundle DEF ServeInv
        <4> QED
          BY <4>1, <4>2, <4>3 DEF Bundled
      <3> QED
        BY <3>1
    <2>2. PICK p \in PaymentIds :
            payments[p].tg_id = u /\ desk[p].pc = "done" /\ ~desk[p].renewal
      BY <2>1 DEF Bundled
    <2>3. Served(u) \/ payments[p].status = "partial"
      BY <2>2 DEF ServeInv, BundleInv, DoneInv
    <2> QED
      BY <2>2, <2>3 DEF Queued, GetPartialPayments
  <1> QED
    BY <1>1, AlwaysServe, PTL

-----------------------------------------------------------------------------
(* What check_expired_subscriptions leaves enabled *)

(* Counting: at most n. *)
AtMost(S, n) == IsFiniteSet(S) /\ Cardinality(S) <= n

LEMMA AtMostFewer ==
  ASSUME NEW S, NEW T, NEW n \in Nat, NEW m \in Nat, AtMost(S, n), T \subseteq S, n <= m
  PROVE  AtMost(T, m)
  <1>1. /\ IsFiniteSet(T) /\ Cardinality(T) <= Cardinality(S) /\ Cardinality(S) <= n
        /\ Cardinality(T) \in Nat /\ Cardinality(S) \in Nat
    BY FS_Subset, FS_CardinalityType DEF AtMost
  <1> QED
    BY <1>1 DEF AtMost

LEMMA AtMostOneMore ==
  ASSUME NEW S, NEW T, NEW x, NEW n \in Nat, AtMost(S, n), T \subseteq S \cup {x}
  PROVE  AtMost(T, n + 1)
  <1> DEFINE U == S \cup {x}
  <1>1. IsFiniteSet(U) /\ Cardinality(U) \in {Cardinality(S), Cardinality(S) + 1}
    BY FS_AddElement DEF AtMost
  <1>2. Cardinality(S) \in Nat /\ Cardinality(S) <= n
    BY FS_CardinalityType DEF AtMost
  <1> HIDE DEF U
  <1>3. AtMost(U, n + 1)
    BY <1>1, <1>2 DEF AtMost
  <1> QED
    BY <1>3, AtMostFewer DEF U

(* What two finite sets have together after a step: no more, one more in   *)
(* the first, or one moved from the second to the first.                   *)
LEMMA SumFewer ==
  ASSUME NEW L, NEW D, NEW L2, NEW D2, IsFiniteSet(L), IsFiniteSet(D), L2 \subseteq L,
         D2 \subseteq D, NEW m \in Nat, NEW n \in Nat, m <= n,
         Cardinality(L) + Cardinality(D) <= m
  PROVE  Cardinality(L2) + Cardinality(D2) <= n
  <1>1. /\ Cardinality(L2) <= Cardinality(L) /\ Cardinality(D2) <= Cardinality(D)
        /\ IsFiniteSet(L2) /\ IsFiniteSet(D2)
    BY FS_Subset
  <1>2. /\ Cardinality(L2) \in Nat /\ Cardinality(L) \in Nat
        /\ Cardinality(D2) \in Nat /\ Cardinality(D) \in Nat
    BY <1>1, FS_CardinalityType
  <1> QED
    BY <1>1, <1>2

LEMMA SumOneMore ==
  ASSUME NEW L, NEW D, NEW L2, NEW D2, NEW x, IsFiniteSet(L), IsFiniteSet(D),
         L2 \subseteq L \cup {x}, D2 \subseteq D, NEW m \in Nat,
         Cardinality(L) + Cardinality(D) <= m
  PROVE  Cardinality(L2) + Cardinality(D2) <= m + 1
  <1>1. AtMost(L, Cardinality(L)) /\ Cardinality(L) \in Nat /\ Cardinality(D) \in Nat
    BY FS_CardinalityType DEF AtMost
  <1>2. IsFiniteSet(L2) /\ Cardinality(L2) <= Cardinality(L) + 1
    BY <1>1, AtMostOneMore DEF AtMost
  <1>3. IsFiniteSet(D2) /\ Cardinality(D2) <= Cardinality(D)
    BY FS_Subset
  <1>4. Cardinality(L2) \in Nat /\ Cardinality(D2) \in Nat
    BY <1>2, <1>3, FS_CardinalityType
  <1> QED
    BY <1>1, <1>2, <1>3, <1>4

LEMMA SumMoved ==
  ASSUME NEW L, NEW D, NEW L2, NEW D2, NEW x, NEW s \in D, IsFiniteSet(L), IsFiniteSet(D),
         L2 \subseteq L \cup {x}, D2 \subseteq D \ {s}, NEW m \in Nat, NEW n \in Nat, m <= n,
         Cardinality(L) + Cardinality(D) <= m
  PROVE  Cardinality(L2) + Cardinality(D2) <= n
  <1>1. AtMost(L, Cardinality(L)) /\ Cardinality(L) \in Nat /\ Cardinality(D) \in Nat
    BY FS_CardinalityType DEF AtMost
  <1>2. IsFiniteSet(L2) /\ Cardinality(L2) <= Cardinality(L) + 1
    BY <1>1, AtMostOneMore DEF AtMost
  <1>3. IsFiniteSet(D \ {s}) /\ Cardinality(D \ {s}) = Cardinality(D) - 1
    BY FS_RemoveElement
  <1>4. IsFiniteSet(D2) /\ Cardinality(D2) <= Cardinality(D \ {s})
    BY <1>3, FS_Subset
  <1>5. Cardinality(L2) \in Nat /\ Cardinality(D2) \in Nat
    BY <1>2, <1>4, FS_CardinalityType
  <1> QED
    BY <1>1, <1>2, <1>3, <1>4, <1>5

-----------------------------------------------------------------------------
(* Slots a bundle is missing are slots where a call failed. *)

(* The task of p and s has failed, or cannot but fail. *)
Fails(p, s) ==
  \/ task[p][s].pc \in {"fail", "rollback"}
  \/ task[p][s].pc = "relist" /\ \A c \in clients[s] : c.name # p
FailInv == \A p \in PaymentIds : AtMost({s \in Slots : Fails(p, s)}, faults)

(* A running task's client keeps its name until the task rolls back. *)
LEMMA NameStays ==
  ASSUME IInv, NodeInv, Kinds, NEW p \in PaymentIds, NEW s \in Slots,
         task[p][s].pc = "relist", NEW c \in clients[s], c.name = p
  PROVE  \E e \in clients'[s] : e.name = p
  <1>0. clients \in ClientsType /\ <<c.pid, p>> \in Claims(s)
    BY NodeTypes, Claimants
  <1>1. CASE Kept(s)
    BY <1>1 DEF Kept
  <1>2. CASE Toggled(s)
    BY <1>0, <1>2, Switched DEF Toggled
  <1>3. CASE Revoked(s)
    <2>1. PICK d : d = FirstRow(purge.todo)
      OBVIOUS
    <2>2. d \in devices /\ d.slot = s
      BY <1>3, <2>1, PurgeFirst DEF Revoked, PurgeRevoke
    <2>3. c.pid # d.pid
      <3>1. ASSUME c.pid = d.pid PROVE FALSE
        <4>1. <<d.pid, d.pay>> \in Claims(s)
          BY <2>2, Claimants
        <4>2. d.pay = p
          BY <1>0, <3>1, <4>1, SameClaim
        <4> QED
          BY <2>2, <4>2 DEF NodeInv, FreshInv, Running
      <3> QED
        BY <3>1
    <2> QED
      BY <1>3, <2>1, <2>3 DEF Revoked, Without, Client
  <1>4. ASSUME NEW q \in PaymentIds, RolledBack(s, q) PROVE c \in clients'[s]
    <2>1. task[q][s].pc \in Running /\ q # p
      BY <1>4 DEF RolledBack, Running
    <2>2. c.pid # task[q][s].pid
      <3>1. ASSUME c.pid = task[q][s].pid PROVE FALSE
        <4>1. task[q][s].pid # 0
          <5>1. lastPid[s] \in Nat /\ c.pid \in 1 .. lastPid[s]
            BY <1>0, SameClaim, NodeTypes
          <5> QED
            BY <3>1, <5>1
        <4>2. <<task[q][s].pid, q>> \in Claims(s)
          BY <4>1, Claimants
        <4> QED
          BY <1>0, <2>1, <3>1, <4>2, SameClaim
      <3> QED
        BY <3>1
    <2> QED
      BY <1>4, <2>2 DEF RolledBack, Without, Client
  <1>5. ASSUME NEW q \in PaymentIds, Grown(s, q) PROVE c \in clients'[s]
    BY <1>5 DEF Grown
  <1> QED
    BY <1>1, <1>2, <1>3, <1>4, <1>5, ClientsChange

(* No task fails by what others do. *)
LEMMA FailsAlone ==
  ASSUME IInv, NodeInv, Kinds, NEW p \in PaymentIds, NEW s \in Slots,
         task'[p][s] = task[p][s], Fails(p, s)'
  PROVE  Fails(p, s)
  BY NameStays DEF Fails

(* A task fails by a call that fails. *)
LEMMA FailsByCall ==
  ASSUME IInv, NodeInv, Kinds, NEW p \in PaymentIds, NEW s \in Slots, TaskStep(p, s),
         Fails(p, s)'
  PROVE  Fails(p, s) \/ faults' = faults + 1
  <1>0. task \in TaskType /\ lastPid \in [Slots -> Nat] /\ clients \in ClientsType
    BY NodeTypes
  <1>1. ASSUME NEW pc \in TaskPC, NEW pid \in Nat, Goto(p, s, pc, pid)
        PROVE  task'[p][s].pc = pc
    <2>1. PICK t \in TaskRec : Assigns(p, s, t) /\ t.pc = pc
      BY <1>0, <1>1, GotoMoves
    <2> QED
      BY <1>0, <2>1, MovedTask
  <1>2. CASE LosePost(p, s) \/ CallFails(p, s) \/ InsertFails(p, s)
    BY <1>2 DEF LosePost, CallFails, InsertFails, Fault
  <1>3. CASE Rollback(p, s)
    BY <1>3 DEF Rollback, Fails
  <1>4. CASE Insert(p, s)
    <2>1. task'[p][s].pc = "ok"
      BY <1>4, TaskGoesOn, <1>0, <1>1 DEF Insert, TaskPC
    <2> QED
      BY <2>1 DEF Fails
  <1>5. CASE GetConfig(p, s)
    <2>1. task[p][s].pid \in Nat
      BY <1>0 DEF TaskType, TaskRec
    <2>2. task'[p][s].pc = "insert"
      BY <1>1, <1>5, <2>1 DEF GetConfig, TaskPC
    <2> QED
      BY <2>2 DEF Fails
  <1>6. CASE ListClients(p, s)
    <2>1. \A c \in clients[s] : c.pid \in Nat
      BY <1>0 DEF ClientsType, ClientRec
    <2>2. CASE task[p][s].pc = "relist" /\ \A c \in clients[s] : c.name # p
      BY <2>2 DEF Fails
    <2>3. CASE ~(task[p][s].pc = "relist" /\ \A c \in clients[s] : c.name # p)
      <3>1. task'[p][s].pc \in {"config", "post"}
        BY <1>1, <1>6, <2>1, <2>3 DEF ListClients, TaskPC
      <3> QED
        BY <3>1 DEF Fails
    <2> QED
      BY <2>2, <2>3
  <1>7. CASE Post(p, s)
    <2>1. lastPid[s] + 1 \in Nat
      BY <1>0
    <2>2. task'[p][s].pc \in {"config", "insert", "relist"}
      BY <1>1, <1>7, <2>1 DEF Post, TaskPC
    <2>3. NewClient(p, s) \in clients'[s] /\ NewClient(p, s).name = p
      BY <1>0, <1>7 DEF Post, Create, NewClient, ClientsType
    <2> QED
      BY <2>2, <2>3 DEF Fails
  <1> QED
    BY <1>2, <1>3, <1>4, <1>5, <1>6, <1>7 DEF TaskStep

LEMMA FailStep ==
  ASSUME IInv, NodeInv, Kinds, FailInv, faults \in Nat, faults' \in Nat, faults <= faults'
  PROVE  FailInv'
  <1>0. task \in TaskType
    BY NodeTypes
  <1> SUFFICES ASSUME NEW p \in PaymentIds
               PROVE  AtMost({s \in Slots : Fails(p, s)'}, faults')
    BY DEF FailInv
  <1> DEFINE Old == {s \in Slots : Fails(p, s)}
             New == {s \in Slots : Fails(p, s)'}
  <1>1. AtMost(Old, faults)
    BY DEF FailInv
  <1>2. ASSUME New \subseteq Old PROVE AtMost(New, faults')
    <2> HIDE DEF New, Old
    <2> QED
      BY <1>1, <1>2, AtMostFewer
  <1>3. ASSUME \A s \in Slots : task'[p][s] = task[p][s] \/ task'[p][s].pc \in {"off", "list", "post"}
        PROVE  AtMost(New, faults')
    <2>1. New \subseteq Old
      <3>1. ASSUME NEW s \in Slots, Fails(p, s)' PROVE Fails(p, s)
        BY <1>3, <3>1, FailsAlone DEF Fails
      <3> QED
        BY <3>1
    <2> QED
      BY <1>2, <2>1
  <1>4. CASE Bystands \/ Switches \/ Purges
    BY <1>3, <1>4 DEF Bystands, Switches, Purges, PurgeRevoke, PurgeDelete
  <1>5. CASE Starts
    <2>1. PICK q \in PaymentIds, S \in SUBSET Slots, n \in Nat : StartTasks(q, S, n)
      BY <1>5 DEF Starts
    <2> QED
      BY <1>0, <1>3, <2>1, ResetTasks
  <1>6. CASE Clears
    <2>1. PICK q \in PaymentIds : StartTasks(q, {}, 0)
      BY <1>6 DEF Clears, ClearTasks
    <2> QED
      BY <1>0, <1>3, <2>1, ResetTasks
  <1>7. CASE Dies
    BY <1>3, <1>7 DEF Dies, Off
  <1>8. CASE Works
    <2>1. PICK q \in PaymentIds, r \in Slots : TaskStep(q, r)
      BY <1>8 DEF Works
    <2>2. \A s \in Slots : q # p \/ r # s => task'[p][s] = task[p][s]
      BY <2>1, TaskGoesOn
    <2>3. \A s \in Slots : Fails(p, s)' => Fails(p, s) \/ (q = p /\ s = r)
      BY <2>2, FailsAlone
    <2>4. CASE faults' = faults + 1
      <3>1. New \subseteq Old \cup {r}
        BY <2>3
      <3> HIDE DEF New, Old
      <3>2. AtMost(New, faults + 1)
        BY <1>1, <3>1, AtMostOneMore
      <3>3. AtMost(New, faults')
        BY <2>4, <3>2
      <3> QED
        BY <3>3 DEF New
    <2>5. CASE faults' # faults + 1
      <3>1. New \subseteq Old
        BY <2>1, <2>3, <2>5, FailsByCall
      <3> QED
        BY <1>2, <3>1
    <2> QED
      BY <2>4, <2>5
  <1> QED
    BY <1>4, <1>5, <1>6, <1>7, <1>8 DEF Kinds

-----------------------------------------------------------------------------
(* Days, and the ends of subscriptions *)

(* A credit writes what its handler computed, and nothing else moves an    *)
(* end; a handler past the credit has made it.                             *)
EndTurn ==
  /\ \A u \in Users :
       \/ users'[u].sub_end = users[u].sub_end
       \/ \E p \in PaymentIds : /\ payments[p].tg_id = u /\ desk[p].pc = "write"
                                /\ users'[u].sub_end = desk[p].end
  /\ \A p \in PaymentIds :
       /\ desk'[p].pc \in Paid =>
            \/ desk[p].pc \in Paid
            \/ desk[p].pc = "write" /\ users'[payments[p].tg_id].sub_end = desk[p].end
       /\ desk'[p].pc = "write" =>
            \/ desk[p].pc = "write" /\ desk'[p].end = desk[p].end
            \/ desk[p].pc = "read" /\ desk'[p].end = ExtendedEnd(payments[p].tg_id)
       /\ \/ credits'[p] = credits[p]
          \/ desk[p].pc = "write" /\ users'[payments[p].tg_id].sub_end = desk[p].end

LEMMA EndTurns ==
  ASSUME IInv, [Next]_vars
  PROVE  EndTurn
  <1>0. desk \in DeskType /\ users \in [Users -> [status : UserStatus, sub_end : Nat]]
    BY NodeTypes DEF IInv, TypeOK, StoreTypeOK
  <1>1. ASSUME users' = users, credits' = credits,
               \A p \in PaymentIds : desk'[p] = desk[p] \/ desk'[p].pc \notin Paid \cup {"write"}
        PROVE  EndTurn
    BY <1>1 DEF EndTurn
  <1>2. ASSUME users' = users, credits' = credits, NEW p \in PaymentIds,
               \A q \in PaymentIds : q # p => desk'[q] = desk[q],
               desk'[p].pc \in Paid => desk[p].pc \in Paid,
               desk'[p].pc = "write" =>
                 desk[p].pc = "read" /\ desk'[p].end = ExtendedEnd(payments[p].tg_id)
        PROVE  EndTurn
    BY <1>2 DEF EndTurn
  <1>3. CASE DeskNext
    <2>1. CASE \/ \E u \in Users : BuyCheck(u) \/ BuyShow(u) \/ LeaveMenu(u)
               \/ \E m \in Msgs, u \in Users : ReceiptArrives(m, u)
               \/ \E m \in Msgs : ReceiptNext(m)
      <3>1. users' = users /\ desk' = desk /\ credits' = credits
        BY <2>1 DEF BuyCheck, BuyShow, LeaveMenu, ReceiptArrives, ReceiptNext, ReceiptCheck,
           ReceiptCreate, ReceiptClear, ReceiptNotify, ReceiptEscapes, storeVars
      <3> QED
        BY <3>1, <1>1
    <2>2. ASSUME NEW p \in PaymentIds, ApproveClaim(p) \/ RejectPayment(p) \/ HandlerEscapes(p)
          PROVE  EndTurn
      <3>1. users' = users /\ credits' = credits
        BY <2>2 DEF ApproveClaim, RejectPayment, HandlerEscapes, storeVars, deskVars
      <3>2. \A q \in PaymentIds : desk'[q] = desk[q] \/ desk'[q].pc \notin Paid \cup {"write"}
        <4>1. CASE RejectPayment(p)
          BY <4>1 DEF RejectPayment, deskVars
        <4>2. CASE ApproveClaim(p) \/ HandlerEscapes(p)
          <5>1. PICK pc \in {"devices", "dead"} :
                  desk' = [desk EXCEPT ![p] = [NoHandler EXCEPT !.pc = pc]]
            BY <4>2 DEF ApproveClaim, HandlerEscapes
          <5>2. [NoHandler EXCEPT !.pc = pc].pc = pc
            BY DEF NoHandler
          <5> QED
            BY <1>0, <5>1, <5>2 DEF DeskType, Paid
        <4> QED
          BY <2>2, <4>1, <4>2
      <3> QED
        BY <1>1, <3>1, <3>2
    <2>3. ASSUME NEW p \in PaymentIds,
                 LoadDevices(p) \/ EnableNext(p) \/ ReadSubscription(p) \/ SendRenewed(p)
                   \/ SendConfirmed(p) \/ ProvisionOver(p) \/ MarkPartial(p)
          PROVE  EndTurn
      <3>1. /\ users' = users /\ credits' = credits
            /\ \A q \in PaymentIds : q # p => desk'[q] = desk[q]
        BY <1>0, <2>3 DEF LoadDevices, EnableNext, ReadSubscription, SendRenewed, SendConfirmed,
           ProvisionOver, MarkPartial, storeVars, DeskType
      <3>2. CASE LoadDevices(p)
        <4>1. desk'[p].pc \in {"read", "enable"}
          BY <1>0, <3>2 DEF LoadDevices, DeskType, DeskRec
        <4> QED
          BY <3>1, <4>1, <1>2 DEF Paid
      <3>3. CASE EnableNext(p)
        <4>1. PICK rest : desk' = [desk EXCEPT ![p].todo = rest,
                                    ![p].pc = IF rest = {} THEN "read" ELSE "enable"]
          BY <3>3 DEF EnableNext
        <4>2. desk'[p].pc \in {"read", "enable"}
          BY <1>0, <4>1 DEF DeskType, DeskRec
        <4> QED
          BY <3>1, <4>2, <1>2 DEF Paid
      <3>4. CASE ReadSubscription(p)
        <4>1. /\ desk[p].pc = "read" /\ desk'[p].pc = "write"
              /\ desk'[p].end = ExtendedEnd(payments[p].tg_id)
          BY <1>0, <3>4 DEF ReadSubscription, DeskType, DeskRec
        <4> QED
          BY <3>1, <4>1, <1>2 DEF Paid
      <3>5. CASE SendRenewed(p) \/ SendConfirmed(p) \/ ProvisionOver(p) \/ MarkPartial(p)
        <4>1. desk[p].pc \in {"renewed", "confirm", "provision", "degrade"}
          BY <3>5 DEF SendRenewed, SendConfirmed, ProvisionOver, MarkPartial
        <4>2. PICK pc \in {"done", "provision", "degrade"} : desk' = [desk EXCEPT ![p].pc = pc]
          BY <3>5 DEF SendRenewed, SendConfirmed, ProvisionOver, MarkPartial
        <4>3. desk'[p].pc # "write"
          BY <1>0, <4>2 DEF DeskType, DeskRec
        <4> QED
          BY <3>1, <4>1, <4>3, <1>2 DEF Paid
      <3> QED
        BY <2>3, <3>2, <3>3, <3>4, <3>5
    <2>4. ASSUME NEW p \in PaymentIds, CreditSubscription(p) PROVE EndTurn
      <3>0. PICK v : v = payments[p].tg_id
        OBVIOUS
      <3>1. /\ desk[p].pc = "write"
            /\ users' = [users EXCEPT ![v] = [status |-> "active", sub_end |-> desk[p].end]]
        BY <2>4, <3>0 DEF CreditSubscription, WriteSubscription
      <3>2. v \in Users
        BY <3>0, <3>1 DEF IInv, OwnerInv, LedgerInv, Stage, Unpaid
      <3>3. /\ users'[v].sub_end = desk[p].end
            /\ \A u \in Users : u # v => users'[u] = users[u]
        BY <1>0, <3>1, <3>2
      <3>4. /\ \A q \in PaymentIds : q # p => desk'[q] = desk[q]
            /\ desk'[p].pc \in {"renewed", "confirm"}
            /\ \A q \in PaymentIds : q # p => credits'[q] = credits[q]
        BY <1>0, <2>4 DEF CreditSubscription, DeskType, DeskRec, IInv, TypeOK, DeskTypeOK
      <3> QED
        BY <3>0, <3>1, <3>3, <3>4 DEF EndTurn
    <2> QED
      BY <1>3, <2>1, <2>2, <2>3, <2>4 DEF DeskNext, ApproveStep
  <1>4. CASE JobsNext /\ UNCHANGED deskVars
    <2>1. desk' = desk /\ credits' = credits
      BY <1>4 DEF deskVars
    <2>2. CASE SweepMark
      <3>1. users' = [users EXCEPT ![sweep.user].status = "expired"]
        BY <2>2 DEF SweepMark, UpdateUserStatus
      <3>2. \A u \in Users : users'[u].sub_end = users[u].sub_end
        BY <1>0, <3>1
      <3> QED
        BY <2>1, <3>2 DEF EndTurn
    <2>3. CASE ~SweepMark
      <3>1. users' = users
        BY <1>4, <2>3 DEF JobsNext, SweepNext, SweepStart, SweepLoad, SweepDisable, SweepNotify,
           SweepEscapes, PurgeNext, PurgeStart, PurgeRevoke, PurgeDelete, ResumeStep, ResumeStart,
           ResumeLoad, ResumeSettle, ResumeApprove, ResumeNotify, ResumeFails, ExpirePending,
           storeVars
      <3> QED
        BY <2>1, <3>1, <1>1
    <2> QED
      BY <2>2, <2>3
  <1>5. CASE Tasks \/ Tick \/ UNCHANGED vars
    <2>1. users' = users /\ desk' = desk /\ credits' = credits
      BY <1>5 DEF Tasks, TaskStep, ListClients, Post, LosePost, GetConfig, CallFails, Insert,
         InsertFails, Rollback, Tick, vars, storeVars, deskVars
    <2> QED
      BY <2>1, <1>1
  <1>6. CASE Restart
    <2>1. users' = users /\ credits' = credits
      BY <1>6 DEF Restart, DeskRestart, storeVars
    <2>2. \A p \in PaymentIds : desk'[p] = desk[p] \/ desk'[p].pc \notin Paid \cup {"write"}
      BY <1>6 DEF Restart, DeskRestart, NoHandler, Paid
    <2> QED
      BY <2>1, <2>2, <1>1
  <1> QED
    BY <1>3, <1>4, <1>5, <1>6 DEF Next

(* Days pass while nobody is at work. *)
ClockTurn ==
  \/ now' = now
  \/ /\ now' = now + 1 /\ users' = users /\ desk' = desk /\ sweep' = NoSweep /\ resume' = NoResume
     /\ \A p \in PaymentIds : desk'[p].pc \in {"idle", "done", "dead"}

LEMMA ClockTurns ==
  ASSUME [Next]_vars
  PROVE  ClockTurn
  <1>1. CASE Tick
    <2>1. jobVars' = <<NoSweep, NoPurge, NoResume>> /\ desk' = desk
      BY <1>1 DEF Tick, Quiet, deskVars, jobVars
    <2>2. sweep' = NoSweep /\ resume' = NoResume
      BY <2>1 DEF jobVars
    <2> QED
      BY <1>1, <2>1, <2>2 DEF Tick, Quiet, DeskIdle, ClockTurn
  <1>2. CASE DeskNext
    <2>1. now' = now
      BY <1>2 DEF DeskNext, BuyCheck, BuyShow, LeaveMenu, ReceiptArrives, ReceiptNext, ReceiptCheck,
         ReceiptCreate, ReceiptClear, ReceiptNotify, ReceiptEscapes, ApproveClaim, RejectPayment,
         HandlerEscapes, ApproveStep, LoadDevices, EnableNext, ReadSubscription,
         CreditSubscription, SendRenewed, SendConfirmed, ProvisionOver, MarkPartial, storeVars
    <2> QED
      BY <2>1 DEF ClockTurn
  <1>3. CASE JobsNext
    <2>1. now' = now
      BY <1>3 DEF JobsNext, SweepNext, SweepStart, SweepLoad, SweepDisable, SweepMark, SweepNotify,
         SweepEscapes, PurgeNext, PurgeStart, PurgeRevoke, PurgeDelete, ResumeStep, ResumeStart,
         ResumeLoad, ResumeSettle, ResumeApprove, ResumeNotify, ResumeFails, ExpirePending,
         storeVars
    <2> QED
      BY <2>1 DEF ClockTurn
  <1>4. CASE Tasks \/ Restart \/ UNCHANGED vars
    BY <1>4 DEF Tasks, TaskStep, ListClients, Post, LosePost, GetConfig, CallFails, Insert,
       InsertFails, Rollback, Restart, vars, storeVars, ClockTurn
  <1> QED
    BY <1>1, <1>2, <1>3, <1>4 DEF Next

(* Whoever was credited today is paid up beyond today. *)
AheadInv ==
  \A p \in PaymentIds :
    /\ desk[p].pc \in Paid => users[payments[p].tg_id].sub_end > now
    /\ desk[p].pc = "write" => desk[p].end > now

LEMMA EndsAhead ==
  ASSUME IInv, AheadInv, EndTurn, NEW u \in Users
  PROVE  /\ users[u].sub_end > now => users'[u].sub_end > now
         /\ users[u].sub_end >= now => users'[u].sub_end >= now
         /\ users'[u].sub_end # users[u].sub_end => users'[u].sub_end > now
  <1>0. users[u].sub_end \in Nat /\ now \in Nat
    BY DEF IInv, TypeOK, StoreTypeOK
  <1>1. CASE users'[u].sub_end = users[u].sub_end
    BY <1>1
  <1>2. ASSUME NEW p \in PaymentIds, desk[p].pc = "write", users'[u].sub_end = desk[p].end
        PROVE  users'[u].sub_end > now /\ users'[u].sub_end >= now
    <2>1. desk[p].end \in Nat /\ desk[p].end > now
      BY <1>2, NodeTypes DEF AheadInv, DeskType, DeskRec
    <2> QED
      BY <1>0, <1>2, <2>1
  <1> QED
    BY <1>1, <1>2 DEF EndTurn

LEMMA AheadStep ==
  ASSUME IInv, AheadInv, EndTurn, ClockTurn, UsersStay
  PROVE  AheadInv'
  <1> SUFFICES ASSUME NEW p \in PaymentIds
               PROVE  /\ desk'[p].pc \in Paid => users'[payments'[p].tg_id].sub_end > now'
                      /\ desk'[p].pc = "write" => desk'[p].end > now'
    BY DEF AheadInv
  <1>1. CASE desk'[p].pc \in {"idle", "done", "dead"}
    BY <1>1 DEF Paid
  <1>2. CASE desk'[p].pc \notin {"idle", "done", "dead"}
    <2>0. PICK u : u = payments[p].tg_id
      OBVIOUS
    <2>1. now' = now
      BY <1>2 DEF ClockTurn
    <2>2. ASSUME desk'[p].pc \in Paid PROVE users'[payments'[p].tg_id].sub_end > now
      <3>1. desk[p].pc \in Paid \cup {"write"}
        BY <2>2 DEF EndTurn
      <3>2. u \in Users /\ payments'[p].tg_id = u
        <4>1. payments[p].status # "none"
          BY <3>1 DEF IInv, LedgerInv, Stage, Paid, Unpaid
        <4> QED
          BY <2>0, <4>1 DEF UsersStay, IInv, OwnerInv
      <3>3. CASE desk[p].pc \in Paid
        <4>1. users[u].sub_end > now
          BY <2>0, <3>3 DEF AheadInv
        <4> QED
          BY <3>2, <4>1, EndsAhead
      <3>4. CASE users'[u].sub_end = desk[p].end /\ desk[p].pc = "write"
        BY <3>2, <3>4 DEF AheadInv
      <3> QED
        BY <2>0, <2>2, <3>3, <3>4 DEF EndTurn
    <2>3. ASSUME desk'[p].pc = "write" PROVE desk'[p].end > now
      <3>1. CASE desk[p].pc = "write" /\ desk'[p].end = desk[p].end
        BY <3>1 DEF AheadInv
      <3>2. CASE desk[p].pc = "read" /\ desk'[p].end = ExtendedEnd(u)
        <4>1. u \in Users
          BY <2>0, <3>2 DEF IInv, LedgerInv, Stage, Unpaid, OwnerInv
        <4>2. users[u].sub_end \in Nat /\ now \in Nat
          BY <4>1 DEF IInv, TypeOK, StoreTypeOK
        <4>3. SubscriptionDays \in Nat /\ SubscriptionDays > 0
          BY StoreAssumption
        <4>4. ExtendedEnd(u) > now
          <5>1. CASE users[u].sub_end > now
            BY <4>2, <4>3, <5>1 DEF ExtendedEnd
          <5>2. CASE ~(users[u].sub_end > now)
            BY <4>2, <4>3, <5>2 DEF ExtendedEnd
          <5> QED
            BY <5>1, <5>2
        <4> QED
          BY <3>2, <4>4
      <3> QED
        BY <2>0, <2>3, <3>1, <3>2 DEF EndTurn
    <2> QED
      BY <2>1, <2>2, <2>3
  <1> QED
    BY <1>1, <1>2

-----------------------------------------------------------------------------
(* What is mounted, and what a retry has to do *)

(* Until the process dies, rows and tasks are at nodes that are mounted. *)
MountedInv ==
  restarts = 0 =>
    /\ \A d \in devices : HasProvider(d.slot)
    /\ \A p \in PaymentIds, s \in Slots : task[p][s].pc # "off" => HasProvider(s)

LEMMA TasksBegin ==
  ASSUME IInv, NodeInv, Kinds, NEW p \in PaymentIds, NEW s \in Slots, task'[p][s].pc # "off"
  PROVE  task[p][s].pc # "off" \/ s \in BundleSlots
  <1>0. task \in TaskType
    BY NodeTypes
  <1>1. CASE Bystands \/ Switches \/ Purges
    BY <1>1 DEF Bystands, Switches, Purges, PurgeRevoke, PurgeDelete
  <1>2. CASE Works
    <2>1. PICK q \in PaymentIds, r \in Slots : TaskStep(q, r)
      BY <1>2 DEF Works
    <2>2. CASE q = p /\ r = s
      BY <2>1, <2>2 DEF TaskStep, ListClients, Post, LosePost, GetConfig, CallFails, Insert,
         InsertFails, Rollback
    <2>3. CASE q # p \/ r # s
      BY <2>1, <2>3, TaskGoesOn
    <2> QED
      BY <2>2, <2>3
  <1>3. CASE Starts
    <2>1. PICK q \in PaymentIds, S \in SUBSET Slots, n \in Nat :
            StartTasks(q, S, n) /\ S \subseteq BundleSlots
      BY <1>3 DEF Starts
    <2>2. /\ q # p => task'[p] = task[p]
          /\ q = p /\ s \notin S => task'[p][s].pc = "off"
      BY <1>0, <2>1, ResetTasks
    <2> QED
      BY <2>1, <2>2
  <1>4. CASE Clears
    <2>1. PICK q \in PaymentIds : StartTasks(q, {}, 0)
      BY <1>4 DEF Clears, ClearTasks
    <2>2. /\ q # p => task'[p] = task[p]
          /\ q = p => task'[p][s].pc = "off"
      BY <1>0, <2>1, ResetTasks
    <2> QED
      BY <2>2
  <1>5. CASE Dies
    BY <1>5 DEF Dies, Off
  <1> QED
    BY <1>1, <1>2, <1>3, <1>4, <1>5 DEF Kinds

(* While no restart is counted, none happens. *)
LEMMA NoRestart ==
  ASSUME IInv, MountTurn, restarts' = 0
  PROVE  restarts = 0 /\ mounted' = mounted
  BY BotAssumption DEF MountTurn, IInv, TypeOK

LEMMA MountedStep ==
  ASSUME IInv, NodeInv, Kinds, MountTurn, MountedInv
  PROVE  MountedInv'
  <1> SUFFICES ASSUME restarts' = 0
               PROVE  /\ \A d \in devices' : HasProvider(d.slot)'
                      /\ \A p \in PaymentIds, s \in Slots :
                           task'[p][s].pc # "off" => HasProvider(s)'
    BY DEF MountedInv
  <1>0. restarts = 0 /\ mounted' = mounted
    BY NoRestart
  <1>1. \A s : HasProvider(s) => HasProvider(s)'
    BY <1>0 DEF HasProvider
  <1>2. ASSUME NEW p \in PaymentIds, NEW s \in Slots, task'[p][s].pc # "off"
        PROVE  HasProvider(s)
    BY <1>0, <1>2, TasksBegin DEF MountedInv, BundleSlots
  <1>3. ASSUME NEW d \in devices' PROVE HasProvider(d.slot)
    <2>1. CASE RowsShrink
      BY <1>0, <1>3, <2>1 DEF RowsShrink, MountedInv
    <2>2. ASSUME NEW p \in PaymentIds, NEW s \in Slots, Stored(p, s) PROVE HasProvider(d.slot)
      <3>1. HasProvider(s)
        BY <1>0, <2>2 DEF Stored, MountedInv
      <3>2. PICK n : n.slot = s /\ devices' = devices \cup {n}
        BY <2>2 DEF Stored, AddDevice
      <3> QED
        BY <1>0, <1>3, <3>1, <3>2 DEF MountedInv
    <2> QED
      BY <2>1, <2>2, RowsChange
  <1> QED
    BY <1>1, <1>2, <1>3

(* A retry for a user whose days are over is the only one who stores rows  *)
(* of theirs, so the slots it has still to do are missing.                 *)
LoneInv ==
  \A p \in PaymentIds :
    resume.pc = "run" /\ resume.pay = p /\ ~(users[payments[p].tg_id].sub_end >= now) =>
      \A s \in Slots : task[p][s].pc \notin {"off", "ok"} => ~HasRow(payments[p].tg_id, s)

(* Whoever goes on running tasks takes up no slot it was done with. *)
LEMMA TaskRemains ==
  ASSUME IInv, NodeInv, Kinds, NEW p \in PaymentIds, NEW s \in Slots, Runs(p), Runs(p)',
         task'[p][s].pc \notin {"off", "ok"}
  PROVE  task[p][s].pc \notin {"off", "ok"}
  <1>0. task \in TaskType
    BY NodeTypes
  <1>1. CASE Bystands \/ Switches \/ Purges
    BY <1>1 DEF Bystands, Switches, Purges, PurgeRevoke, PurgeDelete
  <1>2. CASE Works
    <2>1. PICK q \in PaymentIds, r \in Slots : TaskStep(q, r)
      BY <1>2 DEF Works
    <2>2. CASE q = p /\ r = s
      BY <2>1, <2>2 DEF TaskStep, ListClients, Post, LosePost, GetConfig, CallFails, Insert,
         InsertFails, Rollback
    <2>3. CASE q # p \/ r # s
      BY <2>1, <2>3, TaskGoesOn
    <2> QED
      BY <2>2, <2>3
  <1>3. CASE Starts
    <2>1. PICK q \in PaymentIds, S \in SUBSET Slots, n \in Nat : StartTasks(q, S, n) /\ ~Runs(q)
      BY <1>3 DEF Starts
    <2>2. task'[p] = task[p]
      BY <1>0, <2>1, ResetTasks
    <2> QED
      BY <2>2
  <1>4. CASE Clears
    <2>1. PICK q \in PaymentIds : StartTasks(q, {}, 0) /\ ~Runs(q)'
      BY <1>4 DEF Clears, ClearTasks
    <2>2. task'[p] = task[p]
      BY <1>0, <2>1, ResetTasks
    <2> QED
      BY <2>2
  <1>5. CASE Dies
    BY <1>5 DEF Dies
  <1> QED
    BY <1>1, <1>2, <1>3, <1>4, <1>5 DEF Kinds

(* A row of a user that is new comes from a task. *)
LEMMA NewRow ==
  ASSUME IInv, NodeInv, Kinds, NEW u, NEW s, HasRow(u, s)', ~HasRow(u, s)
  PROVE  \E q \in PaymentIds : Stored(q, s) /\ payments[q].tg_id = u
  <1>1. CASE RowsShrink
    BY <1>1 DEF RowsShrink, HasRow
  <1>2. ASSUME NEW q \in PaymentIds, NEW r \in Slots, Stored(q, r)
        PROVE  r = s /\ payments[q].tg_id = u
    <2>1. PICK n : n.user = payments[q].tg_id /\ n.slot = r /\ devices' = devices \cup {n}
      BY <1>2 DEF Stored, AddDevice
    <2> QED
      BY <2>1 DEF HasRow
  <1> QED
    BY <1>1, <1>2, RowsChange

LEMMA LoneInvStep ==
  ASSUME IInv, NodeInv, Kinds, UsersStay, ResumeTurn, EndTurn, ClockTurn, AheadInv, LoneInv
  PROVE  LoneInv'
  <1> SUFFICES ASSUME NEW p \in PaymentIds, NEW s \in Slots, resume'.pc = "run", resume'.pay = p,
                      ~(users'[payments'[p].tg_id].sub_end >= now'),
                      task'[p][s].pc \notin {"off", "ok"}
               PROVE  ~HasRow(payments[p].tg_id, s)'
    BY DEF LoneInv
  <1>0. PICK u : u = payments[p].tg_id
    OBVIOUS
  <1>1. Settled(p) /\ u \in Users /\ payments'[p].tg_id = u
    <2>1. Settled(p)
      <3>1. p # 0
        BY StoreAssumption DEF PaymentIds
      <3> QED
        BY <3>1 DEF ResumeTurn, Waits, Retries, Settles, Approves, KeepsPay, IInv, LedgerInv,
           ResumeInv
    <2> QED
      BY <1>0, <2>1 DEF Settled, UsersStay, IInv, OwnerInv
  <1>2. now' = now /\ ~(users[u].sub_end >= now)
    <2>1. now' = now
      BY DEF ClockTurn, NoResume
    <2> QED
      BY <1>1, <2>1, EndsAhead
  <1>3. CASE resume' = resume
    <2>1. Runs(p) /\ Runs(p)'
      BY <1>3 DEF Runs
    <2>2. ~HasRow(u, s)
      BY <1>0, <1>2, <1>3, <2>1, TaskRemains DEF LoneInv
    <2>3. ASSUME HasRow(u, s)' PROVE FALSE
      <3>1. PICK q \in PaymentIds : Stored(q, s) /\ payments[q].tg_id = u
        BY <2>2, <2>3, NewRow
      <3>2. Runs(q)
        BY <3>1 DEF Stored, NodeInv, TaskOwner
      <3>3. q # p
        BY <3>1 DEF Stored
      <3>4. desk[q].pc = "provision"
        BY <1>3, <3>2, <3>3 DEF Runs
      <3>5. users[u].sub_end > now
        BY <3>1, <3>4 DEF AheadInv, Paid
      <3>6. users[u].sub_end \in Nat /\ now \in Nat
        BY <1>1 DEF IInv, TypeOK, StoreTypeOK
      <3> QED
        BY <1>2, <3>5, <3>6
    <2> QED
      BY <1>0, <1>1, <2>3
  <1>4. CASE Retries
    <2>1. StartTasks(p, Missing(p), 1) /\ devices' = devices
      BY <1>4 DEF Retries, RetryPartial
    <2>2. s \in Missing(p)
      <3>1. Missing(p) \in SUBSET Slots
        BY DEF Missing, BundleSlots
      <3> QED
        BY <2>1, <3>1, NodeTypes, ResetTasks
    <2>3. ~HasRow(u, s)
      BY <1>0, <2>2 DEF Missing, GetUserDevices, HasRow
    <2> QED
      BY <1>0, <1>1, <2>1, <2>3 DEF HasRow
  <1> QED
    BY <1>3, <1>4 DEF ResumeTurn, Waits, Settles, Approves

(* The slots a user is missing while their payment is in the queue, or on  *)
(* its way there: a call failed for each. *)
Miss(u) == {s \in BundleSlots : ~HasRow(u, s)}
MissInv ==
  restarts = 0 /\ Unpurged =>
    \A p \in PaymentIds :
      desk[p].pc = "degrade" \/ payments[p].status = "partial"
        => AtMost(Miss(payments[p].tg_id), faults)

LEMMA MissFewer ==
  ASSUME devices \subseteq devices', mounted' = mounted, NEW u
  PROVE  Miss(u)' \subseteq Miss(u)
  BY RowStays DEF Miss, BundleSlots, HasProvider

LEMMA MissStep ==
  ASSUME IInv, NodeInv, Kinds, ServeInv, FailInv, MissInv, UsersStay, StatusTurn, MountTurn,
         \A p \in PaymentIds : Turn(p), faults \in Nat, faults' \in Nat, faults <= faults'
  PROVE  MissInv'
  <1> SUFFICES ASSUME restarts' = 0, Unpurged', NEW p \in PaymentIds,
                      desk'[p].pc = "degrade" \/ payments'[p].status = "partial"
               PROVE  AtMost(Miss(payments[p].tg_id)', faults')
    BY DEF MissInv
  <1>0. PICK u : u = payments[p].tg_id
    OBVIOUS
  <1>1. /\ restarts = 0 /\ mounted' = mounted
        /\ Unpurged /\ devices \subseteq devices'
    BY NoRestart, RowsStay
  <1>2. payments'[p].status = "partial" => payments[p].status = "partial" \/ desk[p].pc = "degrade"
    BY DEF StatusTurn
  <1>3. AtMost(Miss(u), faults)
    <2>1. CASE desk[p].pc = "degrade" \/ payments[p].status = "partial"
      BY <1>0, <1>1, <2>1 DEF MissInv
    <2>2. CASE Degrades(p)
      <3>1. desk[p].pc = "provision" /\ TasksOver(p)
        BY <2>2 DEF Degrades
      <3>2. ASSUME NEW s \in Miss(u) PROVE s \in Slots /\ Fails(p, s)
        <4>1. s \in Slots /\ s \in BundleSlots /\ ~HasRow(u, s)
          BY DEF Miss, BundleSlots
        <4>2. task[p][s].pc # "off"
          BY <3>1, <4>1 DEF ServeInv, BegunInv
        <4>3. task[p][s].pc # "ok"
          BY <1>0, <1>1, <4>1 DEF ServeInv, BundleInv, RowedInv
        <4> QED
          BY <3>1, <4>1, <4>2, <4>3 DEF TasksOver, Fails
      <3>3. Miss(u) \subseteq {s \in Slots : Fails(p, s)}
        BY <3>2
      <3>4. AtMost({s \in Slots : Fails(p, s)}, faults)
        BY DEF FailInv
      <3> QED
        BY <3>3, <3>4, AtMostFewer
    <2> QED
      BY <1>2, <2>1, <2>2 DEF Turn, Rests, Takes, Drops, Loads, Extends, Renews, Provisions,
         Delivers, Marks
  <1>4. payments'[p].tg_id = u
    <2>1. desk[p].pc # "idle" \/ payments[p].status # "none"
      BY <1>2 DEF Turn, Rests, Takes, Drops, Loads, Extends, Renews, Provisions, Delivers, Degrades,
         Marks
    <2> QED
      BY <1>0, <2>1, OwnerStays DEF UsersStay
  <1>5. AtMost(Miss(u)', faults')
    BY <1>1, <1>3, MissFewer, AtMostFewer
  <1> QED
    BY <1>4, <1>5

(* What the retry job has in hand or in its queue is partial. *)
PartialInv ==
  /\ \A p \in resume.queue : payments[p].status = "partial"
  /\ resume.pc \in {"run", "approve"} => payments[resume.pay].status = "partial"
  /\ resume.pc \in {"run", "approve", "notify"} => resume.pay \notin resume.queue

LEMMA PartialStep ==
  ASSUME IInv, PartialInv, StatusTurn, ResumeTurn
  PROVE  PartialInv'
  <1>0. /\ resume.pay \in PaymentIds \cup {0} /\ resume.queue \subseteq PaymentIds
        /\ resume.pc \in {"run", "approve", "notify"} => resume.pay \in PaymentIds
    BY NodeTypes DEF IInv, LedgerInv, ResumeInv
  <1>1. \A p \in PaymentIds :
          payments[p].status = "partial"
            => \/ payments'[p].status = "partial"
               \/ resume.pc = "approve" /\ resume.pay = p /\ resume'.pc = "notify"
    BY DEF StatusTurn
  <1>2. \A p \in resume.queue : payments'[p].status = "partial"
    BY <1>0, <1>1 DEF PartialInv
  <1>3. CASE resume' = resume
    BY <1>0, <1>1, <1>2, <1>3 DEF PartialInv
  <1>4. CASE Waits
    BY <1>0, <1>1, <1>2, <1>4 DEF PartialInv, Waits, GetPartialPayments
  <1>5. CASE Retries
    BY <1>0, <1>1, <1>2, <1>5 DEF PartialInv, Retries
  <1>6. CASE Settles
    BY <1>0, <1>1, <1>2, <1>6 DEF PartialInv, Settles, KeepsPay
  <1>7. CASE Approves
    BY <1>0, <1>1, <1>2, <1>7 DEF PartialInv, Approves, KeepsPay
  <1> QED
    BY <1>3, <1>4, <1>5, <1>6, <1>7 DEF ResumeTurn

-----------------------------------------------------------------------------
(* Rows that were read, and whose they are *)

(* What becomes of the rows a renewal has to do: they are read, and done.  *)
TodoTurn(p) ==
  \/ desk'[p].todo = {}
  \/ desk'[p].todo \subseteq desk[p].todo /\ (desk[p].pc = "enable" => desk'[p].pc = "enable")
  \/ /\ desk[p].pc = "devices" /\ desk'[p].pc = "enable"
     /\ desk'[p].todo \subseteq GetUserDevices(payments[p].tg_id)
SweepTurn ==
  \/ sweep' = sweep \/ SweepDisable \/ SweepLoad
  \/ /\ sweep'.pc \notin {"disable", "mark"}
     /\ sweep'.todo = {} \/ (sweep'.todo = sweep.todo /\ sweep.pc # "disable")

LEMMA TodoTurns ==
  ASSUME IInv, [Next]_vars
  PROVE  \A p \in PaymentIds : TodoTurn(p)
  <1>0. desk \in DeskType
    BY NodeTypes
  <1>1. ASSUME desk' = desk PROVE \A p \in PaymentIds : TodoTurn(p)
    BY <1>1 DEF TodoTurn
  <1>2. ASSUME NEW p \in PaymentIds, \A q \in PaymentIds : q # p => desk'[q] = desk[q],
               TodoTurn(p)
        PROVE  \A q \in PaymentIds : TodoTurn(q)
    BY <1>2 DEF TodoTurn
  <1>3. ASSUME NEW p \in PaymentIds, LoadDevices(p) PROVE \A q \in PaymentIds : TodoTurn(q)
    <2>1. PICK rows : /\ rows = GetUserDevices(payments[p].tg_id)
                      /\ desk' = [desk EXCEPT ![p].pc = IF rows = {} THEN "read" ELSE "enable",
                                              ![p].todo = rows, ![p].renewal = rows # {}]
      BY <1>3 DEF LoadDevices
    <2>2. /\ desk'[p].todo = rows /\ desk'[p].pc = (IF rows = {} THEN "read" ELSE "enable")
          /\ \A q \in PaymentIds : q # p => desk'[q] = desk[q]
      BY <1>0, <2>1 DEF DeskType, DeskRec
    <2>3. desk[p].pc = "devices"
      BY <1>3 DEF LoadDevices
    <2>4. TodoTurn(p)
      <3>1. CASE rows = {}
        BY <2>2, <3>1 DEF TodoTurn
      <3>2. CASE rows # {}
        BY <2>1, <2>2, <2>3, <3>2 DEF TodoTurn
      <3> QED
        BY <3>1, <3>2
    <2> QED
      BY <2>2, <2>4, <1>2
  <1>4. ASSUME NEW p \in PaymentIds, EnableNext(p) PROVE \A q \in PaymentIds : TodoTurn(q)
    <2>1. PICK rest \in SUBSET desk[p].todo :
            desk' = [desk EXCEPT ![p].todo = rest,
                                 ![p].pc = IF rest = {} THEN "read" ELSE "enable"]
      BY <1>4 DEF EnableNext
    <2>2. /\ desk'[p].todo = rest /\ desk'[p].pc = (IF rest = {} THEN "read" ELSE "enable")
          /\ \A q \in PaymentIds : q # p => desk'[q] = desk[q]
      BY <1>0, <2>1 DEF DeskType, DeskRec
    <2>3. TodoTurn(p)
      BY <2>2 DEF TodoTurn
    <2> QED
      BY <2>2, <2>3, <1>2
  <1>5. ASSUME NEW p \in PaymentIds,
               \/ ReadSubscription(p) \/ CreditSubscription(p) \/ SendRenewed(p)
               \/ SendConfirmed(p) \/ ProvisionOver(p) \/ MarkPartial(p)
        PROVE  \A q \in PaymentIds : TodoTurn(q)
    <2>1. desk[p].pc # "enable"
      BY <1>5 DEF ReadSubscription, CreditSubscription, SendRenewed, SendConfirmed,
         ProvisionOver, MarkPartial
    <2>2. /\ desk'[p].todo = desk[p].todo
          /\ \A q \in PaymentIds : q # p => desk'[q] = desk[q]
      BY <1>0, <1>5 DEF ReadSubscription, CreditSubscription, SendRenewed, SendConfirmed,
         ProvisionOver, MarkPartial, DeskType, DeskRec
    <2> QED
      BY <2>1, <2>2, <1>2 DEF TodoTurn
  <1>6. ASSUME NEW p \in PaymentIds, ApproveClaim(p) \/ RejectPayment(p) \/ HandlerEscapes(p)
        PROVE  \A q \in PaymentIds : TodoTurn(q)
    <2>1. CASE RejectPayment(p)
      BY <2>1, <1>1 DEF RejectPayment, deskVars
    <2>2. CASE ApproveClaim(p) \/ HandlerEscapes(p)
      <3>1. PICK pc : desk' = [desk EXCEPT ![p] = [NoHandler EXCEPT !.pc = pc]]
        BY <2>2 DEF ApproveClaim, HandlerEscapes
      <3>2. [NoHandler EXCEPT !.pc = pc].todo = {}
        BY DEF NoHandler
      <3>3. /\ desk'[p].todo = {}
            /\ \A q \in PaymentIds : q # p => desk'[q] = desk[q]
        BY <1>0, <3>1, <3>2 DEF DeskType
      <3> QED
        BY <3>3, <1>2 DEF TodoTurn
    <2> QED
      BY <1>6, <2>1, <2>2
  <1>7. CASE DeskNext
    <2>1. CASE \/ \E u \in Users : BuyCheck(u) \/ BuyShow(u) \/ LeaveMenu(u)
               \/ \E m \in Msgs, u \in Users : ReceiptArrives(m, u)
               \/ \E m \in Msgs : ReceiptNext(m)
      <3>1. desk' = desk
        BY <2>1 DEF BuyCheck, BuyShow, LeaveMenu, ReceiptArrives, ReceiptNext, ReceiptCheck,
           ReceiptCreate, ReceiptClear, ReceiptNotify, ReceiptEscapes
      <3> QED
        BY <3>1, <1>1
    <2> QED
      BY <1>7, <2>1, <1>3, <1>4, <1>5, <1>6 DEF DeskNext, ApproveStep
  <1>8. CASE \/ JobsNext /\ UNCHANGED deskVars
             \/ Tasks \/ Tick \/ UNCHANGED vars
    <2>1. desk' = desk
      BY <1>8 DEF Tasks, Tick, vars, deskVars
    <2> QED
      BY <2>1, <1>1
  <1>9. CASE Restart
    BY <1>9 DEF Restart, DeskRestart, NoHandler, TodoTurn
  <1> QED
    BY <1>7, <1>8, <1>9 DEF Next

LEMMA SweepTurns ==
  ASSUME IInv, [Next]_vars
  PROVE  SweepTurn
  <1>0. sweep \in SweepType
    BY DEF IInv, TypeOK, JobsTypeOK, SweepType
  <1>1. ASSUME sweep' = NoSweep PROVE SweepTurn
    BY <1>1 DEF SweepTurn, NoSweep
  <1>2. CASE SweepStart
    <2>1. sweep' = [NoSweep EXCEPT !.pc = "load", !.queue = GetExpiredUsers]
      BY <1>2 DEF SweepStart
    <2>2. sweep'.todo = {} /\ sweep'.pc = "load"
      BY <2>1 DEF NoSweep
    <2> QED
      BY <2>2 DEF SweepTurn
  <1>3. CASE SweepMark
    <2>1. sweep'.todo = sweep.todo /\ sweep'.pc = "notify" /\ sweep.pc = "mark"
      BY <1>0, <1>3 DEF SweepMark, SweepType
    <2> QED
      BY <2>1 DEF SweepTurn
  <1>4. CASE SweepNotify
    <2>1. CASE sweep' = [sweep EXCEPT !.pc = "load", !.user = NoUser]
      <3>1. sweep'.todo = sweep.todo /\ sweep'.pc = "load"
        BY <1>0, <2>1 DEF SweepType
      <3> QED
        BY <1>4, <3>1 DEF SweepTurn, SweepNotify
    <2> QED
      BY <1>4, <2>1, <1>1 DEF SweepNotify
  <1>5. CASE SweepEscapes
    BY <1>5, <1>1 DEF SweepEscapes
  <1>6. CASE SweepLoad \/ SweepDisable
    BY <1>6 DEF SweepTurn
  <1>7. CASE PurgeNext \/ ResumeStep \/ ExpirePending
    <2>1. sweep' = sweep
      BY <1>7 DEF PurgeNext, PurgeStart, PurgeRevoke, PurgeDelete, ResumeStep, ResumeStart,
         ResumeLoad, ResumeSettle, ResumeApprove, ResumeNotify, ResumeFails, ExpirePending, jobVars
    <2> QED
      BY <2>1 DEF SweepTurn
  <1>8. CASE \/ DeskNext /\ UNCHANGED jobVars
             \/ Tasks \/ Tick \/ UNCHANGED vars
    <2>1. sweep' = sweep
      BY <1>8 DEF Tasks, Tick, vars, jobVars
    <2> QED
      BY <2>1 DEF SweepTurn
  <1>9. CASE Restart
    BY <1>9, <1>1 DEF Restart, JobsRestart
  <1> QED
    BY <1>2, <1>3, <1>4, <1>5, <1>6, <1>7, <1>8, <1>9 DEF Next, JobsNext, SweepNext

(* They are their user's, and there are some only while the loop runs. *)
LoadedInv ==
  /\ \A p \in PaymentIds :
       /\ \A d \in desk[p].todo : d.user = payments[p].tg_id
       /\ desk[p].pc # "enable" => desk[p].todo = {}
  /\ \A d \in sweep.todo : d.user = sweep.user
  /\ sweep.pc # "disable" => sweep.todo = {}
  /\ sweep.pc \in {"disable", "mark"} => sweep.user \in Users

(* The expiry job reads the rows of the next user. *)
LEMMA SweepLoads ==
  ASSUME IInv, SweepLoad
  PROVE  /\ sweep'.user \in Users /\ sweep'.todo = GetUserDevices(sweep'.user)
         /\ sweep'.pc # "disable" => sweep'.todo = {}
  <1>1. PICK u \in sweep.queue :
          sweep' = [pc |-> IF GetUserDevices(u) = {} THEN "mark" ELSE "disable",
                    queue |-> sweep.queue \ {u}, user |-> u, todo |-> GetUserDevices(u)]
    BY DEF SweepLoad
  <1>2. u \in Users
    BY DEF IInv, TypeOK, JobsTypeOK
  <1> QED
    BY <1>1, <1>2

(* It does the first of them. *)
LEMMA SweepDoes ==
  ASSUME IInv, SweepDisable
  PROVE  /\ sweep'.user = sweep.user /\ sweep'.todo = sweep.todo \ {FirstRow(sweep.todo)}
         /\ sweep'.pc \in {"disable", "mark"}
         /\ sweep'.pc # "disable" => sweep'.todo = {}
  <1>0. sweep \in SweepType
    BY DEF IInv, TypeOK, JobsTypeOK, SweepType
  <1>1. PICK rest : /\ rest = sweep.todo \ {FirstRow(sweep.todo)}
                    /\ sweep' = [sweep EXCEPT !.todo = rest,
                                              !.pc = IF rest = {} THEN "mark" ELSE "disable"]
    BY DEF SweepDisable
  <1>2. /\ sweep'.user = sweep.user /\ sweep'.todo = rest
        /\ sweep'.pc = (IF rest = {} THEN "mark" ELSE "disable")
    BY <1>0, <1>1 DEF SweepType
  <1> QED
    BY <1>1, <1>2

LEMMA LoadedStep ==
  ASSUME IInv, LoadedInv, UsersStay, SweepTurn, \A p \in PaymentIds : TodoTurn(p)
  PROVE  LoadedInv'
  <1>1. ASSUME NEW p \in PaymentIds
        PROVE  /\ \A d \in desk'[p].todo : d.user = payments'[p].tg_id
               /\ desk'[p].pc # "enable" => desk'[p].todo = {}
    <2>1. CASE desk'[p].todo = {}
      BY <2>1
    <2>2. CASE desk'[p].todo \subseteq desk[p].todo
               /\ (desk[p].pc = "enable" => desk'[p].pc = "enable")
      <3>1. desk[p].pc # "enable" => desk'[p].todo = {}
        BY <2>2 DEF LoadedInv
      <3>2. desk[p].pc = "enable" => payments'[p].tg_id = payments[p].tg_id
        BY OwnerStays
      <3> QED
        BY <2>2, <3>1, <3>2 DEF LoadedInv
    <2>3. CASE /\ desk[p].pc = "devices" /\ desk'[p].pc = "enable"
               /\ desk'[p].todo \subseteq GetUserDevices(payments[p].tg_id)
      BY <2>3, OwnerStays DEF GetUserDevices
    <2> QED
      BY <2>1, <2>2, <2>3 DEF TodoTurn
  <1>2. /\ \A d \in sweep'.todo : d.user = sweep'.user
        /\ sweep'.pc # "disable" => sweep'.todo = {}
        /\ sweep'.pc \in {"disable", "mark"} => sweep'.user \in Users
    <2>1. CASE sweep' = sweep
      BY <2>1 DEF LoadedInv
    <2>2. CASE SweepDisable
      <3>1. sweep.pc = "disable"
        BY <2>2 DEF SweepDisable
      <3> QED
        BY <2>2, <3>1, SweepDoes DEF LoadedInv
    <2>3. CASE SweepLoad
      BY <2>3, SweepLoads DEF GetUserDevices
    <2> QED
      BY <2>1, <2>2, <2>3 DEF SweepTurn, LoadedInv
  <1> QED
    BY <1>1, <1>2 DEF LoadedInv

-----------------------------------------------------------------------------
(* Who turns an access on *)

(* A renewal stays one: it leads to the credit, which is good for today.   *)
LEMMA RenewingStays ==
  ASSUME IInv, AheadInv, EndTurn, UsersStay, now' = now, NEW u \in Users, Renewing(u),
         [Ledger!LedgerNext]_(Ledger!ledgerVars)
  PROVE  Renewing(u)'
  <1>1. CASE users[u].sub_end >= now
    BY <1>1, EndsAhead DEF Renewing
  <1>2. ASSUME NEW p \in PaymentIds, payments[p].tg_id = u, payments[p].status = "approved",
               credits[p] = 0
        PROVE  Renewing(u)'
    <2>1. payments'[p].tg_id = u
      BY <1>2 DEF UsersStay
    <2>2. CASE credits'[p] = credits[p]
      <3>1. payments'[p].status = "approved"
        <4>1. Statuses[p] = "approved" /\ Statuses'[p] = payments'[p].status
          BY <1>2 DEF Statuses
        <4>2. CASE UNCHANGED Ledger!ledgerVars
          BY <4>1, <4>2 DEF Ledger!ledgerVars, Statuses
        <4>3. ASSUME NEW q \in PaymentIds, NEW from, NEW to, Ledger!Move(q, from, to),
                     from # "approved" \/ credits[q] = 1
              PROVE  payments'[p].status = "approved"
          <5>1. Statuses[q] = from /\ Statuses' = [Statuses EXCEPT ![q] = to]
            BY <4>3 DEF Ledger!Move, Statuses
          <5>2. p # q
            BY <1>2, <4>1, <4>3, <5>1
          <5> QED
            BY <4>1, <5>1, <5>2 DEF Statuses
        <4>4. CASE Ledger!Lapse
          <5>1. PICK S \in SUBSET {r \in PaymentIds : Statuses[r] = "pending"} :
                  Statuses' = [r \in PaymentIds |-> IF r \in S THEN "expired" ELSE Statuses[r]]
            BY <4>4 DEF Ledger!Lapse, Statuses
          <5> QED
            BY <4>1, <5>1
        <4>5. ASSUME NEW q \in PaymentIds, Ledger!Credit(q) PROVE payments'[p].status = "approved"
          <5>1. Statuses' = Statuses
            BY <4>5 DEF Ledger!Credit, Statuses
          <5> QED
            BY <4>1, <5>1
        <4>6. CASE Ledger!LedgerNext
          BY <4>3, <4>4, <4>5, <4>6 DEF Ledger!LedgerNext, Ledger!Open, Ledger!Decide,
             Ledger!Degrade, Ledger!Complete
        <4> QED
          BY <4>2, <4>6
      <3> QED
        BY <1>2, <2>1, <2>2, <3>1 DEF Renewing
    <2>3. CASE desk[p].pc = "write" /\ users'[u].sub_end = desk[p].end
      <3>1. desk[p].end \in Nat /\ now \in Nat /\ desk[p].end > now
        BY <2>3, NodeTypes DEF DeskType, DeskRec, AheadInv, IInv, TypeOK, StoreTypeOK
      <3>2. users'[u].sub_end >= now
        BY <2>3, <3>1
      <3> QED
        BY <3>2 DEF Renewing
    <2> QED
      BY <1>2, <2>2, <2>3 DEF EndTurn
  <1> QED
    BY <1>1, <1>2 DEF Renewing

(* Clients are changed by a renewal, by the expiry job, by a task and by a *)
(* purge.                                                                  *)
SwitchesTo(d, on) == clients' = [clients EXCEPT ![d.slot] = SwitchedTo(d.slot, d.pid, on)]
ClientTurn ==
  \/ clients' = clients
  \/ \E q \in PaymentIds :
       /\ desk[q].pc = "enable"
       /\ \E d \in desk[q].todo : SwitchesTo(d, TRUE)
  \/ \E d \in sweep.todo : SwitchesTo(d, FALSE)
  \/ \E p \in PaymentIds, s \in Slots : TaskStep(p, s)
  \/ PurgeRevoke

LEMMA TodoFirst ==
  ASSUME IInv, TodoInv
  PROVE  /\ \A p \in PaymentIds : desk[p].pc = "enable" => FirstRow(desk[p].todo) \in desk[p].todo
         /\ sweep.pc = "disable" => FirstRow(sweep.todo) \in sweep.todo
  <1>1. \A p \in PaymentIds : desk[p].todo \in SUBSET DeviceRow
    BY NodeTypes DEF DeskType, DeskRec
  <1> QED
    BY <1>1, FirstRowIn, NodeTypes DEF TodoInv

LEMMA ClientTurns ==
  ASSUME IInv, NodeInv, TodoInv, [Next]_vars
  PROVE  ClientTurn
  <1>1. ASSUME NEW p \in PaymentIds, EnableNext(p) PROVE ClientTurn
    <2>1. PICK d : d = FirstRow(desk[p].todo)
      OBVIOUS
    <2>2. desk[p].pc = "enable" /\ d \in desk[p].todo
      BY <1>1, <2>1, TodoFirst DEF EnableNext
    <2>3. clients' = clients \/ SwitchesTo(d, TRUE)
      BY <1>1, <2>1 DEF EnableNext, Answered, NotAnswered, SwitchesTo
    <2> QED
      BY <2>2, <2>3 DEF ClientTurn
  <1>2. CASE SweepDisable
    <2>1. PICK d : d = FirstRow(sweep.todo)
      OBVIOUS
    <2>2. d \in sweep.todo
      BY <1>2, <2>1, TodoFirst DEF SweepDisable
    <2>3. clients' = clients \/ SwitchesTo(d, FALSE)
      BY <1>2, <2>1 DEF SweepDisable, Answered, NotAnswered, SwitchesTo
    <2> QED
      BY <2>2, <2>3 DEF ClientTurn
  <1>3. CASE PurgeRevoke \/ Tasks
    BY <1>3 DEF ClientTurn, Tasks
  <1>4. CASE (DeskNext /\ ~ \E p \in PaymentIds : EnableNext(p))
    <2>1. clients' = clients
      BY <1>4 DEF DeskNext, BuyCheck, BuyShow, LeaveMenu, ReceiptArrives, ReceiptNext, ReceiptCheck,
         ReceiptCreate, ReceiptClear, ReceiptNotify, ReceiptEscapes, ApproveClaim, RejectPayment,
         HandlerEscapes, ApproveStep, LoadDevices, ReadSubscription, CreditSubscription,
         SendRenewed, SendConfirmed, ProvisionOver, MarkPartial, nodeVars
    <2> QED
      BY <2>1 DEF ClientTurn
  <1>5. CASE JobsNext /\ ~SweepDisable /\ ~PurgeRevoke
    <2>1. clients' = clients
      BY <1>5 DEF JobsNext, SweepNext, SweepStart, SweepLoad, SweepMark, SweepNotify, SweepEscapes,
         PurgeNext, PurgeStart, PurgeDelete, ResumeStep, ResumeStart, ResumeLoad, ResumeSettle,
         ResumeApprove, ResumeNotify, ResumeFails, ExpirePending, nodeVars
    <2> QED
      BY <2>1 DEF ClientTurn
  <1>6. CASE Tick \/ Restart \/ UNCHANGED vars
    BY <1>6 DEF Tick, Restart, ProvisionerRestart, vars, nodeVars, ClientTurn
  <1> QED
    BY <1>1, <1>2, <1>3, <1>4, <1>5, <1>6 DEF Next

(* What a switch does to the clients of a row: it leaves them alone, or    *)
(* the row is the one that is switched.                                    *)
LEMMA SwitchedRow ==
  ASSUME IInv, NodeInv, NEW e \in Known, NEW on \in BOOLEAN, SwitchesTo(e, on),
         NEW d \in devices, On(d)'
  PROVE  On(d) \/ (d = e /\ on)
  <1>0. /\ clients \in ClientsType /\ d.slot \in Slots
        /\ e.slot \in Slots
    <2>1. Known \subseteq DeviceRow
      <3>1. \A p \in PaymentIds : desk[p].todo \subseteq DeviceRow
        BY NodeTypes DEF DeskType, DeskRec
      <3> QED
        BY <3>1, NodeTypes DEF Known
    <2> QED
      BY <2>1, NodeTypes DEF DeviceRow
  <1>1. PICK c \in clients'[d.slot] : c.pid = d.pid /\ c.on
    BY DEF On, Client
  <1>2. CASE e.slot # d.slot
    <2>1. clients'[d.slot] = clients[d.slot]
      BY <1>0, <1>2 DEF SwitchesTo, ClientsType
    <2> QED
      BY <1>1, <2>1 DEF On, Client
  <1>3. CASE e.slot = d.slot
    <2>1. clients'[d.slot] = SwitchedTo(d.slot, e.pid, on)
      BY <1>0, <1>3 DEF SwitchesTo, ClientsType
    <2>2. PICK f \in clients[d.slot] :
            c.pid = f.pid /\ c = IF f.pid = e.pid THEN [f EXCEPT !.on = on] ELSE f
      BY <1>0, <1>1, <2>1, Switched
    <2>3. CASE f.pid # e.pid
      BY <1>1, <2>2, <2>3 DEF On, Client
    <2>4. CASE f.pid = e.pid
      <3>1. c.on = on
        <4>1. f \in ClientRec
          BY <1>0 DEF ClientsType
        <4> QED
          BY <2>2, <2>4, <4>1 DEF ClientRec
      <3>2. e \in devices
        BY <1>3, <2>2, <2>4 DEF NodeInv, KnownInv, Client
      <3>3. d = e
        BY <1>1, <1>3, <2>2, <2>4, <3>2, RowAlone
      <3> QED
        BY <1>1, <3>1, <3>3
    <2> QED
      BY <2>3, <2>4
  <1> QED
    BY <1>2, <1>3

(* Only a renewal turns an access on that was off. *)
LEMMA OnTurns ==
  ASSUME IInv, NodeInv, ClientTurn, NEW d \in devices, On(d)', ~On(d)
  PROVE  \E q \in PaymentIds : desk[q].pc = "enable" /\ d \in desk[q].todo
  <1>0. /\ clients \in ClientsType /\ d.slot \in Slots /\ d.pid \in 1 .. lastPid[d.slot]
        /\ lastPid[d.slot] \in Nat
    BY NodeTypes, RowAlone DEF DeviceRow
  <1>1. PICK c \in clients'[d.slot] : c.pid = d.pid /\ c.on
    BY DEF On, Client
  <1>2. c \notin clients[d.slot]
    BY <1>1 DEF On, Client
  <1>3. ASSUME NEW q \in PaymentIds, desk[q].pc = "enable", NEW e \in desk[q].todo,
               SwitchesTo(e, TRUE)
        PROVE  d \in desk[q].todo
    <2>1. e \in Known
      BY DEF Known
    <2> QED
      BY <1>3, <2>1, SwitchedRow
  <1>4. ASSUME NEW e \in sweep.todo, SwitchesTo(e, FALSE) PROVE FALSE
    <2>1. e \in Known
      BY DEF Known
    <2> QED
      BY <1>4, <2>1, SwitchedRow
  <1>5. ASSUME NEW p \in PaymentIds, NEW s \in Slots, TaskStep(p, s) PROVE FALSE
    <2>1. PICK t \in TaskRec : Moves(p, s, t)
      BY <1>5, TaskMoves
    <2>2. CASE Looks(p, s, t) \/ Stores(p, s, t)
      BY <1>1, <1>2, <2>2 DEF Looks, Stores, NodesRest
    <2>3. CASE Creates(p, s, t)
      <3>1. c = NewClient(p, s) /\ s = d.slot
        BY <1>0, <1>1, <1>2, <2>3 DEF Creates, Create, ClientsType
      <3>2. c.pid = lastPid[d.slot] + 1
        BY <3>1 DEF NewClient
      <3> QED
        BY <1>0, <1>1, <3>2
    <2>4. CASE Removes(p, s, t)
      <3>1. clients'[d.slot] \subseteq clients[d.slot]
        BY <1>0, <2>4 DEF Removes, Without, ClientsType
      <3> QED
        BY <1>1, <1>2, <3>1
    <2> QED
      BY <2>1, <2>2, <2>3, <2>4 DEF Moves
  <1>6. CASE PurgeRevoke
    <2>1. PICK e : \/ clients' = clients
                   \/ clients' = [clients EXCEPT ![e.slot] = Without(e.slot, e.pid)]
      BY <1>6 DEF PurgeRevoke, Answered, NotAnswered
    <2>2. clients'[d.slot] \subseteq clients[d.slot]
      BY <1>0, <2>1 DEF Without, ClientsType
    <2> QED
      BY <1>1, <1>2, <2>2
  <1>7. CASE clients' = clients
    BY <1>1, <1>2, <1>7
  <1> QED
    BY <1>3, <1>4, <1>5, <1>6, <1>7 DEF ClientTurn

-----------------------------------------------------------------------------
(* What the expiry job leaves on *)

(* The accesses of u that the job has behind it and that are on, and those *)
(* a retry may add: together no more than the calls that failed.           *)
Left(u) == {d \in GetUserDevices(u) : On(d) /\ d \notin sweep.todo}
Due(u) == IF Queued(u) THEN Miss(u) ELSE {}
SealInv ==
  restarts = 0 /\ Unpurged /\ sweep.pc \in {"disable", "mark"} /\ ~Renewing(sweep.user) =>
    Cardinality(Left(sweep.user)) + Cardinality(Due(sweep.user)) <= faults

LEMMA DueAtMost ==
  ASSUME restarts = 0, Unpurged, MissInv, faults \in Nat, NEW u
  PROVE  AtMost(Due(u), faults)
  <1>1. CASE Queued(u)
    <2>1. PICK p \in PaymentIds : payments[p].status = "partial" /\ payments[p].tg_id = u
      BY <1>1 DEF Queued, GetPartialPayments
    <2> QED
      BY <1>1, <2>1 DEF MissInv, Due
  <1>2. CASE ~Queued(u)
    BY <1>2, FS_EmptySet DEF Due, AtMost
  <1> QED
    BY <1>1, <1>2

LEMMA LeftFinite ==
  ASSUME NodeInv, NEW u
  PROVE  IsFiniteSet(Left(u))
  <1>1. Left(u) \subseteq devices /\ IsFiniteSet(devices)
    BY DEF Left, GetUserDevices, NodeInv, RowInv
  <1> QED
    BY <1>1, FS_Subset

(* Only a bundle just paid for comes into the queue, and rows only come.   *)
LEMMA DueFewer ==
  ASSUME IInv, AheadInv, UsersStay, StatusTurn, devices \subseteq devices', mounted' = mounted,
         NEW u \in Users, ~Renewing(u), \A p \in PaymentIds : Turn(p)
  PROVE  /\ Due(u)' \subseteq Due(u)
         /\ Due(u)' \subseteq Miss(u)'
  <1>1. Miss(u)' \subseteq Miss(u)
    BY MissFewer
  <1>2. ASSUME Queued(u)' PROVE Queued(u)
    <2>1. PICK p \in PaymentIds : payments'[p].status = "partial" /\ payments'[p].tg_id = u
      BY <1>2 DEF Queued, GetPartialPayments
    <2>2. CASE payments[p].status = "partial"
      BY <2>1, <2>2 DEF UsersStay, Queued, GetPartialPayments
    <2>3. CASE desk[p].pc = "degrade"
      <3>1. payments[p].tg_id = u
        BY <2>1, <2>3, OwnerStays
      <3>2. users[u].sub_end > now /\ users[u].sub_end \in Nat /\ now \in Nat
        BY <2>3, <3>1 DEF AheadInv, Paid, IInv, TypeOK, StoreTypeOK
      <3>3. users[u].sub_end >= now
        BY <3>2
      <3> QED
        BY <3>3 DEF Renewing
    <2> QED
      BY <2>1, <2>2, <2>3 DEF StatusTurn
  <1> QED
    BY <1>1, <1>2 DEF Due

(* An access of a user nobody renews is not turned on. *)
LEMMA StaysOff ==
  ASSUME IInv, NodeInv, LoadedInv, ClientTurn, NEW u, ~Renewing(u), NEW d \in devices, d.user = u,
         On(d)'
  PROVE  On(d)
  <1> SUFFICES ASSUME ~On(d) PROVE FALSE
    OBVIOUS
  <1>1. PICK q \in PaymentIds : desk[q].pc = "enable" /\ d \in desk[q].todo
    BY OnTurns
  <1>2. payments[q].tg_id = u
    BY <1>1 DEF LoadedInv
  <1>3. payments[q].status = "approved" /\ credits[q] = 0
    BY <1>1 DEF IInv, LedgerInv, Stage, Unpaid
  <1> QED
    BY <1>2, <1>3 DEF Renewing

LEMMA SwitchedOff ==
  ASSUME IInv, NEW d \in devices, SwitchesTo(d, FALSE)
  PROVE  ~On(d)'
  <1>0. clients \in ClientsType /\ d.slot \in Slots
    BY NodeTypes DEF DeviceRow
  <1>1. PICK i, on : i = d.pid /\ on = FALSE /\ clients'[d.slot] = SwitchedTo(d.slot, i, on)
    BY <1>0 DEF SwitchesTo, ClientsType
  <1>2. ASSUME NEW c \in clients'[d.slot], c.pid = d.pid PROVE ~c.on
    <2>1. PICK e \in clients[d.slot] :
            c.pid = e.pid /\ c = IF e.pid = i THEN [e EXCEPT !.on = on] ELSE e
      BY <1>0, <1>1, Switched
    <2>2. e \in ClientRec
      BY <1>0 DEF ClientsType
    <2> QED
      BY <1>1, <1>2, <2>1, <2>2 DEF ClientRec
  <1> QED
    BY <1>2 DEF On, Client

(* Somebody else's step, or the job's about another user. *)
LEMMA SealOther ==
  ASSUME IInv, NodeInv, Kinds, LoadedInv, AheadInv, MountedInv, MissInv, SealInv, LoneInv,
         PartialInv, UsersStay, StatusTurn, ClientTurn, \A p \in PaymentIds : Turn(p),
         restarts = 0, Unpurged, Unpurged', mounted' = mounted, devices \subseteq devices',
         faults \in Nat, faults' \in Nat, faults <= faults',
         sweep' = sweep, sweep.pc \in {"disable", "mark"}, ~Renewing(sweep.user)
  PROVE  Cardinality(Left(sweep.user)') + Cardinality(Due(sweep.user)') <= faults'
  <1>0. PICK u \in Users : u = sweep.user
    BY DEF LoadedInv
  <1>1. /\ Cardinality(Left(u)) + Cardinality(Due(u)) <= faults
        /\ IsFiniteSet(Left(u)) /\ IsFiniteSet(Due(u))
    BY <1>0, LeftFinite, DueAtMost DEF SealInv, AtMost
  <1>2. ~Renewing(u)
    BY <1>0
  <1>3. Due(u)' \subseteq Due(u) /\ Due(u)' \subseteq Miss(u)'
    BY <1>2, DueFewer
  <1>4. ASSUME NEW d \in Left(u)', d \in devices PROVE d \in Left(u)
    <2>1. d.user = u /\ On(d)' /\ d \notin sweep.todo
      BY <1>4 DEF Left, GetUserDevices
    <2>2. On(d)
      BY <1>2, <1>4, <2>1, StaysOff
    <2> QED
      BY <1>4, <2>1, <2>2 DEF Left, GetUserDevices
  <1>5. ASSUME Left(u)' \subseteq Left(u)
        PROVE  Cardinality(Left(u)') + Cardinality(Due(u)') <= faults'
    BY <1>1, <1>3, <1>5, SumFewer
  <1>6. CASE RowsShrink
    <2>1. Left(u)' \subseteq devices
      BY <1>6 DEF RowsShrink, Left, GetUserDevices
    <2> QED
      BY <1>0, <1>4, <1>5, <2>1
  <1>7. ASSUME NEW q \in PaymentIds, NEW s \in Slots, Stored(q, s)
        PROVE  Cardinality(Left(u)') + Cardinality(Due(u)') <= faults'
    <2>1. PICK n : /\ n.user = payments[q].tg_id /\ n.slot = s
                   /\ devices' = devices \cup {n}
      BY <1>7 DEF Stored, AddDevice
    <2>2. Left(u)' \subseteq Left(u) \cup {n}
      <3>1. \A d \in Left(u)' : d \in devices \/ d = n
        BY <2>1 DEF Left, GetUserDevices
      <3> QED
        BY <1>4, <3>1
    <2>3. CASE payments[q].tg_id # u
      <3>1. n \notin Left(u)'
        BY <2>1, <2>3 DEF Left, GetUserDevices
      <3>2. Left(u)' \subseteq Left(u)
        BY <2>2, <3>1
      <3> QED
        BY <1>5, <3>2
    <2>4. CASE payments[q].tg_id = u
      <3>1. Runs(q)
        BY <1>7 DEF Stored, NodeInv, TaskOwner
      <3>2. users[u].sub_end \in Nat /\ now \in Nat /\ ~(users[u].sub_end >= now)
        BY <1>2 DEF Renewing, IInv, TypeOK, StoreTypeOK
      <3>3. desk[q].pc # "provision"
        BY <2>4, <3>2 DEF AheadInv, Paid
      <3>4. resume.pc = "run" /\ resume.pay = q
        BY <3>1, <3>3 DEF Runs
      <3>5. ~HasRow(u, s)
        BY <1>7, <2>4, <3>2, <3>4 DEF LoneInv, Stored
      <3>6. s \in Miss(u)
        <4>1. HasProvider(s)
          BY <1>7 DEF Stored, MountedInv
        <4> QED
          BY <3>5, <4>1 DEF Miss, BundleSlots
      <3>7. s \in Due(u)
        <4>1. Queued(u)
          BY <2>4, <3>4 DEF PartialInv, Queued, GetPartialPayments
        <4> QED
          BY <3>6, <4>1 DEF Due
      <3>8. s \notin Miss(u)'
        BY <1>7, <2>4, StoredRow DEF Miss
      <3>9. Due(u)' \subseteq Due(u) \ {s}
        BY <1>3, <3>8
      <3> HIDE DEF Left, Due
      <3> QED
        BY <1>1, <2>2, <3>7, <3>9, SumMoved
    <2> QED
      BY <2>3, <2>4
  <1> QED
    BY <1>0, <1>6, <1>7, RowsChange

(* The job's own step: a call that fails leaves one more access on. *)
LEMMA SealDisable ==
  ASSUME IInv, NodeInv, TodoInv, LoadedInv, AheadInv, MountedInv, MissInv, SealInv,
         UsersStay, StatusTurn, ClientTurn, \A p \in PaymentIds : Turn(p),
         restarts = 0, Unpurged, mounted' = mounted,
         faults \in Nat, faults' \in Nat, faults <= faults', SweepDisable, ~Renewing(sweep.user)
  PROVE  Cardinality(Left(sweep.user)') + Cardinality(Due(sweep.user)') <= faults'
  <1>0. PICK u \in Users : u = sweep.user
    BY DEF LoadedInv, SweepDisable
  <1>1. /\ Cardinality(Left(u)) + Cardinality(Due(u)) <= faults
        /\ IsFiniteSet(Left(u)) /\ IsFiniteSet(Due(u))
    BY <1>0, LeftFinite, DueAtMost DEF SealInv, AtMost, SweepDisable
  <1>2. ~Renewing(u) /\ devices' = devices /\ sweep'.user = u
    BY <1>0, SweepDoes DEF SweepDisable, storeVars
  <1>3. Due(u)' \subseteq Due(u)
    BY <1>2, DueFewer
  <1>4. PICK f : f = FirstRow(sweep.todo)
    OBVIOUS
  <1>5. sweep'.todo = sweep.todo \ {f}
    BY <1>4, SweepDoes
  <1>6. ASSUME NEW d \in Left(u)', d # f PROVE d \in Left(u)
    <2>1. d.user = u /\ On(d)' /\ d \notin sweep.todo /\ d \in devices
      BY <1>2, <1>5, <1>6 DEF Left, GetUserDevices
    <2>2. On(d)
      BY <1>2, <2>1, StaysOff
    <2> QED
      BY <2>1, <2>2 DEF Left, GetUserDevices
  <1>7. CASE f \notin Left(u)'
    <2>1. Left(u)' \subseteq Left(u)
      BY <1>6, <1>7
    <2>2. Cardinality(Left(u)') + Cardinality(Due(u)') <= faults'
      BY <1>1, <1>3, <2>1, SumFewer
    <2> QED
      BY <1>0, <1>2, <2>2
  <1>8. CASE f \in Left(u)'
    <2>1. f \in devices /\ f.user = u /\ On(f)'
      BY <1>2, <1>8 DEF Left, GetUserDevices
    <2>2. HasProvider(f.slot) /\ On(f)
      BY <1>2, <2>1, StaysOff DEF MountedInv
    <2>3. Client(f.slot, f.pid) # {}
      BY <2>2 DEF On
    <2>4. ~SwitchesTo(f, FALSE)
      BY <2>1, SwitchedOff
    <2>5. faults' = faults + 1
      BY <1>4, <2>2, <2>3, <2>4 DEF SweepDisable, Answered, NotAnswered, Fault, SwitchesTo
    <2>6. Left(u)' \subseteq Left(u) \cup {f}
      BY <1>6
    <2>7. Cardinality(Left(u)') + Cardinality(Due(u)') <= faults + 1
      BY <1>1, <1>3, <2>6, SumOneMore
    <2> QED
      BY <1>0, <1>2, <2>5, <2>7
  <1> QED
    BY <1>7, <1>8

(* The job begins with the next user: none of their accesses is behind it. *)
LEMMA SealLoad ==
  ASSUME IInv, restarts' = 0, Unpurged', MissInv', faults' \in Nat, SweepLoad
  PROVE  Cardinality(Left(sweep.user)') + Cardinality(Due(sweep.user)') <= faults'
  <1>0. PICK u : u = sweep'.user
    OBVIOUS
  <1>1. AtMost(Due(u)', faults')
    <2>1. CASE Queued(u)'
      <3>1. PICK p \in PaymentIds : payments'[p].status = "partial" /\ payments'[p].tg_id = u
        BY <2>1 DEF Queued, GetPartialPayments
      <3> QED
        BY <2>1, <3>1 DEF MissInv, Due
    <2>2. CASE ~Queued(u)'
      BY <2>2, FS_EmptySet DEF Due, AtMost
    <2> QED
      BY <2>1, <2>2
  <1>2. Left(u)' = {}
    <2>1. sweep'.todo = GetUserDevices(u) /\ devices' = devices
      BY <1>0, SweepLoads DEF SweepLoad, storeVars
    <2> QED
      BY <2>1 DEF Left, GetUserDevices
  <1>3. Cardinality(Left(u)') = 0
    BY <1>2, FS_EmptySet
  <1>4. Cardinality(Due(u)') \in Nat /\ Cardinality(Due(u)') <= faults'
    BY <1>1, FS_CardinalityType DEF AtMost
  <1> QED
    BY <1>0, <1>3, <1>4

LEMMA SealStep ==
  ASSUME IInv, NodeInv, TodoInv, LoadedInv, AheadInv, MountedInv, MissInv, MissInv', SealInv,
         LoneInv, PartialInv, Kinds, UsersStay, StatusTurn, ClientTurn, SweepTurn, MountTurn,
         ClockTurn, EndTurn, \A p \in PaymentIds : Turn(p),
         [Ledger!LedgerNext]_(Ledger!ledgerVars),
         faults \in Nat, faults' \in Nat, faults <= faults'
  PROVE  SealInv'
  <1> SUFFICES ASSUME restarts' = 0, Unpurged', sweep'.pc \in {"disable", "mark"},
                      ~Renewing(sweep.user)'
               PROVE  Cardinality(Left(sweep.user)') + Cardinality(Due(sweep.user)') <= faults'
    BY DEF SealInv
  <1>1. /\ restarts = 0 /\ mounted' = mounted
        /\ Unpurged /\ devices \subseteq devices'
    BY NoRestart, RowsStay
  <1>2. now' = now
    BY DEF ClockTurn, NoSweep
  <1>3. ASSUME sweep'.user = sweep.user, sweep.pc \in {"disable", "mark"}
        PROVE  ~Renewing(sweep.user)
    <2>1. PICK u \in Users : u = sweep.user
      BY <1>3 DEF LoadedInv
    <2>2. ~Renewing(u)'
      BY <1>3, <2>1 DEF Renewing
    <2> QED
      BY <1>2, <2>1, <2>2, RenewingStays
  <1>4. CASE sweep' = sweep
    <2>1. sweep.pc \in {"disable", "mark"} /\ ~Renewing(sweep.user)
      BY <1>3, <1>4
    <2>2. Cardinality(Left(sweep.user)') + Cardinality(Due(sweep.user)') <= faults'
      BY <1>1, <1>4, <2>1, SealOther
    <2> QED
      BY <2>2
  <1>5. CASE SweepDisable
    <2>1. sweep.pc = "disable" /\ sweep'.user = sweep.user
      BY <1>5, SweepDoes DEF SweepDisable
    <2> QED
      BY <1>1, <1>3, <1>5, <2>1, SealDisable
  <1>6. CASE SweepLoad
    BY <1>6, SealLoad
  <1> QED
    BY <1>4, <1>5, <1>6 DEF SweepTurn

-----------------------------------------------------------------------------
(* All of it, from the start and with every step *)

SealIInv ==
  FailInv /\ AheadInv /\ MountedInv /\ LoneInv /\ MissInv /\ PartialInv /\ LoadedInv /\ SealInv

LEMMA InitSeal == Init => SealIInv
  <1> SUFFICES ASSUME Init PROVE SealIInv
    OBVIOUS
  <1>1. /\ devices = {} /\ sweep = NoSweep /\ resume = NoResume
        /\ desk = [p \in PaymentIds |-> NoHandler] /\ payments = [p \in PaymentIds |-> NoPayment]
        /\ task = [p \in PaymentIds |-> [s \in Slots |-> Off]]
    BY DEF Init, StoreInit, ProvisionerInit, DeskInit, JobsInit
  <1>2. \A p \in PaymentIds : /\ desk[p].pc = "idle" /\ desk[p].todo = {}
                              /\ payments[p].status = "none"
    BY <1>1 DEF NoHandler, NoPayment
  <1>3. \A p \in PaymentIds, s \in Slots : task[p][s].pc = "off"
    BY <1>1 DEF Off
  <1>4. /\ sweep.pc = "idle" /\ sweep.todo = {}
        /\ resume.pc = "idle" /\ resume.queue = {}
    BY <1>1 DEF NoSweep, NoResume
  <1>5. AheadInv /\ MountedInv /\ LoneInv /\ MissInv /\ PartialInv /\ LoadedInv /\ SealInv
    BY <1>1, <1>2, <1>3, <1>4 DEF AheadInv, Paid, MountedInv, LoneInv, MissInv, PartialInv,
       LoadedInv, SealInv
  <1>6. FailInv
    <2> SUFFICES ASSUME NEW p \in PaymentIds PROVE AtMost({s \in Slots : Fails(p, s)}, faults)
      BY DEF FailInv
    <2>1. {s \in Slots : Fails(p, s)} = {}
      BY <1>3 DEF Fails
    <2>2. faults \in Nat
      BY InitIInv, NodeTypes
    <2> QED
      BY <2>1, <2>2, FS_EmptySet DEF AtMost
  <1> QED
    BY <1>5, <1>6 DEF SealIInv

LEMMA NextSeal ==
  IInv /\ TodoInv /\ NodeInv /\ ServeInv /\ SealIInv /\ [Next]_vars => SealIInv'
  <1> SUFFICES ASSUME IInv, TodoInv, NodeInv, ServeInv, SealIInv, [Next]_vars PROVE SealIInv'
    OBVIOUS
  <1>1. /\ Kinds /\ UsersStay /\ \A p \in PaymentIds : Turn(p)
        /\ ResumeTurn /\ StatusTurn /\ MountTurn
    BY KindsAlways, UsersStayAlways, Turns, ResumeTurns, StatusTurns, MountTurns
  <1>2. /\ EndTurn /\ ClockTurn /\ SweepTurn /\ ClientTurn
        /\ \A p \in PaymentIds : TodoTurn(p)
    BY EndTurns, ClockTurns, SweepTurns, ClientTurns, TodoTurns
  <1>3. faults \in Nat /\ faults' \in Nat /\ faults <= faults'
    BY FaultsOnward
  <1>4. [Ledger!LedgerNext]_(Ledger!ledgerVars)
    BY StepsImplement
  <1>5. /\ FailInv /\ AheadInv /\ MountedInv /\ LoneInv /\ MissInv /\ PartialInv /\ LoadedInv
        /\ SealInv
    BY DEF SealIInv
  <1>6. FailInv'
    BY <1>1, <1>3, <1>5, FailStep
  <1>7. AheadInv' /\ LoadedInv' /\ PartialInv'
    BY <1>1, <1>2, <1>5, AheadStep, LoadedStep, PartialStep
  <1>8. MountedInv' /\ LoneInv'
    BY <1>1, <1>2, <1>5, MountedStep, LoneInvStep
  <1>9. MissInv'
    BY <1>1, <1>3, <1>5, MissStep
  <1>10. SealInv'
    BY <1>1, <1>2, <1>3, <1>4, <1>5, <1>9, SealStep
  <1> QED
    BY <1>6, <1>7, <1>8, <1>9, <1>10 DEF SealIInv

LEMMA AlwaysSeal == Spec => [](IInv /\ NodeInv /\ SealIInv)
  <1>1. Init => ServeInv /\ SealIInv
    BY InitServe, InitSeal
  <1>2. IInv /\ TodoInv /\ NodeInv /\ ServeInv /\ SealIInv /\ [Next]_vars => (ServeInv /\ SealIInv)'
    BY NextServe, NextSeal
  <1> QED
    BY <1>1, <1>2, AlwaysNodeInv, PTL DEF Spec

(* For any users, payments, nodes and jobs, and wherever the handlers, the *)
(* retry job and exceptions come in between: while no process has died and *)
(* no access was purged, check_expired marks a user whom no renewal is     *)
(* overtaking with no more accesses enabled than calls have failed.        *)
THEOREM SealOnMarkAlways == Spec => SealOnMark
  <1>1. IInv /\ NodeInv /\ SealIInv =>
          (sweep.pc = "mark" /\ users'[sweep.user].status = "expired"
           /\ restarts = 0 /\ Unpurged /\ ~Renewing(sweep.user)
             => Cardinality({d \in GetUserDevices(sweep.user) : On(d)}) <= faults)
    <2> SUFFICES ASSUME IInv, NodeInv, SealIInv, sweep.pc = "mark", restarts = 0, Unpurged,
                        ~Renewing(sweep.user)
                 PROVE  Cardinality({d \in GetUserDevices(sweep.user) : On(d)}) <= faults
      OBVIOUS
    <2>0. PICK u : u = sweep.user
      OBVIOUS
    <2>1. faults \in Nat /\ Cardinality(Left(u)) + Cardinality(Due(u)) <= faults
      BY <2>0, NodeTypes DEF SealIInv, SealInv
    <2>2. /\ Cardinality(Left(u)) \in Nat
          /\ Cardinality(Due(u)) \in Nat
      BY <2>1, LeftFinite, DueAtMost, FS_CardinalityType DEF SealIInv, AtMost
    <2>3. Left(u) = {d \in GetUserDevices(u) : On(d)}
      BY DEF Left, SealIInv, LoadedInv
    <2>4. Cardinality(Left(u)) <= faults
      BY <2>1, <2>2
    <2> QED
      BY <2>0, <2>3, <2>4
  <1> QED
    BY <1>1, AlwaysSeal, PTL DEF SealOnMark
=============================================================================
