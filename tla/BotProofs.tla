----------------------------- MODULE BotProofs -----------------------------
(***************************************************************************)
(* What holds of the bot for any users, nodes, payments and bounds: types, *)
(* that the payment desk with its jobs implements PaymentLedger, and that  *)
(* a second request of a user takes two photos between check and request.  *)
(***************************************************************************)
EXTENDS Bot, FiniteSetTheorems, TLAPS

(* Rows and handlers belong to somebody. *)
OwnerInv ==
  /\ \A p \in PaymentIds : payments[p].status # "none" => payments[p].tg_id \in Users
  /\ \A m \in Msgs : /\ receipt[m].pc # "idle" => receipt[m].user \in Users
                     /\ receipt[m].pc = "notify" => receipt[m].pay # 0

Undecided == {"none", "pending", "rejected", "expired"}
Unpaid == {"devices", "enable", "read", "write"}
Paid == {"renewed", "confirm", "provision", "degrade"}

(* Where payment p stands, by its row and by the handler that claimed it:  *)
(* nobody has claimed an undecided one, the handler before the credit and  *)
(* the one after it both hold an approved one, and a partial one has been  *)
(* credited by a handler that is done.                                     *)
Stage(p) ==
  /\ credits[p] \in {0, 1}
  /\ payments[p].status \in Undecided => desk[p].pc = "idle" /\ credits[p] = 0
  /\ desk[p].pc \in Unpaid => payments[p].status = "approved" /\ credits[p] = 0
  /\ desk[p].pc \in Paid => payments[p].status = "approved" /\ credits[p] = 1
  /\ payments[p].status = "partial" => desk[p].pc = "done" /\ credits[p] = 1

Settled(p) ==
  payments[p].status \in {"partial", "approved"} /\ desk[p].pc = "done" /\ credits[p] = 1

(* job_partial_provision works on payments that are paid for, whoever else *)
(* is running.                                                             *)
ResumeInv ==
  /\ \A p \in resume.queue : Settled(p)
  /\ resume.pay # 0 => Settled(resume.pay)
  /\ resume.pc \in {"run", "approve", "notify"} => resume.pay # 0

(* Accesses are created for decided payments only. *)
TaskInv ==
  \A p \in PaymentIds, s \in Slots :
    task[p][s].pc # "off" => payments[p].status \in {"approved", "partial"}

LedgerInv == (\A p \in PaymentIds : Stage(p)) /\ ResumeInv

IInv == TypeOK /\ OwnerInv /\ LedgerInv /\ TaskInv

-----------------------------------------------------------------------------
(* Nodes and tasks *)

TaskRec == [pc : TaskPC, left : Nat, pid : Nat]
TaskType == [PaymentIds -> [Slots -> TaskRec]]
ClientRec == [pid : Nat, name : PaymentIds, on : BOOLEAN]
ClientsType == [Slots -> SUBSET ClientRec]

(* A step of the task of p and s starts no task. *)
OnlyTask(p, s) ==
  \A q \in PaymentIds, r \in Slots :
    task'[q][r].pc # "off" => task[q][r].pc # "off" \/ (q = p /\ r = s)

(* Assigning one task keeps the types and starts no other. *)
LEMMA AssignTask ==
  ASSUME task \in TaskType, NEW p \in PaymentIds, NEW s \in Slots, NEW t \in TaskRec,
         task' = [task EXCEPT ![p][s] = t]
  PROVE  task' \in TaskType /\ OnlyTask(p, s)
  <1>1. task' \in TaskType
    BY DEF TaskType
  <1>2. \A q \in PaymentIds, r \in Slots : q # p \/ r # s => task'[q][r] = task[q][r]
    BY DEF TaskType
  <1> QED
    BY <1>1, <1>2 DEF OnlyTask

LEMMA GotoTask ==
  ASSUME task \in TaskType, NEW p \in PaymentIds, NEW s \in Slots,
         NEW pc \in TaskPC, NEW pid \in Nat, Goto(p, s, pc, pid)
  PROVE  task' \in TaskType /\ OnlyTask(p, s)
  <1>1. [pc |-> pc, left |-> task[p][s].left, pid |-> pid] \in TaskRec
    BY DEF TaskType, TaskRec
  <1> QED
    BY <1>1, AssignTask DEF Goto

LEMMA FailTask ==
  ASSUME task \in TaskType, NEW p \in PaymentIds, NEW s \in Slots, AttemptFailed(p, s)
  PROVE  task' \in TaskType /\ OnlyTask(p, s)
  <1> DEFINE t == IF task[p][s].left > 1
                    THEN [pc |-> FirstCall(s), left |-> task[p][s].left - 1, pid |-> 0]
                    ELSE [pc |-> "fail", left |-> 0, pid |-> 0]
  <1>1. t \in TaskRec
    BY DEF TaskType, TaskRec, TaskPC, FirstCall
  <1> HIDE DEF t
  <1>2. task' = [task EXCEPT ![p][s] = t]
    BY DEF AttemptFailed, t
  <1> QED
    BY <1>1, <1>2, AssignTask

(* The tasks of one payment start together, or are put away. *)
LEMMA StartTask ==
  ASSUME task \in TaskType, NEW p \in PaymentIds, NEW S \in SUBSET Slots,
         NEW attempts \in Nat, StartTasks(p, S, attempts)
  PROVE  /\ task' \in TaskType
         /\ \A q \in PaymentIds : q # p => task'[q] = task[q]
         /\ S = {} => \A s \in Slots : task'[p][s].pc = "off"
  <1> DEFINE row == [s \in Slots |->
                      IF s \in S THEN [pc |-> FirstCall(s), left |-> attempts, pid |-> 0]
                                 ELSE Off]
  <1>1. row \in [Slots -> TaskRec]
    BY DEF TaskRec, TaskPC, FirstCall, Off
  <1>2. S = {} => \A s \in Slots : row[s].pc = "off"
    BY DEF Off
  <1> HIDE DEF row
  <1>3. task' = [task EXCEPT ![p] = row]
    BY DEF StartTasks, row
  <1> QED
    BY <1>1, <1>2, <1>3 DEF TaskType

(* Switching a client on or off, or deleting it, keeps the types, whether  *)
(* the call is answered or not.                                            *)
LEMMA SwitchClients ==
  ASSUME clients \in ClientsType, faults \in 0 .. MaxFaults, NEW s, NEW pid,
         NEW on \in BOOLEAN, NEW after,
         after = SwitchedTo(s, pid, on) \/ after = Without(s, pid),
         Answered(s, pid, after) \/ NotAnswered(s, pid, after)
  PROVE  clients' \in ClientsType /\ faults' \in 0 .. MaxFaults
  <1>1. s \in Slots => after \in SUBSET ClientRec
    BY DEF SwitchedTo, Without, Client, ClientsType, ClientRec
  <1>2. clients' = clients \/ clients' = [clients EXCEPT ![s] = after]
    BY DEF Answered, NotAnswered
  <1>3. clients' \in ClientsType
    BY <1>1, <1>2 DEF ClientsType
  <1>4. faults' \in 0 .. MaxFaults
    BY ProvisionerAssumption DEF Answered, NotAnswered, Fault
  <1> QED
    BY <1>3, <1>4

(* One step of a provisioning task keeps the invariants. *)
LEMMA TaskIInv ==
  ASSUME IInv, NEW p \in PaymentIds, NEW s \in Slots, TaskStep(p, s),
         UNCHANGED <<deskVars, jobVars, restarts>>
  PROVE  IInv'
  <1> USE DEF TaskStep
  <1>1. /\ task \in TaskType /\ clients \in ClientsType /\ lastPid \in [Slots -> Nat]
        /\ mounted \subseteq Nodes /\ faults \in 0 .. MaxFaults
        /\ StoreTypeOK
    BY DEF IInv, TypeOK, ProvisionerTypeOK, TaskType, TaskRec, ClientsType, ClientRec
  <1>2. task[p][s].pc # "off" /\ task[p][s].pid \in Nat
    BY <1>1 DEF ListClients, Post, LosePost, GetConfig, CallFails, Insert, InsertFails,
                Rollback, TaskType, TaskRec
  <1>3. payments' = payments /\ users' = users /\ now' = now /\ mounted' = mounted
    BY DEF ListClients, Post, LosePost, GetConfig, CallFails, Insert, InsertFails,
           Rollback, storeVars
  <1>4. Fault => faults' \in 0 .. MaxFaults
    BY <1>1, ProvisionerAssumption DEF Fault
  <1>5. Create(p, s) => /\ clients' \in ClientsType /\ lastPid' \in [Slots -> Nat]
                        /\ lastPid[s] + 1 \in Nat
    <2> SUFFICES ASSUME Create(p, s)
                 PROVE  /\ clients' \in ClientsType /\ lastPid' \in [Slots -> Nat]
                        /\ lastPid[s] + 1 \in Nat
      OBVIOUS
    <2>1. lastPid[s] + 1 \in Nat
      BY <1>1
    <2>2. NewClient(p, s) \in ClientRec
      BY <2>1 DEF NewClient, ClientRec
    <2> QED
      BY <1>1, <2>1, <2>2 DEF Create, ClientsType
  <1>6. /\ task' \in TaskType /\ OnlyTask(p, s)
        /\ clients' \in ClientsType /\ lastPid' \in [Slots -> Nat] /\ faults' \in 0 .. MaxFaults
        /\ devices' \subseteq DeviceRow /\ lastDevice' \in Nat
    <2> USE DEF TaskPC
    <2>1. CASE ListClients(p, s)
      <3>1. \A c \in clients[s] : c.pid \in Nat
        BY <1>1 DEF ClientsType, ClientRec
      <3> QED
        BY <2>1, <3>1, <1>1, GotoTask, FailTask DEF ListClients, storeVars, StoreTypeOK
    <2>2. CASE Post(p, s)
      <3>1. lastPid[s] + 1 \in Nat
        BY <2>2, <1>5 DEF Post
      <3>2. task' \in TaskType /\ OnlyTask(p, s)
        <4>1. CASE Goto(p, s, IF s \in AwgSlots THEN "config" ELSE "insert", lastPid[s] + 1)
          BY <4>1, <3>1, <1>1, GotoTask
        <4>2. CASE Goto(p, s, "relist", 0)
          BY <4>2, <1>1, GotoTask
        <4> QED
          BY <2>2, <4>1, <4>2 DEF Post
      <3> QED
        BY <2>2, <3>2, <1>1, <1>5 DEF Post, storeVars, StoreTypeOK
    <2>3. CASE LosePost(p, s)
      <3>1. task' \in TaskType /\ OnlyTask(p, s)
        <4>1. CASE UNCHANGED task
          BY <4>1, <1>1, <1>2 DEF OnlyTask
        <4>2. CASE Goto(p, s, "relist", 0)
          BY <4>2, <1>1, GotoTask
        <4>3. CASE AttemptFailed(p, s)
          BY <4>3, <1>1, FailTask
        <4> QED
          BY <2>3, <4>1, <4>2, <4>3 DEF LosePost
      <3> QED
        BY <2>3, <3>1, <1>1, <1>4, <1>5 DEF LosePost, storeVars, StoreTypeOK
    <2>4. CASE GetConfig(p, s)
      BY <2>4, <1>1, <1>2, GotoTask DEF GetConfig, storeVars, StoreTypeOK
    <2>5. CASE CallFails(p, s)
      <3>1. task' \in TaskType /\ OnlyTask(p, s)
        BY <2>5, <1>1, GotoTask, FailTask DEF CallFails
      <3> QED
        BY <2>5, <3>1, <1>1, <1>4 DEF CallFails, storeVars, StoreTypeOK
    <2>6. CASE Insert(p, s)
      <3>1. task' \in TaskType /\ OnlyTask(p, s)
        BY <2>6, <1>1, GotoTask DEF Insert
      <3>2. payments[p].tg_id \in Users
        BY <1>2 DEF IInv, OwnerInv, TaskInv
      <3>3. [id |-> lastDevice + 1, user |-> payments[p].tg_id, slot |-> s,
             pid |-> task[p][s].pid, pay |-> p] \in DeviceRow
        BY <1>1, <1>2, <3>2 DEF DeviceRow, StoreTypeOK
      <3>4. devices' \subseteq DeviceRow /\ lastDevice' \in Nat
        BY <2>6, <3>3, <1>1 DEF Insert, AddDevice, StoreTypeOK
      <3> QED
        BY <2>6, <3>1, <3>4, <1>1 DEF Insert
    <2>7. CASE InsertFails(p, s)
      BY <2>7, <1>1, <1>2, <1>4, GotoTask DEF InsertFails, storeVars, StoreTypeOK
    <2>8. CASE Rollback(p, s)
      <3>1. task' \in TaskType /\ OnlyTask(p, s)
        BY <2>8, <1>1, FailTask DEF Rollback
      <3>2. clients' \in ClientsType /\ faults' \in 0 .. MaxFaults
        BY <2>8, <1>1, SwitchClients DEF Rollback
      <3> QED
        BY <2>8, <3>1, <3>2, <1>1 DEF Rollback, storeVars, StoreTypeOK
    <2> QED
      BY <2>1, <2>2, <2>3, <2>4, <2>5, <2>6, <2>7, <2>8
  <1>7. TypeOK'
    <2>1. StoreTypeOK'
      BY <1>1, <1>3, <1>6 DEF StoreTypeOK
    <2>2. ProvisionerTypeOK'
      BY <1>1, <1>3, <1>6 DEF ProvisionerTypeOK, TaskType, TaskRec, ClientsType, ClientRec
    <2>3. DeskTypeOK' /\ JobsTypeOK' /\ restarts' \in 0 .. MaxRestarts
      BY DEF IInv, TypeOK, DeskTypeOK, JobsTypeOK, deskVars, jobVars
    <2> QED
      BY <2>1, <2>2, <2>3 DEF TypeOK
  <1>8. OwnerInv' /\ LedgerInv'
    BY <1>3 DEF IInv, OwnerInv, LedgerInv, Stage, Settled, ResumeInv, deskVars, jobVars
  <1>9. TaskInv'
    BY <1>2, <1>3, <1>6 DEF IInv, TaskInv, OnlyTask
  <1> QED
    BY <1>7, <1>8, <1>9 DEF IInv

-----------------------------------------------------------------------------
(* The user's side of the desk *)

(* What each part of IInv reads; a step that leaves that alone keeps it. *)
LEMMA StoreSame ==
  ASSUME StoreTypeOK, UNCHANGED storeVars
  PROVE  StoreTypeOK'
  BY DEF StoreTypeOK, storeVars

LEMMA ProvisionerSame ==
  ASSUME ProvisionerTypeOK, UNCHANGED <<mounted, clients, lastPid, task>>,
         faults' \in 0 .. MaxFaults
  PROVE  ProvisionerTypeOK'
  BY DEF ProvisionerTypeOK

LEMMA FaultSpent ==
  ASSUME ProvisionerTypeOK, Fault \/ UNCHANGED faults
  PROVE  faults' \in 0 .. MaxFaults
  BY ProvisionerAssumption DEF ProvisionerTypeOK, Fault

LEMMA JobsSame ==
  ASSUME IInv, UNCHANGED <<jobVars, restarts>>
  PROVE  JobsTypeOK' /\ restarts' \in 0 .. MaxRestarts
  BY DEF IInv, TypeOK, JobsTypeOK, jobVars

LEMMA LedgerSame ==
  ASSUME IInv, UNCHANGED <<payments, desk, credits, task, resume>>
  PROVE  LedgerInv' /\ TaskInv'
  BY DEF IInv, LedgerInv, Stage, Settled, ResumeInv, TaskInv

ReceiptType ==
  [Msgs -> [pc : {"idle", "check", "create", "clear", "notify"},
            user : Users \cup {NoUser}, pay : PaymentIds \cup {0}, crowded : BOOLEAN]]

ReceiptsOK ==
  /\ receipt \in ReceiptType
  /\ \A m \in Msgs : /\ receipt[m].pc # "idle" => receipt[m].user \in Users
                     /\ receipt[m].pc = "notify" => receipt[m].pay # 0

(* A handler of receipts never changes whose message it is handling. *)
LEMMA ReceiptSet ==
  ASSUME IInv, NEW m \in Msgs,
         \/ receipt' = receipt
         \/ receipt' = [receipt EXCEPT ![m] = NoReceipt]
         \/ /\ receipt[m].pc # "idle"
            /\ \E pc \in {"create", "clear", "notify"}, pay \in PaymentIds \cup {0} :
                 ReceiptStep(m, pc, pay) /\ (pc = "notify" => pay # 0)
         \/ \E u \in Users :
              receipt' = [receipt EXCEPT ![m] = [NoReceipt EXCEPT !.pc = "check", !.user = u]]
         \/ receipt[m].pc # "idle" /\ ReceiptPasses(m)
  PROVE  ReceiptsOK'
  <1> USE DEF ReceiptsOK
  <1>1. ReceiptsOK
    BY DEF IInv, TypeOK, DeskTypeOK, ReceiptType, OwnerInv
  <1>2. CASE receipt' = receipt
    BY <1>1, <1>2
  <1>3. CASE receipt' = [receipt EXCEPT ![m] = NoReceipt]
    BY <1>1, <1>3 DEF ReceiptType, NoReceipt
  <1>4. ASSUME receipt[m].pc # "idle",
               NEW pc \in {"create", "clear", "notify"}, NEW pay \in PaymentIds \cup {0},
               ReceiptStep(m, pc, pay), pc = "notify" => pay # 0
        PROVE  ReceiptsOK'
    <2>1. receipt' = [receipt EXCEPT ![m] = [receipt[m] EXCEPT !.pc = pc, !.pay = pay,
                                                             !.crowded = FALSE]]
      BY <1>1, <1>4 DEF ReceiptType, ReceiptStep
    <2>2. receipt' \in ReceiptType
      BY <1>1, <2>1 DEF ReceiptType
    <2>3. /\ receipt'[m].pc = pc /\ receipt'[m].user = receipt[m].user /\ receipt'[m].pay = pay
          /\ \A n \in Msgs : n # m => receipt'[n] = receipt[n]
      BY <1>1, <2>1 DEF ReceiptType
    <2> QED
      BY <1>1, <1>4, <2>2, <2>3
  <1>5. ASSUME NEW u \in Users,
               receipt' = [receipt EXCEPT ![m] = [NoReceipt EXCEPT !.pc = "check", !.user = u]]
        PROVE  ReceiptsOK'
    BY <1>1, <1>5 DEF ReceiptType, NoReceipt
  <1>6. ASSUME receipt[m].pc # "idle", ReceiptPasses(m) PROVE ReceiptsOK'
    <2> DEFINE others == Creating(receipt[m].user)
    <2>1. receipt' = [n \in Msgs |->
             IF n = m THEN [receipt[m] EXCEPT !.pc = "create", !.crowded = others # {}]
                      ELSE [receipt[n] EXCEPT !.crowded = @ \/ n \in others]]
      BY <1>6 DEF ReceiptPasses
    <2>2. (others # {}) \in BOOLEAN /\ \A n \in Msgs : (receipt[n].crowded \/ n \in others) \in BOOLEAN
      OBVIOUS
    <2> HIDE DEF others
    <2>3. /\ receipt'[m] = [receipt[m] EXCEPT !.pc = "create", !.crowded = others # {}]
          /\ \A n \in Msgs \ {m} :
               receipt'[n] = [receipt[n] EXCEPT !.crowded = receipt[n].crowded \/ n \in others]
      BY <2>1
    <2>4. receipt' \in ReceiptType
      <3> DEFINE R == [pc : {"idle", "check", "create", "clear", "notify"},
                       user : Users \cup {NoUser}, pay : PaymentIds \cup {0}, crowded : BOOLEAN]
      <3>1. \A n \in Msgs : receipt[n] \in R
        BY <1>1 DEF ReceiptType
      <3>2. receipt'[m] \in R
        <4>1. PICK b \in BOOLEAN : receipt'[m] = [receipt[m] EXCEPT !.pc = "create", !.crowded = b]
          BY <2>2, <2>3
        <4> QED
          BY <3>1, <4>1
      <3>3. ASSUME NEW n \in Msgs \ {m} PROVE receipt'[n] \in R
        <4>1. PICK b \in BOOLEAN : receipt'[n] = [receipt[n] EXCEPT !.crowded = b]
          BY <2>2, <2>3
        <4> QED
          BY <3>1, <4>1
      <3> HIDE DEF R
      <3>4. \A n \in Msgs : receipt'[n] \in R
        BY <3>2, <3>3
      <3>5. receipt' \in [Msgs -> R]
        <4>1. DOMAIN receipt' = Msgs /\ receipt' = [n \in Msgs |-> receipt'[n]]
          BY <2>1
        <4> QED
          BY <3>4, <4>1
      <3> QED
        BY <3>5 DEF R, ReceiptType
    <2>5. \A n \in Msgs : /\ receipt'[n].user = receipt[n].user
                          /\ n # m => receipt'[n].pc = receipt[n].pc /\ receipt'[n].pay = receipt[n].pay
                          /\ n = m => receipt'[n].pc = "create"
      <3>1. \A n \in Msgs : receipt[n] \in [pc : {"idle", "check", "create", "clear", "notify"},
                    user : Users \cup {NoUser}, pay : PaymentIds \cup {0}, crowded : BOOLEAN]
        BY <1>1 DEF ReceiptType
      <3>2. receipt'[m].user = receipt[m].user /\ receipt'[m].pc = "create"
        BY <2>3, <3>1
      <3>3. \A n \in Msgs \ {m} : /\ receipt'[n].user = receipt[n].user
                                   /\ receipt'[n].pc = receipt[n].pc
                                   /\ receipt'[n].pay = receipt[n].pay
        <4>1. ASSUME NEW n \in Msgs \ {m}
              PROVE  /\ receipt'[n].user = receipt[n].user
                     /\ receipt'[n].pc = receipt[n].pc
                     /\ receipt'[n].pay = receipt[n].pay
          <5>1. PICK b : receipt'[n] = [receipt[n] EXCEPT !.crowded = b]
            BY <2>3
          <5> QED
            BY <3>1, <5>1
        <4> QED
          BY <4>1
      <3> QED
        BY <3>2, <3>3
    <2> QED
      BY <1>1, <1>6, <2>4, <2>5
  <1> QED
    BY <1>2, <1>3, <1>4, <1>5, <1>6

(* The steps that touch only menus, receipts and notices. *)
LEMMA MenuIInv ==
  ASSUME IInv, UNCHANGED <<storeVars, mounted, clients, lastPid, task>>,
         Fault \/ UNCHANGED faults,
         UNCHANGED <<desk, credits>>, UNCHANGED <<jobVars, restarts>>,
         waiting' \subseteq Users, buying' \subseteq Users, inbox' \subseteq PaymentIds,
         ReceiptsOK'
  PROVE  IInv'
  <1>1. StoreTypeOK' /\ ProvisionerTypeOK'
    BY StoreSame, ProvisionerSame, FaultSpent DEF IInv, TypeOK
  <1>2. DeskTypeOK'
    BY DEF IInv, TypeOK, DeskTypeOK, ReceiptsOK, ReceiptType
  <1>3. OwnerInv'
    BY DEF IInv, OwnerInv, ReceiptsOK, storeVars
  <1>4. LedgerInv' /\ TaskInv'
    BY LedgerSame DEF storeVars, jobVars
  <1> QED
    BY <1>1, <1>2, <1>3, <1>4, JobsSame DEF IInv, TypeOK

(* A new payment is pending, nobody's and unpaid. *)
LEMMA CreateIInv ==
  ASSUME IInv, NEW m \in Msgs, ReceiptCreate(m), UNCHANGED <<jobVars, restarts>>
  PROVE  IInv'
  <1>1. PICK p \in PaymentIds : CreatePayment(p, receipt[m].user) /\ ReceiptStep(m, "clear", p)
    BY DEF ReceiptCreate
  <1>2. payments[p].status = "none" /\ receipt[m].user \in Users /\ now \in Nat
    BY <1>1 DEF ReceiptCreate, CreatePayment, IInv, OwnerInv, TypeOK, StoreTypeOK
  <1>3. /\ payments' \in [PaymentIds -> [tg_id : Users \cup {NoUser},
                                         status : PaymentStatus, created : Nat]]
        /\ payments'[p].status = "pending" /\ payments'[p].tg_id \in Users
        /\ \A q \in PaymentIds : q # p => payments'[q] = payments[q]
    BY <1>1, <1>2 DEF CreatePayment, IInv, TypeOK, StoreTypeOK, PaymentStatus
  <1>4. ReceiptsOK'
    BY <1>1, ReceiptSet DEF ReceiptCreate
  <1>5. StoreTypeOK' /\ ProvisionerTypeOK'
    BY <1>3 DEF ReceiptCreate, nodeVars, IInv, TypeOK, StoreTypeOK, ProvisionerTypeOK
  <1>6. DeskTypeOK'
    BY <1>4 DEF ReceiptCreate, IInv, TypeOK, DeskTypeOK, ReceiptsOK, ReceiptType
  <1>7. OwnerInv'
    BY <1>3, <1>4 DEF IInv, OwnerInv, ReceiptsOK
  <1>8. LedgerInv'
    <2>1. \A q \in PaymentIds : Settled(q) => Settled(q)'
      BY <1>2, <1>3 DEF Settled, ReceiptCreate
    <2>2. ResumeInv'
      BY <2>1 DEF IInv, LedgerInv, ResumeInv, TypeOK, JobsTypeOK, jobVars
    <2>3. Stage(p)'
      BY <1>2, <1>3 DEF IInv, LedgerInv, Stage, ReceiptCreate, Undecided, Unpaid, Paid
    <2>4. \A q \in PaymentIds : q # p => Stage(q)'
      BY <1>3 DEF IInv, LedgerInv, Stage, ReceiptCreate
    <2> QED
      BY <2>2, <2>3, <2>4 DEF LedgerInv
  <1>9. TaskInv'
    BY <1>2, <1>3 DEF IInv, TaskInv, ReceiptCreate, nodeVars
  <1> QED
    BY <1>5, <1>6, <1>7, <1>8, <1>9, JobsSame DEF IInv, TypeOK

LEMMA UserIInv ==
  ASSUME IInv, UNCHANGED <<jobVars, restarts>>,
         \/ \E u \in Users : BuyCheck(u) \/ BuyShow(u) \/ LeaveMenu(u)
         \/ \E m \in Msgs, u \in Users : ReceiptArrives(m, u)
         \/ \E m \in Msgs : ReceiptNext(m)
  PROVE  IInv'
  <1>1. /\ waiting \subseteq Users /\ buying \subseteq Users /\ inbox \subseteq PaymentIds
        /\ ReceiptsOK
    BY DEF IInv, TypeOK, DeskTypeOK, ReceiptsOK, ReceiptType, OwnerInv
  <1>2. ASSUME NEW u \in Users, BuyCheck(u) \/ BuyShow(u) \/ LeaveMenu(u) PROVE IInv'
    <2>1. ReceiptsOK'
      BY <1>1, <1>2 DEF ReceiptsOK, ReceiptType, BuyCheck, BuyShow, LeaveMenu
    <2> QED
      BY <1>1, <1>2, <2>1, MenuIInv DEF BuyCheck, BuyShow, LeaveMenu, nodeVars
  <1>3. ASSUME NEW m \in Msgs, NEW u \in Users, ReceiptArrives(m, u) PROVE IInv'
    <2>1. ReceiptsOK'
      BY <1>3, ReceiptSet DEF ReceiptArrives
    <2> QED
      BY <1>1, <1>3, <2>1, MenuIInv DEF ReceiptArrives, nodeVars
  <1>4. ASSUME NEW m \in Msgs, ReceiptNext(m) PROVE IInv'
    <2>1. CASE ReceiptCreate(m)
      BY <2>1, CreateIInv
    <2>2. CASE ReceiptCheck(m) \/ ReceiptClear(m) \/ ReceiptNotify(m) \/ ReceiptEscapes(m)
      <3>1. receipt[m].pay \in PaymentIds \cup {0}
        BY <1>1 DEF ReceiptsOK, ReceiptType
      <3>2. ReceiptsOK'
        BY <2>2, <3>1, ReceiptSet DEF ReceiptCheck, ReceiptClear, ReceiptNotify, ReceiptEscapes
      <3>3. inbox' \subseteq PaymentIds
        BY <2>2, <1>1, <3>1
           DEF ReceiptsOK, ReceiptCheck, ReceiptClear, ReceiptNotify, ReceiptEscapes
      <3> QED
        BY <2>2, <1>1, <3>2, <3>3, MenuIInv
           DEF ReceiptCheck, ReceiptClear, ReceiptNotify, ReceiptEscapes, nodeVars
    <2> QED
      BY <1>4, <2>1, <2>2 DEF ReceiptNext
  <1> QED
    BY <1>2, <1>3, <1>4

-----------------------------------------------------------------------------
(* The admin's side of the desk *)

DeskRec == [pc : DeskPC, todo : SUBSET DeviceRow, renewal : BOOLEAN, end : Nat]
DeskType == [PaymentIds -> DeskRec]
PaymentsType == [PaymentIds -> [tg_id : Users \cup {NoUser}, status : PaymentStatus,
                                created : Nat]]

(* A step of the handler of p disturbs the invariants at p only. *)
LEMMA DeskIInv ==
  ASSUME IInv, NEW p \in PaymentIds,
         payments' \in PaymentsType, payments'[p].tg_id = payments[p].tg_id,
         payments[p].status # "none",
         users' \in [Users -> [status : UserStatus, sub_end : Nat]],
         UNCHANGED <<devices, lastDevice, now>>,
         desk' \in DeskType, credits' \in [PaymentIds -> Nat],
         \A q \in PaymentIds : q # p => /\ payments'[q] = payments[q]
                                        /\ desk'[q] = desk[q] /\ credits'[q] = credits[q],
         ProvisionerTypeOK',
         UNCHANGED <<waiting, buying, receipt, inbox>>, UNCHANGED <<jobVars, restarts>>,
         Stage(p)', ~Settled(p), TaskInv'
  PROVE  IInv'
  <1>1. StoreTypeOK'
    BY DEF IInv, TypeOK, StoreTypeOK, PaymentsType
  <1>2. DeskTypeOK'
    BY DEF IInv, TypeOK, DeskTypeOK, DeskType, DeskRec
  <1>3. OwnerInv'
    BY DEF IInv, OwnerInv
  <1>4. LedgerInv'
    <2>1. \A q \in PaymentIds : Settled(q) => Settled(q)'
      BY DEF Settled
    <2>2. ResumeInv'
      BY <2>1 DEF IInv, LedgerInv, ResumeInv, TypeOK, JobsTypeOK, jobVars
    <2>3. \A q \in PaymentIds : q # p => Stage(q)'
      BY DEF IInv, LedgerInv, Stage
    <2> QED
      BY <2>2, <2>3 DEF LedgerInv
  <1> QED
    BY <1>1, <1>2, <1>3, <1>4, JobsSame DEF IInv, TypeOK

LEMMA ClaimIInv ==
  ASSUME IInv, NEW p \in PaymentIds, ApproveClaim(p) \/ RejectPayment(p),
         UNCHANGED <<jobVars, restarts>>
  PROVE  IInv'
  <1>1. /\ payments \in PaymentsType /\ desk \in DeskType /\ credits \in [PaymentIds -> Nat]
        /\ payments[p].status = "pending"
    BY DEF IInv, TypeOK, StoreTypeOK, DeskTypeOK, PaymentsType, DeskType, DeskRec,
           ApproveClaim, RejectPayment, UpdatePaymentStatus
  <1>2. /\ payments' \in PaymentsType /\ payments'[p].tg_id = payments[p].tg_id
        /\ payments'[p].status \in {"approved", "rejected"}
        /\ ApproveClaim(p) => payments'[p].status = "approved"
        /\ RejectPayment(p) => payments'[p].status = "rejected"
        /\ \A q \in PaymentIds : q # p => payments'[q] = payments[q]
    BY <1>1 DEF ApproveClaim, RejectPayment, UpdatePaymentStatus, PaymentsType, PaymentStatus
  <1>3. /\ desk' \in DeskType
        /\ ApproveClaim(p) => desk'[p].pc = "devices"
        /\ RejectPayment(p) => desk'[p] = desk[p]
        /\ \A q \in PaymentIds : q # p => desk'[q] = desk[q]
    <2>1. [NoHandler EXCEPT !.pc = "devices"] \in DeskRec
      BY DEF NoHandler, DeskRec, DeskPC
    <2> QED
      BY <1>1, <2>1 DEF ApproveClaim, RejectPayment, DeskType, NoHandler, deskVars
  <1>4. credits' = credits /\ UNCHANGED <<nodeVars, users, devices, lastDevice, now,
                                          waiting, buying, receipt, inbox>>
    BY DEF ApproveClaim, RejectPayment, deskVars
  <1>5. ProvisionerTypeOK' /\ users' \in [Users -> [status : UserStatus, sub_end : Nat]]
    BY <1>4 DEF IInv, TypeOK, ProvisionerTypeOK, StoreTypeOK, nodeVars
  <1>6. Stage(p)'
    BY <1>1, <1>2, <1>3, <1>4 DEF IInv, LedgerInv, Stage, Undecided, Unpaid, Paid
  <1>7. ~Settled(p)
    BY <1>1 DEF Settled
  <1>8. TaskInv'
    BY <1>1, <1>2, <1>4 DEF IInv, TaskInv, nodeVars
  <1> QED
    BY <1>1, <1>2, <1>3, <1>4, <1>5, <1>6, <1>7, <1>8, DeskIInv

(* The handler that claimed p goes on. *)
LEMMA ApproveIInv ==
  ASSUME IInv, NEW p \in PaymentIds, ApproveStep(p) \/ HandlerEscapes(p),
         UNCHANGED <<jobVars, restarts>>
  PROVE  IInv'
  <1>1. /\ payments \in PaymentsType /\ desk \in DeskType /\ credits \in [PaymentIds -> Nat]
        /\ users \in [Users -> [status : UserStatus, sub_end : Nat]] /\ now \in Nat
        /\ devices \subseteq DeviceRow
        /\ task \in TaskType /\ clients \in ClientsType /\ faults \in 0 .. MaxFaults
        /\ ProvisionerTypeOK
    BY DEF IInv, TypeOK, StoreTypeOK, DeskTypeOK, ProvisionerTypeOK, PaymentsType, DeskType,
           DeskRec, TaskType, TaskRec, ClientsType, ClientRec
  <1>2. desk[p].pc \in Unpaid \cup Paid
    <2>1. CASE HandlerEscapes(p)
      <3>1. desk[p].pc \in EscapePoints
        BY <2>1 DEF HandlerEscapes
      <3> QED
        BY <3>1, DeskAssumption DEF Unpaid, Paid
    <2>2. CASE LoadDevices(p) \/ EnableNext(p) \/ ReadSubscription(p) \/ CreditSubscription(p)
      BY <2>2 DEF LoadDevices, EnableNext, ReadSubscription, CreditSubscription, Unpaid
    <2>3. CASE SendRenewed(p) \/ SendConfirmed(p) \/ ProvisionOver(p) \/ MarkPartial(p)
      BY <2>3 DEF SendRenewed, SendConfirmed, ProvisionOver, MarkPartial, Paid
    <2> QED
      BY <2>1, <2>2, <2>3 DEF ApproveStep
  <1>3. /\ payments[p].status = "approved" /\ payments[p].tg_id \in Users
        /\ ~Settled(p) /\ Stage(p)
    <2>1. Stage(p)
      BY DEF IInv, LedgerInv
    <2>2. payments[p].status = "approved" /\ ~Settled(p)
      BY <1>2, <2>1 DEF Stage, Settled, Unpaid, Paid
    <2> QED
      BY <2>1, <2>2 DEF IInv, OwnerInv
  <1>4. /\ UNCHANGED <<devices, lastDevice, now, waiting, buying, receipt, inbox>>
        /\ \A q \in PaymentIds : q # p => /\ payments'[q] = payments[q]
                                          /\ desk'[q] = desk[q] /\ credits'[q] = credits[q]
    <2>1. CASE HandlerEscapes(p)
      <3>1. /\ UNCHANGED <<storeVars, waiting, buying, receipt, inbox, credits>>
            /\ \E rec : desk' = [desk EXCEPT ![p] = rec]
        BY <2>1 DEF HandlerEscapes
      <3> QED
        BY <1>1, <3>1 DEF storeVars, DeskType
    <2>2. CASE LoadDevices(p) \/ EnableNext(p) \/ ReadSubscription(p)
      BY <1>1, <2>2 DEF LoadDevices, EnableNext, ReadSubscription, storeVars, DeskType
    <2>3. CASE CreditSubscription(p)
      BY <1>1, <2>3 DEF CreditSubscription, WriteSubscription, DeskType
    <2>4. CASE SendRenewed(p) \/ SendConfirmed(p)
      BY <1>1, <2>4 DEF SendRenewed, SendConfirmed, storeVars, DeskType
    <2>5. CASE ProvisionOver(p) \/ MarkPartial(p)
      BY <1>1, <2>5 DEF ProvisionOver, MarkPartial, SetPaymentStatus, storeVars, DeskType,
         PaymentsType
    <2> QED
      BY <2>1, <2>2, <2>3, <2>4, <2>5 DEF ApproveStep
  <1>5. CASE LoadDevices(p)
    <2>1. GetUserDevices(payments[p].tg_id) \in SUBSET DeviceRow
      BY <1>1 DEF GetUserDevices
    <2>2. desk' \in DeskType /\ desk'[p].pc \in {"read", "enable"} /\ desk[p].pc = "devices"
      <3> DEFINE rows == GetUserDevices(payments[p].tg_id)
                 pc == IF rows = {} THEN "read" ELSE "enable"
                 rec == [desk[p] EXCEPT !.pc = pc, !.todo = rows, !.renewal = rows # {}]
      <3>1. rows \in SUBSET DeviceRow /\ pc \in {"read", "enable"} /\ (rows # {}) \in BOOLEAN
        BY <2>1
      <3>2. desk[p].pc = "devices" /\ desk' = [desk EXCEPT ![p] = rec]
        BY <1>5, <1>1 DEF LoadDevices, DeskType, DeskRec
      <3> HIDE DEF rows, pc
      <3>3. rec \in DeskRec /\ rec.pc = pc
        BY <3>1, <1>1 DEF DeskType, DeskRec, DeskPC
      <3> QED
        BY <3>1, <3>2, <3>3, <1>1 DEF DeskType
    <2>3. UNCHANGED <<payments, users, credits, nodeVars>>
      BY <1>5 DEF LoadDevices, storeVars
    <2>4. ProvisionerTypeOK' /\ TaskInv'
      BY <2>3, <1>1 DEF IInv, ProvisionerTypeOK, TaskInv, nodeVars
    <2>5. Stage(p)'
      BY <2>2, <2>3, <1>3 DEF Stage, Undecided, Unpaid, Paid
    <2> QED
      BY <2>2, <2>3, <2>4, <2>5, <1>1, <1>3, <1>4, DeskIInv
  <1>6. CASE EnableNext(p)
    <2>1. desk' \in DeskType /\ desk'[p].pc \in {"read", "enable"} /\ desk[p].pc = "enable"
      <3> DEFINE rest == desk[p].todo \ {FirstRow(desk[p].todo)}
                 pc == IF rest = {} THEN "read" ELSE "enable"
                 rec == [desk[p] EXCEPT !.todo = rest, !.pc = pc]
      <3>1. rest \in SUBSET DeviceRow /\ pc \in {"read", "enable"}
        BY <1>1 DEF DeskType, DeskRec
      <3>2. desk[p].pc = "enable" /\ desk' = [desk EXCEPT ![p] = rec]
        BY <1>6, <1>1 DEF EnableNext, DeskType, DeskRec
      <3> HIDE DEF rest, pc
      <3>3. desk[p] \in DeskRec
        BY <1>1 DEF DeskType, DeskRec
      <3>4. pc \in DeskPC
        BY <3>1 DEF DeskPC
      <3>5. rec \in DeskRec /\ rec.pc = pc
        BY <3>1, <3>3, <3>4 DEF DeskRec
      <3> QED
        BY <3>1, <3>2, <3>5, <1>1 DEF DeskType
    <2>2. UNCHANGED <<payments, users, credits, mounted, lastPid, task>>
      BY <1>6 DEF EnableNext, storeVars
    <2>3. clients' \in ClientsType /\ faults' \in 0 .. MaxFaults
      <3> DEFINE d == FirstRow(desk[p].todo)
                 on == SwitchedTo(d.slot, d.pid, TRUE)
      <3>1. CASE HasProvider(d.slot)
        <4>1. Answered(d.slot, d.pid, on) \/ NotAnswered(d.slot, d.pid, on)
          BY <1>6, <3>1 DEF EnableNext
        <4> QED
          BY <4>1, <1>1, SwitchClients
      <3>2. CASE ~HasProvider(d.slot)
        BY <1>6, <3>2, <1>1 DEF EnableNext
      <3> QED
        BY <3>1, <3>2
    <2>4. ProvisionerTypeOK' /\ TaskInv'
      BY <2>2, <2>3, <1>1 DEF IInv, ProvisionerTypeOK, TaskInv, ClientsType, ClientRec
    <2>5. Stage(p)'
      BY <2>1, <2>2, <1>3 DEF Stage, Undecided, Unpaid, Paid
    <2> QED
      BY <2>1, <2>2, <2>4, <2>5, <1>1, <1>3, <1>4, DeskIInv
  <1>7. CASE ReadSubscription(p)
    <2>1. ExtendedEnd(payments[p].tg_id) \in Nat
      BY <1>1, <1>3, StoreAssumption DEF ExtendedEnd
    <2>2. desk' \in DeskType /\ desk'[p].pc = "write" /\ desk[p].pc = "read"
      <3> DEFINE end == ExtendedEnd(payments[p].tg_id)
                 rec == [desk[p] EXCEPT !.pc = "write", !.end = end]
      <3>1. desk[p].pc = "read" /\ desk' = [desk EXCEPT ![p] = rec]
        BY <1>7, <1>1 DEF ReadSubscription, DeskType, DeskRec
      <3>2. desk[p] \in DeskRec /\ end \in Nat /\ "write" \in DeskPC
        BY <1>1, <2>1 DEF DeskType, DeskPC
      <3> HIDE DEF end
      <3>3. rec \in DeskRec /\ rec.pc = "write"
        BY <3>2 DEF DeskRec
      <3> QED
        BY <3>1, <3>3, <1>1 DEF DeskType
    <2>3. UNCHANGED <<payments, users, credits, nodeVars>>
      BY <1>7 DEF ReadSubscription, storeVars
    <2>4. ProvisionerTypeOK' /\ TaskInv'
      BY <2>3, <1>1 DEF IInv, ProvisionerTypeOK, TaskInv, nodeVars
    <2>5. Stage(p)'
      BY <2>2, <2>3, <1>3 DEF Stage, Undecided, Unpaid, Paid
    <2> QED
      BY <2>2, <2>3, <2>4, <2>5, <1>1, <1>3, <1>4, DeskIInv
  <1>8. CASE CreditSubscription(p)
    <2>1. desk' \in DeskType /\ desk'[p].pc \in {"renewed", "confirm"} /\ desk[p].pc = "write"
      BY <1>8, <1>1 DEF CreditSubscription, DeskType, DeskRec, DeskPC
    <2>2. UNCHANGED <<payments, nodeVars>>
      BY <1>8 DEF CreditSubscription
    <2>3. users' \in [Users -> [status : UserStatus, sub_end : Nat]]
      <3>1. [status |-> "active", sub_end |-> desk[p].end] \in [status : UserStatus, sub_end : Nat]
        BY <1>1 DEF UserStatus, DeskType, DeskRec
      <3> QED
        BY <1>8, <1>1, <3>1 DEF CreditSubscription, WriteSubscription
    <2>4. credits' \in [PaymentIds -> Nat] /\ credits'[p] = credits[p] + 1
      BY <1>8, <1>1 DEF CreditSubscription
    <2>5. ProvisionerTypeOK' /\ TaskInv'
      BY <2>2, <1>1 DEF IInv, ProvisionerTypeOK, TaskInv, nodeVars
    <2>6. Stage(p)'
      BY <2>1, <2>2, <2>4, <1>3 DEF Stage, Undecided, Unpaid, Paid
    <2> QED
      BY <2>1, <2>2, <2>3, <2>4, <2>5, <2>6, <1>1, <1>3, <1>4, DeskIInv
  <1>9. CASE SendRenewed(p) \/ HandlerEscapes(p)
    <2>1. desk' \in DeskType /\ desk'[p].pc \in {"done", "dead"}
      <3>1. CASE SendRenewed(p)
        BY <3>1, <1>1 DEF SendRenewed, DeskType, DeskRec, DeskPC
      <3>2. CASE HandlerEscapes(p)
        <4>1. [NoHandler EXCEPT !.pc = "dead"] \in DeskRec
          BY DEF NoHandler, DeskRec, DeskPC
        <4> QED
          BY <3>2, <4>1, <1>1 DEF HandlerEscapes, DeskType, NoHandler
      <3> QED
        BY <1>9, <3>1, <3>2
    <2>2. UNCHANGED <<payments, users, credits, mounted, clients, lastPid, task>>
      BY <1>9 DEF SendRenewed, HandlerEscapes, storeVars, nodeVars
    <2>3. ProvisionerTypeOK' /\ TaskInv'
      <3>1. faults' \in 0 .. MaxFaults
        BY <1>9, <1>1, FaultSpent DEF SendRenewed, HandlerEscapes, nodeVars
      <3> QED
        BY <2>2, <3>1, <1>1 DEF IInv, ProvisionerTypeOK, TaskInv
    <2>4. Stage(p)'
      BY <2>1, <2>2, <1>3 DEF Stage, Undecided, Unpaid, Paid
    <2> QED
      BY <2>1, <2>2, <2>3, <2>4, <1>1, <1>3, <1>4, DeskIInv
  <1>10. CASE SendConfirmed(p) \/ ProvisionOver(p)
    <2>1. /\ desk' \in DeskType /\ desk'[p].pc \in {"provision", "done", "degrade"}
          /\ desk[p].pc \in Paid
      BY <1>10, <1>1 DEF SendConfirmed, ProvisionOver, DeskType, DeskRec, DeskPC, Paid
    <2>2. UNCHANGED <<payments, users, credits, mounted, clients, lastPid, faults>>
      BY <1>10 DEF SendConfirmed, ProvisionOver, storeVars
    <2>3. task' \in TaskType /\ \A q \in PaymentIds : q # p => task'[q] = task[q]
      <3>1. BundleSlots \in SUBSET Slots /\ {} \in SUBSET Slots /\ MaxRetries \in Nat /\ 0 \in Nat
        BY ProvisionerAssumption DEF BundleSlots
      <3> QED
        BY <1>10, <1>1, <3>1, StartTask DEF SendConfirmed, ProvisionOver, Provision, ClearTasks
    <2>4. ProvisionerTypeOK'
      BY <2>2, <2>3, <1>1 DEF ProvisionerTypeOK, TaskType, TaskRec
    <2>5. TaskInv'
      BY <2>2, <2>3, <1>3 DEF IInv, TaskInv
    <2>6. Stage(p)'
      BY <2>1, <2>2, <1>3 DEF Stage, Undecided, Unpaid, Paid
    <2> QED
      BY <2>1, <2>2, <2>4, <2>5, <2>6, <1>1, <1>3, <1>4, DeskIInv
  <1>11. CASE MarkPartial(p)
    <2>1. desk' \in DeskType /\ desk'[p].pc = "done" /\ desk[p].pc = "degrade"
      BY <1>11, <1>1 DEF MarkPartial, DeskType, DeskRec, DeskPC
    <2>2. UNCHANGED <<users, credits, nodeVars>>
      BY <1>11 DEF MarkPartial
    <2>3. /\ payments' \in PaymentsType /\ payments'[p].status = "partial"
          /\ payments'[p].tg_id = payments[p].tg_id
      BY <1>11, <1>1 DEF MarkPartial, SetPaymentStatus, PaymentsType, PaymentStatus
    <2>4. ProvisionerTypeOK' /\ TaskInv'
      BY <2>2, <2>3, <1>1, <1>4 DEF IInv, ProvisionerTypeOK, TaskInv, nodeVars
    <2>5. Stage(p)'
      BY <2>1, <2>2, <2>3, <1>3 DEF Stage, Undecided, Unpaid, Paid
    <2> QED
      BY <2>1, <2>2, <2>3, <2>4, <2>5, <1>1, <1>3, <1>4, DeskIInv
  <1> QED
    BY <1>5, <1>6, <1>7, <1>8, <1>9, <1>10, <1>11 DEF ApproveStep

-----------------------------------------------------------------------------
(* The scheduler's jobs *)

(* A step of a job that leaves payments, tasks and resume alone. *)
LEMMA JobIInv ==
  ASSUME IInv, UNCHANGED <<deskVars, restarts>>, UNCHANGED <<payments, task, resume>>,
         StoreTypeOK', ProvisionerTypeOK', JobsTypeOK'
  PROVE  IInv'
  <1>1. DeskTypeOK' /\ restarts' \in 0 .. MaxRestarts
    BY DEF IInv, TypeOK, DeskTypeOK, deskVars
  <1>2. OwnerInv'
    BY DEF IInv, OwnerInv, deskVars
  <1>3. LedgerInv' /\ TaskInv'
    BY LedgerSame DEF deskVars
  <1> QED
    BY <1>1, <1>2, <1>3 DEF IInv, TypeOK

LEMMA SweepIInv ==
  ASSUME IInv, SweepNext, UNCHANGED <<deskVars, restarts>>
  PROVE  IInv'
  <1>1. /\ StoreTypeOK /\ ProvisionerTypeOK /\ JobsTypeOK
        /\ clients \in ClientsType /\ faults \in 0 .. MaxFaults
    BY DEF IInv, TypeOK, ProvisionerTypeOK, ClientsType, ClientRec
  <1>2. UNCHANGED <<payments, devices, lastDevice, now, mounted, lastPid, task, purge, resume>>
    BY DEF SweepNext, SweepStart, SweepLoad, SweepDisable, SweepMark, SweepNotify,
           SweepEscapes, storeVars, nodeVars
  <1>3. StoreTypeOK'
    <2>1. users' \in [Users -> [status : UserStatus, sub_end : Nat]]
      <3>1. CASE SweepMark
        BY <3>1, <1>1 DEF SweepMark, UpdateUserStatus, StoreTypeOK, UserStatus
      <3>2. CASE ~SweepMark
        BY <3>2, <1>1 DEF SweepNext, SweepStart, SweepLoad, SweepDisable, SweepNotify,
           SweepEscapes, storeVars, StoreTypeOK
      <3> QED
        BY <3>1, <3>2
    <2> QED
      BY <2>1, <1>1, <1>2 DEF StoreTypeOK
  <1>4. clients' \in ClientsType /\ faults' \in 0 .. MaxFaults
    <2>1. CASE SweepDisable
      <3> DEFINE d == FirstRow(sweep.todo)
                 off == SwitchedTo(d.slot, d.pid, FALSE)
      <3>1. CASE HasProvider(d.slot)
        <4>1. Answered(d.slot, d.pid, off) \/ NotAnswered(d.slot, d.pid, off)
          BY <2>1, <3>1 DEF SweepDisable
        <4> QED
          BY <4>1, <1>1, SwitchClients
      <3>2. CASE ~HasProvider(d.slot)
        BY <2>1, <3>2, <1>1 DEF SweepDisable
      <3> QED
        BY <3>1, <3>2
    <2>2. CASE ~SweepDisable
      <3>1. clients' = clients /\ (Fault \/ UNCHANGED faults)
        BY <2>2 DEF SweepNext, SweepStart, SweepLoad, SweepMark, SweepNotify, SweepEscapes,
           nodeVars
      <3> QED
        BY <3>1, <1>1, FaultSpent
    <2> QED
      BY <2>1, <2>2
  <1>5. ProvisionerTypeOK'
    BY <1>1, <1>2, <1>4 DEF ProvisionerTypeOK, ClientsType, ClientRec
  <1>6. JobsTypeOK'
    <2>1. \A u : GetUserDevices(u) \in SUBSET DeviceRow
      BY <1>1 DEF GetUserDevices, StoreTypeOK
    <2>2. GetExpiredUsers \subseteq Users
      BY DEF GetExpiredUsers
    <2>3. /\ sweep.queue \subseteq Users /\ sweep.todo \subseteq DeviceRow
          /\ sweep.user \in Users \cup {NoUser}
          /\ sweep.pc \in {"idle", "load", "disable", "mark", "notify"}
      BY <1>1 DEF JobsTypeOK
    <2>4. sweep' \in [pc : {"idle", "load", "disable", "mark", "notify"},
                      queue : SUBSET Users, user : Users \cup {NoUser},
                      todo : SUBSET DeviceRow]
      <3>1. CASE SweepStart
        BY <3>1, <2>2 DEF SweepStart, NoSweep
      <3>2. CASE SweepLoad
        BY <3>2, <2>1, <2>3 DEF SweepLoad
      <3>3. CASE SweepDisable
        <4> DEFINE rest == sweep.todo \ {FirstRow(sweep.todo)}
        <4>1. rest \subseteq DeviceRow
          BY <2>3
        <4>2. sweep' = [sweep EXCEPT !.todo = rest,
                                     !.pc = IF rest = {} THEN "mark" ELSE "disable"]
          BY <3>3 DEF SweepDisable
        <4> HIDE DEF rest
        <4> QED
          BY <4>1, <4>2, <1>1 DEF JobsTypeOK
      <3>4. CASE SweepMark
        BY <3>4, <1>1 DEF SweepMark, JobsTypeOK
      <3>5. CASE SweepNotify
        BY <3>5, <1>1 DEF SweepNotify, JobsTypeOK, NoSweep
      <3>6. CASE SweepEscapes
        BY <3>6 DEF SweepEscapes, NoSweep
      <3> QED
        BY <3>1, <3>2, <3>3, <3>4, <3>5, <3>6 DEF SweepNext
    <2> QED
      BY <2>4, <1>1, <1>2 DEF JobsTypeOK
  <1> QED
    BY <1>2, <1>3, <1>5, <1>6, JobIInv

LEMMA PurgeIInv ==
  ASSUME IInv, PurgeNext, UNCHANGED <<deskVars, restarts>>
  PROVE  IInv'
  <1>1. /\ StoreTypeOK /\ ProvisionerTypeOK /\ JobsTypeOK
        /\ clients \in ClientsType /\ faults \in 0 .. MaxFaults
        /\ purge.todo \subseteq DeviceRow
    BY DEF IInv, TypeOK, ProvisionerTypeOK, ClientsType, ClientRec, JobsTypeOK
  <1>2. UNCHANGED <<users, payments, lastDevice, now, mounted, lastPid, task, sweep, resume>>
    BY DEF PurgeNext, PurgeStart, PurgeRevoke, PurgeDelete, storeVars, nodeVars
  <1>3. StoreTypeOK'
    BY <1>1, <1>2 DEF PurgeNext, PurgeStart, PurgeRevoke, PurgeDelete, DeleteDeviceRecord,
       storeVars, StoreTypeOK
  <1>4. clients' \in ClientsType /\ faults' \in 0 .. MaxFaults
    <2>1. CASE PurgeRevoke
      <3> DEFINE d == FirstRow(purge.todo)
                 gone == Without(d.slot, d.pid)
      <3>1. \/ Answered(d.slot, d.pid, gone) \/ NotAnswered(d.slot, d.pid, gone)
            \/ UNCHANGED <<clients, faults>>
        BY <2>1 DEF PurgeRevoke
      <3> QED
        BY <3>1, <1>1, SwitchClients
    <2>2. CASE ~PurgeRevoke
      <3>1. clients' = clients /\ (Fault \/ UNCHANGED faults)
        BY <2>2 DEF PurgeNext, PurgeStart, PurgeDelete, nodeVars
      <3> QED
        BY <3>1, <1>1, FaultSpent
    <2> QED
      BY <2>1, <2>2
  <1>5. ProvisionerTypeOK'
    BY <1>1, <1>2, <1>4 DEF ProvisionerTypeOK, ClientsType, ClientRec
  <1>6. JobsTypeOK'
    <2>1. GetExpiredDevices \in SUBSET DeviceRow
      BY <1>1 DEF GetExpiredDevices, StoreTypeOK
    <2>2. purge' \in [pc : {"idle", "revoke", "delete"}, todo : SUBSET DeviceRow]
      <3>1. CASE PurgeStart
        BY <3>1, <2>1 DEF PurgeStart
      <3>2. CASE PurgeRevoke \/ PurgeDelete
        <4> DEFINE rest == purge.todo \ {FirstRow(purge.todo)}
        <4>1. rest \subseteq DeviceRow
          BY <1>1
        <4>2. PurgeRest(rest) \/ purge' = [purge EXCEPT !.pc = "delete"]
          BY <3>2 DEF PurgeRevoke, PurgeDelete
        <4> HIDE DEF rest
        <4> QED
          BY <4>1, <4>2, <1>1 DEF PurgeRest, NoPurge, JobsTypeOK
      <3> QED
        BY <3>1, <3>2 DEF PurgeNext
    <2> QED
      BY <2>2, <1>1, <1>2 DEF JobsTypeOK
  <1> QED
    BY <1>2, <1>3, <1>5, <1>6, JobIInv

LEMMA ResumeIInv ==
  ASSUME IInv, ResumeStep, UNCHANGED <<deskVars, restarts>>
  PROVE  IInv'
  <1>1. /\ StoreTypeOK /\ ProvisionerTypeOK /\ JobsTypeOK
        /\ payments \in PaymentsType /\ task \in TaskType
        /\ resume.queue \subseteq PaymentIds /\ resume.pay \in PaymentIds \cup {0}
        /\ resume.pc \in {"idle", "load", "run", "approve", "notify"}
        /\ \A p \in PaymentIds : Stage(p)
        /\ \A p \in resume.queue : Settled(p)
        /\ resume.pay # 0 => Settled(resume.pay)
    BY DEF IInv, TypeOK, StoreTypeOK, ProvisionerTypeOK, PaymentsType, TaskType, TaskRec,
           JobsTypeOK, LedgerInv, ResumeInv
  <1>2. /\ UNCHANGED <<users, devices, lastDevice, now, mounted, clients, lastPid>>
        /\ UNCHANGED <<sweep, purge, desk, credits>>
        /\ Fault \/ UNCHANGED faults
    BY DEF ResumeStep, ResumeStart, ResumeLoad, ResumeSettle, ResumeApprove, ResumeNotify,
           ResumeFails, storeVars, nodeVars, deskVars
  <1>3. /\ payments' \in PaymentsType
        /\ \A p \in PaymentIds : payments'[p].tg_id = payments[p].tg_id
        /\ \A p \in PaymentIds :
             \/ payments'[p].status = payments[p].status
             \/ Settled(p) /\ payments'[p].status = "approved"
    <2>1. CASE ResumeApprove
      <3>1. resume.pay # 0 /\ resume.pay \in PaymentIds /\ Settled(resume.pay)
        BY <2>1, <1>1 DEF ResumeApprove, IInv, LedgerInv, ResumeInv
      <3> QED
        BY <2>1, <3>1, <1>1 DEF ResumeApprove, SetPaymentStatus, PaymentsType, PaymentStatus
    <2>2. CASE ~ResumeApprove
      BY <2>2, <1>1 DEF ResumeStep, ResumeStart, ResumeLoad, ResumeSettle, ResumeNotify,
         ResumeFails, storeVars
    <2> QED
      BY <2>1, <2>2
  <1>4. /\ task' \in TaskType
        /\ \A p \in PaymentIds, s \in Slots :
             task'[p][s].pc # "off" => task[p][s].pc # "off" \/ Settled(p)
    <2>1. ASSUME NEW p \in resume.queue, RetryPartial(p)
          PROVE  /\ task' \in TaskType
                 /\ \A q \in PaymentIds, s \in Slots :
                      task'[q][s].pc # "off" => task[q][s].pc # "off" \/ Settled(q)
      <3>1. p \in PaymentIds /\ Settled(p)
        BY <1>1
      <3>2. Missing(p) \in SUBSET Slots /\ 1 \in Nat
        BY DEF Missing, BundleSlots
      <3>3. task' \in TaskType /\ \A q \in PaymentIds : q # p => task'[q] = task[q]
        BY <2>1, <3>1, <3>2, <1>1, StartTask DEF RetryPartial
      <3> QED
        BY <3>1, <3>3
    <2>2. CASE ResumeSettle
      <3>1. resume.pay # 0 /\ resume.pay \in PaymentIds
        BY <2>2, <1>1 DEF ResumeSettle, IInv, LedgerInv, ResumeInv
      <3>2. {} \in SUBSET Slots /\ 0 \in Nat
        OBVIOUS
      <3>3. /\ task' \in TaskType
            /\ \A q \in PaymentIds : q # resume.pay => task'[q] = task[q]
            /\ \A s \in Slots : task'[resume.pay][s].pc = "off"
        BY <2>2, <3>1, <3>2, <1>1, StartTask DEF ResumeSettle, ClearTasks
      <3> QED
        BY <3>3
    <2>3. CASE ResumeLoad
      BY <2>1, <2>3 DEF ResumeLoad
    <2>4. CASE ~ResumeLoad /\ ~ResumeSettle
      BY <2>4, <1>1 DEF ResumeStep, ResumeStart, ResumeApprove, ResumeNotify, ResumeFails,
         nodeVars
    <2> QED
      BY <2>2, <2>3, <2>4
  <1>5. /\ resume' \in [pc : {"idle", "load", "run", "approve", "notify"},
                        queue : SUBSET PaymentIds, pay : PaymentIds \cup {0}]
        /\ \A p \in resume'.queue : Settled(p)
        /\ resume'.pay # 0 => Settled(resume'.pay)
        /\ resume'.pc \in {"run", "approve", "notify"} => resume'.pay # 0
    <2> USE <1>1 DEF NoResume, JobsTypeOK
    <2>1. CASE ResumeStart
      <3>1. GetPartialPayments \subseteq PaymentIds /\ \A p \in GetPartialPayments : Settled(p)
        BY DEF GetPartialPayments, Stage, Settled
      <3> QED
        BY <2>1, <3>1 DEF ResumeStart
    <2>2. CASE ResumeLoad
      <3>1. \A p \in resume.queue : p # 0
        BY StoreAssumption DEF PaymentIds
      <3> QED
        BY <2>2, <3>1 DEF ResumeLoad
    <2>3. ASSUME ResumeNext PROVE <1>5!:
      BY <2>3 DEF ResumeNext
    <2>4. CASE ResumeSettle
      <3>1. CASE resume' = [resume EXCEPT !.pc = "approve"]
        BY <2>4, <3>1 DEF ResumeSettle, IInv, LedgerInv, ResumeInv
      <3> QED
        BY <2>3, <2>4, <3>1 DEF ResumeSettle
    <2>5. CASE ResumeApprove
      BY <2>5 DEF ResumeApprove, IInv, LedgerInv, ResumeInv
    <2>6. CASE ResumeNotify
      BY <2>3, <2>6 DEF ResumeNotify
    <2>7. CASE ResumeFails
      <3>1. CASE ResumeNext
        BY <2>3, <3>1
      <3>2. ASSUME NEW p \in resume.queue, resume.pc = "load",
                   \/ resume' = NoResume
                   \/ resume' = [resume EXCEPT !.queue = @ \ {p}]
            PROVE  <1>5!:
        BY <3>2
      <3> QED
        BY <2>7, <3>1, <3>2 DEF ResumeFails
    <2> QED
      BY <2>1, <2>2, <2>4, <2>5, <2>6, <2>7 DEF ResumeStep
  <1>6. TypeOK'
    <2>1. StoreTypeOK'
      BY <1>1, <1>2, <1>3 DEF StoreTypeOK, PaymentsType
    <2>2. faults' \in 0 .. MaxFaults
      BY <1>1, <1>2, FaultSpent
    <2>3. ProvisionerTypeOK'
      BY <1>1, <1>2, <1>4, <2>2 DEF ProvisionerTypeOK, TaskType, TaskRec
    <2>4. DeskTypeOK' /\ restarts' \in 0 .. MaxRestarts
      BY DEF IInv, TypeOK, DeskTypeOK, deskVars
    <2>5. JobsTypeOK'
      BY <1>1, <1>2, <1>5 DEF JobsTypeOK
    <2> QED
      BY <2>1, <2>3, <2>4, <2>5 DEF TypeOK
  <1>7. OwnerInv'
    BY <1>3 DEF IInv, OwnerInv, deskVars, Settled
  <1>8. \A p \in PaymentIds : (Settled(p) => Settled(p)') /\ Stage(p)'
    BY <1>1, <1>2, <1>3 DEF Settled, Stage, Undecided, Unpaid, Paid
  <1>9. LedgerInv'
    <2>1. ResumeInv'
      BY <1>5, <1>8 DEF ResumeInv
    <2> QED
      BY <1>8, <2>1 DEF LedgerInv
  <1>10. TaskInv'
    BY <1>3, <1>4 DEF IInv, TaskInv, Settled
  <1> QED
    BY <1>6, <1>7, <1>9, <1>10 DEF IInv

LEMMA ExpireIInv ==
  ASSUME IInv, ExpirePending, UNCHANGED <<deskVars, restarts>>
  PROVE  IInv'
  <1>1. /\ payments \in PaymentsType /\ payments' \in PaymentsType
        /\ \A p \in PaymentIds :
             /\ payments'[p].tg_id = payments[p].tg_id
             /\ \/ payments'[p].status = payments[p].status
                \/ payments[p].status = "pending" /\ payments'[p].status = "expired"
    <2>1. payments \in PaymentsType
      BY DEF IInv, TypeOK, StoreTypeOK, PaymentsType
    <2> QED
      BY <2>1 DEF ExpirePending, ExpireOldPendingPayments, PaymentsType, PaymentStatus
  <1>2. UNCHANGED <<users, devices, lastDevice, now, nodeVars, jobVars, deskVars, restarts>>
    BY DEF ExpirePending
  <1>3. TypeOK'
    BY <1>1, <1>2 DEF IInv, TypeOK, StoreTypeOK, PaymentsType, ProvisionerTypeOK, DeskTypeOK,
       JobsTypeOK, nodeVars, deskVars, jobVars
  <1>4. OwnerInv'
    BY <1>1, <1>2 DEF IInv, OwnerInv, deskVars
  <1>5. \A p \in PaymentIds : (Settled(p) => Settled(p)') /\ Stage(p)'
    BY <1>1, <1>2 DEF IInv, LedgerInv, Settled, Stage, Undecided, deskVars
  <1>6. LedgerInv'
    <2>1. ResumeInv'
      BY <1>2, <1>5 DEF IInv, LedgerInv, ResumeInv, TypeOK, JobsTypeOK, jobVars
    <2> QED
      BY <1>5, <2>1 DEF LedgerInv
  <1>7. TaskInv'
    BY <1>1, <1>2 DEF IInv, TaskInv, nodeVars
  <1> QED
    BY <1>3, <1>4, <1>6, <1>7 DEF IInv

-----------------------------------------------------------------------------
(* Days, restarts, the beginning *)

LEMMA TickIInv ==
  ASSUME IInv, Tick
  PROVE  IInv'
  <1>1. now' \in Nat /\ UNCHANGED <<users, payments, devices, lastDevice, nodeVars, deskVars,
                                    jobVars, restarts>>
    BY DEF Tick, IInv, TypeOK, StoreTypeOK
  <1>2. TypeOK'
    BY <1>1 DEF IInv, TypeOK, StoreTypeOK, ProvisionerTypeOK, DeskTypeOK, JobsTypeOK,
       nodeVars, deskVars, jobVars
  <1>3. OwnerInv'
    BY <1>1 DEF IInv, OwnerInv, deskVars
  <1>4. LedgerInv' /\ TaskInv'
    BY <1>1, LedgerSame DEF nodeVars, deskVars, jobVars
  <1> QED
    BY <1>2, <1>3, <1>4 DEF IInv

LEMMA RestartIInv ==
  ASSUME IInv, Restart
  PROVE  IInv'
  <1> USE DEF Restart
  <1>1. UNCHANGED <<storeVars, waiting, inbox, credits, clients, lastPid>>
    BY DEF DeskRestart, ProvisionerRestart
  <1>2. StoreTypeOK' /\ restarts' \in 0 .. MaxRestarts
    BY <1>1, StoreSame, BotAssumption DEF IInv, TypeOK
  <1>3. task' = [p \in PaymentIds |-> [s \in Slots |-> Off]] /\ Off \in TaskRec
    BY DEF ProvisionerRestart, Off, TaskRec, TaskPC
  <1>4. mounted' \subseteq Nodes /\ faults' \in 0 .. MaxFaults
    <2>1. PICK up \in SUBSET Nodes : /\ CanMount(up, faults) /\ mounted' = up
                                     /\ faults' = faults + Cardinality(Nodes \ up)
      BY DEF ProvisionerRestart
    <2>2. Cardinality(Nodes \ up) \in Nat
      BY ProvisionerAssumption, FS_Difference, FS_CardinalityType
    <2> QED
      BY <2>1, <2>2, ProvisionerAssumption DEF CanMount, IInv, TypeOK, ProvisionerTypeOK
  <1>5. ProvisionerTypeOK'
    BY <1>1, <1>3, <1>4 DEF IInv, TypeOK, ProvisionerTypeOK, TaskRec
  <1>6. JobsTypeOK' /\ resume' = NoResume
    BY DEF JobsRestart, JobsTypeOK, NoSweep, NoPurge, NoResume
  <1>7. /\ desk \in DeskType /\ desk' \in DeskType
        /\ \A p \in PaymentIds : \/ desk[p].pc \in {"idle", "done"} /\ desk'[p] = desk[p]
                                 \/ desk[p].pc \notin {"idle", "done"} /\ desk'[p].pc = "dead"
    <2>1. desk \in DeskType
      BY DEF IInv, TypeOK, DeskTypeOK, DeskType, DeskRec
    <2>2. [NoHandler EXCEPT !.pc = "dead"] \in DeskRec /\ [NoHandler EXCEPT !.pc = "dead"].pc = "dead"
      BY DEF NoHandler, DeskRec, DeskPC
    <2> QED
      BY <2>1, <2>2 DEF DeskRestart, DeskType
  <1>8. receipt' = [m \in Msgs |-> NoReceipt] /\ buying' = {}
    BY DEF DeskRestart
  <1>9. DeskTypeOK'
    BY <1>1, <1>7, <1>8 DEF IInv, TypeOK, DeskTypeOK, DeskType, DeskRec, NoReceipt
  <1>10. OwnerInv'
    BY <1>1, <1>8 DEF IInv, OwnerInv, NoReceipt, storeVars
  <1>11. LedgerInv'
    <2>1. \A p \in PaymentIds : Stage(p)'
      BY <1>1, <1>7 DEF IInv, LedgerInv, Stage, Undecided, Unpaid, Paid, storeVars
    <2> QED
      BY <1>6, <2>1 DEF LedgerInv, ResumeInv, NoResume
  <1>12. TaskInv'
    BY <1>3 DEF TaskInv, Off
  <1> QED
    BY <1>2, <1>5, <1>6, <1>9, <1>10, <1>11, <1>12 DEF IInv, TypeOK

LEMMA InitIInv == Init => IInv
  <1> SUFFICES ASSUME Init PROVE IInv
    OBVIOUS
  <1> USE DEF Init
  <1>1. StoreTypeOK
    BY DEF StoreInit, StoreTypeOK, UserStatus, PaymentStatus, NoPayment
  <1>2. ProvisionerTypeOK
    <2>1. mounted \subseteq Nodes /\ CanMount(mounted, 0) /\ faults = Cardinality(Nodes \ mounted)
      BY DEF ProvisionerInit
    <2>2. Cardinality(Nodes \ mounted) \in Nat
      BY ProvisionerAssumption, FS_Difference, FS_CardinalityType
    <2>3. faults \in 0 .. MaxFaults
      BY <2>1, <2>2, ProvisionerAssumption DEF CanMount
    <2>4. task \in TaskType
      BY DEF ProvisionerInit, TaskType, TaskRec, TaskPC, Off
    <2> QED
      BY <2>1, <2>3, <2>4 DEF ProvisionerInit, ProvisionerTypeOK, TaskType, TaskRec
  <1>3. DeskTypeOK
    <2>1. NoHandler \in DeskRec
      BY DEF NoHandler, DeskRec, DeskPC
    <2> QED
      BY <2>1 DEF DeskInit, DeskTypeOK, DeskRec, NoReceipt
  <1>4. JobsTypeOK /\ restarts \in 0 .. MaxRestarts
    BY BotAssumption DEF JobsInit, JobsTypeOK, NoSweep, NoPurge, NoResume
  <1>5. OwnerInv /\ TaskInv
    BY DEF StoreInit, DeskInit, ProvisionerInit, OwnerInv, TaskInv, NoPayment, NoReceipt, Off
  <1>6. LedgerInv
    BY DEF StoreInit, DeskInit, JobsInit, LedgerInv, Stage, ResumeInv, NoPayment, NoHandler,
       NoResume, Unpaid, Paid, Undecided
  <1> QED
    BY <1>1, <1>2, <1>3, <1>4, <1>5, <1>6 DEF IInv, TypeOK

(* Every step of the bot keeps the invariants. *)
LEMMA NextIInv == IInv /\ [Next]_vars => IInv'
  <1> SUFFICES ASSUME IInv, [Next]_vars PROVE IInv'
    OBVIOUS
  <1>1. CASE DeskNext /\ UNCHANGED <<jobVars, restarts>>
    BY <1>1, UserIInv, ClaimIInv, ApproveIInv DEF DeskNext
  <1>2. CASE JobsNext /\ UNCHANGED <<deskVars, restarts>>
    BY <1>2, SweepIInv, PurgeIInv, ResumeIInv, ExpireIInv DEF JobsNext
  <1>3. CASE Tasks
    BY <1>3, TaskIInv DEF Tasks
  <1>4. CASE Tick
    BY <1>4, TickIInv
  <1>5. CASE Restart
    BY <1>5, RestartIInv
  <1>6. CASE UNCHANGED vars
    <2>1. UNCHANGED <<storeVars, nodeVars, deskVars, jobVars, restarts>>
      BY <1>6 DEF vars
    <2>2. TypeOK'
      BY <2>1 DEF IInv, TypeOK, StoreTypeOK, ProvisionerTypeOK, DeskTypeOK, JobsTypeOK,
         storeVars, nodeVars, deskVars, jobVars
    <2>3. OwnerInv'
      BY <2>1 DEF IInv, OwnerInv, storeVars, deskVars
    <2>4. LedgerInv' /\ TaskInv'
      BY <2>1, LedgerSame DEF storeVars, nodeVars, deskVars, jobVars
    <2> QED
      BY <2>2, <2>3, <2>4 DEF IInv
  <1> QED
    BY <1>1, <1>2, <1>3, <1>4, <1>5, <1>6 DEF Next

LEMMA AlwaysIInv == Spec => []IInv
  BY InitIInv, NextIInv, PTL DEF Spec

-----------------------------------------------------------------------------
(* Types hold in every reachable state, for any constants. *)
THEOREM TypeCorrect == Spec => []TypeOK
  <1>1. IInv => TypeOK
    BY DEF IInv
  <1> QED
    BY <1>1, AlwaysIInv, PTL

-----------------------------------------------------------------------------
(* The bot implements PaymentLedger: each step that writes a payment's     *)
(* status or credits a subscription is a ledger step IInv allows, and      *)
(* every other step stutters.                                              *)
Statuses == [p \in PaymentIds |-> payments[p].status]

(* A step that leaves both tables alone is a stutter. *)
LEMMA Stutters ==
  ASSUME UNCHANGED <<payments, credits>>
  PROVE  UNCHANGED Ledger!ledgerVars
  BY DEF Ledger!ledgerVars

(* Writing one status moves one payment of the ledger. *)
LEMMA StatusMoves ==
  ASSUME IInv, NEW p \in PaymentIds, NEW st,
         payments' = [payments EXCEPT ![p].status = st]
  PROVE  Statuses' = [Statuses EXCEPT ![p] = st]
  BY DEF Statuses, IInv, TypeOK, StoreTypeOK

LEMMA OpensOne ==
  ASSUME IInv, NEW m \in Msgs, ReceiptCreate(m)
  PROVE  \E p \in PaymentIds : Ledger!Open(p)
  <1> PICK p \in PaymentIds : CreatePayment(p, receipt[m].user)
    BY DEF ReceiptCreate
  <1>1. payments[p].status = "none" /\ credits' = credits
    BY DEF CreatePayment, ReceiptCreate
  <1>2. Statuses' = [Statuses EXCEPT ![p] = "pending"]
    BY DEF CreatePayment, Statuses, IInv, TypeOK, StoreTypeOK
  <1> QED
    BY <1>1, <1>2 DEF Ledger!Open, Ledger!Move, Statuses

LEMMA DecidesOne ==
  ASSUME IInv, NEW p \in PaymentIds, ApproveClaim(p) \/ RejectPayment(p)
  PROVE  Ledger!Decide(p)
  <1>1. /\ payments[p].status = "pending" /\ credits' = credits
        /\ \/ payments' = [payments EXCEPT ![p].status = "approved"]
           \/ payments' = [payments EXCEPT ![p].status = "rejected"]
    BY DEF ApproveClaim, RejectPayment, UpdatePaymentStatus, deskVars
  <1> QED
    BY <1>1, StatusMoves DEF Ledger!Decide, Ledger!Move, Statuses

(* The handler before the credit holds an approved payment nobody has      *)
(* credited.                                                               *)
LEMMA CreditsOne ==
  ASSUME IInv, NEW p \in PaymentIds, CreditSubscription(p)
  PROVE  Ledger!Credit(p)
  <1>1. /\ credits \in [PaymentIds -> Nat] /\ credits[p] = 0
        /\ payments[p].status = "approved"
    BY DEF IInv, TypeOK, DeskTypeOK, LedgerInv, Stage, Unpaid, CreditSubscription
  <1>2. payments' = payments /\ credits' = [credits EXCEPT ![p] = 1]
    BY <1>1 DEF CreditSubscription
  <1> QED
    BY <1>1, <1>2 DEF Ledger!Credit, Statuses

LEMMA DegradesOne ==
  ASSUME IInv, NEW p \in PaymentIds, MarkPartial(p)
  PROVE  Ledger!Degrade(p)
  <1>1. credits[p] = 1 /\ payments[p].status = "approved" /\ credits' = credits
    BY DEF IInv, LedgerInv, Stage, Paid, MarkPartial
  <1>2. Statuses' = [Statuses EXCEPT ![p] = "partial"]
    BY StatusMoves DEF MarkPartial, SetPaymentStatus
  <1> QED
    BY <1>1, <1>2 DEF Ledger!Degrade, Ledger!Move, Statuses

(* The retry job settles payments that are paid for: it completes a        *)
(* partial one, or approves again one that is approved already.            *)
LEMMA CompletesOne ==
  ASSUME IInv, ResumeApprove, UNCHANGED deskVars
  PROVE  \/ \E p \in PaymentIds : Ledger!Complete(p)
         \/ UNCHANGED Ledger!ledgerVars
  <1> DEFINE p == resume.pay
  <1>1. p \in PaymentIds /\ Settled(p)
    BY DEF IInv, TypeOK, JobsTypeOK, LedgerInv, ResumeInv, ResumeApprove
  <1>2. Statuses' = [Statuses EXCEPT ![p] = "approved"] /\ credits' = credits
    BY <1>1, StatusMoves DEF ResumeApprove, SetPaymentStatus, deskVars
  <1>3. CASE payments[p].status = "partial"
    BY <1>1, <1>2, <1>3 DEF Ledger!Complete, Ledger!Move, Statuses, Settled
  <1>4. CASE payments[p].status = "approved"
    <2>1. Statuses' = Statuses
      BY <1>1, <1>2, <1>4 DEF Statuses
    <2> QED
      BY <1>2, <2>1 DEF Ledger!ledgerVars, Statuses
  <1> QED
    BY <1>1, <1>3, <1>4 DEF Settled

LEMMA LapsesSome ==
  ASSUME IInv, ExpirePending, UNCHANGED deskVars
  PROVE  Ledger!Lapse
  <1> DEFINE old == {p \in PaymentIds : /\ payments[p].status = "pending"
                                       /\ payments[p].created < now - PaymentExpireDays}
  <1>1. payments' = [p \in PaymentIds |->
                       IF p \in old THEN [payments[p] EXCEPT !.status = "expired"]
                                    ELSE payments[p]]
    BY DEF ExpirePending, ExpireOldPendingPayments
  <1>2. old \in SUBSET {p \in PaymentIds : Statuses[p] = "pending"}
    BY DEF Statuses
  <1>3. \A p \in PaymentIds : payments[p] \in [tg_id : Users \cup {NoUser},
                                              status : PaymentStatus, created : Nat]
    BY DEF IInv, TypeOK, StoreTypeOK
  <1> HIDE DEF old
  <1>4. Statuses' = [p \in PaymentIds |-> IF p \in old THEN "expired" ELSE Statuses[p]]
    BY <1>1, <1>3 DEF Statuses
  <1> QED
    BY <1>2, <1>4 DEF Ledger!Lapse, Statuses, deskVars

-----------------------------------------------------------------------------
LEMMA DeskImplements ==
  ASSUME IInv, DeskNext
  PROVE  [Ledger!LedgerNext]_(Ledger!ledgerVars)
  <1>1. CASE \E m \in Msgs : ReceiptCreate(m)
    BY <1>1, OpensOne DEF Ledger!LedgerNext
  <1>2. CASE \E p \in PaymentIds : ApproveClaim(p) \/ RejectPayment(p)
    BY <1>2, DecidesOne DEF Ledger!LedgerNext
  <1>3. CASE \E p \in PaymentIds : CreditSubscription(p)
    BY <1>3, CreditsOne DEF Ledger!LedgerNext
  <1>4. CASE \E p \in PaymentIds : MarkPartial(p)
    BY <1>4, DegradesOne DEF Ledger!LedgerNext
  <1>5. CASE \E u \in Users : BuyCheck(u) \/ BuyShow(u) \/ LeaveMenu(u)
    BY <1>5, Stutters DEF BuyCheck, BuyShow, LeaveMenu, storeVars
  <1>6. CASE \E m \in Msgs : \/ \E u \in Users : ReceiptArrives(m, u)
                             \/ ReceiptCheck(m) \/ ReceiptClear(m) \/ ReceiptNotify(m)
                             \/ ReceiptEscapes(m)
    BY <1>6, Stutters DEF ReceiptArrives, ReceiptCheck, ReceiptClear, ReceiptNotify,
       ReceiptEscapes, storeVars
  <1>7. ASSUME NEW p \in PaymentIds,
               \/ LoadDevices(p) \/ EnableNext(p) \/ ReadSubscription(p) \/ SendRenewed(p)
               \/ SendConfirmed(p) \/ ProvisionOver(p) \/ HandlerEscapes(p)
        PROVE  [Ledger!LedgerNext]_(Ledger!ledgerVars)
    <2>1. CASE LoadDevices(p) \/ EnableNext(p) \/ ReadSubscription(p)
      BY <2>1, Stutters DEF LoadDevices, EnableNext, ReadSubscription, storeVars
    <2>2. CASE SendRenewed(p) \/ SendConfirmed(p)
      BY <2>2, Stutters DEF SendRenewed, SendConfirmed, storeVars
    <2>3. CASE ProvisionOver(p) \/ HandlerEscapes(p)
      BY <2>3, Stutters DEF ProvisionOver, HandlerEscapes, storeVars
    <2> QED
      BY <1>7, <2>1, <2>2, <2>3
  <1> QED
    BY <1>1, <1>2, <1>3, <1>4, <1>5, <1>6, <1>7, Zenon DEF DeskNext, ReceiptNext, ApproveStep

LEMMA JobsImplement ==
  ASSUME IInv, JobsNext, UNCHANGED deskVars
  PROVE  [Ledger!LedgerNext]_(Ledger!ledgerVars)
  <1>1. CASE ResumeApprove
    BY <1>1, CompletesOne DEF Ledger!LedgerNext
  <1>2. CASE ExpirePending
    BY <1>2, LapsesSome DEF Ledger!LedgerNext
  <1>3. CASE SweepNext
    BY <1>3, Stutters DEF SweepNext, SweepStart, SweepLoad, SweepDisable, SweepMark,
       SweepNotify, SweepEscapes, storeVars, deskVars
  <1>4. CASE PurgeNext
    BY <1>4, Stutters DEF PurgeNext, PurgeStart, PurgeRevoke, PurgeDelete, storeVars, deskVars
  <1>5. CASE \/ ResumeStart \/ ResumeLoad \/ ResumeSettle \/ ResumeNotify \/ ResumeFails
    BY <1>5, Stutters DEF ResumeStart, ResumeLoad, ResumeSettle, ResumeNotify, ResumeFails,
       storeVars, deskVars
  <1> QED
    BY <1>1, <1>2, <1>3, <1>4, <1>5 DEF JobsNext, ResumeStep

LEMMA StepsImplement == IInv /\ [Next]_vars => [Ledger!LedgerNext]_(Ledger!ledgerVars)
  <1> SUFFICES ASSUME IInv, [Next]_vars PROVE [Ledger!LedgerNext]_(Ledger!ledgerVars)
    OBVIOUS
  <1>1. CASE DeskNext
    BY <1>1, DeskImplements
  <1>2. CASE JobsNext /\ UNCHANGED deskVars
    BY <1>2, JobsImplement
  <1>3. CASE Tasks
    <2>1. PICK p \in PaymentIds, s \in Slots : TaskStep(p, s) /\ UNCHANGED deskVars
      BY <1>3 DEF Tasks
    <2>2. UNCHANGED <<payments, credits>>
      BY <2>1 DEF TaskStep, ListClients, Post, LosePost, GetConfig, CallFails, Insert,
         InsertFails, Rollback, storeVars, deskVars
    <2> QED
      BY <2>2, Stutters
  <1>4. CASE Tick \/ Restart
    BY <1>4, Stutters DEF Tick, Restart, DeskRestart, storeVars, deskVars
  <1>5. CASE UNCHANGED vars
    BY <1>5, Stutters DEF vars, storeVars, deskVars
  <1> QED
    BY <1>1, <1>2, <1>3, <1>4, <1>5 DEF Next

(* Whatever the numbers of users, payments, nodes and concurrent messages, *)
(* and however handlers, jobs, failures and restarts interleave, a request *)
(* is decided once, pays for one extension, and only a paid one is put on  *)
(* or taken off the list of partial bundles (approve_payment,              *)
(* reject_payment, process_receipt, job_partial_provision,                 *)
(* job_expire_pending_payments).                                           *)
THEOREM LedgerImplemented == Spec => LedgerSpec
  <1>1. Init => Ledger!LedgerInit
    BY DEF Init, StoreInit, DeskInit, NoPayment, Ledger!LedgerInit
  <1> QED
    BY <1>1, StepsImplement, AlwaysIInv, PTL DEF Spec, LedgerSpec, Ledger!LedgerSpec

-----------------------------------------------------------------------------
(* One pending request.  A receipt past its check that no other photo has  *)
(* crowded is alone between check and request, and nothing is pending.     *)

CrowdInv ==
  \A m \in Msgs : receipt[m].pc = "create" /\ ~receipt[m].crowded =>
    /\ ~HasPendingPayment(receipt[m].user)
    /\ \A n \in Msgs : receipt[n].pc = "create" /\ receipt[n].user = receipt[m].user => n = m

(* What a step may ask for: the action of OnePending. *)
Asked ==
  \A m \in Msgs :
    receipt[m].pay = 0 /\ receipt'[m].pay # 0 /\ HasPendingPayment(receipt[m].user)
      => receipt[m].crowded

Crowds == CrowdInv' /\ Asked

(* The check: nothing is pending when a receipt passes it, and it crowds   *)
(* those that are on their way to a request already.                       *)
LEMMA PassCrowds ==
  ASSUME IInv, CrowdInv, NEW m \in Msgs, ~HasPendingPayment(receipt[m].user),
         ReceiptPasses(m), payments' = payments
  PROVE  Crowds
  <1> DEFINE w == receipt[m].user
             others == Creating(w)
  <1>1. receipt' = [n \in Msgs |->
           IF n = m THEN [receipt[m] EXCEPT !.pc = "create", !.crowded = others # {}]
                    ELSE [receipt[n] EXCEPT !.crowded = @ \/ n \in others]]
    BY DEF ReceiptPasses
  <1>2. \A n \in Msgs : n \in others <=> receipt[n].pc = "create" /\ receipt[n].user = w
    BY DEF Creating
  <1>3. others \subseteq Msgs
    BY DEF Creating
  <1> HIDE DEF others
  <1>4. receipt \in ReceiptType
    BY DEF IInv, TypeOK, DeskTypeOK, ReceiptType
  <1>5. /\ receipt'[m].pc = "create" /\ receipt'[m].user = w /\ receipt'[m].pay = receipt[m].pay
        /\ ~receipt'[m].crowded => others = {}
    BY <1>1, <1>4 DEF ReceiptType
  <1>6. ASSUME NEW n \in Msgs, n # m
        PROVE  /\ receipt'[n].pc = receipt[n].pc /\ receipt'[n].user = receipt[n].user
               /\ receipt'[n].pay = receipt[n].pay
               /\ ~receipt'[n].crowded => ~receipt[n].crowded /\ n \notin others
    BY <1>1, <1>4, <1>6 DEF ReceiptType
  <1>7. \A u : HasPendingPayment(u)' <=> HasPendingPayment(u)
    BY DEF HasPendingPayment
  <1>8. ASSUME NEW n \in Msgs, receipt'[n].pc = "create", ~receipt'[n].crowded
        PROVE  /\ ~HasPendingPayment(receipt'[n].user)
               /\ \A k \in Msgs : receipt'[k].pc = "create" /\ receipt'[k].user = receipt'[n].user
                                    => k = n
    <2>1. CASE n = m
      BY <1>2, <1>5, <1>6, <1>8, <2>1
    <2>2. CASE n # m
      <3>1. receipt[n].pc = "create" /\ ~receipt[n].crowded /\ receipt[n].user # w
        BY <1>2, <1>6, <1>8, <2>2
      <3> QED
        BY <1>5, <1>6, <2>2, <3>1 DEF CrowdInv
    <2> QED
      BY <2>1, <2>2
  <1>9. CrowdInv'
    BY <1>7, <1>8 DEF CrowdInv, HasPendingPayment
  <1>10. Asked
    BY <1>5, <1>6 DEF Asked
  <1> QED
    BY <1>9, <1>10 DEF Crowds

(* The request is stored: whoever else of the user is on the way to one    *)
(* was crowded by this receipt, or crowded it.                             *)
LEMMA CreateCrowds ==
  ASSUME IInv, CrowdInv, NEW m \in Msgs, ReceiptCreate(m)
  PROVE  Crowds
  <1> DEFINE w == receipt[m].user
  <1>1. PICK p \in PaymentIds :
          /\ payments' = [payments EXCEPT ![p] = [tg_id |-> w, status |-> "pending", created |-> now]]
          /\ ReceiptStep(m, "clear", p)
    BY DEF ReceiptCreate, CreatePayment
  <1>2. receipt \in ReceiptType /\ receipt[m].pc = "create"
    BY DEF IInv, TypeOK, DeskTypeOK, ReceiptType, ReceiptCreate
  <1>3. receipt'[m].pc = "clear" /\ \A k \in Msgs : k # m => receipt'[k] = receipt[k]
    BY <1>1, <1>2 DEF ReceiptType, ReceiptStep
  <1>4. /\ payments'[p].tg_id = w
        /\ \A q \in PaymentIds : q # p => payments'[q] = payments[q]
    BY <1>1 DEF IInv, TypeOK, StoreTypeOK
  <1>5. ASSUME NEW n \in Msgs, receipt'[n].pc = "create", ~receipt'[n].crowded
        PROVE  /\ ~HasPendingPayment(receipt[n].user)'
               /\ \A k \in Msgs : receipt'[k].pc = "create" /\ receipt'[k].user = receipt'[n].user
                                    => k = n
    <2>1. n # m /\ receipt'[n] = receipt[n]
      BY <1>3, <1>5
    <2>2. receipt[n].user # w
      BY <1>2, <1>5, <2>1 DEF CrowdInv
    <2>3. ~HasPendingPayment(receipt[n].user)
      BY <1>5, <2>1 DEF CrowdInv
    <2>4. ~HasPendingPayment(receipt[n].user)'
      BY <1>4, <2>1, <2>2, <2>3 DEF HasPendingPayment
    <2>5. \A k \in Msgs : receipt'[k].pc = "create" /\ receipt'[k].user = receipt[n].user => k = n
      BY <1>3, <1>5, <2>1 DEF CrowdInv
    <2> QED
      BY <2>1, <2>4, <2>5
  <1>6. CrowdInv'
    BY <1>5 DEF CrowdInv
  <1>7. Asked
    BY <1>2, <1>3 DEF Asked, CrowdInv
  <1> QED
    BY <1>6, <1>7 DEF Crowds

(* A step that opens no request and brings no receipt past its check.      *)
NoneOpens ==
  /\ \A p \in PaymentIds :
       payments'[p].status = "pending" => payments[p].status = "pending"
                                          /\ payments'[p].tg_id = payments[p].tg_id
  /\ \A m \in Msgs : /\ receipt'[m].pc = "create" => receipt'[m] = receipt[m]
                     /\ receipt'[m].pay \in {0, receipt[m].pay}

LEMMA NoneOpensCrowds ==
  ASSUME CrowdInv, NoneOpens
  PROVE  Crowds
  <1>1. CrowdInv'
    BY DEF CrowdInv, NoneOpens, HasPendingPayment
  <1>2. Asked
    BY DEF Asked, NoneOpens
  <1> QED
    BY <1>1, <1>2 DEF Crowds

(* Writing a decided status opens nothing. *)
LEMMA DecidedOpensNone ==
  ASSUME IInv, NEW p \in PaymentIds, NEW st, st # "pending",
         payments' = [payments EXCEPT ![p].status = st], receipt' = receipt
  PROVE  NoneOpens
  <1>1. /\ payments'[p].status = st
        /\ \A q \in PaymentIds : q # p => payments'[q] = payments[q]
    BY DEF IInv, TypeOK, StoreTypeOK
  <1> QED
    BY <1>1 DEF NoneOpens

LEMMA DeskCrowds ==
  ASSUME IInv, CrowdInv, DeskNext
  PROVE  Crowds
  <1>0. receipt \in ReceiptType
    BY DEF IInv, TypeOK, DeskTypeOK, ReceiptType
  <1>1. ASSUME NEW m \in Msgs, ReceiptCheck(m) PROVE Crowds
    <2>1. payments' = payments
      BY <1>1 DEF ReceiptCheck, storeVars
    <2>2. CASE HasPendingPayment(receipt[m].user)
      <3>1. ReceiptStep(m, "clear", 0)
        BY <1>1, <2>2 DEF ReceiptCheck
      <3>2. \A k \in Msgs : /\ receipt'[k].pc = "create" => receipt'[k] = receipt[k]
                            /\ receipt'[k].pay \in {0, receipt[k].pay}
        BY <1>0, <3>1 DEF ReceiptStep, ReceiptType
      <3> QED
        BY <2>1, <3>2, NoneOpensCrowds DEF NoneOpens
    <2>3. CASE ~HasPendingPayment(receipt[m].user)
      BY <1>1, <2>1, <2>3, PassCrowds DEF ReceiptCheck
    <2> QED
      BY <2>2, <2>3
  <1>2. CASE \E m \in Msgs : ReceiptCreate(m)
    BY <1>2, CreateCrowds
  <1>3. ASSUME NEW m \in Msgs, (\E u \in Users : ReceiptArrives(m, u))
                               \/ ReceiptClear(m) \/ ReceiptNotify(m) \/ ReceiptEscapes(m)
        PROVE  Crowds
    <2>1. payments' = payments
      BY <1>3 DEF ReceiptArrives, ReceiptClear, ReceiptNotify, ReceiptEscapes, storeVars
    <2>2. \/ \E r : r.pc # "create" /\ r.pay = 0 /\ receipt' = [receipt EXCEPT ![m] = r]
          \/ ReceiptStep(m, "notify", receipt[m].pay)
      BY <1>3 DEF ReceiptArrives, ReceiptClear, ReceiptNotify, ReceiptEscapes, NoReceipt
    <2>3. \A k \in Msgs : /\ receipt'[k].pc = "create" => receipt'[k] = receipt[k]
                          /\ receipt'[k].pay \in {0, receipt[k].pay}
      BY <1>0, <2>2 DEF ReceiptType, ReceiptStep
    <2> QED
      BY <2>1, <2>3, NoneOpensCrowds DEF NoneOpens
  <1>4. ASSUME NEW p \in PaymentIds, ApproveClaim(p) \/ RejectPayment(p) \/ MarkPartial(p)
        PROVE  Crowds
    <2>1. PICK st \in {"approved", "rejected", "partial"} :
            payments' = [payments EXCEPT ![p].status = st]
      BY <1>4 DEF ApproveClaim, RejectPayment, MarkPartial, UpdatePaymentStatus, SetPaymentStatus
    <2>2. receipt' = receipt /\ st # "pending"
      BY <1>4 DEF ApproveClaim, RejectPayment, MarkPartial, deskVars
    <2> QED
      BY <2>1, <2>2, DecidedOpensNone, NoneOpensCrowds
  <1>5. ASSUME payments' = payments, receipt' = receipt PROVE Crowds
    BY <1>5, NoneOpensCrowds DEF NoneOpens
  <1>6. CASE \E u \in Users : BuyCheck(u) \/ BuyShow(u) \/ LeaveMenu(u)
    BY <1>6, <1>5 DEF BuyCheck, BuyShow, LeaveMenu, storeVars
  <1>7. ASSUME NEW p \in PaymentIds,
               \/ LoadDevices(p) \/ EnableNext(p) \/ ReadSubscription(p) \/ SendRenewed(p)
               \/ CreditSubscription(p) \/ SendConfirmed(p) \/ ProvisionOver(p)
               \/ HandlerEscapes(p)
        PROVE  Crowds
    <2>1. CASE LoadDevices(p) \/ EnableNext(p) \/ ReadSubscription(p)
      BY <2>1, <1>5 DEF LoadDevices, EnableNext, ReadSubscription, storeVars
    <2>2. CASE CreditSubscription(p) \/ SendRenewed(p) \/ SendConfirmed(p)
      BY <2>2, <1>5 DEF CreditSubscription, SendRenewed, SendConfirmed, storeVars
    <2>3. CASE ProvisionOver(p) \/ HandlerEscapes(p)
      BY <2>3, <1>5 DEF ProvisionOver, HandlerEscapes, storeVars
    <2> QED
      BY <1>7, <2>1, <2>2, <2>3
  <1> QED
    BY <1>1, <1>2, <1>3, <1>4, <1>6, <1>7, Zenon DEF DeskNext, ReceiptNext, ApproveStep

LEMMA JobsCrowd ==
  ASSUME IInv, CrowdInv, JobsNext, UNCHANGED deskVars
  PROVE  Crowds
  <1>0. receipt' = receipt
    BY DEF deskVars
  <1>1. CASE ResumeApprove
    <2>1. resume.pay \in PaymentIds
      BY <1>1 DEF ResumeApprove, IInv, LedgerInv, ResumeInv, TypeOK, JobsTypeOK
    <2>2. payments' = [payments EXCEPT ![resume.pay].status = "approved"]
      BY <1>1 DEF ResumeApprove, SetPaymentStatus
    <2>3. "approved" # "pending"
      OBVIOUS
    <2> QED
      BY <1>0, <2>1, <2>2, <2>3, DecidedOpensNone, NoneOpensCrowds
  <1>2. CASE ExpirePending
    <2> DEFINE old == {p \in PaymentIds : /\ payments[p].status = "pending"
                                          /\ payments[p].created < now - PaymentExpireDays}
    <2>1. payments' = [p \in PaymentIds |->
                         IF p \in old THEN [payments[p] EXCEPT !.status = "expired"]
                                      ELSE payments[p]]
      BY <1>2 DEF ExpirePending, ExpireOldPendingPayments
    <2>2. \A p \in PaymentIds : payments[p] \in [tg_id : Users \cup {NoUser},
                                                status : PaymentStatus, created : Nat]
      BY DEF IInv, TypeOK, StoreTypeOK
    <2> HIDE DEF old
    <2>3. \A p \in PaymentIds : payments'[p].status = "expired" \/ payments'[p] = payments[p]
      BY <2>1, <2>2
    <2>4. "expired" # "pending"
      OBVIOUS
    <2> QED
      BY <1>0, <2>3, <2>4, NoneOpensCrowds DEF NoneOpens
  <1>3. ASSUME payments' = payments PROVE Crowds
    BY <1>0, <1>3, NoneOpensCrowds DEF NoneOpens
  <1>4. CASE SweepNext
    BY <1>4, <1>3 DEF SweepNext, SweepStart, SweepLoad, SweepDisable, SweepMark,
       SweepNotify, SweepEscapes, storeVars
  <1>5. CASE PurgeNext
    BY <1>5, <1>3 DEF PurgeNext, PurgeStart, PurgeRevoke, PurgeDelete, storeVars
  <1>6. CASE \/ ResumeStart \/ ResumeLoad \/ ResumeSettle \/ ResumeNotify \/ ResumeFails
    BY <1>6, <1>3 DEF ResumeStart, ResumeLoad, ResumeSettle, ResumeNotify, ResumeFails, storeVars
  <1> QED
    BY <1>1, <1>2, <1>4, <1>5, <1>6 DEF JobsNext, ResumeStep

LEMMA CrowdStep == IInv /\ CrowdInv /\ [Next]_vars => Crowds
  <1> SUFFICES ASSUME IInv, CrowdInv, [Next]_vars PROVE Crowds
    OBVIOUS
  <1>0. ASSUME payments' = payments, receipt' = receipt PROVE Crowds
    BY <1>0, NoneOpensCrowds DEF NoneOpens
  <1>1. CASE DeskNext
    BY <1>1, DeskCrowds
  <1>2. CASE JobsNext /\ UNCHANGED deskVars
    BY <1>2, JobsCrowd
  <1>3. CASE Tasks
    <2>1. PICK p \in PaymentIds, s \in Slots : TaskStep(p, s) /\ UNCHANGED deskVars
      BY <1>3 DEF Tasks
    <2>2. payments' = payments /\ receipt' = receipt
      BY <2>1 DEF TaskStep, ListClients, Post, LosePost, GetConfig, CallFails, Insert,
         InsertFails, Rollback, storeVars, deskVars
    <2> QED
      BY <2>2, <1>0
  <1>4. CASE Tick
    BY <1>4, <1>0 DEF Tick, deskVars
  <1>5. CASE Restart
    <2>1. payments' = payments /\ receipt' = [m \in Msgs |-> NoReceipt]
      BY <1>5 DEF Restart, DeskRestart, storeVars
    <2> QED
      BY <2>1, NoneOpensCrowds DEF NoneOpens, NoReceipt
  <1>6. CASE UNCHANGED vars
    BY <1>6, <1>0 DEF vars, storeVars, deskVars
  <1> QED
    BY <1>1, <1>2, <1>3, <1>4, <1>5, <1>6 DEF Next

(* "You already have an active request in queue": while a user has a       *)
(* pending request no photo makes another, whatever interleaves with the   *)
(* checks of buy_subscription and process_receipt, unless it was between   *)
(* its own check and request beside another photo of the user: for any     *)
(* numbers of users, photos and payments.                                  *)
THEOREM OnePendingAlways == Spec => OnePending
  <1>1. Init => CrowdInv
    BY DEF Init, DeskInit, NoReceipt, CrowdInv
  <1>2. IInv /\ CrowdInv /\ [Next]_vars => CrowdInv'
    BY CrowdStep DEF Crowds
  <1>3. IInv /\ CrowdInv /\ [Next]_vars => [Asked]_vars
    BY CrowdStep DEF Crowds
  <1>4. [][Asked]_vars => OnePending
    BY PTL DEF OnePending, Asked
  <1> QED
    BY <1>1, <1>2, <1>3, <1>4, AlwaysIInv, PTL DEF Spec
=============================================================================
