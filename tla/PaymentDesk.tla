---------------------------- MODULE PaymentDesk ----------------------------
(***************************************************************************)
(* The Telegram handlers of a payment (handlers/user.py buy_subscription   *)
(* and process_receipt, handlers/admin.py approve_payment and              *)
(* reject_payment).  Updates are dispatched as concurrent tasks, so each   *)
(* handler is a process that yields at every await; an action is the code  *)
(* between two awaits.                                                     *)
(***************************************************************************)
EXTENDS Provisioner

CONSTANTS
  Msgs,          \* slots for receipt messages being handled at once
  EscapePoints   \* awaits of approve_payment an exception may escape from

(* The renewal loop and provision catch every exception. *)
ASSUME DeskAssumption ==
  /\ IsFiniteSet(Msgs)
  /\ EscapePoints \subseteq {"devices", "read", "write", "renewed", "confirm", "degrade"}

VARIABLES
  waiting,  \* users whose FSM state is PaymentState.waiting_for_receipt
  buying,   \* users whose buy_subscription passed its duplicate check
  receipt,  \* receipt[m]: a running process_receipt; crowded: since its check another
            \* photo of the user has been between check and request too (history)
  inbox,    \* payments whose Approve/Decline buttons an admin has received
  desk,     \* desk[p]: the approve_payment handler that claimed p
  credits   \* credits[p]: subscription extensions paid by p (history)

deskVars == <<waiting, buying, receipt, inbox, desk, credits>>

NoReceipt == [pc |-> "idle", user |-> NoUser, pay |-> 0, crowded |-> FALSE]
NoHandler == [pc |-> "idle", todo |-> {}, renewal |-> FALSE, end |-> 0]

DeskPC == {"idle", "devices", "enable", "read", "write", "renewed", "confirm",
           "provision", "degrade", "done", "dead"}

DeskTypeOK ==
  /\ waiting \subseteq Users /\ buying \subseteq Users
  /\ receipt \in [Msgs -> [pc : {"idle", "check", "create", "clear", "notify"},
                           user : Users \cup {NoUser}, pay : PaymentIds \cup {0},
                           crowded : BOOLEAN]]
  /\ inbox \subseteq PaymentIds
  /\ desk \in [PaymentIds -> [pc : DeskPC, todo : SUBSET DeviceRow,
                              renewal : BOOLEAN, end : Nat]]
  /\ credits \in [PaymentIds -> Nat]

DeskInit ==
  /\ waiting = {} /\ buying = {}
  /\ receipt = [m \in Msgs |-> NoReceipt]
  /\ inbox = {}
  /\ desk = [p \in PaymentIds |-> NoHandler]
  /\ credits = [p \in PaymentIds |-> 0]

-----------------------------------------------------------------------------
(* The user's side *)

(* MaxPayments bounds the requests: nobody sets out for one more. *)
BuyCheck(u) ==
  /\ \E p \in PaymentIds : payments[p] = NoPayment
  /\ u \notin buying
  /\ ~HasPendingPayment(u)
  /\ buying' = buying \cup {u}
  /\ UNCHANGED <<storeVars, nodeVars, waiting, receipt, inbox, desk, credits>>

(* The menu edit before set_state may raise and end the handler. *)
BuyShow(u) ==
  /\ u \in buying
  /\ buying' = buying \ {u}
  /\ waiting' \in {waiting, waiting \cup {u}}
  /\ UNCHANGED <<storeVars, nodeVars, receipt, inbox, desk, credits>>

(* /start, "Return" and "Abort" clear the FSM state. *)
LeaveMenu(u) ==
  /\ u \in waiting
  /\ waiting' = waiting \ {u}
  /\ UNCHANGED <<storeVars, nodeVars, buying, receipt, inbox, desk, credits>>

ReceiptStep(m, pc, pay) ==
  receipt' = [receipt EXCEPT ![m].pc = pc, ![m].pay = pay, ![m].crowded = FALSE]

(* A photo is dispatched to process_receipt by the state filter. *)
ReceiptArrives(m, u) ==
  /\ receipt[m].pc = "idle"
  /\ u \in waiting
  /\ receipt' = [receipt EXCEPT ![m] = [NoReceipt EXCEPT !.pc = "check", !.user = u]]
  /\ UNCHANGED <<storeVars, nodeVars, waiting, buying, inbox, desk, credits>>

Creating(u) == {m \in Msgs : receipt[m].pc = "create" /\ receipt[m].user = u}

(* The check is passed; the request is made after another await. *)
ReceiptPasses(m) ==
  LET others == Creating(receipt[m].user)
  IN  receipt' = [n \in Msgs |->
        IF n = m THEN [receipt[m] EXCEPT !.pc = "create", !.crowded = others # {}]
                 ELSE [receipt[n] EXCEPT !.crowded = @ \/ n \in others]]

(* Mutant: only buy_subscription looks for a pending request. *)
ReceiptUnchecked(m) ==
  /\ receipt[m].pc = "check"
  /\ ReceiptPasses(m)
  /\ UNCHANGED <<storeVars, nodeVars, waiting, buying, inbox, desk, credits>>

ReceiptCheck(m) ==
  /\ receipt[m].pc = "check"
  /\ IF HasPendingPayment(receipt[m].user) THEN ReceiptStep(m, "clear", 0)
                                           ELSE ReceiptPasses(m)
  /\ UNCHANGED <<storeVars, nodeVars, waiting, buying, inbox, desk, credits>>

ReceiptCreate(m) ==
  /\ receipt[m].pc = "create"
  /\ \E p \in PaymentIds : CreatePayment(p, receipt[m].user) /\ ReceiptStep(m, "clear", p)
  /\ UNCHANGED <<users, devices, lastDevice, now, nodeVars, waiting, buying,
                 inbox, desk, credits>>

ReceiptClear(m) ==
  /\ receipt[m].pc = "clear"
  /\ waiting' = waiting \ {receipt[m].user}
  /\ IF receipt[m].pay = 0 THEN receipt' = [receipt EXCEPT ![m] = NoReceipt]
                           ELSE ReceiptStep(m, "notify", receipt[m].pay)
  /\ UNCHANGED <<storeVars, nodeVars, buying, inbox, desk, credits>>

(* A database error, or an answer to the user that raises before           *)
(* state.clear: the handler ends with the state uncleared and, if the      *)
(* payment was created, the admins untold.                                 *)
ReceiptEscapes(m) ==
  /\ receipt[m].pc \in {"check", "create", "clear"}
  /\ Fault
  /\ receipt' = [receipt EXCEPT ![m] = NoReceipt]
  /\ UNCHANGED <<storeVars, mounted, clients, lastPid, task, waiting, buying,
                 inbox, desk, credits>>

(* Every failed send_photo is swallowed; the buttons exist only in it. *)
ReceiptNotify(m) ==
  /\ receipt[m].pc = "notify"
  /\ receipt' = [receipt EXCEPT ![m] = NoReceipt]
  /\ \/ inbox' = inbox \cup {receipt[m].pay} /\ UNCHANGED faults
     \/ Fault /\ UNCHANGED inbox
  /\ UNCHANGED <<storeVars, mounted, clients, lastPid, task, waiting, buying, desk, credits>>

-----------------------------------------------------------------------------
(* The admin's side.  Any number of clicks may arrive; a click that loses  *)
(* the claim changes nothing ("Already processed").                        *)

ApproveClaim(p) ==
  /\ p \in inbox
  /\ UpdatePaymentStatus(p, "approved")
  /\ desk' = [desk EXCEPT ![p] = [NoHandler EXCEPT !.pc = "devices"]]
  /\ UNCHANGED <<users, devices, lastDevice, now, nodeVars, waiting, buying,
                 receipt, inbox, credits>>

RejectPayment(p) ==
  /\ p \in inbox
  /\ UpdatePaymentStatus(p, "rejected")
  /\ UNCHANGED <<users, devices, lastDevice, now, nodeVars, deskVars>>

LoadDevices(p) ==
  /\ desk[p].pc = "devices"
  /\ LET rows == GetUserDevices(payments[p].tg_id)
     IN  desk' = [desk EXCEPT ![p].pc = IF rows = {} THEN "read" ELSE "enable",
                              ![p].todo = rows, ![p].renewal = rows # {}]
  /\ UNCHANGED <<storeVars, nodeVars, waiting, buying, receipt, inbox, credits>>

(* One turn of the renewal loop.  enable_access reports failure by its     *)
(* return value, which the loop ignores: it counts every call a success.   *)
EnableNext(p) ==
  /\ desk[p].pc = "enable"
  /\ LET d == FirstRow(desk[p].todo)
         rest == desk[p].todo \ {d}
         on == SwitchedTo(d.slot, d.pid, TRUE)
     IN  /\ desk' = [desk EXCEPT ![p].todo = rest,
                                 ![p].pc = IF rest = {} THEN "read" ELSE "enable"]
         /\ IF HasProvider(d.slot)
              THEN Answered(d.slot, d.pid, on) \/ NotAnswered(d.slot, d.pid, on)
              ELSE UNCHANGED <<clients, faults>>
  /\ UNCHANGED <<storeVars, mounted, lastPid, task, waiting, buying, receipt,
                 inbox, credits>>

ReadSubscription(p) ==
  /\ desk[p].pc = "read"
  /\ desk' = [desk EXCEPT ![p].pc = "write", ![p].end = ExtendedEnd(payments[p].tg_id)]
  /\ UNCHANGED <<storeVars, nodeVars, waiting, buying, receipt, inbox, credits>>

CreditSubscription(p) ==
  /\ desk[p].pc = "write"
  /\ WriteSubscription(payments[p].tg_id, desk[p].end)
  /\ desk' = [desk EXCEPT ![p].pc = IF desk[p].renewal THEN "renewed" ELSE "confirm"]
  /\ credits' = [credits EXCEPT ![p] = @ + 1]
  /\ UNCHANGED <<payments, devices, lastDevice, now, nodeVars, waiting, buying,
                 receipt, inbox>>

SendRenewed(p) ==
  /\ desk[p].pc = "renewed"
  /\ desk' = [desk EXCEPT ![p].pc = "done"]
  /\ UNCHANGED <<storeVars, nodeVars, waiting, buying, receipt, inbox, credits>>

SendConfirmed(p) ==
  /\ desk[p].pc = "confirm"
  /\ Provision(p)
  /\ desk' = [desk EXCEPT ![p].pc = "provision"]
  /\ UNCHANGED <<storeVars, mounted, clients, lastPid, faults, waiting, buying,
                 receipt, inbox, credits>>

(* Mutant: an incomplete bundle is delivered and forgotten. *)
ProvisionForgets(p) ==
  /\ desk[p].pc = "provision"
  /\ TasksOver(p)
  /\ desk' = [desk EXCEPT ![p].pc = "done"]
  /\ ClearTasks(p)
  /\ UNCHANGED <<storeVars, mounted, clients, lastPid, faults, waiting, buying,
                 receipt, inbox, credits>>

(* gather returned: deliver the bundle, or mark the payment partial. *)
ProvisionOver(p) ==
  /\ desk[p].pc = "provision"
  /\ TasksOver(p)
  /\ desk' = [desk EXCEPT ![p].pc = IF FullySuccessful(p) THEN "done" ELSE "degrade"]
  /\ ClearTasks(p)
  /\ UNCHANGED <<storeVars, mounted, clients, lastPid, faults, waiting, buying,
                 receipt, inbox, credits>>

MarkPartial(p) ==
  /\ desk[p].pc = "degrade"
  /\ SetPaymentStatus(p, "partial")
  /\ desk' = [desk EXCEPT ![p].pc = "done"]
  /\ UNCHANGED <<users, devices, lastDevice, now, nodeVars, waiting, buying,
                 receipt, inbox, credits>>

(* Mutant: an approval that raised is started over. *)
HandlerStartsOver(p) ==
  /\ desk[p].pc \in EscapePoints
  /\ Fault
  /\ desk' = [desk EXCEPT ![p] = [NoHandler EXCEPT !.pc = "devices"]]
  /\ UNCHANGED <<storeVars, mounted, clients, lastPid, task, waiting, buying,
                 receipt, inbox, credits>>

(* A database error, or a Telegram error other than Forbidden, escapes to  *)
(* global_error_handler, which only logs it.                               *)
HandlerEscapes(p) ==
  /\ desk[p].pc \in EscapePoints
  /\ Fault
  /\ desk' = [desk EXCEPT ![p] = [NoHandler EXCEPT !.pc = "dead"]]
  /\ UNCHANGED <<storeVars, mounted, clients, lastPid, task, waiting, buying,
                 receipt, inbox, credits>>

(* The process died: handlers are gone, the FSM table is not. *)
DeskRestart ==
  /\ buying' = {}
  /\ receipt' = [m \in Msgs |-> NoReceipt]
  /\ desk' = [p \in PaymentIds |->
                IF desk[p].pc \in {"idle", "done"} THEN desk[p]
                ELSE [NoHandler EXCEPT !.pc = "dead"]]
  /\ UNCHANGED <<waiting, inbox, credits>>

DeskIdle ==
  /\ buying = {}
  /\ \A m \in Msgs : receipt[m].pc = "idle"
  /\ \A p \in PaymentIds : desk[p].pc \in {"idle", "done", "dead"}

-----------------------------------------------------------------------------
ReceiptNext(m) ==
  \/ ReceiptCheck(m) \/ ReceiptCreate(m) \/ ReceiptClear(m) \/ ReceiptNotify(m)
  \/ ReceiptEscapes(m)

ApproveStep(p) ==
  \/ LoadDevices(p) \/ EnableNext(p) \/ ReadSubscription(p) \/ CreditSubscription(p)
  \/ SendRenewed(p) \/ SendConfirmed(p) \/ ProvisionOver(p) \/ MarkPartial(p)

DeskNext ==
  \/ \E u \in Users : BuyCheck(u) \/ BuyShow(u) \/ LeaveMenu(u)
  \/ \E m \in Msgs, u \in Users : ReceiptArrives(m, u)
  \/ \E m \in Msgs : ReceiptNext(m)
  \/ \E p \in PaymentIds :
       ApproveClaim(p) \/ RejectPayment(p) \/ ApproveStep(p) \/ HandlerEscapes(p)
=============================================================================
