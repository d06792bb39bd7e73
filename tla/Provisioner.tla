---------------------------- MODULE Provisioner ----------------------------
(***************************************************************************)
(* BundleProvisioner (domain/provisioning.py) and the providers it calls   *)
(* (awg_easy.py, mtproto_mgr.py): one task per payment and slot creates an *)
(* access on the slot's node, stores the device row and rolls the access   *)
(* back when the row cannot be stored.  The tasks of one call run          *)
(* concurrently (asyncio.gather); every await is a step.                   *)
(*                                                                         *)
(* A node is the set of clients it holds for a slot.  A call to it is      *)
(* answered, or fails before it takes effect, or takes effect and its      *)
(* answer is lost.  Every failure spends one of MaxFaults.                 *)
(*                                                                         *)
(* The node of an MTProto slot is the sidecar (mtproto_manager/main.py) as *)
(* long as it runs and its file stays whole: create_secret, disable_secret *)
(* and enable_secret, delete_secret.  Its restart, after which it may have *)
(* lost clients and reuses their identifiers, is in MtprotoSidecar, and    *)
(* what that does to the bot's rows is in Accounts.  The node of an        *)
(* AmneziaWG slot is another program, known by the calls awg_easy.py makes.*)
(***************************************************************************)
EXTENDS BotStore

CONSTANTS
  Nodes,       \* configured nodes (VPN_SERVERS and MTPROTO_SERVERS entries)
  NodeOf,      \* NodeOf[s]: the node that serves slot s
  AwgSlots,    \* slots served by AmneziaWG nodes; the others are MTProto
  MaxRetries,  \* max_retries of provision
  MaxFaults    \* bound on the failures a run injects

ASSUME ProvisionerAssumption ==
  /\ IsFiniteSet(Nodes)
  /\ NodeOf \in [Slots -> Nodes]
  /\ AwgSlots \subseteq Slots
  /\ MaxRetries \in Nat \ {0}
  /\ MaxFaults \in Nat

VARIABLES
  mounted,  \* nodes that answered the health check when the bot started
  clients,  \* clients[s]: what the node of slot s holds, [pid, name, on]
  lastPid,  \* lastPid[s]: identifiers given out so far for slot s
  task,     \* task[p][s]: one _run_with_retry or _execute_single in progress
  faults    \* failures so far (auxiliary)

nodeVars == <<mounted, clients, lastPid, task, faults>>

TaskPC == {"off", "list", "post", "relist", "config", "insert", "rollback",
           "ok", "fail"}
Off == [pc |-> "off", left |-> 0, pid |-> 0]

ProvisionerTypeOK ==
  /\ mounted \subseteq Nodes
  /\ clients \in [Slots -> SUBSET [pid : Nat, name : PaymentIds, on : BOOLEAN]]
  /\ lastPid \in [Slots -> Nat]
  /\ task \in [PaymentIds -> [Slots -> [pc : TaskPC, left : Nat, pid : Nat]]]
  /\ faults \in 0 .. MaxFaults

(* on_startup mounts only the nodes whose health check succeeds, and no    *)
(* other is known until the next start.                                    *)
CanMount(up, spent) == spent + Cardinality(Nodes \ up) <= MaxFaults

ProvisionerInit ==
  /\ mounted \in {up \in SUBSET Nodes : CanMount(up, 0)}
  /\ faults = Cardinality(Nodes \ mounted)
  /\ clients = [s \in Slots |-> {}]
  /\ lastPid = [s \in Slots |-> 0]
  /\ task = [p \in PaymentIds |-> [s \in Slots |-> Off]]

(* Every task of the process dies; its clients and rows stay. *)
ProvisionerRestart ==
  /\ task' = [p \in PaymentIds |-> [s \in Slots |-> Off]]
  /\ \E up \in {n \in SUBSET Nodes : CanMount(n, faults)} :
       mounted' = up /\ faults' = faults + Cardinality(Nodes \ up)
  /\ UNCHANGED <<clients, lastPid>>

-----------------------------------------------------------------------------
(* Calls to a node *)

Fault == faults < MaxFaults /\ faults' = faults + 1

HasProvider(s) == NodeOf[s] \in mounted

Client(s, pid) == {c \in clients[s] : c.pid = pid}

(* The node's clients of slot s after a disable, enable or delete of pid. *)
SwitchedTo(s, pid, on) ==
  (clients[s] \ Client(s, pid)) \cup {[c EXCEPT !.on = on] : c \in Client(s, pid)}
Without(s, pid) == clients[s] \ Client(s, pid)

(* The call succeeded and the caller knows it. *)
Answered(s, pid, after) ==
  /\ Client(s, pid) # {}
  /\ clients' = [clients EXCEPT ![s] = after]
  /\ UNCHANGED faults

(* The provider method returned False: the node does not know pid, or the  *)
(* request failed, with or without its effect.                             *)
NotAnswered(s, pid, after) ==
  \/ Client(s, pid) = {} /\ UNCHANGED <<clients, faults>>
  \/ /\ Client(s, pid) # {}
     /\ Fault
     /\ clients' \in {clients, [clients EXCEPT ![s] = after]}

-----------------------------------------------------------------------------
(* One task *)

FirstCall(s) == IF s \in AwgSlots THEN "list" ELSE "post"

StartTasks(p, S, attempts) ==
  task' = [task EXCEPT ![p] = [s \in Slots |->
             IF s \in S THEN [pc |-> FirstCall(s), left |-> attempts, pid |-> 0]
                        ELSE Off]]

Goto(p, s, pc, pid) ==
  task' = [task EXCEPT ![p][s] = [pc |-> pc, left |-> task[p][s].left, pid |-> pid]]

(* _execute_single returned False: try again after a pause, or give up. *)
AttemptFailed(p, s) ==
  task' = [task EXCEPT ![p][s] =
             IF task[p][s].left > 1
               THEN [pc |-> FirstCall(s), left |-> task[p][s].left - 1, pid |-> 0]
               ELSE [pc |-> "fail", left |-> 0, pid |-> 0]]

NewClient(p, s) == [pid |-> lastPid[s] + 1, name |-> p, on |-> TRUE]

Create(p, s) ==
  /\ clients' = [clients EXCEPT ![s] = clients[s] \cup {NewClient(p, s)}]
  /\ lastPid' = [lastPid EXCEPT ![s] = lastPid[s] + 1]

(* create_client looks for a client of that name before it posts, and      *)
(* again after a post it could not confirm.                                *)
ListClients(p, s) ==
  /\ task[p][s].pc \in {"list", "relist"}
  /\ LET named == {c \in clients[s] : c.name = p}
     IN  \/ \E c \in named : /\ \A e \in named : c.pid <= e.pid
                             /\ Goto(p, s, "config", c.pid)
         \/ named = {} /\ task[p][s].pc = "list" /\ Goto(p, s, "post", 0)
         \/ named = {} /\ task[p][s].pc = "relist" /\ AttemptFailed(p, s)
  /\ UNCHANGED <<storeVars, mounted, clients, lastPid, faults>>

(* An AmneziaWG answer may lack the id; create_client then lists again. *)
Post(p, s) ==
  /\ task[p][s].pc = "post"
  /\ Create(p, s)
  /\ \/ Goto(p, s, IF s \in AwgSlots THEN "config" ELSE "insert", lastPid[s] + 1)
     \/ s \in AwgSlots /\ Goto(p, s, "relist", 0)
  /\ UNCHANGED <<storeVars, mounted, faults>>

(* The node created the client but the answer was lost: _request repeats   *)
(* the POST, or gives up and create_client lists again (AmneziaWG) or the  *)
(* attempt fails (MTProto).                                                *)
LosePost(p, s) ==
  /\ task[p][s].pc = "post"
  /\ Fault
  /\ Create(p, s)
  /\ \/ UNCHANGED task
     \/ s \in AwgSlots /\ Goto(p, s, "relist", 0)
     \/ s \notin AwgSlots /\ AttemptFailed(p, s)
  /\ UNCHANGED <<storeVars, mounted>>

GetConfig(p, s) ==
  /\ task[p][s].pc = "config"
  /\ Goto(p, s, "insert", task[p][s].pid)
  /\ UNCHANGED <<storeVars, mounted, clients, lastPid, faults>>

(* A call of create_access failed for good and changed nothing.  Only a    *)
(* failed AmneziaWG POST is swallowed; elsewhere provider_id is still None *)
(* and there is nothing to roll back.                                      *)
CallFails(p, s) ==
  /\ task[p][s].pc \in {"list", "post", "relist", "config"}
  /\ Fault
  /\ IF task[p][s].pc = "post" /\ s \in AwgSlots
       THEN Goto(p, s, "relist", 0)
       ELSE AttemptFailed(p, s)
  /\ UNCHANGED <<storeVars, mounted, clients, lastPid>>

Insert(p, s) ==
  /\ task[p][s].pc = "insert"
  /\ AddDevice(payments[p].tg_id, s, task[p][s].pid, p)
  /\ Goto(p, s, "ok", 0)
  /\ UNCHANGED <<users, payments, now, mounted, clients, lastPid, faults>>

InsertFails(p, s) ==
  /\ task[p][s].pc = "insert"
  /\ Fault
  /\ Goto(p, s, "rollback", task[p][s].pid)
  /\ UNCHANGED <<storeVars, mounted, clients, lastPid>>

(* Mutant: the attempt is given up without deleting what it created. *)
RollbackForgets(p, s) ==
  /\ task[p][s].pc = "rollback"
  /\ AttemptFailed(p, s)
  /\ UNCHANGED <<storeVars, mounted, clients, lastPid, faults>>

Rollback(p, s) ==
  /\ task[p][s].pc = "rollback"
  /\ LET pid == task[p][s].pid
     IN  Answered(s, pid, Without(s, pid)) \/ NotAnswered(s, pid, Without(s, pid))
  /\ AttemptFailed(p, s)
  /\ UNCHANGED <<storeVars, mounted, lastPid>>

TaskStep(p, s) ==
  \/ ListClients(p, s) \/ Post(p, s) \/ LosePost(p, s) \/ GetConfig(p, s)
  \/ CallFails(p, s) \/ Insert(p, s) \/ InsertFails(p, s) \/ Rollback(p, s)

-----------------------------------------------------------------------------
(* The two entry points and their results *)

BundleSlots == {s \in Slots : HasProvider(s)}

Provision(p) == StartTasks(p, BundleSlots, MaxRetries)

(* Mutant: the devices the user already has are created again. *)
MissingAll(p) == {s \in BundleSlots : payments[p].status = "partial"}

Missing(p) ==
  {s \in BundleSlots : \A d \in GetUserDevices(payments[p].tg_id) : d.slot # s}

RetryPartial(p) == StartTasks(p, Missing(p), 1)

TasksOver(p) == \A s \in Slots : task[p][s].pc \in {"off", "ok", "fail"}
FullySuccessful(p) == \A s \in Slots : task[p][s].pc \in {"off", "ok"}
ClearTasks(p) == StartTasks(p, {}, 0)

-----------------------------------------------------------------------------
(* Properties of the provisioner, whoever calls it *)

(* A bundle holds each slot once: no two device rows carry the same client *)
(* name, however often provision and retry_partial ran for the payment,    *)
(* failed halfway or were cut short by a restart.                          *)
NameUnique ==
  \A d, e \in devices : d.slot = e.slot /\ d.pay = e.pay => d = e

(* A device row or a running task refers to client c, or the task is about *)
(* to find it by its name.                                                 *)
Held(s, c) ==
  \/ \E d \in devices : d.slot = s /\ d.pid = c.pid
  \/ \E p \in PaymentIds :
       \/ task[p][s].pid = c.pid
       \/ /\ task[p][s].pc = "relist" /\ c.name = p
          /\ \A e \in clients[s] : e.name = p => c.pid <= e.pid

Orphans(s) == {c \in clients[s] : ~Held(s, c)}
=============================================================================
