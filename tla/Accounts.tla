------------------------------ MODULE Accounts ------------------------------
(***************************************************************************)
(* What the tables say of the accesses against what the nodes hold: the    *)
(* bot creates, purges and rolls back accesses, the administration script  *)
(* (scripts/db_admin.py) deletes users beside it, and the sidecar, whose   *)
(* identifiers are small numbers, restarts whenever it likes.              *)
(*                                                                         *)
(* Of a users row only its presence is kept; the nodes are one AmneziaWG   *)
(* node, whose identifiers are never reused, and one sidecar, of which     *)
(* only the contract SecretTable is known.                                 *)
(***************************************************************************)
EXTENDS SecretTable, FiniteSets

CONSTANTS
  Slots,       \* what the bot serves: records of an owner and a kind
  MaxClients,  \* bound on the clients the AmneziaWG node creates
  MaxFaults    \* bound on failed calls, lost answers, deaths and losses

ASSUME AccountsAssumption ==
  /\ \A s \in Slots : s = [owner |-> s.owner, kind |-> s.kind]
  /\ \A s \in Slots : s.kind \in {"awg", "mtproto"} /\ s.owner # "nobody"
  /\ MaxClients \in Nat /\ MaxFaults \in Nat

Owners == {s.owner : s \in Slots}

VARIABLES
  present,  \* owners with a row in users
  rows,     \* devices: slot and awg_id
  clients,  \* clients the AmneziaWG node holds
  created,  \* clients it has ever created
  task,     \* task[s]: what the bot does next about slot s, with which id
  script,   \* the deletion the script is at: users, rows it read, rows to go
  made,     \* made[i]: the owner secret i was last created for (history)
  lost,     \* the sidecar has lost its table (history)
  excused,  \* clients whose deletion failed, was cut off or raced (history)
  faults    \* failures so far (auxiliary)

accountVars == <<present, rows, clients, created, task, script, made, lost, excused,
                 faults>>
vars == <<tableVars, accountVars>>

Nobody == "nobody"
Row == [slot : Slots, id : Nat]
Idle == [pc |-> "idle", id |-> 0]
Menu == [pc |-> "menu", users |-> {}, seen |-> {}, todo |-> {}]

TypeOK ==
  /\ table \in [Ids -> Standing] /\ last \in 0 .. MaxIds /\ sure \subseteq Ids
  /\ present \subseteq Owners
  /\ rows \subseteq Row
  /\ created \in 0 .. MaxClients /\ clients \subseteq 1 .. created
  /\ task \in [Slots -> [pc : {"idle", "insert", "rollback", "delete"}, id : Nat]]
  /\ script \in [pc : {"menu", "clients", "devices", "users"}, users : SUBSET Owners,
                 seen : SUBSET Row, todo : SUBSET Row]
  /\ made \in [Ids -> Owners \cup {Nobody}]
  /\ lost \in BOOLEAN /\ excused \subseteq 1 .. created
  /\ faults \in 0 .. MaxFaults

Init ==
  /\ TableInit
  /\ present = {} /\ rows = {} /\ clients = {} /\ created = 0
  /\ task = [s \in Slots |-> Idle]
  /\ script = Menu
  /\ made = [i \in Ids |-> Nobody]
  /\ lost = FALSE /\ excused = {} /\ faults = 0

Goto(s, pc, id) == task' = [task EXCEPT ![s] = [pc |-> pc, id |-> id]]
Works == UNCHANGED faults
Fails == faults < MaxFaults /\ faults' = faults + 1
Excuse(s, id) == excused' = IF s.kind = "awg" THEN excused \cup {id} ELSE excused

-----------------------------------------------------------------------------
(* Calls to a node: what becomes of it and of the record of its answers.   *)

(* The identifier the node gives next. *)
NextId(s) == IF s.kind = "awg" THEN created + 1 ELSE last + 1

(* Mutant: the sidecar counts a secret twice. *)
CreatesTwice(s, answered) ==
  /\ s.kind = "mtproto" /\ last < MaxIds
  /\ last' = last + 2 /\ table' = [table EXCEPT ![last + 1] = "on"]
  /\ sure' = IF answered THEN sure \cup {last + 1} ELSE sure \ {last + 1}
  /\ made' = [made EXCEPT ![last + 1] = s.owner]
  /\ UNCHANGED <<clients, created>>

Creates(s, answered) ==
  \/ /\ s.kind = "awg" /\ created < MaxClients
     /\ created' = created + 1 /\ clients' = clients \cup {created + 1}
     /\ UNCHANGED <<tableVars, made>>
  \/ /\ s.kind = "mtproto" /\ last < MaxIds
     /\ last' = last + 1 /\ table' = [table EXCEPT ![last + 1] = "on"]
     /\ sure' = IF answered THEN sure \cup {last + 1} ELSE sure \ {last + 1}
     /\ made' = [made EXCEPT ![last + 1] = s.owner]
     /\ UNCHANGED <<clients, created>>

Held(s, id) == IF s.kind = "awg" THEN id \in clients ELSE id \in Used(table)

Removes(s, id, answered) ==
  /\ Held(s, id)
  /\ \/ s.kind = "awg" /\ clients' = clients \ {id} /\ UNCHANGED tableVars
     \/ /\ s.kind = "mtproto" /\ table' = [table EXCEPT ![id] = "none"]
        /\ sure' = IF answered THEN sure \cup {id} ELSE sure \ {id}
        /\ UNCHANGED <<last, clients>>

NodeSame == UNCHANGED <<tableVars, clients>>

-----------------------------------------------------------------------------
(* The bot *)

(* /start: INSERT OR IGNORE INTO users. *)
AddUser(o) ==
  /\ present' = present \cup {o}
  /\ UNCHANGED <<tableVars, rows, clients, created, task, script, made, lost, excused,
                 faults>>

(* create_access of an approved user's slot, or of one the retry job found *)
(* missing.  When the call fails, or its answer is lost, nobody knows of   *)
(* what it may have created.                                               *)
CreateAccess(s) ==
  /\ task[s].pc = "idle"
  /\ s.owner \in present /\ \A r \in rows : r.slot # s
  /\ \/ Creates(s, TRUE) /\ Goto(s, "insert", NextId(s)) /\ Works /\ UNCHANGED excused
     \/ Creates(s, FALSE) /\ Excuse(s, NextId(s)) /\ Fails /\ UNCHANGED task
  /\ UNCHANGED <<present, rows, script, lost>>

(* add_device.  The foreign key refuses a row whose user was deleted.      *)
AddDevice(s) ==
  /\ task[s].pc = "insert"
  /\ \/ /\ s.owner \in present
        /\ rows' = rows \cup {[slot |-> s, id |-> task[s].id]} /\ Goto(s, "idle", 0)
        /\ Works
     \/ /\ s.owner \notin present
        /\ Goto(s, "rollback", task[s].id) /\ Works /\ UNCHANGED rows
     \/ Goto(s, "rollback", task[s].id) /\ Fails /\ UNCHANGED rows
  /\ UNCHANGED <<tableVars, present, clients, created, script, made, lost, excused>>

(* Mutant: a row that was refused leaves its access behind. *)
RollbackForgets(s) ==
  /\ task[s].pc = "rollback"
  /\ Goto(s, "idle", 0) /\ NodeSame /\ Works
  /\ UNCHANGED <<present, rows, created, script, made, lost, excused>>

(* The roll-back: whatever revoke_access answers, the task is over.        *)
Rollback(s) ==
  /\ task[s].pc = "rollback"
  /\ Goto(s, "idle", 0)
  /\ \/ Removes(s, task[s].id, TRUE) /\ Works /\ UNCHANGED excused
     \/ ~Held(s, task[s].id) /\ NodeSame /\ Works /\ UNCHANGED excused
     \/ (Removes(s, task[s].id, FALSE) \/ NodeSame) /\ Excuse(s, task[s].id) /\ Fails
  /\ UNCHANGED <<present, rows, created, script, made, lost>>

(* job_purge_zombies: the access first, and the row only when the node     *)
(* said it was removed; a node that no longer knows it answers an error.   *)
(* The job takes one access after another, and never runs twice at once.   *)
Purge(s) ==
  /\ task[s].pc = "idle" /\ \A t \in Slots : task[t].pc # "delete"
  /\ \E r \in rows :
       /\ r.slot = s
       /\ \/ Removes(s, r.id, TRUE) /\ Goto(s, "delete", r.id) /\ Works
          \/ Removes(s, r.id, FALSE) /\ Fails /\ UNCHANGED task
  /\ UNCHANGED <<present, rows, created, script, made, lost, excused>>

(* Mutant: the purge does not delete the row. *)
DeleteNoRecord(s) ==
  /\ task[s].pc = "delete" /\ Goto(s, "idle", 0) /\ Works
  /\ UNCHANGED <<tableVars, present, rows, clients, created, script, made, lost, excused>>

DeleteDeviceRecord(s) ==
  /\ task[s].pc = "delete" /\ Goto(s, "idle", 0)
  /\ \/ rows' = rows \ {[slot |-> s, id |-> task[s].id]} /\ Works
     \/ UNCHANGED rows /\ Fails
  /\ UNCHANGED <<tableVars, present, clients, created, script, made, lost, excused>>

(* The bot's process dies: what its tasks had in hand stays where it is.   *)
BotDies ==
  /\ Fails
  /\ task' = [s \in Slots |-> Idle]
  /\ excused' = excused \cup {task[s].id : s \in {t \in Slots :
                                t.kind = "awg" /\ task[t].pc \in {"insert", "rollback"}}}
  /\ UNCHANGED <<tableVars, present, rows, clients, created, script, made, lost>>

-----------------------------------------------------------------------------
(* db_admin.py: the snapshot, a call per client, then the tables one by    *)
(* one.                                                                    *)

Rest == UNCHANGED <<created, task, made, lost>>

(* Menu entries 4, one user, and 3, all of them.  delete_wg_client speaks  *)
(* AmneziaWG to the server of the row's name, whatever the row is: for an  *)
(* MTProto row it deletes nothing.                                         *)
DeleteUsers(us) ==
  /\ script.pc = "menu" /\ us # {}
  /\ us \subseteq present /\ (us = Owners \/ Cardinality(us) = 1)
  /\ LET found == {r \in rows : r.slot.owner \in us} IN
       script' = [pc |-> "clients", users |-> us, seen |-> found,
                  todo |-> {r \in found : r.slot.kind = "awg"}]
  /\ NodeSame /\ Works /\ Rest
  /\ UNCHANGED <<present, rows, excused>>

(* A client that could not be deleted counts as purged all the same.       *)
DeleteWgClient ==
  /\ script.pc = "clients"
  /\ \E r \in script.todo :
       /\ script' = [script EXCEPT !.todo = @ \ {r}]
       /\ \/ Removes(r.slot, r.id, TRUE) /\ Works /\ UNCHANGED excused
          \/ ~Held(r.slot, r.id) /\ NodeSame /\ Works /\ UNCHANGED excused
          \/ (Removes(r.slot, r.id, FALSE) \/ NodeSame) /\ Excuse(r.slot, r.id) /\ Fails
  /\ Rest /\ UNCHANGED <<present, rows>>

(* DELETE FROM devices: also the rows that came after the snapshot.        *)
DeleteDevices ==
  /\ script.pc = "clients" /\ script.todo = {}
  /\ script' = [script EXCEPT !.pc = "users"]
  /\ rows' = {r \in rows : r.slot.owner \notin script.users}
  /\ excused' = excused \cup {r.id : r \in {d \in rows \ script.seen :
                                /\ d.slot.kind = "awg"
                                /\ d.slot.owner \in script.users}}
  /\ NodeSame /\ Works /\ Rest /\ UNCHANGED present

(* DELETE FROM payments, which nothing here reads, and FROM users, which   *)
(* fails, and ends the script, when a row has come in between.             *)
DeleteUserRows ==
  /\ script.pc = "users"
  /\ script' = Menu
  /\ present' = IF \E r \in rows : r.slot.owner \in script.users
                THEN present ELSE present \ script.users
  /\ NodeSame /\ Works /\ Rest /\ UNCHANGED <<rows, excused>>

(* A DELETE raises, or the script is stopped: nothing remembers which      *)
(* clients it had deleted.                                                 *)
ScriptDies ==
  /\ script.pc # "menu" /\ script' = Menu
  /\ excused' = excused \cup {r.id : r \in {d \in script.seen : d.slot.kind = "awg"
                                                           /\ d \notin script.todo}}
  /\ NodeSame /\ Fails /\ Rest /\ UNCHANGED <<present, rows>>

-----------------------------------------------------------------------------
(* The sidecar restarts, and may find its file torn. *)

SidecarRestart == Restart /\ UNCHANGED accountVars

SidecarLoses ==
  /\ Lose /\ Fails /\ lost' = TRUE
  /\ UNCHANGED <<present, rows, clients, created, task, script, made, excused>>

Next ==
  \/ \E o \in Owners : AddUser(o)
  \/ \E s \in Slots : \/ CreateAccess(s) \/ AddDevice(s) \/ Rollback(s)
                      \/ Purge(s) \/ DeleteDeviceRecord(s)
  \/ BotDies
  \/ \E us \in SUBSET Owners : DeleteUsers(us)
  \/ DeleteWgClient \/ DeleteDevices \/ DeleteUserRows \/ ScriptDies
  \/ SidecarRestart \/ SidecarLoses

Spec == Init /\ [][Next]_vars

-----------------------------------------------------------------------------
(* No row holds the identifier of a secret made for somebody else, for a   *)
(* restarted sidecar gives a purged identifier out again: except while the *)
(* row is about to go, after a failure left it there, or after the sidecar *)
(* lost its table.                                                         *)
Stranger(r) ==
  /\ r.slot.kind = "mtproto" /\ r.id \in Used(table) /\ made[r.id] # r.slot.owner
  /\ task[r.slot] # [pc |-> "delete", id |-> r.id]

OwnSecret == ~lost => Cardinality({r \in rows : Stranger(r)}) <= faults

(* Every client of the AmneziaWG node is in a row or in a task's hands, or *)
(* a call about it failed, or the bot died or added its row while the      *)
(* script was deleting its user.                                           *)
Known(c) ==
  \/ \E r \in rows : r.slot.kind = "awg" /\ r.id = c
  \/ \E s \in Slots : s.kind = "awg" /\ task[s].pc \in {"insert", "rollback"} /\ task[s].id = c

NoStrayClient == \A c \in clients : Known(c) \/ c \in excused

(* A row outlives its access only as the trace of a failure: of a call of  *)
(* the purge, of the deletion of the row after it, of the bot's death      *)
(* between the two, or of a stranger who revoked the secret it had got.    *)
(* Each leaves at most one row of either kind.  The script deletes clients *)
(* before their rows, and a client whose deletion it did not complete is   *)
(* excused; a sidecar that lost its table takes every secret with it.      *)
Gone(r) == ~Held(r.slot, r.id) /\ task[r.slot] # [pc |-> "delete", id |-> r.id]

Behind(r) ==
  script.pc = "clients" /\ r \in script.seen /\ r \notin script.todo

BackedRows ==
  /\ Cardinality({r \in rows : /\ r.slot.kind = "awg" /\ Gone(r)
                              /\ ~Behind(r) /\ r.id \notin excused}) <= faults
  /\ ~lost =>
       Cardinality({r \in rows : r.slot.kind = "mtproto" /\ Gone(r)}) <= faults
=============================================================================
