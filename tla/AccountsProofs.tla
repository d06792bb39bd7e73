--------------------------- MODULE AccountsProofs ---------------------------
(***************************************************************************)
(* Theorems about the rows of the devices table and what the nodes hold,   *)
(* for any users, accesses, identifiers and failures.                      *)
(***************************************************************************)
EXTENDS Accounts, FiniteSetTheorems, TLAPS

(* Identifiers of AmneziaWG clients, wherever they are kept, were given    *)
(* out.                                                                    *)
Given == 1 .. created

IdInv ==
  /\ \A r \in rows : r.slot.kind = "awg" => r.id \in Given
  /\ \A r \in script.seen : r.slot.kind = "awg" => r.id \in Given
  /\ \A r \in script.todo : r.slot.kind = "awg" /\ r.id \in Given
  /\ \A s \in Slots : s.kind = "awg" /\ task[s].pc # "idle" => task[s].id \in Given

TypeInv == TypeOK /\ IdInv

(* The counter covers the secrets in use.                                  *)
CounterInv == \A i \in Used(table) : i <= last

(* An access whose row is about to be deleted is gone, and so is one the   *)
(* script has behind it, if its deletion did not fail.                     *)
BehindInv ==
  /\ \A s \in Slots : s.kind = "awg" /\ task[s].pc = "delete" => task[s].id \notin clients
  /\ script.pc = "clients" =>
       \A r \in script.seen : r.slot.kind = "awg" =>
         r \in script.todo \/ r.id \notin clients \/ r.id \in excused

StrayInv == BehindInv /\ NoStrayClient

(* A secret is held by a row, unless it is about to go, or by a task that  *)
(* has yet to store it.  It is the holder's for good when it was created   *)
(* for the holder and the sidecar's last answer about it stands.           *)
Holds(h) ==
  /\ h.slot.kind = "mtproto"
  /\ \/ h \in rows /\ ~(task[h.slot].pc = "delete" /\ task[h.slot].id = h.id)
     \/ task[h.slot].pc \in {"insert", "rollback"} /\ task[h.slot].id = h.id

Good(h) == h.id \in Used(table) /\ h.id \in sure /\ made[h.id] = h.slot.owner

Suspects == {h \in Row : Holds(h) /\ ~Good(h)}

(* The purge job is at one row at a time, and a task that has an access to *)
(* store or to roll back has no row.                                       *)
PlaceInv ==
  /\ \A s, t \in Slots : task[s].pc = "delete" /\ task[t].pc = "delete" => s = t
  /\ \A s \in Slots : task[s].pc \in {"insert", "rollback"} => \A r \in rows : r.slot # s

(* Each failure makes at most one holder lose what it holds.  Who acts on  *)
(* a secret that is somebody else's passes its bad luck on.                *)
Counted(S, n) == IsFiniteSet(S) /\ Cardinality(S) <= n

HolderInv == PlaceInv /\ (~lost => Counted(Suspects, faults))

(* An AmneziaWG client is in one hand: a row's, or a task's that has yet   *)
(* to store it and then has it for sure; what the script read names no     *)
(* other.                                                                  *)
Awg(r) == r.slot.kind = "awg"
InHand(s) == s.kind = "awg" /\ task[s].pc \in {"insert", "rollback"}

AloneInv ==
  /\ \A g, h \in rows : Awg(g) /\ Awg(h) /\ g.id = h.id => g = h
  /\ \A h \in rows, q \in script.seen : Awg(h) /\ Awg(q) /\ h.id = q.id => h = q
  /\ \A s \in Slots : InHand(s) =>
       /\ \A h \in rows \cup script.seen : Awg(h) => h.id # task[s].id
       /\ \A t \in Slots : InHand(t) /\ task[t].id = task[s].id => s = t
  /\ \A s \in Slots : s.kind = "awg" /\ task[s].pc = "insert" => task[s].id \in clients
  /\ script.todo \subseteq script.seen
  /\ \A q \in script.seen : q.slot.owner \in script.users

Forsaken == {r \in rows : Awg(r) /\ Gone(r) /\ ~Behind(r) /\ r.id \notin excused}

ForsakenInv == AloneInv /\ Counted(Forsaken, faults)

-----------------------------------------------------------------------------
(* Parameters and types.                                                   *)

LEMMA Numbers ==
  /\ MaxIds \in Nat /\ MaxClients \in Nat /\ MaxFaults \in Nat
  BY TableAssumption, AccountsAssumption

LEMMA SlotFacts ==
  ASSUME NEW s \in Slots
  PROVE  /\ s = [owner |-> s.owner, kind |-> s.kind]
         /\ s.kind \in {"awg", "mtproto"} /\ s.owner \in Owners /\ s.owner # "nobody"
  BY AccountsAssumption DEF Owners

(* A secret's slot is known from its owner.                                *)
LEMMA OneSlotPerOwner ==
  ASSUME NEW s \in Slots, NEW t \in Slots, s.kind = t.kind, s.owner = t.owner
  PROVE  s = t
  BY SlotFacts

LEMMA RowFacts ==
  ASSUME NEW h \in Row
  PROVE  h.slot \in Slots /\ h.id \in Nat /\ h = [slot |-> h.slot, id |-> h.id]
  BY DEF Row

LEMMA FailsType ==
  ASSUME faults \in 0 .. MaxFaults, Fails
  PROVE  faults' \in 0 .. MaxFaults /\ faults' = faults + 1
  BY Numbers DEF Fails

(* Where one task goes, the others stay.                                   *)
Tasks == [pc : {"idle", "insert", "rollback", "delete"}, id : Nat]

LEMMA GotoType ==
  ASSUME task \in [Slots -> Tasks], NEW s \in Slots,
         NEW pc \in {"idle", "insert", "rollback", "delete"}, NEW id \in Nat,
         Goto(s, pc, id)
  PROVE  /\ task' \in [Slots -> Tasks]
         /\ task'[s].pc = pc /\ task'[s].id = id
         /\ \A t \in Slots : t # s => task'[t] = task[t]
<1>1. [pc |-> pc, id |-> id] \in Tasks
  BY DEF Tasks
<1> QED
  BY <1>1 DEF Goto

LEMMA TaskType == TypeOK => task \in [Slots -> Tasks]
  BY DEF TypeOK, Tasks

LEMMA TableType ==
  ASSUME TypeOK
  PROVE  /\ Used(table) \subseteq Ids /\ Ids \subseteq Nat /\ last \in Nat /\ created \in Nat
         /\ Given \subseteq Nat /\ faults \in Nat /\ clients \subseteq Given
         /\ excused \subseteq Given
  BY Numbers DEF TypeOK, Used, Ids, Given

-----------------------------------------------------------------------------
(* What calls to the nodes do to the types.                                *)

NodeTypes ==
  /\ table \in [Ids -> Standing] /\ last \in 0 .. MaxIds /\ sure \subseteq Ids
  /\ created \in 0 .. MaxClients /\ clients \subseteq 1 .. created
  /\ made \in [Ids -> Owners \cup {Nobody}]

LEMMA CreatesAwg ==
  ASSUME TypeOK, NEW s \in Slots, NEW answered \in BOOLEAN, s.kind = "awg",
         Creates(s, answered)
  PROVE  /\ created < MaxClients /\ NextId(s) = created + 1 /\ created' = created + 1
         /\ clients' = clients \cup {created + 1}
         /\ UNCHANGED <<table, last, sure, made>>
  BY DEF Creates, NextId, tableVars

LEMMA CreatesMtproto ==
  ASSUME TypeOK, NEW s \in Slots, NEW answered \in BOOLEAN, s.kind = "mtproto",
         Creates(s, answered)
  PROVE  /\ last < MaxIds /\ NextId(s) = last + 1 /\ last' = last + 1 /\ last + 1 \in Ids
         /\ table' = [table EXCEPT ![last + 1] = "on"]
         /\ sure' = IF answered THEN sure \cup {last + 1} ELSE sure \ {last + 1}
         /\ made' = [made EXCEPT ![last + 1] = s.owner]
         /\ UNCHANGED <<clients, created>>
<1>1. last \in Nat /\ MaxIds \in Nat
  BY Numbers DEF TypeOK
<1> QED
  BY <1>1 DEF Creates, NextId, Ids

LEMMA CreatesType ==
  ASSUME TypeOK, NEW s \in Slots, NEW answered \in BOOLEAN, Creates(s, answered)
  PROVE  NodeTypes' /\ NextId(s) \in Nat /\ created' \in Nat /\ created' >= created
<1>1. created \in Nat /\ last \in Nat /\ MaxClients \in Nat /\ MaxIds \in Nat
  BY Numbers DEF TypeOK
<1>2. CASE s.kind = "awg"
  <2>1. /\ created < MaxClients /\ NextId(s) = created + 1 /\ created' = created + 1
        /\ clients' = clients \cup {created + 1}
        /\ UNCHANGED <<table, last, sure, made>>
    BY <1>2, CreatesAwg
  <2>2. created' \in 0 .. MaxClients /\ clients' \subseteq 1 .. created'
    BY <1>1, <2>1 DEF TypeOK
  <2> QED
    BY <1>1, <2>1, <2>2 DEF TypeOK, NodeTypes
<1>3. CASE s.kind = "mtproto"
  <2>1. /\ last < MaxIds /\ NextId(s) = last + 1 /\ last' = last + 1 /\ last + 1 \in Ids
        /\ table' = [table EXCEPT ![last + 1] = "on"]
        /\ sure' = IF answered THEN sure \cup {last + 1} ELSE sure \ {last + 1}
        /\ made' = [made EXCEPT ![last + 1] = s.owner]
        /\ UNCHANGED <<clients, created>>
    BY <1>3, CreatesMtproto
  <2>2. table' \in [Ids -> Standing]
    BY <2>1 DEF TypeOK, Standing
  <2>3. made' \in [Ids -> Owners \cup {Nobody}]
    BY <2>1, SlotFacts DEF TypeOK
  <2>4. last' \in 0 .. MaxIds /\ sure' \subseteq Ids
    BY <1>1, <2>1 DEF TypeOK
  <2> QED
    BY <1>1, <2>1, <2>2, <2>3, <2>4 DEF TypeOK, NodeTypes
<1> QED
  BY <1>2, <1>3, SlotFacts

LEMMA RemovesAwg ==
  ASSUME NEW s \in Slots, NEW id, NEW answered \in BOOLEAN, s.kind = "awg",
         Removes(s, id, answered)
  PROVE  id \in clients /\ clients' = clients \ {id} /\ UNCHANGED <<table, last, sure>>
  BY DEF Removes, Held, tableVars

LEMMA RemovesMtproto ==
  ASSUME NEW s \in Slots, NEW id, NEW answered \in BOOLEAN, s.kind = "mtproto",
         Removes(s, id, answered)
  PROVE  /\ id \in Used(table) /\ table' = [table EXCEPT ![id] = "none"]
         /\ sure' = IF answered THEN sure \cup {id} ELSE sure \ {id}
         /\ UNCHANGED <<last, clients>>
  BY DEF Removes, Held

LEMMA RemovesType ==
  ASSUME TypeOK, NEW s \in Slots, NEW id, NEW answered \in BOOLEAN, Removes(s, id, answered),
         UNCHANGED <<created, made>>
  PROVE  NodeTypes' /\ clients' \subseteq clients
<1>1. CASE s.kind = "awg"
  <2>1. clients' = clients \ {id} /\ UNCHANGED <<table, last, sure>>
    BY <1>1, RemovesAwg
  <2> QED
    BY <2>1 DEF TypeOK, NodeTypes
<1>2. CASE s.kind = "mtproto"
  <2>1. /\ id \in Used(table) /\ table' = [table EXCEPT ![id] = "none"]
        /\ sure' = IF answered THEN sure \cup {id} ELSE sure \ {id}
        /\ UNCHANGED <<last, clients>>
    BY <1>2, RemovesMtproto
  <2>2. table' \in [Ids -> Standing]
    BY <2>1 DEF TypeOK, Standing, Used
  <2>3. sure' \subseteq Ids
    BY <2>1 DEF TypeOK, Used
  <2> QED
    BY <2>1, <2>2, <2>3 DEF TypeOK, NodeTypes
<1> QED
  BY <1>1, <1>2, SlotFacts

LEMMA SameType ==
  ASSUME TypeOK, NodeSame, UNCHANGED <<created, made>>
  PROVE  NodeTypes'
  BY DEF TypeOK, NodeTypes, NodeSame, tableVars

(* Only clients of the AmneziaWG node are excused.                         *)
LEMMA ExcuseType ==
  ASSUME TypeOK, NEW s \in Slots, NEW id, Excuse(s, id), created' \in Nat, created' >= created,
         s.kind = "awg" => id \in 1 .. created'
  PROVE  excused' \subseteq 1 .. created'
<1>1. excused \subseteq 1 .. created'
  <2>1. created \in Nat
    BY TableType
  <2> QED
    BY <2>1 DEF TypeOK
<1> QED
  BY <1>1, SlotFacts DEF Excuse

-----------------------------------------------------------------------------
(* Types, action by action.                                                *)

Scripts == [pc : {"menu", "clients", "devices", "users"}, users : SUBSET Owners,
            seen : SUBSET Row, todo : SUBSET Row]

OtherTypes ==
  /\ present \subseteq Owners /\ rows \subseteq Row
  /\ task \in [Slots -> Tasks] /\ script \in Scripts
  /\ lost \in BOOLEAN /\ excused \subseteq 1 .. created /\ faults \in 0 .. MaxFaults

LEMMA TypesTogether == TypeOK <=> NodeTypes /\ OtherTypes
  BY DEF TypeOK, NodeTypes, OtherTypes, Tasks, Scripts

(* More clients have been created: what was given out still is.            *)
LEMMA GivenGrows ==
  ASSUME created \in Nat, created' \in Nat, created' >= created
  PROVE  Given \subseteq Given'
  BY DEF Given

LEMMA CreateTypes ==
  ASSUME TypeInv, NEW s \in Slots, CreateAccess(s)
  PROVE  TypeInv'
<1>1. TypeOK /\ OtherTypes /\ IdInv
  BY TypesTogether DEF TypeInv
<1>2. PICK answered \in BOOLEAN :
         /\ Creates(s, answered)
         /\ \/ answered /\ Goto(s, "insert", NextId(s)) /\ Works /\ UNCHANGED excused
            \/ ~answered /\ Excuse(s, NextId(s)) /\ Fails /\ UNCHANGED task
  BY DEF CreateAccess
<1>3. NodeTypes' /\ NextId(s) \in Nat /\ created \in Nat /\ created' \in Nat /\ created' >= created
  BY <1>1, <1>2, CreatesType, TableType
<1>4. UNCHANGED <<present, rows, script, lost>>
  BY DEF CreateAccess
<1>5. s.kind = "awg" => NextId(s) \in 1 .. created'
  BY <1>1, <1>2, <1>3, CreatesAwg
<1>6. Given \subseteq Given'
  BY <1>3, GivenGrows
<1>7. CASE answered
  <2>1. Goto(s, "insert", NextId(s)) /\ UNCHANGED <<faults, excused>>
    BY <1>2, <1>7 DEF Works
  <2>2. /\ task' \in [Slots -> Tasks] /\ task'[s].id = NextId(s)
        /\ \A t \in Slots : t # s => task'[t] = task[t]
    BY <1>1, <1>3, <2>1, GotoType, TaskType
  <2>3. excused' \subseteq 1 .. created'
    BY <1>1, <1>6, <2>1 DEF OtherTypes, Given
  <2>4. OtherTypes'
    BY <1>1, <1>4, <2>1, <2>2, <2>3 DEF OtherTypes
  <2>5. IdInv'
    <3>1. ASSUME NEW t \in Slots, t.kind = "awg", task'[t].pc # "idle"
          PROVE  task'[t].id \in Given'
      BY <1>1, <1>5, <1>6, <2>2, <3>1 DEF IdInv, Given
    <3> QED
      BY <1>1, <1>4, <1>6, <3>1 DEF IdInv
  <2> QED
    BY <1>3, <2>4, <2>5, TypesTogether, PTL DEF TypeInv
<1>8. CASE ~answered
  <2>1. Excuse(s, NextId(s)) /\ Fails /\ UNCHANGED task
    BY <1>2, <1>8
  <2>2. excused' \subseteq 1 .. created'
    BY <1>1, <1>3, <1>5, <2>1, ExcuseType
  <2>3. OtherTypes'
    BY <1>1, <1>4, <2>1, <2>2, FailsType DEF OtherTypes
  <2>4. IdInv'
    BY <1>1, <1>4, <1>6, <2>1 DEF IdInv
  <2> QED
    BY <1>3, <2>3, <2>4, TypesTogether, PTL DEF TypeInv
<1> QED
  BY <1>2, <1>7, <1>8

LEMMA AddDeviceTypes ==
  ASSUME TypeInv, NEW s \in Slots, AddDevice(s)
  PROVE  TypeInv'
<1>1. TypeOK /\ NodeTypes /\ OtherTypes /\ IdInv
  BY TypesTogether DEF TypeInv
<1>2. /\ UNCHANGED <<table, last, sure, present, clients, created, script, made, lost, excused>>
      /\ task[s].pc = "insert"
  BY DEF AddDevice, tableVars
<1>3. task \in [Slots -> Tasks] /\ task[s].id \in Nat
  BY <1>1, TaskType DEF Tasks
<1>4. PICK pc \in {"idle", "rollback"} : \E id \in {0, task[s].id} :
        /\ Goto(s, pc, id) /\ (pc = "rollback" => id = task[s].id)
        /\ rows' \subseteq rows \cup {[slot |-> s, id |-> task[s].id]}
        /\ Works \/ Fails
  BY DEF AddDevice
<1>5. PICK id \in {0, task[s].id} :
        /\ Goto(s, pc, id) /\ (pc = "rollback" => id = task[s].id)
        /\ rows' \subseteq rows \cup {[slot |-> s, id |-> task[s].id]}
        /\ Works \/ Fails
  BY <1>4
<1>6. /\ task' \in [Slots -> Tasks] /\ task'[s].pc = pc /\ task'[s].id = id
      /\ \A t \in Slots : t # s => task'[t] = task[t]
  BY <1>3, <1>5, GotoType
<1>7. s.kind = "awg" => task[s].id \in Given
  BY <1>1, <1>2 DEF IdInv
<1>8. rows' \subseteq Row /\ \A r \in rows' : r.slot.kind = "awg" => r.id \in Given
  <2>1. [slot |-> s, id |-> task[s].id] \in Row
    BY <1>3 DEF Row
  <2> QED
    BY <1>1, <1>5, <1>7, <2>1 DEF OtherTypes, IdInv
<1>9. faults' \in 0 .. MaxFaults
  BY <1>1, <1>5, FailsType DEF OtherTypes, Works
<1>10. NodeTypes' /\ OtherTypes'
  BY <1>1, <1>2, <1>6, <1>8, <1>9 DEF NodeTypes, OtherTypes
<1>11. Given' = Given
  BY <1>2 DEF Given
<1>12. IdInv'
  <2>1. ASSUME NEW t \in Slots, t.kind = "awg", task'[t].pc # "idle"
        PROVE  task'[t].id \in Given
    BY <1>1, <1>5, <1>6, <1>7, <2>1 DEF IdInv
  <2> QED
    BY <1>1, <1>2, <1>8, <1>11, <2>1 DEF IdInv
<1> QED
  BY <1>10, <1>12, TypesTogether, PTL DEF TypeInv

(* What a call that removes an access, or does nothing, leaves.            *)
LEMMA CallTypes ==
  ASSUME TypeOK, NEW s \in Slots, NEW id, UNCHANGED <<created, made>>,
         (\E answered \in BOOLEAN : Removes(s, id, answered)) \/ NodeSame
  PROVE  NodeTypes' /\ clients' \subseteq clients /\ Given' = Given
<1>1. NodeTypes' /\ clients' \subseteq clients
  BY RemovesType, SameType DEF NodeSame
<1> QED
  BY <1>1 DEF Given

(* A task moves on, and its identifier is the one it had or the one of a   *)
(* row.                                                                    *)
LEMMA TaskStepTypes ==
  ASSUME TypeInv, NEW s \in Slots, NodeTypes', Given' = Given,
         NEW pc \in {"idle", "delete"}, NEW id \in Nat, Goto(s, pc, id),
         s.kind = "awg" /\ pc # "idle" => id \in Given,
         rows' \subseteq rows, excused' \subseteq Given, Works \/ Fails,
         UNCHANGED <<present, script, lost>>
  PROVE  TypeInv'
<1>1. OtherTypes /\ IdInv /\ task \in [Slots -> Tasks]
  BY TypesTogether, TaskType DEF TypeInv
<1>2. /\ task' \in [Slots -> Tasks] /\ task'[s].pc = pc /\ task'[s].id = id
      /\ \A t \in Slots : t # s => task'[t] = task[t]
  BY <1>1, GotoType
<1>3. faults' \in 0 .. MaxFaults
  BY <1>1, FailsType DEF OtherTypes, Works
<1>4. excused' \subseteq 1 .. created'
  BY DEF Given
<1>5. OtherTypes'
  BY <1>1, <1>2, <1>3, <1>4 DEF OtherTypes
<1>6. IdInv'
  <2>1. ASSUME NEW t \in Slots, t.kind = "awg", task'[t].pc # "idle"
        PROVE  task'[t].id \in Given
    BY <1>1, <1>2, <2>1 DEF IdInv
  <2> QED
    BY <1>1, <2>1 DEF IdInv
<1> QED
  BY <1>5, <1>6, TypesTogether, PTL DEF TypeInv

LEMMA RollbackTypes ==
  ASSUME TypeInv, NEW s \in Slots, Rollback(s)
  PROVE  TypeInv'
<1>1. TypeOK /\ IdInv /\ UNCHANGED <<present, rows, created, script, made, lost>>
  BY DEF TypeInv, Rollback
<1>2. /\ (\E answered \in BOOLEAN : Removes(s, task[s].id, answered)) \/ NodeSame
      /\ Goto(s, "idle", 0) /\ (Works \/ Fails)
  BY DEF Rollback
<1>3. NodeTypes' /\ Given' = Given
  BY <1>1, <1>2, CallTypes
<1>4. excused' \subseteq Given
  <2>1. excused \subseteq Given /\ (s.kind = "awg" => task[s].id \in Given)
    BY <1>1, TableType DEF Rollback, IdInv
  <2>2. CASE UNCHANGED excused
    BY <2>1, <2>2
  <2>3. CASE Excuse(s, task[s].id)
    BY <2>1, <2>3 DEF Excuse
  <2> QED
    BY <2>2, <2>3 DEF Rollback
<1> QED
  BY <1>1, <1>2, <1>3, <1>4, TaskStepTypes

LEMMA PurgeTypes ==
  ASSUME TypeInv, NEW s \in Slots, Purge(s)
  PROVE  TypeInv'
<1>1. /\ TypeOK /\ IdInv /\ OtherTypes
      /\ UNCHANGED <<present, rows, created, script, made, lost, excused>>
  BY TypesTogether DEF TypeInv, Purge
<1>2. PICK r \in rows :
        /\ r.slot = s
        /\ \/ Removes(s, r.id, TRUE) /\ Goto(s, "delete", r.id) /\ Works
           \/ Removes(s, r.id, FALSE) /\ Fails /\ UNCHANGED task
  BY DEF Purge
<1>3. NodeTypes' /\ Given' = Given
  BY <1>1, <1>2, CallTypes
<1>4. r.id \in Nat /\ (s.kind = "awg" => r.id \in Given) /\ excused' \subseteq Given
  BY <1>1, <1>2, RowFacts, TableType DEF OtherTypes, IdInv
<1>5. CASE Goto(s, "delete", r.id) /\ Works
  BY <1>1, <1>3, <1>4, <1>5, TaskStepTypes
<1>6. CASE Fails /\ UNCHANGED task
  <2>1. OtherTypes'
    BY <1>1, <1>6, FailsType DEF OtherTypes
  <2>2. IdInv'
    BY <1>1, <1>3, <1>6 DEF IdInv
  <2> QED
    BY <1>3, <2>1, <2>2, TypesTogether, PTL DEF TypeInv
<1> QED
  BY <1>2, <1>5, <1>6

LEMMA DeleteDeviceRecordTypes ==
  ASSUME TypeInv, NEW s \in Slots, DeleteDeviceRecord(s)
  PROVE  TypeInv'
<1>1. /\ TypeOK /\ NodeSame /\ Goto(s, "idle", 0) /\ (Works \/ Fails) /\ rows' \subseteq rows
      /\ UNCHANGED <<present, created, script, made, lost, excused>>
  BY DEF TypeInv, DeleteDeviceRecord, NodeSame
<1>2. NodeTypes' /\ Given' = Given /\ excused' \subseteq Given
  BY <1>1, CallTypes, TableType
<1> QED
  BY <1>1, <1>2, TaskStepTypes

LEMMA BotDiesTypes ==
  ASSUME TypeInv, BotDies
  PROVE  TypeInv'
<1>1. /\ TypeOK /\ OtherTypes /\ IdInv /\ NodeSame /\ Fails
      /\ UNCHANGED <<present, rows, created, script, made, lost>>
  BY TypesTogether DEF TypeInv, BotDies, NodeSame
<1>2. NodeTypes' /\ Given' = Given
  BY <1>1, CallTypes, SameType DEF Given
<1>3. task' \in [Slots -> Tasks] /\ \A t \in Slots : task'[t].pc = "idle"
  BY DEF BotDies, Idle, Tasks
<1>4. excused' \subseteq 1 .. created'
  <2>1. \A s \in Slots : s.kind = "awg" /\ task[s].pc \in {"insert", "rollback"} =>
          task[s].id \in Given
    BY <1>1 DEF IdInv
  <2>2. excused' \subseteq excused \cup Given
    BY <2>1 DEF BotDies
  <2> QED
    BY <1>1, <1>2, <2>2, TableType DEF Given
<1>5. OtherTypes'
  BY <1>1, <1>3, <1>4, FailsType DEF OtherTypes
<1>6. IdInv'
  BY <1>1, <1>2, <1>3 DEF IdInv
<1> QED
  BY <1>2, <1>5, <1>6, TypesTogether, PTL DEF TypeInv

LEMMA AddUserTypes ==
  ASSUME TypeInv, NEW o \in Owners, AddUser(o)
  PROVE  TypeInv'
<1>1. UNCHANGED <<table, last, sure, rows, clients, created, task, script, made, lost,
                  excused, faults>> /\ present' = present \cup {o}
  BY DEF AddUser, tableVars
<1>2. NodeTypes' /\ OtherTypes'
  BY <1>1, TypesTogether DEF TypeInv, NodeTypes, OtherTypes
<1>3. IdInv'
  BY <1>1 DEF TypeInv, IdInv, Given
<1> QED
  BY <1>2, <1>3, TypesTogether, PTL DEF TypeInv

(* A step of the script, whose rows are rows of the table or some it read. *)
LEMMA ScriptStepTypes ==
  ASSUME TypeInv, NodeTypes', Given' = Given,
         script' \in Scripts, script'.seen \subseteq rows \cup script.seen,
         \A r \in script'.todo : r.slot.kind = "awg" /\ r \in rows \cup script.todo,
         present' \subseteq present, rows' \subseteq rows, excused' \subseteq Given,
         Works \/ Fails, UNCHANGED <<task, lost>>
  PROVE  TypeInv'
<1>1. OtherTypes /\ IdInv
  BY TypesTogether DEF TypeInv
<1>2. faults' \in 0 .. MaxFaults
  BY <1>1, FailsType DEF OtherTypes, Works
<1>3. excused' \subseteq 1 .. created'
  BY DEF Given
<1>4. OtherTypes'
  BY <1>1, <1>2, <1>3 DEF OtherTypes
<1>5. IdInv'
  BY <1>1 DEF IdInv
<1> QED
  BY <1>4, <1>5, TypesTogether, PTL DEF TypeInv

LEMMA DeleteUsersTypes ==
  ASSUME TypeInv, NEW us \in SUBSET Owners, DeleteUsers(us)
  PROVE  TypeInv'
<1> DEFINE found == {r \in rows : r.slot.owner \in us}
           todo == {r \in found : r.slot.kind = "awg"}
<1>1. /\ TypeOK /\ OtherTypes /\ NodeSame /\ Works
      /\ UNCHANGED <<present, rows, excused, created, task, made, lost>>
      /\ script' = [pc |-> "clients", users |-> us, seen |-> found, todo |-> todo]
  BY TypesTogether DEF TypeInv, DeleteUsers, Rest
<1>2. NodeTypes' /\ Given' = Given
  BY <1>1, SameType DEF Given
<1>3. found \subseteq rows /\ todo \subseteq rows /\ \A r \in todo : r.slot.kind = "awg"
  OBVIOUS
<1>4. excused' \subseteq Given /\ rows \subseteq Row
  BY <1>1, TableType DEF OtherTypes
<1> HIDE DEF found, todo
<1>5. script' \in Scripts /\ script'.seen = found /\ script'.todo = todo
  BY <1>1, <1>3, <1>4 DEF Scripts
<1> QED
  BY <1>1, <1>2, <1>3, <1>4, <1>5, ScriptStepTypes

LEMMA DeleteWgClientTypes ==
  ASSUME TypeInv, DeleteWgClient
  PROVE  TypeInv'
<1>1. /\ TypeOK /\ OtherTypes /\ IdInv /\ UNCHANGED <<created, task, made, lost, present, rows>>
  BY TypesTogether DEF TypeInv, DeleteWgClient, Rest
<1>2. PICK r \in script.todo :
        /\ script' = [script EXCEPT !.todo = @ \ {r}]
        /\ \/ Removes(r.slot, r.id, TRUE) /\ Works /\ UNCHANGED excused
           \/ ~Held(r.slot, r.id) /\ NodeSame /\ Works /\ UNCHANGED excused
           \/ (Removes(r.slot, r.id, FALSE) \/ NodeSame) /\ Excuse(r.slot, r.id) /\ Fails
  BY DEF DeleteWgClient
<1>3. script \in Scripts
  BY <1>1 DEF OtherTypes
<1>4. /\ script' \in Scripts /\ script'.seen = script.seen
      /\ script'.todo \subseteq script.todo
  BY <1>2, <1>3 DEF Scripts
<1>5. r \in Row /\ r.slot \in Slots /\ r.id \in Given
  BY <1>1, <1>3, RowFacts DEF Scripts, IdInv
<1>6. NodeTypes' /\ Given' = Given
  BY <1>1, <1>2, <1>5, CallTypes
<1>7. excused' \subseteq Given
  BY <1>1, <1>2, <1>5, TableType DEF Excuse
<1>8. \A d \in script'.todo : d.slot.kind = "awg" /\ d \in script.todo
  BY <1>1, <1>4 DEF IdInv
<1> QED
  BY <1>1, <1>2, <1>4, <1>6, <1>7, <1>8, ScriptStepTypes

LEMMA DeleteDevicesTypes ==
  ASSUME TypeInv, DeleteDevices
  PROVE  TypeInv'
<1>1. /\ TypeOK /\ OtherTypes /\ IdInv /\ NodeSame /\ Works
      /\ UNCHANGED <<created, task, made, lost, present>> /\ rows' \subseteq rows
      /\ script' = [script EXCEPT !.pc = "users"]
  BY TypesTogether DEF TypeInv, DeleteDevices, Rest
<1>2. NodeTypes' /\ Given' = Given
  BY <1>1, SameType DEF Given
<1>3. script' \in Scripts /\ script'.seen = script.seen /\ script'.todo = script.todo
  BY <1>1 DEF OtherTypes, Scripts
<1>4. excused' \subseteq Given
  <2>1. excused \subseteq Given
    BY <1>1, TableType
  <2>2. \A d \in rows : d.slot.kind = "awg" => d.id \in Given
    BY <1>1 DEF IdInv
  <2> QED
    BY <2>1, <2>2 DEF DeleteDevices
<1>5. \A d \in script'.todo : d.slot.kind = "awg" /\ d \in script.todo
  BY <1>1, <1>3 DEF IdInv
<1> QED
  BY <1>1, <1>2, <1>3, <1>4, <1>5, ScriptStepTypes

LEMMA DeleteUserRowsTypes ==
  ASSUME TypeInv, DeleteUserRows
  PROVE  TypeInv'
<1>1. /\ TypeOK /\ NodeSame /\ Works /\ UNCHANGED <<created, task, made, lost, rows, excused>>
      /\ script' = Menu /\ present' \subseteq present
  BY DEF TypeInv, DeleteUserRows, Rest
<1>2. NodeTypes' /\ Given' = Given /\ excused' \subseteq Given
  BY <1>1, SameType, TableType DEF Given
<1>3. script' \in Scripts /\ script'.seen = {} /\ script'.todo = {}
  BY <1>1 DEF Menu, Scripts
<1> QED
  BY <1>1, <1>2, <1>3, ScriptStepTypes

LEMMA ScriptDiesTypes ==
  ASSUME TypeInv, ScriptDies
  PROVE  TypeInv'
<1>1. /\ TypeOK /\ IdInv /\ NodeSame /\ Fails
      /\ UNCHANGED <<created, task, made, lost, rows, present>> /\ script' = Menu
  BY DEF TypeInv, ScriptDies, Rest
<1>2. NodeTypes' /\ Given' = Given
  BY <1>1, SameType DEF Given
<1>3. script' \in Scripts /\ script'.seen = {} /\ script'.todo = {}
  BY <1>1 DEF Menu, Scripts
<1>4. excused' \subseteq Given
  <2>1. excused \subseteq Given
    BY <1>1, TableType
  <2>2. \A d \in script.seen : d.slot.kind = "awg" => d.id \in Given
    BY <1>1 DEF IdInv
  <2> QED
    BY <2>1, <2>2 DEF ScriptDies
<1> QED
  BY <1>1, <1>2, <1>3, <1>4, ScriptStepTypes

(* The sidecar's counter after a restart covers its table.                 *)
LEMMA RebornType ==
  ASSUME NEW t \in [Ids -> Standing], Reborn(t)
  PROVE  table' \in [Ids -> Standing] /\ last' \in 0 .. MaxIds /\ CounterInv'
  BY DEF Reborn, IsLast, CounterInv

LEMMA EmptyType == Empty \in [Ids -> Standing] /\ Used(Empty) = {}
  BY DEF Empty, Standing, Used

LEMMA SidecarTypes ==
  ASSUME TypeInv, SidecarRestart \/ SidecarLoses
  PROVE  TypeInv'
<1>1. OtherTypes /\ NodeTypes /\ IdInv
  BY TypesTogether DEF TypeInv
<1>2. UNCHANGED <<present, rows, clients, created, task, script, made, excused>>
  BY DEF SidecarRestart, SidecarLoses, accountVars
<1>3. table' \in [Ids -> Standing] /\ last' \in 0 .. MaxIds /\ sure' \subseteq Ids
  <2>1. CASE SidecarRestart
    BY <1>1, <2>1, RebornType DEF SidecarRestart, Restart, NodeTypes
  <2>2. CASE SidecarLoses
    BY <2>2, RebornType, EmptyType DEF SidecarLoses, Lose
  <2> QED
    BY <2>1, <2>2
<1>4. lost' \in BOOLEAN /\ faults' \in 0 .. MaxFaults
  BY <1>1, FailsType DEF SidecarRestart, SidecarLoses, accountVars, OtherTypes
<1>5. NodeTypes' /\ OtherTypes'
  BY <1>1, <1>2, <1>3, <1>4 DEF NodeTypes, OtherTypes
<1>6. IdInv'
  BY <1>1, <1>2 DEF IdInv, Given
<1> QED
  BY <1>5, <1>6, TypesTogether, PTL DEF TypeInv

LEMMA TypeInit == Init => TypeInv
<1> SUFFICES ASSUME Init PROVE TypeInv
  OBVIOUS
<1>1. NodeTypes
  BY EmptyType, Numbers DEF Init, TableInit, NodeTypes
<1>2. OtherTypes
  <2>1. Idle \in Tasks /\ Menu \in Scripts
    BY DEF Idle, Menu, Tasks, Scripts
  <2>2. faults \in 0 .. MaxFaults
    BY Numbers DEF Init
  <2> QED
    BY <2>1, <2>2 DEF Init, OtherTypes
<1>3. IdInv
  BY DEF Init, Idle, Menu, IdInv
<1> QED
  BY <1>1, <1>2, <1>3, TypesTogether DEF TypeInv

LEMMA TypeStutter ==
  ASSUME TypeInv, UNCHANGED vars
  PROVE  TypeInv'
<1>1. NodeTypes' /\ OtherTypes'
  BY TypesTogether DEF TypeInv, vars, tableVars, accountVars, NodeTypes, OtherTypes
<1>2. IdInv'
  BY DEF TypeInv, vars, tableVars, accountVars, IdInv, Given
<1> QED
  BY <1>1, <1>2, TypesTogether, PTL DEF TypeInv

LEMMA TypeStep == TypeInv /\ [Next]_vars => TypeInv'
<1> SUFFICES ASSUME TypeInv, [Next]_vars PROVE TypeInv'
  OBVIOUS
<1>1. ASSUME NEW o \in Owners, AddUser(o) PROVE TypeInv'
  BY <1>1, AddUserTypes
<1>2. ASSUME NEW s \in Slots, CreateAccess(s) PROVE TypeInv'
  BY <1>2, CreateTypes
<1>3. ASSUME NEW s \in Slots, AddDevice(s) PROVE TypeInv'
  BY <1>3, AddDeviceTypes
<1>4. ASSUME NEW s \in Slots, Rollback(s) PROVE TypeInv'
  BY <1>4, RollbackTypes
<1>5. ASSUME NEW s \in Slots, Purge(s) PROVE TypeInv'
  BY <1>5, PurgeTypes
<1>6. ASSUME NEW s \in Slots, DeleteDeviceRecord(s) PROVE TypeInv'
  BY <1>6, DeleteDeviceRecordTypes
<1>7. ASSUME BotDies PROVE TypeInv'
  BY <1>7, BotDiesTypes
<1>8. ASSUME NEW us \in SUBSET Owners, DeleteUsers(us) PROVE TypeInv'
  BY <1>8, DeleteUsersTypes
<1>9. ASSUME DeleteWgClient PROVE TypeInv'
  BY <1>9, DeleteWgClientTypes
<1>10. ASSUME DeleteDevices PROVE TypeInv'
  BY <1>10, DeleteDevicesTypes
<1>11. ASSUME DeleteUserRows PROVE TypeInv'
  BY <1>11, DeleteUserRowsTypes
<1>12. ASSUME SidecarRestart \/ SidecarLoses PROVE TypeInv'
  BY <1>12, SidecarTypes
<1>13. ASSUME UNCHANGED vars PROVE TypeInv'
  BY <1>13, TypeStutter
<1>14. ASSUME ScriptDies PROVE TypeInv'
  BY <1>14, ScriptDiesTypes
<1> QED
  BY <1>1, <1>2, <1>3, <1>4, <1>5, <1>6, <1>7, <1>8, <1>9, <1>10, <1>11, <1>12, <1>13, <1>14
     DEF Next

(* The variables keep their types; above all, whatever the rows, the tasks *)
(* and the script say of an AmneziaWG client, the node once gave out.      *)
THEOREM TypeCorrect == Spec => []TypeOK
<1>1. TypeInv => TypeOK
  BY DEF TypeInv
<1> QED
  BY <1>1, TypeInit, TypeStep, PTL DEF Spec

-----------------------------------------------------------------------------
(* The counter.                                                            *)

(* The sidecar's counter covers its secrets after every step.              *)
LEMMA CreatesCounter ==
  ASSUME TypeOK, CounterInv, NEW s \in Slots, NEW answered \in BOOLEAN, Creates(s, answered)
  PROVE  CounterInv'
<1>1. CASE s.kind = "awg"
  BY <1>1, CreatesAwg DEF CounterInv, Used
<1>2. CASE s.kind = "mtproto"
  <2>1. /\ last' = last + 1 /\ last + 1 \in Ids
        /\ table' = [table EXCEPT ![last + 1] = "on"]
    BY <1>2, CreatesMtproto
  <2>2. last \in Nat /\ Ids \subseteq Nat
    BY TableType
  <2>3. ASSUME NEW i \in Used(table') PROVE i <= last'
    <3>1. i \in Nat /\ (i = last + 1 \/ i \in Used(table))
      BY <2>1, <2>2, <2>3 DEF Used, TypeOK
    <3> QED
      BY <2>1, <2>2, <3>1 DEF CounterInv
  <2> QED
    BY <2>3 DEF CounterInv
<1> QED
  BY <1>1, <1>2, SlotFacts

LEMMA CallCounter ==
  ASSUME TypeOK, CounterInv, NEW s \in Slots, NEW id,
         (\E answered \in BOOLEAN : Removes(s, id, answered)) \/ NodeSame
  PROVE  CounterInv'
<1>1. Used(table') \subseteq Used(table) /\ last' = last
  <2>1. CASE NodeSame
    BY <2>1 DEF NodeSame, tableVars
  <2>2. ASSUME NEW answered \in BOOLEAN, Removes(s, id, answered)
        PROVE  Used(table') \subseteq Used(table) /\ last' = last
    <3>1. CASE s.kind = "awg"
      BY <2>2, <3>1, RemovesAwg
    <3>2. CASE s.kind = "mtproto"
      <4>1. table' = [table EXCEPT ![id] = "none"] /\ last' = last
        BY <2>2, <3>2, RemovesMtproto
      <4> QED
        BY <4>1 DEF Used, TypeOK
    <3> QED
      BY <3>1, <3>2, SlotFacts
  <2> QED
    BY <2>1, <2>2
<1> QED
  BY <1>1 DEF CounterInv

LEMMA CounterStep == TypeInv /\ CounterInv /\ [Next]_vars => CounterInv'
<1> SUFFICES ASSUME TypeInv, CounterInv, [Next]_vars PROVE CounterInv'
  OBVIOUS
<1> TypeOK
  BY DEF TypeInv
<1>1. ASSUME UNCHANGED <<table, last>> PROVE CounterInv'
  BY <1>1 DEF CounterInv
<1>2. ASSUME NEW s \in Slots, CreateAccess(s) PROVE CounterInv'
  BY <1>2, CreatesCounter DEF CreateAccess
<1>3. ASSUME NEW s \in Slots, Rollback(s) \/ Purge(s) PROVE CounterInv'
  BY <1>3, CallCounter DEF Rollback, Purge
<1>4. ASSUME DeleteWgClient PROVE CounterInv'
  <2>1. PICK r \in script.todo : (\E answered \in BOOLEAN : Removes(r.slot, r.id, answered)) \/ NodeSame
    BY <1>4 DEF DeleteWgClient
  <2>2. r.slot \in Slots
    BY RowFacts DEF TypeOK
  <2> QED
    BY <2>1, <2>2, CallCounter
<1>5. ASSUME SidecarRestart \/ SidecarLoses PROVE CounterInv'
  BY <1>5, RebornType, EmptyType DEF SidecarRestart, SidecarLoses, Restart, Lose
<1>6. ASSUME NEW s \in Slots, AddDevice(s) \/ DeleteDeviceRecord(s) PROVE UNCHANGED <<table, last>>
  BY <1>6 DEF AddDevice, DeleteDeviceRecord, tableVars
<1>7. ASSUME NEW o \in Owners, AddUser(o) PROVE UNCHANGED <<table, last>>
  BY <1>7 DEF AddUser, tableVars
<1>8. ASSUME NEW us \in SUBSET Owners, DeleteUsers(us) PROVE UNCHANGED <<table, last>>
  BY <1>8 DEF DeleteUsers, NodeSame, tableVars
<1>9. ASSUME BotDies \/ DeleteDevices \/ DeleteUserRows \/ ScriptDies
      PROVE  UNCHANGED <<table, last>>
  BY <1>9 DEF BotDies, DeleteDevices, DeleteUserRows, ScriptDies, NodeSame, tableVars
<1>10. ASSUME UNCHANGED vars PROVE UNCHANGED <<table, last>>
  BY <1>10 DEF vars, tableVars
<1> QED
  BY <1>1, <1>2, <1>3, <1>4, <1>5, <1>6, <1>7, <1>8, <1>9, <1>10 DEF Next

-----------------------------------------------------------------------------
(* Clients that are in nobody's hands.                                     *)

(* A client stays known when the rows and the tasks that know it stay.     *)
LEMMA StrayQuiet ==
  ASSUME StrayInv, UNCHANGED <<rows, clients, task, script, excused>>
  PROVE  StrayInv'
  BY DEF StrayInv, BehindInv, NoStrayClient, Known

LEMMA CreateStray ==
  ASSUME TypeInv, StrayInv, NEW s \in Slots, CreateAccess(s)
  PROVE  StrayInv'
<1>1. TypeOK /\ IdInv /\ BehindInv /\ NoStrayClient
  BY DEF TypeInv, StrayInv
<1>2. task[s].pc = "idle" /\ UNCHANGED <<rows, script>>
  BY DEF CreateAccess
<1>3. PICK answered \in BOOLEAN :
         /\ Creates(s, answered)
         /\ \/ answered /\ Goto(s, "insert", NextId(s)) /\ Works /\ UNCHANGED excused
            \/ ~answered /\ Excuse(s, NextId(s)) /\ Fails /\ UNCHANGED task
  BY DEF CreateAccess
<1>4. NextId(s) \in Nat /\ created \in Nat /\ created + 1 \notin Given
  BY <1>1, <1>3, CreatesType, TableType DEF Given
<1>5. clients \subseteq clients' /\ \A c \in clients' : c \in clients \/ (s.kind = "awg" /\ c = NextId(s) /\ c = created + 1)
  <2>1. CASE s.kind = "awg"
    BY <1>1, <1>3, <2>1, CreatesAwg
  <2>2. CASE s.kind = "mtproto"
    BY <1>1, <1>3, <2>2, CreatesMtproto
  <2> QED
    BY <2>1, <2>2, SlotFacts
<1>6. /\ \A t \in Slots : t # s => task'[t] = task[t]
      /\ task'[s].pc \in {"idle", "insert"}
      /\ answered => task'[s].pc = "insert" /\ task'[s].id = NextId(s)
  <2>1. CASE answered
    BY <1>1, <1>3, <1>4, <2>1, GotoType, TaskType
  <2>2. CASE ~answered
    BY <1>2, <1>3, <2>2
  <2> QED
    BY <2>1, <2>2
<1>7. excused \subseteq excused' /\ (~answered /\ s.kind = "awg" => NextId(s) \in excused')
  BY <1>3 DEF Excuse
<1>8. BehindInv'
  <2>1. ASSUME NEW t \in Slots, t.kind = "awg", task'[t].pc = "delete"
        PROVE  task'[t].id \notin clients'
    <3>1. t # s /\ task'[t] = task[t]
      BY <1>6, <2>1
    <3>2. task[t].id \in Given /\ task[t].id \notin clients
      BY <1>1, <2>1, <3>1 DEF IdInv, BehindInv
    <3> QED
      BY <1>4, <1>5, <3>1, <3>2
  <2>2. ASSUME script.pc = "clients", NEW r \in script.seen, r.slot.kind = "awg"
        PROVE  r \in script.todo \/ r.id \notin clients' \/ r.id \in excused'
    <3>1. r.id \in Given
      BY <1>1, <2>2 DEF IdInv
    <3> QED
      BY <1>1, <1>4, <1>5, <1>7, <2>2, <3>1 DEF BehindInv
  <2> QED
    BY <1>2, <2>1, <2>2 DEF BehindInv
<1>9. ASSUME NEW c \in clients' PROVE Known(c)' \/ c \in excused'
  <2>1. CASE c \in clients
    <3>1. Known(c) \/ c \in excused
      BY <1>1, <2>1 DEF NoStrayClient
    <3>2. Known(c) => Known(c)'
      BY <1>2, <1>6 DEF Known
    <3> QED
      BY <1>7, <3>1, <3>2
  <2>2. CASE s.kind = "awg" /\ c = NextId(s)
    <3>1. answered => Known(c)'
      BY <1>6, <2>2 DEF Known
    <3> QED
      BY <1>7, <2>2, <3>1
  <2> QED
    BY <1>5, <2>1, <2>2
<1> QED
  BY <1>8, <1>9 DEF StrayInv, NoStrayClient

LEMMA AddDeviceStray ==
  ASSUME TypeInv, StrayInv, NEW s \in Slots, AddDevice(s)
  PROVE  StrayInv'
<1>1. TypeOK /\ IdInv /\ BehindInv /\ NoStrayClient
  BY DEF TypeInv, StrayInv
<1>2. UNCHANGED <<clients, script, excused>> /\ task[s].pc = "insert"
  BY DEF AddDevice
<1>3. task[s].id \in Nat /\ task \in [Slots -> Tasks]
  BY <1>1, TaskType DEF Tasks
<1>4. \/ Goto(s, "idle", 0) /\ rows' = rows \cup {[slot |-> s, id |-> task[s].id]}
      \/ Goto(s, "rollback", task[s].id) /\ rows' = rows
  BY DEF AddDevice
<1>5. /\ \A t \in Slots : t # s => task'[t] = task[t]
      /\ rows \subseteq rows'
      /\ task'[s].pc # "delete"
      /\ \/ [slot |-> s, id |-> task[s].id] \in rows'
         \/ task'[s].pc = "rollback" /\ task'[s].id = task[s].id
  BY <1>3, <1>4, GotoType
<1>6. BehindInv'
  BY <1>1, <1>2, <1>5 DEF BehindInv
<1>7. ASSUME NEW c, Known(c) PROVE Known(c)'
  <2>1. CASE \E r \in rows : r.slot.kind = "awg" /\ r.id = c
    BY <1>5, <2>1 DEF Known
  <2>2. ASSUME NEW t \in Slots, t.kind = "awg", task[t].pc \in {"insert", "rollback"}, task[t].id = c
        PROVE  Known(c)'
    <3>1. CASE t # s
      BY <1>5, <2>2, <3>1 DEF Known
    <3>2. CASE t = s
      <4>1. CASE [slot |-> s, id |-> task[s].id] \in rows'
        <5>1. PICK r \in rows' : r = [slot |-> s, id |-> task[s].id]
          BY <4>1
        <5>2. r.slot.kind = "awg" /\ r.id = c
          BY <2>2, <3>2, <5>1
        <5> QED
          BY <5>2 DEF Known
      <4>2. CASE task'[s].pc = "rollback" /\ task'[s].id = task[s].id
        BY <2>2, <3>2, <4>2 DEF Known
      <4> QED
        BY <1>5, <4>1, <4>2
    <3> QED
      BY <3>1, <3>2
  <2> QED
    BY <1>7, <2>1, <2>2 DEF Known
<1>8. NoStrayClient'
  BY <1>1, <1>2, <1>7 DEF NoStrayClient
<1> QED
  BY <1>6, <1>8 DEF StrayInv

(* A call that takes clients away, and what it excuses.                    *)
LEMMA CallClients ==
  ASSUME TypeOK, NEW s \in Slots, NEW id, NEW answered \in BOOLEAN, Removes(s, id, answered)
  PROVE  clients' \subseteq clients /\ (s.kind = "awg" => id \notin clients')
<1>1. CASE s.kind = "awg"
  BY <1>1, RemovesAwg
<1>2. CASE s.kind = "mtproto"
  BY <1>2, RemovesMtproto
<1> QED
  BY <1>1, <1>2, SlotFacts

LEMMA RollbackStray ==
  ASSUME TypeInv, StrayInv, NEW s \in Slots, Rollback(s)
  PROVE  StrayInv'
<1>1. TypeOK /\ BehindInv /\ NoStrayClient
  BY DEF TypeInv, StrayInv
<1>2. UNCHANGED <<rows, script>> /\ task[s].pc = "rollback" /\ Goto(s, "idle", 0)
  BY DEF Rollback
<1>3. /\ \A t \in Slots : t # s => task'[t] = task[t]
      /\ task'[s].pc = "idle"
  BY <1>1, <1>2, GotoType, TaskType
<1>4. clients' \subseteq clients
  <2>1. NodeSame => clients' = clients
    BY DEF NodeSame
  <2> QED
    BY <1>1, <2>1, CallClients DEF Rollback
<1>5. excused \subseteq excused'
  BY DEF Rollback, Excuse
<1>6. s.kind = "awg" => task[s].id \notin clients' \/ task[s].id \in excused'
  <2> SUFFICES ASSUME s.kind = "awg" PROVE task[s].id \notin clients' \/ task[s].id \in excused'
    OBVIOUS
  <2>1. CASE Removes(s, task[s].id, TRUE)
    BY <1>1, <2>1, CallClients
  <2>2. CASE ~Held(s, task[s].id) /\ NodeSame
    BY <2>2 DEF Held, NodeSame
  <2>3. CASE Excuse(s, task[s].id)
    BY <2>3 DEF Excuse
  <2> QED
    BY <2>1, <2>2, <2>3 DEF Rollback
<1>7. BehindInv'
  <2>1. ASSUME NEW t \in Slots, t.kind = "awg", task'[t].pc = "delete"
        PROVE  task'[t].id \notin clients'
    BY <1>1, <1>3, <1>4, <2>1 DEF BehindInv
  <2> QED
    BY <1>1, <1>2, <1>4, <1>5, <2>1 DEF BehindInv
<1>8. ASSUME NEW c \in clients' PROVE Known(c)' \/ c \in excused'
  <2>1. Known(c) \/ c \in excused
    BY <1>1, <1>4 DEF NoStrayClient
  <2>2. Known(c) => Known(c)' \/ (s.kind = "awg" /\ c = task[s].id)
    BY <1>2, <1>3 DEF Known
  <2> QED
    BY <1>5, <1>6, <2>1, <2>2
<1> QED
  BY <1>7, <1>8 DEF StrayInv, NoStrayClient

LEMMA PurgeStray ==
  ASSUME TypeInv, StrayInv, NEW s \in Slots, Purge(s)
  PROVE  StrayInv'
<1>1. TypeOK /\ BehindInv /\ NoStrayClient
  BY DEF TypeInv, StrayInv
<1>2. UNCHANGED <<rows, script, excused>> /\ task[s].pc = "idle"
  BY DEF Purge
<1>3. PICK r \in rows :
        /\ r.slot = s
        /\ \/ Removes(s, r.id, TRUE) /\ Goto(s, "delete", r.id)
           \/ Removes(s, r.id, FALSE) /\ UNCHANGED task
  BY DEF Purge
<1>4. r.id \in Nat
  BY <1>1, RowFacts DEF TypeOK
<1>5. clients' \subseteq clients /\ (s.kind = "awg" => r.id \notin clients')
  BY <1>1, <1>3, CallClients
<1>6. /\ \A t \in Slots : t # s => task'[t] = task[t]
      /\ \/ task'[s].pc = "delete" /\ task'[s].id = r.id
         \/ task'[s] = task[s]
  BY <1>1, <1>3, <1>4, GotoType, TaskType
<1>7. BehindInv'
  <2>1. ASSUME NEW t \in Slots, t.kind = "awg", task'[t].pc = "delete"
        PROVE  task'[t].id \notin clients'
    BY <1>1, <1>2, <1>5, <1>6, <2>1 DEF BehindInv
  <2> QED
    BY <1>1, <1>2, <1>5, <2>1 DEF BehindInv
<1>8. ASSUME NEW c, Known(c) PROVE Known(c)'
  BY <1>2, <1>6, <1>8 DEF Known
<1> QED
  BY <1>1, <1>2, <1>5, <1>7, <1>8 DEF StrayInv, NoStrayClient

LEMMA DeleteDeviceRecordStray ==
  ASSUME TypeInv, StrayInv, NEW s \in Slots, DeleteDeviceRecord(s)
  PROVE  StrayInv'
<1>1. TypeOK /\ BehindInv /\ NoStrayClient
  BY DEF TypeInv, StrayInv
<1>2. /\ UNCHANGED <<clients, script, excused>>
      /\ task[s].pc = "delete" /\ Goto(s, "idle", 0)
      /\ rows' = rows \ {[slot |-> s, id |-> task[s].id]} \/ rows' = rows
  BY DEF DeleteDeviceRecord
<1>3. /\ \A t \in Slots : t # s => task'[t] = task[t]
      /\ task'[s].pc = "idle"
  BY <1>1, <1>2, GotoType, TaskType
<1>4. BehindInv'
  <2>1. ASSUME NEW t \in Slots, t.kind = "awg", task'[t].pc = "delete"
        PROVE  task'[t].id \notin clients
    BY <1>1, <1>3, <2>1 DEF BehindInv
  <2> QED
    BY <1>1, <1>2, <2>1 DEF BehindInv
<1>5. ASSUME NEW c \in clients, Known(c) PROVE Known(c)'
  <2>1. ASSUME NEW r \in rows, r.slot.kind = "awg", r.id = c PROVE r \in rows'
    <3>1. s.kind = "awg" => task[s].id # c
      BY <1>1, <1>2 DEF BehindInv
    <3>2. r # [slot |-> s, id |-> task[s].id]
      BY <2>1, <3>1
    <3> QED
      BY <1>2, <3>2
  <2> QED
    BY <1>2, <1>3, <1>5, <2>1 DEF Known
<1> QED
  BY <1>1, <1>2, <1>4, <1>5 DEF StrayInv, NoStrayClient

LEMMA BotDiesStray ==
  ASSUME TypeInv, StrayInv, BotDies
  PROVE  StrayInv'
<1>1. TypeOK /\ BehindInv /\ NoStrayClient
  BY DEF TypeInv, StrayInv
<1>2. /\ UNCHANGED <<rows, clients, script>> /\ excused \subseteq excused'
      /\ \A s \in Slots : task'[s].pc = "idle"
  BY DEF BotDies, Idle
<1>3. \A s \in Slots : s.kind = "awg" /\ task[s].pc \in {"insert", "rollback"} =>
        task[s].id \in excused'
  BY DEF BotDies
<1>4. BehindInv'
  BY <1>1, <1>2 DEF BehindInv
<1>5. ASSUME NEW c, Known(c) PROVE Known(c)' \/ c \in excused'
  BY <1>2, <1>3, <1>5 DEF Known
<1> QED
  BY <1>1, <1>2, <1>4, <1>5 DEF StrayInv, NoStrayClient

LEMMA DeleteUsersStray ==
  ASSUME TypeInv, StrayInv, NEW us \in SUBSET Owners, DeleteUsers(us)
  PROVE  StrayInv'
<1>1. UNCHANGED <<rows, clients, task, excused>>
  BY DEF DeleteUsers, NodeSame, Rest
<1>2. \A r \in script'.seen : r.slot.kind = "awg" => r \in script'.todo
  BY DEF DeleteUsers
<1> QED
  BY <1>1, <1>2 DEF StrayInv, BehindInv, NoStrayClient, Known

LEMMA DeleteWgClientStray ==
  ASSUME TypeInv, StrayInv, DeleteWgClient
  PROVE  StrayInv'
<1>1. /\ TypeOK /\ IdInv /\ BehindInv /\ NoStrayClient /\ UNCHANGED <<rows, task>>
      /\ script.pc = "clients" /\ script \in Scripts
  BY DEF TypeInv, StrayInv, DeleteWgClient, Rest, TypeOK, Scripts
<1>2. PICK r \in script.todo :
        /\ script' = [script EXCEPT !.todo = @ \ {r}]
        /\ \/ Removes(r.slot, r.id, TRUE) /\ UNCHANGED excused
           \/ ~Held(r.slot, r.id) /\ NodeSame /\ UNCHANGED excused
           \/ (Removes(r.slot, r.id, FALSE) \/ NodeSame) /\ Excuse(r.slot, r.id)
  BY DEF DeleteWgClient
<1>3. r.slot \in Slots /\ r.slot.kind = "awg"
  BY <1>1, RowFacts DEF TypeOK, IdInv
<1>4. /\ script'.pc = "clients" /\ script'.seen = script.seen
      /\ script'.todo = script.todo \ {r}
  BY <1>1, <1>2 DEF Scripts
<1>5. clients' \subseteq clients /\ excused \subseteq excused'
  <2>1. NodeSame => clients' = clients
    BY DEF NodeSame
  <2>2. excused \subseteq excused'
    BY <1>2 DEF Excuse
  <2> QED
    BY <1>1, <1>2, <1>3, <2>1, <2>2, CallClients
<1>6. r.id \notin clients' \/ r.id \in excused'
  <2>1. CASE Removes(r.slot, r.id, TRUE)
    BY <1>1, <1>3, <2>1, CallClients
  <2>2. CASE ~Held(r.slot, r.id) /\ NodeSame
    BY <1>3, <2>2 DEF Held, NodeSame
  <2>3. CASE Excuse(r.slot, r.id)
    BY <1>3, <2>3 DEF Excuse
  <2> QED
    BY <1>2, <2>1, <2>2, <2>3
<1>7. BehindInv'
  <2>1. ASSUME NEW d \in script.seen, d.slot.kind = "awg"
        PROVE  d \in script.todo \ {r} \/ d.id \notin clients' \/ d.id \in excused'
    BY <1>1, <1>5, <1>6, <2>1 DEF BehindInv
  <2> QED
    BY <1>1, <1>4, <1>5, <2>1 DEF BehindInv
<1>8. NoStrayClient'
  BY <1>1, <1>5 DEF NoStrayClient, Known
<1> QED
  BY <1>7, <1>8 DEF StrayInv

LEMMA DeleteDevicesStray ==
  ASSUME TypeInv, StrayInv, DeleteDevices
  PROVE  StrayInv'
<1>1. /\ BehindInv /\ NoStrayClient /\ UNCHANGED <<clients, task>>
      /\ script.pc = "clients" /\ script.todo = {} /\ script \in Scripts
      /\ script' = [script EXCEPT !.pc = "users"]
      /\ rows' = {r \in rows : r.slot.owner \notin script.users}
  BY DEF TypeInv, StrayInv, DeleteDevices, NodeSame, Rest, TypeOK, Scripts
<1>2. script'.pc = "users"
  BY <1>1 DEF Scripts
<1>3. excused \subseteq excused'
  BY DEF DeleteDevices
<1>4. ASSUME NEW r \in rows, r.slot.kind = "awg", r.id \in clients
      PROVE  r \in rows' \/ r.id \in excused'
  <2>1. CASE r \in script.seen
    BY <1>1, <1>3, <1>4, <2>1 DEF BehindInv
  <2>2. CASE r \notin script.seen /\ r.slot.owner \in script.users
    BY <1>4, <2>2 DEF DeleteDevices
  <2>3. CASE r.slot.owner \notin script.users
    BY <1>1, <2>3
  <2> QED
    BY <2>1, <2>2, <2>3
<1>5. BehindInv'
  BY <1>1, <1>2 DEF BehindInv
<1>6. ASSUME NEW c \in clients PROVE Known(c)' \/ c \in excused'
  <2>1. Known(c) \/ c \in excused
    BY <1>1 DEF NoStrayClient
  <2>2. Known(c) => Known(c)' \/ c \in excused'
    BY <1>1, <1>4 DEF Known
  <2> QED
    BY <1>3, <2>1, <2>2
<1> QED
  BY <1>1, <1>5, <1>6 DEF StrayInv, NoStrayClient

LEMMA DeleteUserRowsStray ==
  ASSUME StrayInv, DeleteUserRows
  PROVE  StrayInv'
<1>1. UNCHANGED <<rows, clients, task, excused>> /\ script'.pc = "menu"
  BY DEF DeleteUserRows, NodeSame, Rest, Menu
<1> QED
  BY <1>1 DEF StrayInv, BehindInv, NoStrayClient, Known

LEMMA ScriptDiesStray ==
  ASSUME StrayInv, ScriptDies
  PROVE  StrayInv'
<1>1. UNCHANGED <<rows, clients, task>> /\ script'.pc = "menu" /\ excused \subseteq excused'
  BY DEF ScriptDies, NodeSame, Rest, Menu
<1> QED
  BY <1>1 DEF StrayInv, BehindInv, NoStrayClient, Known

LEMMA StrayStep == TypeInv /\ StrayInv /\ [Next]_vars => StrayInv'
<1> SUFFICES ASSUME TypeInv, StrayInv, [Next]_vars PROVE StrayInv'
  OBVIOUS
<1>1. ASSUME NEW s \in Slots, CreateAccess(s) PROVE StrayInv'
  BY <1>1, CreateStray
<1>2. ASSUME NEW s \in Slots, AddDevice(s) PROVE StrayInv'
  BY <1>2, AddDeviceStray
<1>3. ASSUME NEW s \in Slots, Rollback(s) PROVE StrayInv'
  BY <1>3, RollbackStray
<1>4. ASSUME NEW s \in Slots, Purge(s) PROVE StrayInv'
  BY <1>4, PurgeStray
<1>5. ASSUME NEW s \in Slots, DeleteDeviceRecord(s) PROVE StrayInv'
  BY <1>5, DeleteDeviceRecordStray
<1>6. ASSUME BotDies PROVE StrayInv'
  BY <1>6, BotDiesStray
<1>7. ASSUME NEW us \in SUBSET Owners, DeleteUsers(us) PROVE StrayInv'
  BY <1>7, DeleteUsersStray
<1>8. ASSUME DeleteWgClient \/ DeleteDevices \/ DeleteUserRows \/ ScriptDies PROVE StrayInv'
  BY <1>8, DeleteWgClientStray, DeleteDevicesStray, DeleteUserRowsStray, ScriptDiesStray
<1>9. ASSUME \/ UNCHANGED vars \/ SidecarRestart \/ SidecarLoses
             \/ \E o \in Owners : AddUser(o)
      PROVE  StrayInv'
  BY <1>9, StrayQuiet DEF AddUser, SidecarRestart, SidecarLoses, vars, accountVars
<1> QED
  BY <1>1, <1>2, <1>3, <1>4, <1>5, <1>6, <1>7, <1>8, <1>9 DEF Next

LEMMA StrayInit == Init => StrayInv
  BY DEF Init, Idle, Menu, StrayInv, BehindInv, NoStrayClient

(* Whatever the bot, its purge job and the administration script do beside *)
(* each other, a client of the AmneziaWG node is in a row or in a task's   *)
(* hands, unless a call about it failed, the bot died with it in hand, or  *)
(* its row came while the script was deleting its user.                    *)
THEOREM NoStrayClientAlways == Spec => []NoStrayClient
<1>1. StrayInv => NoStrayClient
  BY DEF StrayInv
<1> QED
  BY <1>1, TypeInit, TypeStep, StrayInit, StrayStep, PTL DEF Spec

-----------------------------------------------------------------------------
(* Counting.                                                               *)

LEMMA CountSub ==
  ASSUME NEW S, NEW n \in Nat, Counted(S, n), NEW T, T \subseteq S
  PROVE  Counted(T, n)
<1>1. IsFiniteSet(T) /\ Cardinality(T) <= Cardinality(S)
  BY FS_Subset DEF Counted
<1>2. Cardinality(T) \in Nat /\ Cardinality(S) \in Nat
  BY <1>1, FS_CardinalityType DEF Counted
<1> QED
  BY <1>1, <1>2 DEF Counted

LEMMA CountAdd ==
  ASSUME NEW S, NEW n \in Nat, Counted(S, n), NEW x, NEW T, T \subseteq S \cup {x}
  PROVE  Counted(T, n + 1)
<1>1. Cardinality(S) \in Nat /\ IsFiniteSet(S)
  BY FS_CardinalityType DEF Counted
<1>2. /\ IsFiniteSet(S \cup {x})
      /\ Cardinality(S \cup {x}) = Cardinality(S) \/ Cardinality(S \cup {x}) = Cardinality(S) + 1
  BY <1>1, FS_AddElement
<1>3. Cardinality(S \cup {x}) <= n + 1
  BY <1>1, <1>2 DEF Counted
<1>4. Counted(S \cup {x}, n + 1)
  BY <1>2, <1>3 DEF Counted
<1> QED
  BY <1>4, CountSub

(* One more for one less.                                                  *)
LEMMA CountSwap ==
  ASSUME NEW S, NEW n \in Nat, Counted(S, n), NEW y \in S, NEW x, NEW T,
         T \subseteq (S \ {y}) \cup {x}
  PROVE  Counted(T, n)
<1>1. Cardinality(S) \in Nat /\ IsFiniteSet(S)
  BY FS_CardinalityType DEF Counted
<1>2. IsFiniteSet(S \ {y}) /\ Cardinality(S \ {y}) = Cardinality(S) - 1
  BY <1>1, FS_RemoveElement
<1>3. Cardinality(S \ {y}) \in Nat
  BY <1>2, FS_CardinalityType
<1>4. n - 1 \in Nat /\ Cardinality(S \ {y}) <= n - 1
  BY <1>1, <1>2, <1>3 DEF Counted
<1>5. Counted(S \ {y}, n - 1)
  BY <1>2, <1>4 DEF Counted
<1>6. Counted(T, (n - 1) + 1)
  BY <1>4, <1>5, CountAdd
<1> QED
  BY <1>6

-----------------------------------------------------------------------------
(* Secrets and those they were made for.                                   *)

(* A secret is good for one holder at most.                                *)
LEMMA GoodUnique ==
  ASSUME NEW g \in Row, NEW h \in Row, g.slot.kind = "mtproto", h.slot.kind = "mtproto",
         Good(g), Good(h), g.id = h.id
  PROVE  g = h
<1>1. g.slot.owner = h.slot.owner
  BY DEF Good
<1>2. g.slot = h.slot
  BY <1>1, RowFacts, OneSlotPerOwner
<1> QED
  BY <1>2, RowFacts

(* A new secret takes nothing from anybody, and is its owner's.            *)
LEMMA CreatesGood ==
  ASSUME TypeOK, CounterInv, NEW s \in Slots, NEW answered \in BOOLEAN, Creates(s, answered)
  PROVE  /\ \A h \in Row : Good(h) => Good(h)'
         /\ answered /\ s.kind = "mtproto" =>
              \A h \in Row : h.slot = s /\ h.id = NextId(s) => Good(h)'
<1>1. CASE s.kind = "awg"
  BY <1>1, CreatesAwg, SlotFacts DEF Good, Used
<1>2. CASE s.kind = "mtproto"
  <2>1. /\ last + 1 \in Ids /\ NextId(s) = last + 1
        /\ table' = [table EXCEPT ![last + 1] = "on"]
        /\ sure' = IF answered THEN sure \cup {last + 1} ELSE sure \ {last + 1}
        /\ made' = [made EXCEPT ![last + 1] = s.owner]
    BY <1>2, CreatesMtproto
  <2>2. last \in Nat /\ table \in [Ids -> Standing] /\ made \in [Ids -> Owners \cup {Nobody}]
        /\ Ids \subseteq Nat
    BY TableType DEF TypeOK
  <2>3. ASSUME NEW h \in Row, Good(h) PROVE Good(h)'
    <3>1. h.id \in Ids /\ h.id <= last
      BY <2>3 DEF Good, CounterInv, Used
    <3>2. h.id # last + 1
      BY <2>2, <3>1
    <3>3. table'[h.id] = table[h.id] /\ made'[h.id] = made[h.id] /\ (h.id \in sure => h.id \in sure')
      BY <2>1, <2>2, <3>1, <3>2
    <3> QED
      BY <2>3, <3>1, <3>3 DEF Good, Used
  <2>4. ASSUME answered, NEW h \in Row, h.slot = s, h.id = last + 1 PROVE Good(h)'
    <3>1. table'[last + 1] = "on" /\ made'[last + 1] = s.owner /\ last + 1 \in sure'
      BY <2>1, <2>2, <2>4
    <3> QED
      BY <2>1, <2>4, <3>1 DEF Good, Used
  <2> QED
    BY <2>1, <2>3, <2>4
<1> QED
  BY <1>1, <1>2, SlotFacts

(* A call about one secret leaves the others alone; one about a client of  *)
(* the AmneziaWG node leaves all of them alone.                            *)
LEMMA CallGood ==
  ASSUME TypeOK, NEW s \in Slots, NEW id, UNCHANGED made,
         (\E answered \in BOOLEAN : Removes(s, id, answered)) \/ NodeSame
  PROVE  \A h \in Row : Good(h) => Good(h)' \/ (s.kind = "mtproto" /\ h.id = id)
<1>1. CASE NodeSame
  BY <1>1 DEF NodeSame, tableVars, Good, Used
<1>2. ASSUME NEW answered \in BOOLEAN, Removes(s, id, answered)
      PROVE  \A h \in Row : Good(h) => Good(h)' \/ (s.kind = "mtproto" /\ h.id = id)
  <2>1. CASE s.kind = "awg"
    BY <1>2, <2>1, RemovesAwg DEF Good, Used
  <2>2. CASE s.kind = "mtproto"
    <3>1. /\ table' = [table EXCEPT ![id] = "none"]
          /\ sure' = IF answered THEN sure \cup {id} ELSE sure \ {id}
      BY <1>2, <2>2, RemovesMtproto
    <3>2. ASSUME NEW h \in Row, Good(h), h.id # id PROVE Good(h)'
      <4>1. table'[h.id] = table[h.id] /\ h.id \in sure'
        BY <3>1, <3>2 DEF Good, Used, TypeOK
      <4> QED
        BY <3>2, <4>1 DEF Good, Used
    <3> QED
      BY <2>2, <3>2
  <2> QED
    BY <2>1, <2>2, SlotFacts
<1> QED
  BY <1>1, <1>2

-----------------------------------------------------------------------------
(* Who loses a secret in a step.                                           *)

(* Nobody gets hold of anything, nobody loses anything.                    *)
LEMMA SuspectsKept ==
  ASSUME \A h \in Row : Holds(h)' => Holds(h) \/ Good(h)',
         \A h \in Row : Good(h) => Good(h)'
  PROVE  Suspects' \subseteq Suspects
  BY DEF Suspects

(* A call about the secret of k makes one holder a suspect at most: k      *)
(* itself, when it is k's and k keeps it, or whoever has it.               *)
LEMMA CallSuspects ==
  ASSUME TypeOK, NEW k \in Row, UNCHANGED made,
         (\E answered \in BOOLEAN : Removes(k.slot, k.id, answered)) \/ NodeSame,
         \A h \in Row : Holds(h)' => Holds(h)
  PROVE  \E x : /\ Suspects' \subseteq Suspects \cup {x}
                /\ Holds(k) /\ ~Holds(k)' =>
                     \/ Suspects' \subseteq Suspects
                     \/ k \in Suspects /\ Suspects' \subseteq (Suspects \ {k}) \cup {x}
<1> DEFINE Loser(h) == h.slot.kind = "mtproto" /\ Good(h) /\ h.id = k.id
<1>1. \A h \in Row : Good(h) => Good(h)' \/ (k.slot.kind = "mtproto" /\ h.id = k.id)
  BY RowFacts, CallGood
<1>2. \A h \in Suspects' : h \in Suspects \/ (Loser(h) /\ k.slot.kind = "mtproto")
  BY <1>1 DEF Suspects, Holds
<1>3. \A g, h \in Row : Loser(g) /\ Loser(h) => g = h
  BY GoodUnique
<1>4. Suspects' \subseteq Row /\ (~Holds(k)' => k \notin Suspects') /\ (Holds(k) /\ ~Good(k) => k \in Suspects)
  BY DEF Suspects
<1>5. k.slot.kind = "mtproto" /\ Good(k) => Loser(k)
  OBVIOUS
<1> HIDE DEF Loser
<1>6. CASE \E g \in Row : Loser(g) /\ k.slot.kind = "mtproto"
  <2>1. PICK g \in Row : Loser(g) /\ k.slot.kind = "mtproto"
    BY <1>6
  <2>2. Suspects' \subseteq Suspects \cup {g}
    BY <1>2, <1>3, <1>4, <2>1
  <2>3. ASSUME Holds(k), ~Holds(k)'
        PROVE  \/ Suspects' \subseteq Suspects
               \/ k \in Suspects /\ Suspects' \subseteq (Suspects \ {k}) \cup {g}
    <3>1. CASE Good(k)
      <4>1. g = k
        BY <1>3, <1>5, <2>1, <3>1
      <4> QED
        BY <1>4, <2>2, <2>3, <4>1
    <3>2. CASE ~Good(k)
      BY <1>4, <2>2, <2>3, <3>2
    <3> QED
      BY <3>1, <3>2
  <2> QED
    BY <2>2, <2>3
<1>7. CASE ~\E g \in Row : Loser(g) /\ k.slot.kind = "mtproto"
  <2>1. Suspects' \subseteq Suspects
    BY <1>2, <1>4, <1>7
  <2> QED
    BY <2>1
<1> QED
  BY <1>6, <1>7

(* What the invariant asks of a step that fails, and of one that does not. *)
LEMMA CountedKept ==
  ASSUME faults \in Nat, Counted(Suspects, faults), Suspects' \subseteq Suspects,
         Works \/ Fails
  PROVE  Counted(Suspects', faults')
<1>1. faults' \in Nat /\ faults' >= faults
  BY DEF Works, Fails
<1>2. Counted(Suspects', faults)
  BY CountSub
<1>3. Cardinality(Suspects') \in Nat
  BY <1>2, FS_CardinalityType DEF Counted
<1> QED
  BY <1>1, <1>2, <1>3 DEF Counted

LEMMA CountedFails ==
  ASSUME faults \in Nat, Counted(Suspects, faults), NEW x, Suspects' \subseteq Suspects \cup {x},
         Fails
  PROVE  Counted(Suspects', faults')
<1>1. Counted(Suspects', faults + 1)
  BY CountAdd
<1> QED
  BY <1>1 DEF Fails

LEMMA CountedSwaps ==
  ASSUME faults \in Nat, Counted(Suspects, faults), NEW k \in Suspects, NEW x,
         Suspects' \subseteq (Suspects \ {k}) \cup {x}, Works
  PROVE  Counted(Suspects', faults')
<1>1. Counted(Suspects', faults)
  BY CountSwap
<1> QED
  BY <1>1 DEF Works

-----------------------------------------------------------------------------
(* Where the tasks are.                                                    *)

LEMMA PlaceStep == TypeInv /\ PlaceInv /\ [Next]_vars => PlaceInv'
<1> SUFFICES ASSUME TypeInv, PlaceInv, [Next]_vars PROVE PlaceInv'
  OBVIOUS
<1>1. TypeOK /\ task \in [Slots -> Tasks]
  BY TaskType DEF TypeInv
<1>2. ASSUME UNCHANGED task, rows' \subseteq rows PROVE PlaceInv'
  BY <1>2 DEF PlaceInv
<1>3. ASSUME NEW s \in Slots, CreateAccess(s) PROVE PlaceInv'
  <2>1. task[s].pc = "idle" /\ (\A r \in rows : r.slot # s) /\ UNCHANGED rows
    BY <1>3 DEF CreateAccess
  <2>2. (\E answered \in BOOLEAN : Creates(s, answered)) /\ (Goto(s, "insert", NextId(s)) \/ UNCHANGED task)
    BY <1>3 DEF CreateAccess
  <2>3. NextId(s) \in Nat
    BY <1>1, <2>2, CreatesType
  <2>4. task'[s].pc \in {"idle", "insert"} /\ \A t \in Slots : t # s => task'[t] = task[t]
    BY <1>1, <2>1, <2>2, <2>3, GotoType
  <2> QED
    BY <2>1, <2>4 DEF PlaceInv
<1>4. ASSUME NEW s \in Slots, AddDevice(s) PROVE PlaceInv'
  <2>1. task[s].pc = "insert" /\ task[s].id \in Nat
    BY <1>1, <1>4 DEF AddDevice, Tasks
  <2>2. \/ Goto(s, "idle", 0) /\ rows' = rows \cup {[slot |-> s, id |-> task[s].id]}
        \/ Goto(s, "rollback", task[s].id) /\ rows' = rows
    BY <1>4 DEF AddDevice
  <2>3. CASE Goto(s, "idle", 0) /\ rows' = rows \cup {[slot |-> s, id |-> task[s].id]}
    <3>1. task'[s].pc = "idle" /\ \A t \in Slots : t # s => task'[t] = task[t]
      BY <1>1, <2>3, GotoType
    <3>2. \A r \in rows' : r \in rows \/ r.slot = s
      BY <2>3
    <3> QED
      BY <3>1, <3>2 DEF PlaceInv
  <2>4. CASE Goto(s, "rollback", task[s].id) /\ rows' = rows
    <3>1. task'[s].pc = "rollback" /\ \A t \in Slots : t # s => task'[t] = task[t]
      BY <1>1, <2>1, <2>4, GotoType
    <3> QED
      BY <2>1, <2>4, <3>1 DEF PlaceInv
  <2> QED
    BY <2>2, <2>3, <2>4
<1>5. ASSUME NEW s \in Slots, Rollback(s) \/ DeleteDeviceRecord(s) PROVE PlaceInv'
  <2>1. Goto(s, "idle", 0) /\ rows' \subseteq rows
    BY <1>5 DEF Rollback, DeleteDeviceRecord
  <2>2. task'[s].pc = "idle" /\ \A t \in Slots : t # s => task'[t] = task[t]
    BY <1>1, <2>1, GotoType
  <2> QED
    BY <2>1, <2>2 DEF PlaceInv
<1>6. ASSUME NEW s \in Slots, Purge(s) PROVE PlaceInv'
  <2>1. (\A t \in Slots : task[t].pc # "delete") /\ UNCHANGED rows
    BY <1>6 DEF Purge
  <2>2. PICK r \in rows : Goto(s, "delete", r.id) \/ UNCHANGED task
    BY <1>6 DEF Purge
  <2>3. r.id \in Nat
    BY <1>1, RowFacts DEF TypeOK
  <2>4. (task'[s].pc = "delete" /\ \A t \in Slots : t # s => task'[t] = task[t]) \/ UNCHANGED task
    BY <1>1, <2>2, <2>3, GotoType
  <2> QED
    BY <2>1, <2>4 DEF PlaceInv
<1>7. ASSUME BotDies PROVE PlaceInv'
  <2>1. \A s \in Slots : task'[s].pc = "idle"
    BY <1>7 DEF BotDies, Idle
  <2> QED
    BY <2>1 DEF PlaceInv
<1>8. ASSUME NEW us \in SUBSET Owners, DeleteUsers(us) PROVE UNCHANGED task /\ rows' \subseteq rows
  BY <1>8 DEF DeleteUsers, Rest
<1>9. ASSUME \/ UNCHANGED vars \/ SidecarRestart \/ SidecarLoses
             \/ DeleteWgClient \/ DeleteDevices \/ DeleteUserRows \/ ScriptDies
             \/ \E o \in Owners : AddUser(o)
      PROVE  UNCHANGED task /\ rows' \subseteq rows
  BY <1>9 DEF vars, accountVars, SidecarRestart, SidecarLoses, DeleteWgClient, DeleteDevices,
              DeleteUserRows, ScriptDies, AddUser, Rest
<1> QED
  BY <1>2, <1>3, <1>4, <1>5, <1>6, <1>7, <1>8, <1>9 DEF Next

-----------------------------------------------------------------------------
(* Suspects, action by action.                                             *)

Sound == TypeInv /\ CounterInv /\ PlaceInv /\ Counted(Suspects, faults)

LEMMA CreateCount ==
  ASSUME Sound, NEW s \in Slots, CreateAccess(s)
  PROVE  Counted(Suspects', faults')
<1>1. TypeOK /\ CounterInv /\ faults \in Nat /\ task \in [Slots -> Tasks]
  BY TableType, TaskType DEF Sound, TypeInv
<1>2. PICK answered \in BOOLEAN :
         /\ Creates(s, answered)
         /\ \/ answered /\ Goto(s, "insert", NextId(s)) /\ Works
            \/ ~answered /\ Fails /\ UNCHANGED task
  BY DEF CreateAccess
<1>3. NextId(s) \in Nat /\ task[s].pc = "idle" /\ UNCHANGED rows
  BY <1>1, <1>2, CreatesType DEF CreateAccess
<1>4. /\ \A h \in Row : Good(h) => Good(h)'
      /\ answered /\ s.kind = "mtproto" =>
           \A h \in Row : h.slot = s /\ h.id = NextId(s) => Good(h)'
  BY <1>1, <1>2, CreatesGood
<1>5. ASSUME NEW h \in Row, Holds(h)' PROVE Holds(h) \/ Good(h)'
  <2>1. CASE answered
    <3>1. /\ task'[s].pc = "insert" /\ task'[s].id = NextId(s)
          /\ \A t \in Slots : t # s => task'[t] = task[t]
      BY <1>1, <1>2, <1>3, <2>1, GotoType
    <3>2. h.slot \in Slots
      BY RowFacts
    <3> QED
      BY <1>3, <1>4, <1>5, <2>1, <3>1, <3>2 DEF Holds
  <2>2. CASE ~answered
    BY <1>2, <1>3, <1>5, <2>2 DEF Holds
  <2> QED
    BY <2>1, <2>2
<1>6. Suspects' \subseteq Suspects
  BY <1>4, <1>5, SuspectsKept
<1> QED
  BY <1>1, <1>2, <1>6, CountedKept DEF Sound

LEMMA AddDeviceCount ==
  ASSUME Sound, NEW s \in Slots, AddDevice(s)
  PROVE  Counted(Suspects', faults')
<1>1. TypeOK /\ faults \in Nat /\ task \in [Slots -> Tasks]
  BY TableType, TaskType DEF Sound, TypeInv
<1>2. /\ task[s].pc = "insert" /\ task[s].id \in Nat /\ (Works \/ Fails)
      /\ UNCHANGED <<table, sure, made>>
  BY <1>1 DEF AddDevice, tableVars, Tasks
<1>3. \/ Goto(s, "idle", 0) /\ rows' = rows \cup {[slot |-> s, id |-> task[s].id]}
      \/ Goto(s, "rollback", task[s].id) /\ rows' = rows
  BY DEF AddDevice
<1>4. \A h \in Row : Good(h) => Good(h)'
  BY <1>2 DEF Good, Used
<1>5. ASSUME NEW h \in Row, Holds(h)' PROVE Holds(h)
  <2>1. h.slot \in Slots
    BY RowFacts
  <2>2. CASE Goto(s, "idle", 0) /\ rows' = rows \cup {[slot |-> s, id |-> task[s].id]}
    <3>1. task'[s].pc = "idle" /\ \A t \in Slots : t # s => task'[t] = task[t]
      BY <1>1, <2>2, GotoType
    <3>2. h \in rows' => h \in rows \/ (h.slot = s /\ h.id = task[s].id)
      BY <2>2
    <3> QED
      BY <1>2, <1>5, <2>1, <3>1, <3>2 DEF Holds
  <2>3. CASE Goto(s, "rollback", task[s].id) /\ rows' = rows
    <3>1. /\ task'[s].pc = "rollback" /\ task'[s].id = task[s].id
          /\ \A t \in Slots : t # s => task'[t] = task[t]
      BY <1>1, <1>2, <2>3, GotoType
    <3> QED
      BY <1>2, <1>5, <2>1, <2>3, <3>1 DEF Holds
  <2> QED
    BY <1>3, <2>2, <2>3
<1>6. Suspects' \subseteq Suspects
  BY <1>4, <1>5, SuspectsKept
<1> QED
  BY <1>1, <1>2, <1>6, CountedKept DEF Sound

LEMMA RollbackCount ==
  ASSUME Sound, NEW s \in Slots, Rollback(s)
  PROVE  Counted(Suspects', faults')
<1>1. TypeOK /\ PlaceInv /\ faults \in Nat /\ task \in [Slots -> Tasks]
  BY TableType, TaskType DEF Sound, TypeInv
<1>2. /\ task[s].pc = "rollback" /\ task[s].id \in Nat /\ Goto(s, "idle", 0)
      /\ UNCHANGED <<rows, made>>
  BY <1>1 DEF Rollback, Tasks
<1>3. PICK k \in Row : k.slot = s /\ k.id = task[s].id
  <2>1. [slot |-> s, id |-> task[s].id] \in Row
    BY <1>2 DEF Row
  <2> QED
    BY <2>1
<1>4. task'[s].pc = "idle" /\ \A t \in Slots : t # s => task'[t] = task[t]
  BY <1>1, <1>2, GotoType
<1>5. \A h \in Row : Holds(h)' => Holds(h)
  <2>1. ASSUME NEW h \in Row, Holds(h)' PROVE Holds(h)
    <3>1. h.slot \in Slots
      BY RowFacts
    <3> QED
      BY <1>2, <1>4, <2>1, <3>1 DEF Holds
  <2> QED
    BY <2>1
<1>6. ~Holds(k)' /\ (s.kind = "mtproto" => Holds(k))
  BY <1>1, <1>2, <1>3, <1>4 DEF Holds, PlaceInv
<1>7. (\E answered \in BOOLEAN : Removes(k.slot, k.id, answered)) \/ NodeSame
  BY <1>3 DEF Rollback
<1>8. PICK x : /\ Suspects' \subseteq Suspects \cup {x}
               /\ Holds(k) /\ ~Holds(k)' =>
                    \/ Suspects' \subseteq Suspects
                    \/ k \in Suspects /\ Suspects' \subseteq (Suspects \ {k}) \cup {x}
  BY <1>1, <1>2, <1>5, <1>7, CallSuspects
<1>9. s.kind = "awg" => Suspects' \subseteq Suspects
  <2>1. \A h \in Row : Good(h) => Good(h)' \/ (s.kind = "mtproto" /\ h.id = k.id)
    BY <1>1, <1>2, <1>3, <1>7, CallGood
  <2> QED
    BY <1>5, <2>1, SuspectsKept
<1>10. CASE Works
  BY <1>1, <1>6, <1>8, <1>9, <1>10, SlotFacts, CountedKept, CountedSwaps DEF Sound
<1>11. CASE Fails
  BY <1>1, <1>8, <1>11, CountedFails DEF Sound
<1> QED
  BY <1>10, <1>11 DEF Rollback

LEMMA PurgeCount ==
  ASSUME Sound, NEW s \in Slots, Purge(s)
  PROVE  Counted(Suspects', faults')
<1>1. TypeOK /\ faults \in Nat /\ task \in [Slots -> Tasks]
  BY TableType, TaskType DEF Sound, TypeInv
<1>2. task[s].pc = "idle" /\ UNCHANGED <<rows, made>>
  BY DEF Purge
<1>3. PICK k \in rows :
        /\ k.slot = s
        /\ \/ Removes(s, k.id, TRUE) /\ Goto(s, "delete", k.id) /\ Works
           \/ Removes(s, k.id, FALSE) /\ Fails /\ UNCHANGED task
  BY DEF Purge
<1>4. k \in Row /\ k.id \in Nat
  BY <1>1, RowFacts DEF TypeOK
<1>5. /\ \A t \in Slots : t # s => task'[t] = task[t]
      /\ task'[s] = task[s] \/ (task'[s].pc = "delete" /\ task'[s].id = k.id)
      /\ Works => task'[s].pc = "delete" /\ task'[s].id = k.id
  <2>1. CASE Goto(s, "delete", k.id)
    BY <1>1, <1>4, <2>1, GotoType
  <2>2. CASE Fails /\ UNCHANGED task
    BY <1>1, <2>2 DEF Works, Fails
  <2> QED
    BY <1>3, <2>1, <2>2
<1>6. \A h \in Row : Holds(h)' => Holds(h)
  <2>1. ASSUME NEW h \in Row, Holds(h)' PROVE Holds(h)
    <3>1. h.slot \in Slots
      BY RowFacts
    <3> QED
      BY <1>2, <1>5, <2>1, <3>1 DEF Holds
  <2> QED
    BY <2>1
<1>7. (\E answered \in BOOLEAN : Removes(k.slot, k.id, answered)) \/ NodeSame
  BY <1>3
<1>8. PICK x : /\ Suspects' \subseteq Suspects \cup {x}
               /\ Holds(k) /\ ~Holds(k)' =>
                    \/ Suspects' \subseteq Suspects
                    \/ k \in Suspects /\ Suspects' \subseteq (Suspects \ {k}) \cup {x}
  BY <1>1, <1>2, <1>4, <1>6, <1>7, CallSuspects
<1>9. s.kind = "mtproto" => Holds(k)
  BY <1>2, <1>3 DEF Holds
<1>10. s.kind = "awg" => Suspects' \subseteq Suspects
  <2>1. \A h \in Row : Good(h) => Good(h)' \/ (s.kind = "mtproto" /\ h.id = k.id)
    BY <1>1, <1>2, <1>3, <1>7, CallGood
  <2> QED
    BY <1>6, <2>1, SuspectsKept
<1>11. CASE Works
  <2>1. ~Holds(k)'
    BY <1>3, <1>5, <1>11 DEF Holds
  <2> QED
    BY <1>1, <1>3, <1>8, <1>9, <1>10, <1>11, <2>1, SlotFacts, CountedKept, CountedSwaps DEF Sound
<1>12. CASE Fails
  BY <1>1, <1>8, <1>12, CountedFails DEF Sound
<1> QED
  BY <1>3, <1>11, <1>12

LEMMA DeleteDeviceRecordCount ==
  ASSUME Sound, NEW s \in Slots, DeleteDeviceRecord(s)
  PROVE  Counted(Suspects', faults')
<1>1. TypeOK /\ faults \in Nat /\ task \in [Slots -> Tasks]
  BY TableType, TaskType DEF Sound, TypeInv
<1>2. /\ task[s].pc = "delete" /\ Goto(s, "idle", 0) /\ UNCHANGED <<table, sure, made>>
      /\ \/ rows' = rows \ {[slot |-> s, id |-> task[s].id]} /\ Works
         \/ UNCHANGED rows /\ Fails
  BY DEF DeleteDeviceRecord, tableVars
<1>3. task'[s].pc = "idle" /\ \A t \in Slots : t # s => task'[t] = task[t]
  BY <1>1, <1>2, GotoType
<1>4. \A h \in Row : Good(h) => Good(h)'
  BY <1>2 DEF Good, Used
<1>5. ASSUME NEW h \in Row, Holds(h)'
      PROVE  Holds(h) \/ (h = [slot |-> s, id |-> task[s].id] /\ h \in rows')
  <2>1. h.slot \in Slots /\ h = [slot |-> h.slot, id |-> h.id]
    BY RowFacts
  <2>2. h \in rows' => h \in rows
    BY <1>2
  <2>3. CASE h.slot = s
    BY <1>2, <1>3, <1>5, <2>1, <2>2, <2>3 DEF Holds
  <2>4. CASE h.slot # s
    BY <1>3, <1>5, <2>1, <2>2, <2>4 DEF Holds
  <2> QED
    BY <2>3, <2>4
<1>6. CASE rows' = rows \ {[slot |-> s, id |-> task[s].id]} /\ Works
  <2>1. Suspects' \subseteq Suspects
    BY <1>4, <1>5, <1>6, SuspectsKept
  <2> QED
    BY <1>1, <1>6, <2>1, CountedKept DEF Sound
<1>7. CASE Fails
  <2>1. Suspects' \subseteq Suspects \cup {[slot |-> s, id |-> task[s].id]}
    BY <1>4, <1>5 DEF Suspects
  <2> QED
    BY <1>1, <1>7, <2>1, CountedFails DEF Sound
<1> QED
  BY <1>2, <1>6, <1>7

LEMMA BotDiesCount ==
  ASSUME Sound, BotDies
  PROVE  Counted(Suspects', faults')
<1>1. /\ faults \in Nat /\ PlaceInv /\ Fails /\ UNCHANGED <<table, sure, made, rows>>
      /\ \A s \in Slots : task'[s].pc = "idle"
  BY TableType DEF Sound, TypeInv, BotDies, tableVars, Idle
<1>2. \A h \in Row : Good(h) => Good(h)'
  BY <1>1 DEF Good, Used
<1>3. ASSUME NEW h \in Row, Holds(h)'
      PROVE  Holds(h) \/ (task[h.slot].pc = "delete" /\ task[h.slot].id = h.id)
  <2>1. h.slot \in Slots
    BY RowFacts
  <2> QED
    BY <1>1, <1>3, <2>1 DEF Holds
<1>4. ASSUME NEW g \in Row, NEW h \in Row,
             task[g.slot].pc = "delete", task[g.slot].id = g.id,
             task[h.slot].pc = "delete", task[h.slot].id = h.id
      PROVE  g = h
  <2>1. g.slot = h.slot
    BY <1>1, <1>4, RowFacts DEF PlaceInv
  <2> QED
    BY <1>4, <2>1, RowFacts
<1>5. \E x : Suspects' \subseteq Suspects \cup {x}
  <2>1. CASE \E g \in Row : task[g.slot].pc = "delete" /\ task[g.slot].id = g.id
    <3>1. PICK g \in Row : task[g.slot].pc = "delete" /\ task[g.slot].id = g.id
      BY <2>1
    <3>2. Suspects' \subseteq Suspects \cup {g}
      BY <1>2, <1>3, <1>4, <3>1 DEF Suspects
    <3> QED
      BY <3>2
  <2>2. CASE ~\E g \in Row : task[g.slot].pc = "delete" /\ task[g.slot].id = g.id
    BY <1>2, <1>3, <2>2 DEF Suspects
  <2> QED
    BY <2>1, <2>2
<1> QED
  BY <1>1, <1>5, CountedFails DEF Sound

LEMMA DeleteWgClientCount ==
  ASSUME Sound, DeleteWgClient
  PROVE  Counted(Suspects', faults')
<1>1. /\ TypeOK /\ IdInv /\ faults \in Nat /\ UNCHANGED <<rows, task, made>>
  BY TableType DEF Sound, TypeInv, DeleteWgClient, Rest
<1>2. PICK r \in script.todo :
        /\ (\E answered \in BOOLEAN : Removes(r.slot, r.id, answered)) \/ NodeSame
        /\ Works \/ Fails
  BY DEF DeleteWgClient
<1>3. r.slot \in Slots /\ r.slot.kind = "awg"
  BY <1>1, RowFacts DEF TypeOK, IdInv
<1>4. \A h \in Row : Good(h) => Good(h)' \/ (r.slot.kind = "mtproto" /\ h.id = r.id)
  BY <1>1, <1>2, <1>3, CallGood
<1>5. \A h \in Row : Holds(h)' => Holds(h)
  BY <1>1 DEF Holds
<1>6. Suspects' \subseteq Suspects
  BY <1>3, <1>4, <1>5, SuspectsKept
<1> QED
  BY <1>1, <1>2, <1>6, CountedKept DEF Sound

(* A restarted sidecar knows what it answered.                             *)
LEMMA RestartGood ==
  ASSUME SidecarRestart
  PROVE  \A h \in Row : Good(h) => Good(h)'
<1>1. PICK t \in [Ids -> Standing] : (\A i \in sure : t[i] = table[i]) /\ table' = t
  BY DEF SidecarRestart, Restart, Reborn
<1>2. UNCHANGED <<sure, made>>
  BY DEF SidecarRestart, Restart, accountVars
<1> QED
  BY <1>1, <1>2 DEF Good, Used

LEMMA QuietCount ==
  ASSUME Sound, UNCHANGED task, rows' \subseteq rows, \A h \in Row : Good(h) => Good(h)',
         Works \/ Fails
  PROVE  Counted(Suspects', faults')
<1>1. faults \in Nat
  BY TableType DEF Sound, TypeInv
<1>2. \A h \in Row : Holds(h)' => Holds(h)
  BY DEF Holds
<1>3. Suspects' \subseteq Suspects
  BY <1>2, SuspectsKept
<1> QED
  BY <1>1, <1>3, CountedKept DEF Sound

LEMMA HolderStep ==
  TypeInv /\ CounterInv /\ HolderInv /\ [Next]_vars => HolderInv'
<1> SUFFICES ASSUME TypeInv, CounterInv, HolderInv, [Next]_vars PROVE HolderInv'
  OBVIOUS
<1>1. PlaceInv /\ PlaceInv'
  BY PlaceStep DEF HolderInv
<1>2. lost' = lost \/ lost'
  BY DEF Next, AddUser, CreateAccess, AddDevice, Rollback, Purge, DeleteDeviceRecord, BotDies,
         DeleteUsers, DeleteWgClient, DeleteDevices, DeleteUserRows, ScriptDies, Rest,
         SidecarRestart, SidecarLoses, accountVars, vars
<1> SUFFICES ASSUME ~lost' PROVE Counted(Suspects', faults')
  BY <1>1 DEF HolderInv
<1>3. Sound
  BY <1>1, <1>2 DEF HolderInv, Sound
<1>4. ASSUME UNCHANGED <<task, table, sure, made>>, rows' \subseteq rows, Works \/ Fails
      PROVE  Counted(Suspects', faults')
  <2>1. \A h \in Row : Good(h) => Good(h)'
    BY <1>4 DEF Good, Used
  <2> QED
    BY <1>3, <1>4, <2>1, QuietCount
<1>5. ASSUME NEW s \in Slots, CreateAccess(s) PROVE Counted(Suspects', faults')
  BY <1>3, <1>5, CreateCount
<1>6. ASSUME NEW s \in Slots, AddDevice(s) PROVE Counted(Suspects', faults')
  BY <1>3, <1>6, AddDeviceCount
<1>7. ASSUME NEW s \in Slots, Rollback(s) PROVE Counted(Suspects', faults')
  BY <1>3, <1>7, RollbackCount
<1>8. ASSUME NEW s \in Slots, Purge(s) PROVE Counted(Suspects', faults')
  BY <1>3, <1>8, PurgeCount
<1>9. ASSUME NEW s \in Slots, DeleteDeviceRecord(s) PROVE Counted(Suspects', faults')
  BY <1>3, <1>9, DeleteDeviceRecordCount
<1>10. ASSUME BotDies PROVE Counted(Suspects', faults')
  BY <1>3, <1>10, BotDiesCount
<1>11. ASSUME DeleteWgClient PROVE Counted(Suspects', faults')
  BY <1>3, <1>11, DeleteWgClientCount
<1>12. ASSUME SidecarRestart PROVE Counted(Suspects', faults')
  BY <1>3, <1>12, RestartGood, QuietCount DEF SidecarRestart, accountVars, Works
<1>13. ~SidecarLoses
  BY DEF SidecarLoses
<1>14. ASSUME NEW us \in SUBSET Owners, DeleteUsers(us) PROVE Counted(Suspects', faults')
  BY <1>4, <1>14 DEF DeleteUsers, NodeSame, Rest, tableVars
<1>15. ASSUME \/ DeleteDevices \/ DeleteUserRows \/ ScriptDies \/ UNCHANGED vars
              \/ \E o \in Owners : AddUser(o)
       PROVE  Counted(Suspects', faults')
  BY <1>4, <1>15 DEF DeleteDevices, DeleteUserRows, ScriptDies, NodeSame, Rest, AddUser, Works,
                     tableVars, accountVars, vars
<1> QED
  BY <1>5, <1>6, <1>7, <1>8, <1>9, <1>10, <1>11, <1>12, <1>13, <1>14, <1>15 DEF Next

LEMMA HolderInit == Init => HolderInv
<1> SUFFICES ASSUME Init PROVE HolderInv
  OBVIOUS
<1>1. PlaceInv
  BY DEF Init, Idle, PlaceInv
<1>2. Suspects = {}
  BY RowFacts DEF Init, Idle, Suspects, Holds
<1>3. Counted(Suspects, faults)
  BY <1>2, FS_EmptySet DEF Init, Counted
<1> QED
  BY <1>1, <1>3 DEF HolderInv

(* A stranger's secret is held by a suspect.                               *)
LEMMA StrangersSuspect ==
  ASSUME TypeInv, HolderInv
  PROVE  OwnSecret
<1>1. {r \in rows : Stranger(r)} \subseteq Suspects
  <2>1. ASSUME NEW r \in rows, Stranger(r) PROVE r \in Suspects
    <3>1. r \in Row /\ r.slot \in Slots /\ task[r.slot] \in Tasks
      BY RowFacts, TaskType DEF TypeInv, TypeOK
    <3>2. ~(task[r.slot].pc = "delete" /\ task[r.slot].id = r.id)
      BY <2>1, <3>1 DEF Stranger, Tasks
    <3> QED
      BY <2>1, <3>1, <3>2 DEF Stranger, Suspects, Holds, Good
  <2> QED
    BY <2>1
<1>2. ASSUME ~lost PROVE Cardinality({r \in rows : Stranger(r)}) <= faults
  <2>1. Counted(Suspects, faults) /\ faults \in Nat
    BY <1>2, TableType DEF HolderInv, TypeInv
  <2>2. Counted({r \in rows : Stranger(r)}, faults)
    BY <1>1, <2>1, CountSub
  <2> QED
    BY <2>2 DEF Counted
<1> QED
  BY <1>2 DEF OwnSecret

(* Identifiers of secrets return, but while the sidecar keeps its table    *)
(* each failure leaves at most one row with the secret of somebody else:   *)
(* for any number of users, secrets and failures.                          *)
THEOREM OwnSecretAlways == Spec => []OwnSecret
<1>1. Init => TypeInv /\ CounterInv /\ HolderInv
  BY TypeInit, HolderInit, EmptyType DEF Init, TableInit, CounterInv
<1>2. TypeInv /\ CounterInv /\ HolderInv /\ [Next]_vars => (TypeInv /\ CounterInv /\ HolderInv)'
  BY TypeStep, CounterStep, HolderStep
<1>3. TypeInv /\ HolderInv => OwnSecret
  BY StrangersSuspect
<1> QED
  BY <1>1, <1>2, <1>3, PTL DEF Spec

-----------------------------------------------------------------------------
(* Rows that outlive their access.                                         *)

(* Clients, rows and tasks as calls leave them.                            *)
LEMMA CallKeeps ==
  ASSUME TypeOK, NEW s \in Slots, NEW id,
         (\E answered \in BOOLEAN : Removes(s, id, answered)) \/ NodeSame
  PROVE  /\ clients' \subseteq clients
         /\ \A c \in clients : c \in clients' \/ (s.kind = "awg" /\ c = id)
<1>1. CASE NodeSame
  BY <1>1 DEF NodeSame
<1>2. ASSUME NEW answered \in BOOLEAN, Removes(s, id, answered)
      PROVE  /\ clients' \subseteq clients
             /\ \A c \in clients : c \in clients' \/ (s.kind = "awg" /\ c = id)
  <2>1. CASE s.kind = "awg"
    BY <1>2, <2>1, RemovesAwg
  <2>2. CASE s.kind = "mtproto"
    BY <1>2, <2>2, RemovesMtproto
  <2> QED
    BY <2>1, <2>2, SlotFacts
<1> QED
  BY <1>1, <1>2

(* Nothing new in any hand; what a task has yet to store stays.            *)
LEMMA AloneKept ==
  ASSUME AloneInv, rows' \subseteq rows,
         \/ script' = script \/ script' = Menu
         \/ /\ script'.seen = script.seen /\ script'.users = script.users
            /\ script'.todo \subseteq script.todo,
         \A s \in Slots : task'[s] = task[s] \/ task'[s].pc \in {"idle", "delete"}
                           \/ (task[s].pc = "insert" /\ task'[s].pc = "rollback"
                                                     /\ task'[s].id = task[s].id),
         \A s \in Slots : s.kind = "awg" /\ task'[s].pc = "insert" => task'[s].id \in clients'
  PROVE  AloneInv'
<1>1. /\ script'.seen \subseteq script.seen /\ script'.todo \subseteq script'.seen
      /\ \A q \in script'.seen : q.slot.owner \in script'.users
  BY DEF AloneInv, Menu
<1>2. \A s \in Slots : InHand(s)' => InHand(s) /\ task'[s].id = task[s].id
  BY DEF InHand
<1>3. \A g, h \in rows' : Awg(g) /\ Awg(h) /\ g.id = h.id => g = h
  BY DEF AloneInv
<1>4. \A h \in rows', q \in script'.seen : Awg(h) /\ Awg(q) /\ h.id = q.id => h = q
  BY <1>1 DEF AloneInv
<1>5. \A s \in Slots : InHand(s)' =>
        /\ \A h \in rows' \cup script'.seen : Awg(h) => h.id # task'[s].id
        /\ \A t \in Slots : InHand(t)' /\ task'[t].id = task'[s].id => s = t
  BY <1>1, <1>2 DEF AloneInv
<1> QED
  BY <1>1, <1>3, <1>4, <1>5 DEF AloneInv, Awg

(* A step under which no row is newly forsaken, but for one.               *)
LEMMA ForsakenKept ==
  ASSUME faults \in Nat, Counted(Forsaken, faults), Forsaken' \subseteq Forsaken, Works \/ Fails
  PROVE  Counted(Forsaken, faults)'
<1>1. faults' \in Nat /\ faults' >= faults
  BY DEF Works, Fails
<1>2. Counted(Forsaken', faults)
  BY CountSub
<1>3. Cardinality(Forsaken') \in Nat
  BY <1>2, FS_CardinalityType DEF Counted
<1> QED
  BY <1>1, <1>2, <1>3 DEF Counted

LEMMA ForsakenFails ==
  ASSUME faults \in Nat, Counted(Forsaken, faults), NEW x, Forsaken' \subseteq Forsaken \cup {x},
         Fails
  PROVE  Counted(Forsaken, faults)'
<1>1. Counted(Forsaken', faults + 1)
  BY CountAdd
<1> QED
  BY <1>1 DEF Fails, Counted

(* A row is not forsaken by a step that leaves its client, its task and    *)
(* the script's memory of it.                                              *)
LEMMA RowStaysKnown ==
  ASSUME NEW r \in rows, Awg(r), r \notin Forsaken,
         r.id \in clients => r.id \in clients',
         task[r.slot] = [pc |-> "delete", id |-> r.id] => task'[r.slot] = task[r.slot],
         Behind(r) => Behind(r)' \/ r.id \in excused',
         r.id \in excused => r.id \in excused'
  PROVE  r \notin Forsaken'
  BY DEF Forsaken, Gone, Held, Awg, Behind

Backed == TypeInv /\ PlaceInv /\ ForsakenInv

LEMMA BackedFacts ==
  ASSUME Backed
  PROVE  /\ TypeOK /\ IdInv /\ PlaceInv /\ AloneInv /\ faults \in Nat /\ Counted(Forsaken, faults)
         /\ task \in [Slots -> Tasks] /\ rows \subseteq Row /\ script \in Scripts
  BY TableType, TaskType DEF Backed, TypeInv, ForsakenInv, TypeOK, Scripts

LEMMA ForsakenRows ==
  ASSUME NEW r \in Forsaken'
  PROVE  r \in rows' /\ Awg(r)
  BY DEF Forsaken, Awg

-----------------------------------------------------------------------------
(* The same, action by action.                                             *)

LEMMA CreateBacked ==
  ASSUME Backed, NEW s \in Slots, CreateAccess(s)
  PROVE  ForsakenInv'
<1>1. /\ TypeOK /\ IdInv /\ AloneInv /\ faults \in Nat /\ Counted(Forsaken, faults)
      /\ task \in [Slots -> Tasks]
  BY BackedFacts
<1>2. PICK answered \in BOOLEAN :
         /\ Creates(s, answered)
         /\ \/ Goto(s, "insert", NextId(s)) /\ Works /\ UNCHANGED excused
            \/ Excuse(s, NextId(s)) /\ Fails /\ UNCHANGED task
  BY DEF CreateAccess
<1>3. /\ task[s].pc = "idle" /\ (\A r \in rows : r.slot # s) /\ UNCHANGED <<rows, script>>
      /\ excused \subseteq excused' /\ NextId(s) \in Nat
  BY <1>1, <1>2, CreatesType DEF CreateAccess, Excuse
<1>4. /\ clients \subseteq clients'
      /\ s.kind = "awg" => NextId(s) \notin Given /\ NextId(s) \in clients'
  <2>1. CASE s.kind = "awg"
    BY <1>1, <1>2, <2>1, CreatesAwg, TableType DEF Given
  <2>2. CASE s.kind = "mtproto"
    BY <1>1, <1>2, <2>2, CreatesMtproto
  <2> QED
    BY <2>1, <2>2, SlotFacts
<1>5. /\ \A t \in Slots : t # s => task'[t] = task[t]
      /\ \/ task'[s] = task[s]
         \/ task'[s].pc = "insert" /\ task'[s].id = NextId(s)
  BY <1>1, <1>2, <1>3, GotoType
<1>6. AloneInv'
  <2>1. \A t \in Slots : InHand(t)' => \/ InHand(t) /\ task'[t] = task[t] /\ task[t].id \in Given
                                       \/ t = s /\ task'[s].id = NextId(s) /\ s.kind = "awg"
    BY <1>1, <1>3, <1>5 DEF InHand, IdInv
  <2>2. \A h \in rows \cup script.seen : Awg(h) => h.id \in Given
    BY <1>1 DEF IdInv, Awg
  <2>3. ASSUME NEW t \in Slots, InHand(t)'
        PROVE  /\ \A h \in rows \cup script.seen : Awg(h) => h.id # task'[t].id
               /\ \A v \in Slots : InHand(v)' /\ task'[v].id = task'[t].id => t = v
    BY <1>1, <1>4, <2>1, <2>2, <2>3 DEF AloneInv
  <2>4. \A t \in Slots : t.kind = "awg" /\ task'[t].pc = "insert" => task'[t].id \in clients'
    BY <1>1, <1>3, <1>4, <1>5 DEF AloneInv
  <2> QED
    BY <1>1, <1>3, <2>3, <2>4 DEF AloneInv, Awg
<1>7. ASSUME NEW r \in rows, Awg(r), r \notin Forsaken PROVE r \notin Forsaken'
  <2>1. task'[r.slot] = task[r.slot]
    <3>1. r.slot \in Slots /\ r.slot # s
      BY <1>1, <1>3, RowFacts DEF TypeOK
    <3> QED
      BY <1>5, <3>1
  <2> QED
    BY <1>3, <1>4, <1>7, <2>1, RowStaysKnown DEF Behind
<1>8. Forsaken' \subseteq Forsaken
  BY <1>3, <1>7, ForsakenRows
<1> QED
  BY <1>1, <1>2, <1>6, <1>8, ForsakenKept DEF ForsakenInv

LEMMA AddDeviceBacked ==
  ASSUME Backed, NEW s \in Slots, AddDevice(s)
  PROVE  ForsakenInv'
<1> DEFINE new == [slot |-> s, id |-> task[s].id]
<1>1. /\ TypeOK /\ PlaceInv /\ AloneInv /\ faults \in Nat /\ Counted(Forsaken, faults)
      /\ task \in [Slots -> Tasks]
  BY BackedFacts
<1>2. /\ task[s].pc = "insert" /\ task[s].id \in Nat /\ (Works \/ Fails)
      /\ UNCHANGED <<clients, script, excused>>
  BY <1>1 DEF AddDevice, Tasks
<1>3. \/ Goto(s, "idle", 0) /\ rows' = rows \cup {new}
      \/ Goto(s, "rollback", task[s].id) /\ rows' = rows
  BY DEF AddDevice
<1>4. /\ \A t \in Slots : t # s => task'[t] = task[t]
      /\ \/ task'[s].pc = "idle"
         \/ task'[s].pc = "rollback" /\ task'[s].id = task[s].id
  BY <1>1, <1>2, <1>3, GotoType
<1>5. ASSUME NEW r \in rows, Awg(r), r \notin Forsaken PROVE r \notin Forsaken'
  <2>1. r.slot \in Slots /\ r.slot # s
    BY <1>1, <1>2, RowFacts DEF TypeOK, PlaceInv
  <2>2. task'[r.slot] = task[r.slot]
    BY <1>4, <2>1
  <2> QED
    BY <1>2, <1>5, <2>2, RowStaysKnown DEF Behind
<1>6. CASE rows' = rows
  <2>1. AloneInv'
    BY <1>1, <1>2, <1>4, <1>6, AloneKept DEF AloneInv
  <2>2. Forsaken' \subseteq Forsaken
    BY <1>5, <1>6, ForsakenRows
  <2> QED
    BY <1>1, <1>2, <2>1, <2>2, ForsakenKept DEF ForsakenInv
<1>7. CASE Goto(s, "idle", 0) /\ rows' = rows \cup {new}
  <2>1. task'[s].pc = "idle"
    BY <1>1, <1>7, GotoType
  <2>2. Awg(new) => InHand(s) /\ task[s].id \in clients
    BY <1>1, <1>2 DEF Awg, InHand, AloneInv
  <2>3. \A t \in Slots : InHand(t)' => t # s /\ InHand(t) /\ task'[t].id = task[t].id
    BY <1>4, <2>1 DEF InHand
  <2>4. \A h \in rows \cup script.seen : Awg(h) /\ Awg(new) => h.id # new.id
    BY <1>1, <2>2 DEF AloneInv
  <2>5. \A t \in Slots : InHand(t)' /\ Awg(new) => new.id # task'[t].id
    BY <1>1, <2>2, <2>3 DEF AloneInv
  <2>6. \A g, h \in rows' : Awg(g) /\ Awg(h) /\ g.id = h.id => g = h
    <3>1. \A g, h \in rows : Awg(g) /\ Awg(h) /\ g.id = h.id => g = h
      BY <1>1 DEF AloneInv
    <3> HIDE DEF new
    <3> QED
      BY <1>7, <2>4, <3>1
  <2>7. \A h \in rows', q \in script.seen : Awg(h) /\ Awg(q) /\ h.id = q.id => h = q
    <3>1. \A h \in rows, q \in script.seen : Awg(h) /\ Awg(q) /\ h.id = q.id => h = q
      BY <1>1 DEF AloneInv
    <3> HIDE DEF new
    <3> QED
      BY <1>7, <2>4, <3>1
  <2>8. ASSUME NEW t \in Slots, InHand(t)'
        PROVE  /\ \A h \in rows' \cup script.seen : Awg(h) => h.id # task'[t].id
               /\ \A v \in Slots : InHand(v)' /\ task'[v].id = task'[t].id => t = v
    <3>1. /\ \A h \in rows \cup script.seen : Awg(h) => h.id # task'[t].id
          /\ \A v \in Slots : InHand(v)' /\ task'[v].id = task'[t].id => t = v
      BY <1>1, <2>3, <2>8 DEF AloneInv
    <3>2. Awg(new) => new.id # task'[t].id
      BY <2>5, <2>8
    <3> HIDE DEF new
    <3> QED
      BY <1>7, <3>1, <3>2
  <2>9. \A t \in Slots : t.kind = "awg" /\ task'[t].pc = "insert" => task'[t].id \in clients
    BY <1>1, <1>4, <2>1 DEF AloneInv
  <2>10. AloneInv'
    BY <1>1, <1>2, <2>6, <2>7, <2>8, <2>9 DEF AloneInv, Awg
  <2>11. new \notin Forsaken'
    BY <1>2, <2>2 DEF Forsaken, Gone, Held, Awg
  <2>12. Forsaken' \subseteq Forsaken
    BY <1>5, <1>7, <2>11, ForsakenRows
  <2> QED
    BY <1>1, <1>2, <2>10, <2>12, ForsakenKept DEF ForsakenInv
<1> QED
  BY <1>3, <1>6, <1>7

LEMMA RollbackBacked ==
  ASSUME Backed, NEW s \in Slots, Rollback(s)
  PROVE  ForsakenInv'
<1>1. /\ TypeOK /\ AloneInv /\ faults \in Nat /\ Counted(Forsaken, faults)
      /\ task \in [Slots -> Tasks]
  BY BackedFacts
<1>2. /\ task[s].pc = "rollback" /\ Goto(s, "idle", 0) /\ (Works \/ Fails)
      /\ UNCHANGED <<rows, script>> /\ excused \subseteq excused'
      /\ (\E answered \in BOOLEAN : Removes(s, task[s].id, answered)) \/ NodeSame
  BY DEF Rollback, Excuse
<1>3. task'[s].pc = "idle" /\ \A t \in Slots : t # s => task'[t] = task[t]
  BY <1>1, <1>2, GotoType
<1>4. \A c \in clients : c \in clients' \/ (InHand(s) /\ c = task[s].id)
  BY <1>1, <1>2, CallKeeps DEF InHand
<1>5. \A t \in Slots : t.kind = "awg" /\ task'[t].pc = "insert" => task'[t].id \in clients'
  <2>1. ASSUME NEW t \in Slots, t.kind = "awg", task'[t].pc = "insert"
        PROVE  task'[t].id \in clients'
    <3>1. t # s /\ task'[t] = task[t] /\ InHand(t) /\ task[t].id \in clients
      BY <1>1, <1>3, <2>1 DEF InHand, AloneInv
    <3>2. InHand(s) => task[t].id # task[s].id
      BY <1>1, <3>1 DEF AloneInv
    <3> QED
      BY <1>4, <3>1, <3>2
  <2> QED
    BY <2>1
<1>6. AloneInv'
  BY <1>1, <1>2, <1>3, <1>5, AloneKept
<1>7. ASSUME NEW r \in rows, Awg(r), r \notin Forsaken PROVE r \notin Forsaken'
  <2>1. r.id \in clients => r.id \in clients'
    BY <1>1, <1>4, <1>7 DEF AloneInv
  <2>2. task[r.slot] = [pc |-> "delete", id |-> r.id] => task'[r.slot] = task[r.slot]
    <3>1. r.slot \in Slots
      BY <1>1, RowFacts DEF TypeOK
    <3> QED
      BY <1>2, <1>3, <3>1
  <2> QED
    BY <1>2, <1>7, <2>1, <2>2, RowStaysKnown DEF Behind
<1>8. Forsaken' \subseteq Forsaken
  BY <1>2, <1>7, ForsakenRows
<1> QED
  BY <1>1, <1>2, <1>6, <1>8, ForsakenKept DEF ForsakenInv

LEMMA PurgeBacked ==
  ASSUME Backed, NEW s \in Slots, Purge(s)
  PROVE  ForsakenInv'
<1>1. /\ TypeOK /\ AloneInv /\ faults \in Nat /\ Counted(Forsaken, faults)
      /\ task \in [Slots -> Tasks]
  BY BackedFacts
<1>2. /\ task[s].pc = "idle" /\ (\A t \in Slots : task[t].pc # "delete")
      /\ UNCHANGED <<rows, script, excused>>
  BY DEF Purge
<1>3. PICK k \in rows :
        /\ k.slot = s
        /\ \/ Removes(s, k.id, TRUE) /\ Goto(s, "delete", k.id) /\ Works
           \/ Removes(s, k.id, FALSE) /\ Fails /\ UNCHANGED task
  BY DEF Purge
<1>4. k.id \in Nat
  BY <1>1, RowFacts DEF TypeOK
<1>5. /\ \A t \in Slots : t # s => task'[t] = task[t]
      /\ task'[s] = task[s] \/ task'[s].pc = "delete"
      /\ Fails \/ task'[s] = [pc |-> "delete", id |-> k.id]
  <2>1. CASE Goto(s, "delete", k.id)
    BY <1>1, <2>1 DEF Goto
  <2> QED
    BY <1>3, <2>1
<1>6. \A c \in clients : c \in clients' \/ (Awg(k) /\ c = k.id)
  BY <1>1, <1>3, CallKeeps DEF Awg
<1>7. \A t \in Slots : t.kind = "awg" /\ task'[t].pc = "insert" => task'[t].id \in clients'
  <2>1. ASSUME NEW t \in Slots, t.kind = "awg", task'[t].pc = "insert"
        PROVE  task'[t].id \in clients'
    <3>1. task'[t] = task[t] /\ InHand(t) /\ task[t].id \in clients
      BY <1>1, <1>2, <1>5, <2>1 DEF InHand, AloneInv
    <3>2. Awg(k) => task[t].id # k.id
      BY <1>1, <3>1 DEF AloneInv
    <3> QED
      BY <1>6, <3>1, <3>2
  <2> QED
    BY <2>1
<1>8. AloneInv'
  BY <1>1, <1>2, <1>5, <1>7, AloneKept
<1>9. ASSUME NEW r \in rows, Awg(r), r \notin Forsaken, r # k PROVE r \notin Forsaken'
  <2>1. r.id \in clients => r.id \in clients'
    BY <1>1, <1>6, <1>9 DEF AloneInv
  <2>2. task[r.slot] # [pc |-> "delete", id |-> r.id]
    BY <1>1, <1>2, RowFacts DEF TypeOK
  <2> QED
    BY <1>2, <1>9, <2>1, <2>2, RowStaysKnown DEF Behind
<1>10. Forsaken' \subseteq Forsaken \cup {k}
  BY <1>2, <1>9, ForsakenRows
<1>11. CASE Fails
  BY <1>1, <1>8, <1>10, <1>11, ForsakenFails DEF ForsakenInv
<1>12. CASE ~Fails
  <2>1. k \notin Forsaken'
    BY <1>3, <1>5, <1>12 DEF Forsaken, Gone
  <2>2. Works
    BY <1>3, <1>12
  <2> QED
    BY <1>1, <1>8, <1>10, <2>1, <2>2, ForsakenKept DEF ForsakenInv
<1> QED
  BY <1>11, <1>12

LEMMA DeleteDeviceRecordBacked ==
  ASSUME Backed, NEW s \in Slots, DeleteDeviceRecord(s)
  PROVE  ForsakenInv'
<1> DEFINE old == [slot |-> s, id |-> task[s].id]
<1>1. /\ TypeOK /\ AloneInv /\ faults \in Nat /\ Counted(Forsaken, faults)
      /\ task \in [Slots -> Tasks]
  BY BackedFacts
<1>2. /\ task[s].pc = "delete" /\ Goto(s, "idle", 0)
      /\ UNCHANGED <<clients, script, excused>>
      /\ \/ rows' = rows \ {old} /\ Works
         \/ rows' = rows /\ Fails
  BY DEF DeleteDeviceRecord
<1>3. task'[s].pc = "idle" /\ \A t \in Slots : t # s => task'[t] = task[t]
  BY <1>1, <1>2, GotoType
<1>4. AloneInv'
  BY <1>1, <1>2, <1>3, AloneKept DEF AloneInv
<1>5. ASSUME NEW r \in rows, Awg(r), r \notin Forsaken, r # old PROVE r \notin Forsaken'
  <2>1. r.slot \in Slots /\ r = [slot |-> r.slot, id |-> r.id]
    BY <1>1, RowFacts DEF TypeOK
  <2>2. task[r.slot] = [pc |-> "delete", id |-> r.id] => task'[r.slot] = task[r.slot]
    BY <1>3, <1>5, <2>1
  <2> QED
    BY <1>2, <1>5, <2>2, RowStaysKnown DEF Behind
<1>6. Forsaken' \subseteq Forsaken \cup {old}
  BY <1>2, <1>5, ForsakenRows
<1>7. CASE rows' = rows \ {old} /\ Works
  <2>1. old \notin Forsaken'
    BY <1>7, ForsakenRows
  <2>2. Forsaken' \subseteq Forsaken
    BY <1>6, <2>1
  <2> QED
    BY <1>1, <1>4, <1>7, <2>2, ForsakenKept DEF ForsakenInv
<1>8. CASE Fails
  BY <1>1, <1>4, <1>6, <1>8, ForsakenFails DEF ForsakenInv
<1> QED
  BY <1>2, <1>7, <1>8

LEMMA BotDiesBacked ==
  ASSUME Backed, BotDies
  PROVE  ForsakenInv'
<1> DEFINE Going(r) == task[r.slot] = [pc |-> "delete", id |-> r.id]
<1>1. /\ TypeOK /\ PlaceInv /\ AloneInv /\ faults \in Nat /\ Counted(Forsaken, faults)
      /\ rows \subseteq Row
  BY BackedFacts
<1>2. /\ Fails /\ UNCHANGED <<rows, clients, script>> /\ excused \subseteq excused'
      /\ \A s \in Slots : task'[s].pc = "idle"
  BY DEF BotDies, Idle
<1>3. AloneInv'
  BY <1>1, <1>2, AloneKept
<1>4. \A g, h \in rows : Going(g) /\ Going(h) => g = h
  <2>1. ASSUME NEW g \in rows, NEW h \in rows, Going(g), Going(h) PROVE g = h
    <3>1. g.slot = h.slot /\ g.id = h.id
      BY <1>1, <2>1, RowFacts DEF PlaceInv
    <3> QED
      BY <1>1, <3>1, RowFacts
  <2> QED
    BY <2>1
<1>5. \A r \in rows : Awg(r) /\ r \notin Forsaken /\ ~Going(r) => r \notin Forsaken'
  BY <1>2, RowStaysKnown DEF Behind
<1> HIDE DEF Going
<1>6. \E x : Forsaken' \subseteq Forsaken \cup {x}
  <2>1. CASE \E g \in rows : Going(g)
    <3>1. PICK g \in rows : Going(g)
      BY <2>1
    <3>2. Forsaken' \subseteq Forsaken \cup {g}
      BY <1>2, <1>4, <1>5, <3>1, ForsakenRows
    <3> QED
      BY <3>2
  <2>2. CASE ~\E g \in rows : Going(g)
    BY <1>2, <1>5, <2>2, ForsakenRows
  <2> QED
    BY <2>1, <2>2
<1> QED
  BY <1>1, <1>2, <1>3, <1>6, ForsakenFails DEF ForsakenInv

LEMMA DeleteUsersBacked ==
  ASSUME Backed, NEW us \in SUBSET Owners, DeleteUsers(us)
  PROVE  ForsakenInv'
<1>1. AloneInv /\ faults \in Nat /\ Counted(Forsaken, faults)
  BY BackedFacts
<1>2. UNCHANGED <<rows, clients, task, excused>> /\ Works /\ script.pc = "menu"
  BY DEF DeleteUsers, NodeSame, Rest
<1>3. /\ script'.seen \subseteq rows /\ script'.todo \subseteq script'.seen
      /\ \A q \in script'.seen : q.slot.owner \in script'.users
  BY DEF DeleteUsers
<1>4. AloneInv'
  BY <1>1, <1>2, <1>3 DEF AloneInv, InHand, Awg
<1>5. \A r \in rows : Awg(r) /\ r \notin Forsaken => r \notin Forsaken'
  BY <1>2, RowStaysKnown DEF Behind
<1>6. Forsaken' \subseteq Forsaken
  BY <1>2, <1>5, ForsakenRows
<1> QED
  BY <1>1, <1>2, <1>4, <1>6, ForsakenKept DEF ForsakenInv

LEMMA DeleteWgClientBacked ==
  ASSUME Backed, DeleteWgClient
  PROVE  ForsakenInv'
<1>1. /\ TypeOK /\ IdInv /\ AloneInv /\ faults \in Nat /\ Counted(Forsaken, faults)
      /\ script \in Scripts
  BY BackedFacts
<1>2. UNCHANGED <<rows, task>> /\ script.pc = "clients"
  BY DEF DeleteWgClient, Rest
<1>3. PICK q \in script.todo :
        /\ script' = [script EXCEPT !.todo = @ \ {q}]
        /\ (\E answered \in BOOLEAN : Removes(q.slot, q.id, answered)) \/ NodeSame
        /\ (Works \/ Fails) /\ excused \subseteq excused'
  BY DEF DeleteWgClient, Excuse
<1>4. q.slot \in Slots /\ Awg(q) /\ q \in script.seen
  BY <1>1, RowFacts DEF TypeOK, IdInv, Awg, AloneInv
<1>5. /\ script'.pc = "clients" /\ script'.seen = script.seen /\ script'.users = script.users
      /\ script'.todo = script.todo \ {q}
  BY <1>1, <1>2, <1>3 DEF Scripts
<1>6. \A c \in clients : c \in clients' \/ c = q.id
  BY <1>1, <1>3, <1>4, CallKeeps
<1>7. \A t \in Slots : t.kind = "awg" /\ task'[t].pc = "insert" => task'[t].id \in clients'
  BY <1>1, <1>2, <1>4, <1>6 DEF AloneInv, InHand
<1>8. AloneInv'
  BY <1>1, <1>2, <1>5, <1>7, AloneKept
<1>9. ASSUME NEW r \in rows, Awg(r), r \notin Forsaken PROVE r \notin Forsaken'
  <2>1. CASE r.id = q.id
    <3>1. r = q
      BY <1>1, <1>4, <1>9, <2>1 DEF AloneInv
    <3>2. Behind(r)'
      BY <1>4, <1>5, <3>1 DEF Behind
    <3> QED
      BY <3>2 DEF Forsaken
  <2>2. CASE r.id # q.id
    <3>1. Behind(r) => Behind(r)'
      BY <1>5 DEF Behind
    <3> QED
      BY <1>2, <1>3, <1>6, <1>9, <2>2, <3>1, RowStaysKnown
  <2> QED
    BY <2>1, <2>2
<1>10. Forsaken' \subseteq Forsaken
  BY <1>2, <1>9, ForsakenRows
<1> QED
  BY <1>1, <1>3, <1>8, <1>10, ForsakenKept DEF ForsakenInv

LEMMA DeleteDevicesBacked ==
  ASSUME Backed, DeleteDevices
  PROVE  ForsakenInv'
<1>1. /\ AloneInv /\ faults \in Nat /\ Counted(Forsaken, faults) /\ script \in Scripts
  BY BackedFacts
<1>2. /\ UNCHANGED <<clients, task>> /\ Works /\ excused \subseteq excused'
      /\ script' = [script EXCEPT !.pc = "users"]
      /\ rows' = {r \in rows : r.slot.owner \notin script.users}
  BY DEF DeleteDevices, NodeSame, Rest
<1>3. /\ script'.seen = script.seen /\ script'.users = script.users
      /\ script'.todo = script.todo
  BY <1>1, <1>2 DEF Scripts
<1>4. AloneInv'
  BY <1>1, <1>2, <1>3, AloneKept DEF AloneInv
<1>5. ASSUME NEW r \in rows', Awg(r), r \notin Forsaken PROVE r \notin Forsaken'
  <2>1. r \in rows /\ ~Behind(r)
    BY <1>1, <1>2, <1>5 DEF AloneInv, Behind
  <2> QED
    BY <1>2, <1>5, <2>1, RowStaysKnown
<1>6. Forsaken' \subseteq Forsaken
  BY <1>5, ForsakenRows
<1> QED
  BY <1>1, <1>2, <1>4, <1>6, ForsakenKept DEF ForsakenInv

LEMMA ScriptEndsBacked ==
  ASSUME Backed, DeleteUserRows \/ ScriptDies
  PROVE  ForsakenInv'
<1>1. /\ AloneInv /\ faults \in Nat /\ Counted(Forsaken, faults)
  BY BackedFacts
<1>2. /\ UNCHANGED <<rows, clients, task>> /\ (Works \/ Fails) /\ script' = Menu
      /\ excused \subseteq excused'
  BY DEF DeleteUserRows, ScriptDies, NodeSame, Rest
<1>3. \A r \in rows : Awg(r) /\ Behind(r) => r.id \in excused'
  BY DEF DeleteUserRows, ScriptDies, Behind, Awg
<1>4. AloneInv'
  BY <1>1, <1>2, AloneKept DEF AloneInv
<1>5. \A r \in rows : Awg(r) /\ r \notin Forsaken => r \notin Forsaken'
  BY <1>2, <1>3, RowStaysKnown
<1>6. Forsaken' \subseteq Forsaken
  BY <1>2, <1>5, ForsakenRows
<1> QED
  BY <1>1, <1>2, <1>4, <1>6, ForsakenKept DEF ForsakenInv

LEMMA QuietBacked ==
  ASSUME Backed, UNCHANGED <<rows, clients, task, script, excused>>, Works \/ Fails
  PROVE  ForsakenInv'
<1>1. AloneInv /\ faults \in Nat /\ Counted(Forsaken, faults)
  BY BackedFacts
<1>2. AloneInv'
  BY <1>1, AloneKept DEF AloneInv
<1>3. \A r \in rows : Awg(r) /\ r \notin Forsaken => r \notin Forsaken'
  BY RowStaysKnown DEF Behind
<1>4. Forsaken' \subseteq Forsaken
  BY <1>3, ForsakenRows
<1> QED
  BY <1>1, <1>2, <1>4, ForsakenKept DEF ForsakenInv

LEMMA ForsakenStep == Backed /\ [Next]_vars => ForsakenInv'
<1> SUFFICES ASSUME Backed, [Next]_vars PROVE ForsakenInv'
  OBVIOUS
<1>1. ASSUME NEW s \in Slots, CreateAccess(s) PROVE ForsakenInv'
  BY <1>1, CreateBacked
<1>2. ASSUME NEW s \in Slots, AddDevice(s) PROVE ForsakenInv'
  BY <1>2, AddDeviceBacked
<1>3. ASSUME NEW s \in Slots, Rollback(s) PROVE ForsakenInv'
  BY <1>3, RollbackBacked
<1>4. ASSUME NEW s \in Slots, Purge(s) PROVE ForsakenInv'
  BY <1>4, PurgeBacked
<1>5. ASSUME NEW s \in Slots, DeleteDeviceRecord(s) PROVE ForsakenInv'
  BY <1>5, DeleteDeviceRecordBacked
<1>6. ASSUME BotDies PROVE ForsakenInv'
  BY <1>6, BotDiesBacked
<1>7. ASSUME NEW us \in SUBSET Owners, DeleteUsers(us) PROVE ForsakenInv'
  BY <1>7, DeleteUsersBacked
<1>8. ASSUME DeleteWgClient \/ DeleteDevices \/ DeleteUserRows \/ ScriptDies PROVE ForsakenInv'
  BY <1>8, DeleteWgClientBacked, DeleteDevicesBacked, ScriptEndsBacked
<1>9. ASSUME \/ UNCHANGED vars \/ SidecarRestart \/ SidecarLoses
             \/ \E o \in Owners : AddUser(o)
      PROVE  ForsakenInv'
  BY <1>9, QuietBacked DEF AddUser, SidecarRestart, SidecarLoses, Works, vars, accountVars
<1> QED
  BY <1>1, <1>2, <1>3, <1>4, <1>5, <1>6, <1>7, <1>8, <1>9 DEF Next

LEMMA ForsakenInit == Init => ForsakenInv
<1> SUFFICES ASSUME Init PROVE ForsakenInv
  OBVIOUS
<1>1. AloneInv
  BY DEF Init, Idle, Menu, AloneInv, InHand
<1>2. Counted(Forsaken, faults)
  <2>1. Forsaken = {}
    BY DEF Init, Forsaken
  <2> QED
    BY <2>1, FS_EmptySet DEF Init, Counted
<1> QED
  BY <1>1, <1>2 DEF ForsakenInv

(* A row whose secret is gone is a suspect.                                *)
LEMMA RowsBacked ==
  ASSUME TypeInv, HolderInv, ForsakenInv
  PROVE  BackedRows
<1> DEFINE awgs == {r \in rows : /\ r.slot.kind = "awg" /\ Gone(r)
                                 /\ ~Behind(r) /\ r.id \notin excused}
           proxies == {r \in rows : r.slot.kind = "mtproto" /\ Gone(r)}
<1>1. Cardinality(awgs) <= faults
  <2>1. awgs = Forsaken
    BY DEF Forsaken, Awg
  <2> QED
    BY <2>1 DEF ForsakenInv, Counted
<1>2. proxies \subseteq Suspects
  <2>1. ASSUME NEW r \in rows, r.slot.kind = "mtproto", Gone(r) PROVE r \in Suspects
    <3>1. r \in Row /\ r.slot \in Slots /\ task[r.slot] \in Tasks
      BY RowFacts, TaskType DEF TypeInv, TypeOK
    <3>2. ~(task[r.slot].pc = "delete" /\ task[r.slot].id = r.id)
      BY <2>1, <3>1 DEF Gone, Tasks
    <3>3. r.id \notin Used(table)
      BY <2>1 DEF Gone, Held
    <3> QED
      BY <2>1, <3>1, <3>2, <3>3 DEF Suspects, Holds, Good
  <2> QED
    BY <2>1
<1>3. ASSUME ~lost PROVE Cardinality(proxies) <= faults
  <2>1. Counted(Suspects, faults) /\ faults \in Nat
    BY <1>3, TableType DEF HolderInv, TypeInv
  <2>2. Counted(proxies, faults)
    BY <1>2, <2>1, CountSub
  <2> QED
    BY <2>2 DEF Counted
<1> QED
  BY <1>1, <1>3 DEF BackedRows

(* Each failure, be it the bot's death between the purge of an access and  *)
(* the deletion of its row, leaves at most one row of either kind without  *)
(* its access, for any number of users, accesses and failures: but for     *)
(* clients the script had in hand, and while the sidecar keeps its table.  *)
THEOREM BackedRowsAlways == Spec => []BackedRows
<1>1. Init => TypeInv /\ CounterInv /\ HolderInv /\ ForsakenInv
  BY TypeInit, HolderInit, ForsakenInit, EmptyType DEF Init, TableInit, CounterInv
<1>2. TypeInv /\ CounterInv /\ HolderInv /\ ForsakenInv /\ [Next]_vars
        => (TypeInv /\ CounterInv /\ HolderInv /\ ForsakenInv)'
  <2>1. TypeInv /\ HolderInv /\ ForsakenInv /\ [Next]_vars => ForsakenInv'
    BY ForsakenStep DEF Backed, HolderInv
  <2> QED
    BY <2>1, TypeStep, CounterStep, HolderStep
<1>3. TypeInv /\ HolderInv /\ ForsakenInv => BackedRows
  BY RowsBacked
<1> QED
  BY <1>1, <1>2, <1>3, PTL DEF Spec
=============================================================================
