------------------------------ MODULE BotStore ------------------------------
(***************************************************************************)
(* The bot's SQLite tables (infrastructure/database/db.py) that the        *)
(* payment, provisioning and subscription code shares, with one operator   *)
(* per query or update.  Every db.py function opens a connection, runs one *)
(* statement and commits, so each operator is one atomic step; a function  *)
(* made of two statements is split by its callers.                         *)
(*                                                                         *)
(* Time is counted in days, the unit of every cut-off the code compares.   *)
(***************************************************************************)
EXTENDS Integers, FiniteSets

CONSTANTS
  Users,              \* tg_ids with a row in users (every one has sent /start)
  Slots,              \* (server, device_type) pairs a full bundle consists of
  MaxPayments,        \* bound on the payments a run creates
  SubscriptionDays,   \* config SUBSCRIPTION_DAYS
  PaymentExpireDays,  \* config PAYMENT_EXPIRE_HOURS, in days
  PurgeDays           \* cutoff_days of job_purge_zombies

PaymentIds == 1 .. MaxPayments

ASSUME StoreAssumption ==
  /\ MaxPayments \in Nat
  /\ SubscriptionDays \in Nat \ {0}
  /\ PaymentExpireDays \in Nat
  /\ PurgeDays \in Nat

VARIABLES
  users,       \* users[u]: status and sub_end_date
  payments,    \* payments[id]: owner, status and created_at, or NoPayment
  devices,     \* the rows of table devices
  lastDevice,  \* AUTOINCREMENT counter of devices.id
  now          \* int(time.time()), in days

storeVars == <<users, payments, devices, lastDevice, now>>

UserStatus == {"inactive", "active", "expired"}
PaymentStatus == {"none", "pending", "approved", "rejected", "expired", "partial"}
NoUser == "nobody"
NoPayment == [tg_id |-> NoUser, status |-> "none", created |-> 0]

(* A device row.  client_name is a function of the payment, the server and *)
(* the device type (generate_client_name; base 62 is injective), so the    *)
(* payment id stands for it within a slot.                                 *)
DeviceRow == [id : Nat, user : Users, slot : Slots, pid : Nat, pay : PaymentIds]

StoreTypeOK ==
  /\ users \in [Users -> [status : UserStatus, sub_end : Nat]]
  /\ payments \in [PaymentIds -> [tg_id : Users \cup {NoUser},
                                  status : PaymentStatus, created : Nat]]
  /\ devices \subseteq DeviceRow
  /\ lastDevice \in Nat
  /\ now \in Nat

StoreInit ==
  /\ users = [u \in Users |-> [status |-> "inactive", sub_end |-> 0]]
  /\ payments = [p \in PaymentIds |-> NoPayment]
  /\ devices = {}
  /\ lastDevice = 0
  /\ now = 1

-----------------------------------------------------------------------------
(* Queries *)

GetUserDevices(u) == {d \in devices : d.user = u}

GetExpiredUsers ==
  {u \in Users : users[u].status = "active" /\ users[u].sub_end < now}

GetExpiredDevices ==
  {d \in devices : /\ users[d.user].status = "expired"
                   /\ users[d.user].sub_end < now - PurgeDays}

HasPendingPayment(u) ==
  \E p \in PaymentIds : payments[p].tg_id = u /\ payments[p].status = "pending"

(* Mutant: only the latest payment of a user is looked at. *)
GetLatestPartialPayments ==
  {p \in PaymentIds :
     /\ payments[p].status = "partial"
     /\ \A q \in PaymentIds : q > p => payments[q].tg_id # payments[p].tg_id}

GetPartialPayments == {p \in PaymentIds : payments[p].status = "partial"}

(* Rows come back in rowid order, and loops over them follow it. *)
FirstRow(rows) == CHOOSE d \in rows : \A e \in rows : d.id <= e.id

-----------------------------------------------------------------------------
(* Updates: each says what becomes of the one table it writes. *)

(* The new row takes the next AUTOINCREMENT id. *)
CreatePayment(p, u) ==
  /\ payments[p].status = "none"
  /\ \A q \in PaymentIds : q < p => payments[q].status # "none"
  /\ payments' = [payments EXCEPT
                    ![p] = [tg_id |-> u, status |-> "pending", created |-> now]]

(* Mutant: the claim does not look at the status it replaces. *)
UpdateAnyPayment(p, st) ==
  /\ payments[p].status # "none"
  /\ payments' = [payments EXCEPT ![p].status = st]

(* UPDATE ... WHERE id = ? AND status = 'pending' RETURNING *: the claim. *)
UpdatePaymentStatus(p, st) ==
  /\ payments[p].status = "pending"
  /\ payments' = [payments EXCEPT ![p].status = st]

(* The unconditional write of a payment already claimed. *)
SetPaymentStatus(p, st) == payments' = [payments EXCEPT ![p].status = st]

(* Mutant: the cut-off is subtracted twice. *)
ExpireVeryOldPayments ==
  LET old == {p \in PaymentIds : /\ payments[p].status = "pending"
                                 /\ payments[p].created < now - 2 * PaymentExpireDays}
  IN  /\ old # {}
      /\ payments' = [p \in PaymentIds |->
                        IF p \in old THEN [payments[p] EXCEPT !.status = "expired"]
                                     ELSE payments[p]]

(* Mutant: whatever is old enough lapses, not only what is pending. *)
ExpireAnyOldPayments ==
  LET old == {p \in PaymentIds : /\ payments[p].status # "none"
                                 /\ payments[p].created < now - PaymentExpireDays}
  IN  /\ old # {}
      /\ payments' = [p \in PaymentIds |->
                        IF p \in old THEN [payments[p] EXCEPT !.status = "expired"]
                                     ELSE payments[p]]

ExpireOldPendingPayments ==
  LET old == {p \in PaymentIds : /\ payments[p].status = "pending"
                                 /\ payments[p].created < now - PaymentExpireDays}
  IN  /\ old # {}
      /\ payments' = [p \in PaymentIds |->
                        IF p \in old THEN [payments[p] EXCEPT !.status = "expired"]
                                     ELSE payments[p]]

AddDevice(u, s, pid, p) ==
  /\ devices' = devices \cup
       {[id |-> lastDevice + 1, user |-> u, slot |-> s, pid |-> pid, pay |-> p]}
  /\ lastDevice' = lastDevice + 1

DeleteDeviceRecord(d) == devices' = {e \in devices : e.id # d.id}

(* Mutant: the extension is subtracted. *)
ShortenedEnd(u) ==
  (IF users[u].sub_end > now THEN users[u].sub_end ELSE now) - 2 * SubscriptionDays

(* update_user_subscription reads the user, computes the new end from what *)
(* it read and writes it back: two statements, so two operators.           *)
ExtendedEnd(u) ==
  (IF users[u].sub_end > now THEN users[u].sub_end ELSE now) + SubscriptionDays

WriteSubscription(u, end) ==
  users' = [users EXCEPT ![u] = [status |-> "active", sub_end |-> end]]

UpdateUserStatus(u, st) == users' = [users EXCEPT ![u].status = st]
=============================================================================
