--------------------------- MODULE PaymentLedger ---------------------------
(***************************************************************************)
(* What the payment desk promises, with no handlers, nodes or time: a      *)
(* request is decided once, an approved one pays for exactly one           *)
(* subscription extension, and only a paid one is put on, and taken off,   *)
(* the list of bundles to complete.                                        *)
(***************************************************************************)
EXTENDS Integers

CONSTANT PaymentIds

VARIABLES status, credited

ledgerVars == <<status, credited>>

LedgerInit ==
  /\ status = [p \in PaymentIds |-> "none"]
  /\ credited = [p \in PaymentIds |-> 0]

Move(p, from, to) == status[p] = from /\ status' = [status EXCEPT ![p] = to]

Open(p) == Move(p, "none", "pending") /\ UNCHANGED credited

Decide(p) ==
  /\ Move(p, "pending", "approved") \/ Move(p, "pending", "rejected")
  /\ UNCHANGED credited

(* Lapsing is one UPDATE over every request that is old enough. *)
Lapse ==
  /\ \E S \in SUBSET {p \in PaymentIds : status[p] = "pending"} :
       status' = [p \in PaymentIds |-> IF p \in S THEN "expired" ELSE status[p]]
  /\ UNCHANGED credited

Credit(p) ==
  /\ status[p] = "approved" /\ credited[p] = 0
  /\ credited' = [credited EXCEPT ![p] = 1]
  /\ UNCHANGED status

Degrade(p) == credited[p] = 1 /\ Move(p, "approved", "partial") /\ UNCHANGED credited
Complete(p) == credited[p] = 1 /\ Move(p, "partial", "approved") /\ UNCHANGED credited

LedgerNext ==
  \/ \E p \in PaymentIds : Open(p) \/ Decide(p) \/ Credit(p) \/ Degrade(p) \/ Complete(p)
  \/ Lapse

LedgerSpec == LedgerInit /\ [][LedgerNext]_ledgerVars
=============================================================================
