------------------------------- MODULE MCBot -------------------------------
(* Small instances of the bot: one user, and two slots on nodes of their   *)
(* own.  Where both nodes are sidecars (AwgSlots = {}) an access is        *)
(* created in fewer calls; provision and live have an AmneziaWG slot too.  *)
EXTENDS Bot, TLC

CONSTANTS fl_pc, fl_mt, awgNode, mtNode

MCSlots == {fl_pc, fl_mt}
MCNodes == {awgNode, mtNode}
MCNodeOf == [s \in MCSlots |-> IF s = fl_pc THEN awgNode ELSE mtNode]
MCAwgSlots == {fl_pc}

(* Which of the receipts handled at once is which does not matter. *)
ReceiptsAlike == Permutations(Msgs)

(* A bound: the second request is made on day 3, when the subscription     *)
(* bought on day 1 has just run out, and a run has either that request or  *)
(* the last of its failures.                                               *)
SecondRequest ==
  /\ \A p \in PaymentIds \ {1} : payments[p] = NoPayment \/ payments[p].created = 3
  /\ payments[2] # NoPayment => faults < MaxFaults

AllEscapes == {"devices", "read", "write", "renewed", "confirm", "degrade"}
SendEscapes == {"confirm", "degrade"}
=============================================================================
