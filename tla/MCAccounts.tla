----------------------------- MODULE MCAccounts -----------------------------
(* Two users with an MTProto access each; one has an AmneziaWG access too. *)
EXTENDS Accounts

MCSlots == {[owner |-> "u1", kind |-> "awg"],
            [owner |-> "u1", kind |-> "mtproto"],
            [owner |-> "u2", kind |-> "mtproto"]}
=============================================================================
