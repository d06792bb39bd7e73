---------------------------- MODULE SecretTable ----------------------------
(***************************************************************************)
(* What the MTProto sidecar (mtproto_manager/main.py) promises its client, *)
(* the bot: a table of secrets whose identifiers count up from the largest *)
(* one in use, and in which a request that was answered stands.  A request *)
(* that was not answered may be undone by the next restart, and a restart  *)
(* may find the whole table lost.  MtprotoSidecar implements it; Accounts  *)
(* relies on it.                                                           *)
(***************************************************************************)
EXTENDS Integers

CONSTANT MaxIds  \* bound on the identifiers given out

ASSUME TableAssumption == MaxIds \in Nat

Ids == 1 .. MaxIds
Standing == {"none", "on", "off"}  \* no such secret, enabled, disabled

VARIABLES
  table,  \* _secrets: the standing of each identifier
  last,   \* _counter: the identifier given out last
  sure    \* identifiers whose last request was answered

tableVars == <<table, last, sure>>

Empty == [i \in Ids |-> "none"]
Used(t) == {i \in Ids : t[i] # "none"}

TableInit == table = Empty /\ last = 0 /\ sure = Ids

(* A request changes the table first; its answer comes later, if it comes. *)
Ask(i, standing) ==
  /\ table' = [table EXCEPT ![i] = standing]
  /\ sure' = sure \ {i}

Create == last < MaxIds /\ last' = last + 1 /\ Ask(last + 1, "on")
Change(i, standing) == i \in Used(table) /\ Ask(i, standing) /\ UNCHANGED last
Answer(i) == i \notin sure /\ sure' = sure \cup {i} /\ UNCHANGED <<table, last>>

(* The counter is read back from the identifiers in use: one that was      *)
(* deleted, if it was the largest, is given out again.                     *)
IsLast(c, t) == c \in 0 .. MaxIds /\ (\A i \in Used(t) : i <= c) /\ (c # 0 => c \in Used(t))

Reborn(t) == table' = t /\ IsLast(last', t)

Restart ==
  /\ \E t \in [Ids -> Standing] : (\A i \in sure : t[i] = table[i]) /\ Reborn(t)
  /\ UNCHANGED sure

Lose == Reborn(Empty) /\ sure' \in SUBSET Ids

TableNext ==
  \/ Create
  \/ \E i \in Ids : Answer(i) \/ \E standing \in Standing : Change(i, standing)
  \/ Restart \/ Lose

TableSpec == TableInit /\ [][TableNext]_tableVars
=============================================================================
