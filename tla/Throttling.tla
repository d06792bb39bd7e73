----------------------------- MODULE Throttling -----------------------------
(***************************************************************************)
(* ThrottlingMiddleware (core/middlewares.py) for one user.  The code up   *)
(* to the handler has no await before its last change, so an event is one  *)
(* step.  Users do not affect each other: every cache is keyed by user id, *)
(* and the 50 000 entries a cache holds are not exceeded.                  *)
(*                                                                         *)
(* Time is kept as ages: how many ticks ago a cache entry was written,     *)
(* counted up to the age at which the entry no longer matters.             *)
(***************************************************************************)
EXTENDS Integers, FiniteSets

CONSTANTS
  Actions,     \* what _resolve_action tells apart
  Rate,        \* default_rate, in ticks
  WarnGap,     \* the 5 seconds between warnings
  Window,      \* ttl of _flood and _warned_at, 60 seconds
  FloodLimit,  \* 10 events
  MaxBurst     \* bound on the events of one tick

ASSUME ThrottlingAssumption ==
  /\ Rate \in Nat \ {0} /\ WarnGap \in Nat \ {0} /\ FloodLimit \in Nat \ {0}
  /\ Window \in Nat /\ Window > Rate /\ Window > WarnGap
  /\ MaxBurst \in Nat

VARIABLES
  lastAge,   \* lastAge[a]: age of _last[user, a]
  warnAge,   \* age of _warned_at[user]
  count,     \* _flood[user], counted up to FloodLimit + 1
  countAge,  \* age of _flood[user]
  arrived,   \* arrived[k]: events k ticks ago (history)
  handled    \* handled[k]: events handled k ticks ago (history)

vars == <<lastAge, warnAge, count, countAge, arrived, handled>>

Ages == 0 .. Window - 1

TypeOK ==
  /\ lastAge \in [Actions -> 0 .. Rate]
  /\ warnAge \in 0 .. WarnGap + 1
  /\ count \in 0 .. FloodLimit + 1
  /\ countAge \in 0 .. Window
  /\ arrived \in [Ages -> 0 .. MaxBurst]
  /\ handled \in [Ages -> 0 .. MaxBurst]

Nothing == [k \in Ages |-> 0]

Init ==
  /\ lastAge = [a \in Actions |-> Rate]
  /\ warnAge = WarnGap + 1
  /\ count = 0 /\ countAge = Window
  /\ arrived = Nothing /\ handled = Nothing

(* Mutant: an entry ages on after it expired. *)
OlderForever(age, limit) == IF age <= limit THEN age + 1 ELSE age

Older(age, limit) == IF age < limit THEN age + 1 ELSE age
Shift(log) == [k \in Ages |-> IF k = 0 THEN 0 ELSE log[k - 1]]
Note(log) == [log EXCEPT ![0] = @ + 1]

(* Mutant: the flood counter never expires. *)
TickKeepsCount ==
  /\ lastAge' = [a \in Actions |-> Older(lastAge[a], Rate)]
  /\ warnAge' = Older(warnAge, WarnGap + 1)
  /\ countAge' = Older(countAge, Window)
  /\ arrived' = Shift(arrived) /\ handled' = Shift(handled)
  /\ UNCHANGED count

Tick ==
  /\ lastAge' = [a \in Actions |-> Older(lastAge[a], Rate)]
  /\ warnAge' = Older(warnAge, WarnGap + 1)
  /\ countAge' = Older(countAge, Window)
  /\ count' = IF countAge' = Window THEN 0 ELSE count
  /\ arrived' = Shift(arrived) /\ handled' = Shift(handled)

-----------------------------------------------------------------------------
(* Mutant: the counter is read but not incremented. *)
FloodCountRead == count

FloodCount == IF count > FloodLimit THEN count ELSE count + 1

(* Every event, dropped or not, counts and renews the entry's ttl. *)
Counted ==
  /\ arrived[0] < MaxBurst
  /\ arrived' = Note(arrived)
  /\ count' = FloodCount /\ countAge' = 0

DropFlood ==
  /\ Counted
  /\ FloodCount > FloodLimit
  /\ UNCHANGED <<lastAge, warnAge, handled>>

(* Too soon after the last handled event of that action: dropped, with a   *)
(* warning unless one went out lately.                                     *)
DropFast(a) ==
  /\ Counted
  /\ FloodCount <= FloodLimit
  /\ lastAge[a] < Rate
  /\ warnAge' = IF warnAge > WarnGap THEN 0 ELSE warnAge
  /\ UNCHANGED <<lastAge, handled>>

Handle(a) ==
  /\ Counted
  /\ FloodCount <= FloodLimit
  /\ lastAge[a] >= Rate
  /\ lastAge' = [lastAge EXCEPT ![a] = 0]
  /\ handled' = Note(handled)
  /\ UNCHANGED warnAge

Next == Tick \/ DropFlood \/ \E a \in Actions : DropFast(a) \/ Handle(a)

Spec == Init /\ [][Next]_vars

-----------------------------------------------------------------------------
(* The events of a log: the i-th of those k ticks ago. *)
Events(log) == {e \in Ages \X (1 .. MaxBurst) : e[2] <= log[e[1]]}

Recent(log) == Cardinality(Events(log))

(* Whatever the mix of actions and pauses, no more than FloodLimit events  *)
(* of a user are handled within any window.                                *)
HandledBound == Recent(handled) <= FloodLimit

(* A user silent for a window has a clean slate: no entry of any cache     *)
(* still holds their next event back.                                      *)
SilenceForgives ==
  Recent(arrived) = 0 =>
    count = 0 /\ warnAge > WarnGap /\ \A a \in Actions : lastAge[a] >= Rate
=============================================================================
