-------------------------- MODULE ThrottlingProofs --------------------------
(***************************************************************************)
(* What the throttling middleware promises, for any actions, rates, limits *)
(* and windows.                                                            *)
(***************************************************************************)
EXTENDS Throttling, FiniteSetTheorems, TLAPS

(* An entry is no younger than the last event, or no longer matters. *)
Reported(age, limit) == age >= countAge \/ age = limit

(* The flood counter's entry tells when the last event was; while it       *)
(* lives, it has counted every event handled in the window.                *)
ThrottleInv ==
  /\ TypeOK
  /\ \A k \in Ages : /\ handled[k] <= arrived[k]
                     /\ k < countAge => arrived[k] = 0
  /\ countAge < Window => arrived[countAge] > 0
  /\ countAge = Window => count = 0
  /\ Reported(warnAge, WarnGap + 1)
  /\ \A a \in Actions : Reported(lastAge[a], Rate)
  /\ Recent(handled) <= count /\ Recent(handled) <= FloodLimit

Logs == [Ages -> 0 .. MaxBurst]

-----------------------------------------------------------------------------
(* Counting the events of a log *)

LEMMA Bounds ==
  /\ Rate \in Nat \ {0} /\ WarnGap \in Nat \ {0} /\ FloodLimit \in Nat \ {0}
  /\ Window \in Nat /\ Window > Rate /\ Window > WarnGap /\ MaxBurst \in Nat
  /\ 0 \in Ages
  BY ThrottlingAssumption DEF Ages

LEMMA EventsFinite ==
  ASSUME NEW log
  PROVE  IsFiniteSet(Events(log)) /\ Recent(log) \in Nat
  <1>1. IsFiniteSet(Ages) /\ IsFiniteSet(1 .. MaxBurst)
    BY Bounds, FS_Interval DEF Ages
  <1>2. IsFiniteSet(Ages \X (1 .. MaxBurst))
    BY <1>1, FS_Product
  <1>3. Events(log) \in SUBSET (Ages \X (1 .. MaxBurst))
    BY DEF Events
  <1>4. IsFiniteSet(Events(log))
    BY <1>2, <1>3, FS_Subset
  <1> QED
    BY <1>4, FS_CardinalityType DEF Recent

LEMMA NothingRecent ==
  ASSUME NEW log, \A k \in Ages : log[k] = 0
  PROVE  Recent(log) = 0
  <1>1. Events(log) = {}
    BY Bounds DEF Events
  <1> QED
    BY <1>1, FS_EmptySet DEF Recent

(* No events counted means none logged. *)
LEMMA SilentLog ==
  ASSUME NEW log \in Logs, Recent(log) = 0
  PROVE  \A k \in Ages : log[k] = 0
  <1>1. Events(log) = {}
    BY EventsFinite, FS_EmptySet DEF Recent
  <1>2. ASSUME NEW k \in Ages, log[k] # 0 PROVE FALSE
    <2>1. log[k] \in 1 .. MaxBurst
      BY <1>2, Bounds DEF Logs
    <2>2. <<k, 1>> \in Events(log)
      BY <2>1, Bounds DEF Events
    <2> QED
      BY <1>1, <2>2
  <1> QED
    BY <1>2

LEMMA NoteCounts ==
  ASSUME NEW log \in Logs, log[0] < MaxBurst
  PROVE  Note(log) \in Logs /\ Recent(Note(log)) = Recent(log) + 1
  <1>1. log[0] \in 0 .. MaxBurst /\ Note(log) = [log EXCEPT ![0] = log[0] + 1]
    BY Bounds DEF Logs, Note
  <1>2. Note(log) \in Logs /\ Note(log)[0] = log[0] + 1
        /\ \A k \in Ages : k # 0 => Note(log)[k] = log[k]
    BY <1>1, Bounds DEF Logs
  <1>3. PICK new : new = <<0, log[0] + 1>>
    OBVIOUS
  <1>4. new \notin Events(log)
    BY <1>1, <1>3 DEF Events
  <1>5. Events(Note(log)) \subseteq Events(log) \cup {new}
    <2> SUFFICES ASSUME NEW k \in Ages, NEW i \in 1 .. MaxBurst, i <= Note(log)[k],
                        ~ i <= log[k]
                 PROVE  <<k, i>> = new
      BY DEF Events
    <2>1. k = 0
      BY <1>2
    <2> QED
      BY <2>1, <1>1, <1>2, <1>3
  <1>6. Events(log) \cup {new} \subseteq Events(Note(log))
    <2>1. new \in Events(Note(log))
      BY <1>1, <1>2, <1>3, Bounds DEF Events
    <2>2. ASSUME NEW k \in Ages, NEW i \in 1 .. MaxBurst, i <= log[k]
          PROVE  i <= Note(log)[k]
      BY <2>2, <1>1, <1>2
    <2> QED
      BY <2>1, <2>2 DEF Events
  <1>7. Events(Note(log)) = Events(log) \cup {new}
    BY <1>5, <1>6
  <1> QED
    BY <1>2, <1>4, <1>7, EventsFinite, FS_AddElement DEF Recent

(* Events move on, and those a window old drop out. *)
LEMMA ShiftCounts ==
  ASSUME NEW log \in Logs
  PROVE  /\ Shift(log) \in Logs /\ Shift(log)[0] = 0
         /\ \A k \in Ages : k # 0 => k - 1 \in Ages /\ Shift(log)[k] = log[k - 1]
         /\ Recent(Shift(log)) <= Recent(log)
  <1>1. \A k \in Ages : k # 0 => k - 1 \in Ages
    BY Bounds DEF Ages
  <1>2. /\ Shift(log)[0] = 0
        /\ \A k \in Ages : k # 0 => Shift(log)[k] = log[k - 1]
    BY Bounds DEF Shift
  <1>3. Shift(log) \in Logs
    <2>1. \A k \in Ages : (IF k = 0 THEN 0 ELSE log[k - 1]) \in 0 .. MaxBurst
      BY <1>1, Bounds DEF Logs
    <2> QED
      BY <2>1 DEF Shift, Logs
  <1> DEFINE before == [e \in Events(Shift(log)) |-> <<e[1] - 1, e[2]>>]
  <1>4. ASSUME NEW e \in Events(Shift(log))
        PROVE  /\ <<e[1] - 1, e[2]>> \in Events(log)
               /\ e = <<e[1], e[2]>> /\ e[1] \in Int
    <2>1. e \in Ages \X (1 .. MaxBurst) /\ e[2] <= Shift(log)[e[1]]
      BY DEF Events
    <2>2. e[1] # 0
      BY <2>1, <1>2, Bounds
    <2>3. e[1] - 1 \in Ages /\ e[2] <= log[e[1] - 1]
      BY <2>1, <2>2, <1>1, <1>2
    <2> QED
      BY <2>1, <2>3 DEF Events, Ages
  <1>5. before \in Injection(Events(Shift(log)), Events(log))
    <2>1. before \in [Events(Shift(log)) -> Events(log)]
      BY <1>4
    <2>2. ASSUME NEW e \in Events(Shift(log)), NEW f \in Events(Shift(log)),
                 before[e] = before[f]
          PROVE  e = f
      <3>1. e[1] - 1 = f[1] - 1 /\ e[2] = f[2]
        BY <2>2
      <3>2. e[1] \in Int /\ f[1] \in Int /\ e = <<e[1], e[2]>> /\ f = <<f[1], f[2]>>
        BY <1>4
      <3>3. e[1] = f[1]
        BY <3>1, <3>2
      <3> QED
        BY <3>1, <3>2, <3>3, Zenon
    <2> QED
      BY <2>1, <2>2 DEF Injection, IsInjective
  <1>6. Recent(Shift(log)) <= Recent(log)
    BY <1>5, EventsFinite, FS_Injection DEF Recent
  <1> QED
    BY <1>1, <1>2, <1>3, <1>6

-----------------------------------------------------------------------------
(* The invariant *)

LEMMA InitThrottle == Init => ThrottleInv
  <1> SUFFICES ASSUME Init PROVE ThrottleInv
    OBVIOUS
  <1>1. /\ \A k \in Ages : arrived[k] = 0 /\ handled[k] = 0
        /\ arrived \in Logs /\ handled \in Logs
    BY Bounds DEF Init, Nothing, Logs
  <1>2. TypeOK
    BY <1>1, Bounds DEF Init, TypeOK, Logs
  <1>3. Recent(handled) = 0
    BY <1>1, NothingRecent
  <1> QED
    BY <1>1, <1>2, <1>3, Bounds DEF Init, ThrottleInv, Reported

LEMMA Types ==
  ASSUME ThrottleInv
  PROVE  /\ lastAge \in [Actions -> 0 .. Rate]
         /\ warnAge \in 0 .. WarnGap + 1
         /\ count \in 0 .. FloodLimit + 1
         /\ countAge \in 0 .. Window
         /\ arrived \in Logs /\ handled \in Logs
  BY DEF ThrottleInv, TypeOK, Logs

LEMMA OlderAge ==
  ASSUME NEW limit \in Nat, NEW age \in 0 .. limit
  PROVE  /\ Older(age, limit) \in 0 .. limit
         /\ \/ Older(age, limit) = age + 1
            \/ Older(age, limit) = limit /\ age = limit
  <1>1. CASE age < limit
    BY <1>1 DEF Older
  <1>2. CASE ~ age < limit
    BY <1>2 DEF Older
  <1> QED
    BY <1>1, <1>2

LEMMA OlderReported ==
  ASSUME ThrottleInv, NEW limit \in Nat, NEW age \in 0 .. limit,
         Reported(age, limit), countAge' = Older(countAge, Window)
  PROVE  Older(age, limit) >= countAge' \/ Older(age, limit) = limit
  <1>1. countAge' \in 0 .. Window /\ (countAge' = countAge + 1 \/ countAge' = countAge)
    BY Types, Bounds, OlderAge
  <1>2. /\ Older(age, limit) \in 0 .. limit
        /\ Older(age, limit) = age + 1 \/ Older(age, limit) = limit
    BY OlderAge
  <1> QED
    BY <1>1, <1>2, Types, Bounds DEF Reported

LEMMA TickThrottle ==
  ASSUME ThrottleInv, Tick
  PROVE  ThrottleInv'
  <1>1. /\ arrived' = Shift(arrived) /\ handled' = Shift(handled)
        /\ countAge' = Older(countAge, Window)
        /\ count' = IF countAge' = Window THEN 0 ELSE count
    BY DEF Tick
  <1>2. /\ arrived' \in Logs /\ handled' \in Logs /\ arrived'[0] = 0 /\ handled'[0] = 0
        /\ \A k \in Ages : k # 0 => /\ k - 1 \in Ages /\ arrived'[k] = arrived[k - 1]
                                    /\ handled'[k] = handled[k - 1]
        /\ Recent(handled') <= Recent(handled)
    BY <1>1, ShiftCounts, Types
  <1>3. /\ lastAge' \in [Actions -> 0 .. Rate]
        /\ \A a \in Actions : Reported(lastAge[a], Rate)'
    <2>1. ASSUME NEW a \in Actions
          PROVE  /\ Older(lastAge[a], Rate) \in 0 .. Rate
                 /\ \/ Older(lastAge[a], Rate) >= countAge'
                    \/ Older(lastAge[a], Rate) = Rate
      <3>1. lastAge[a] \in 0 .. Rate /\ Rate \in Nat /\ Reported(lastAge[a], Rate)
        BY Types, Bounds DEF ThrottleInv
      <3> QED
        BY <3>1, <1>1, OlderAge, OlderReported
    <2>2. lastAge' = [a \in Actions |-> Older(lastAge[a], Rate)]
      BY DEF Tick
    <2>3. \A a \in Actions : lastAge'[a] = Older(lastAge[a], Rate)
      BY <2>2
    <2>4. lastAge' \in [Actions -> 0 .. Rate]
      BY <2>1, <2>2
    <2> QED
      BY <2>1, <2>3, <2>4 DEF Reported
  <1>4. warnAge' \in 0 .. WarnGap + 1 /\ Reported(warnAge, WarnGap + 1)'
    <2>1. warnAge' = Older(warnAge, WarnGap + 1)
      BY DEF Tick
    <2>2. WarnGap + 1 \in Nat /\ warnAge \in 0 .. WarnGap + 1 /\ Reported(warnAge, WarnGap + 1)
      BY Types, Bounds DEF ThrottleInv
    <2> QED
      BY <2>1, <2>2, <1>1, OlderAge, OlderReported DEF Reported
  <1>5. /\ countAge' \in 0 .. Window
        /\ \/ countAge' = countAge + 1
           \/ countAge' = Window /\ countAge = Window
    BY <1>1, OlderAge, Types, Bounds
  <1>6. count' \in 0 .. FloodLimit + 1 /\ (countAge' = Window => count' = 0)
    <2>1. CASE countAge' = Window
      <3>1. count' = 0
        BY <2>1, <1>1
      <3>2. 0 \in 0 .. FloodLimit + 1
        BY Bounds
      <3> QED
        BY <3>1, <3>2
    <2>2. CASE countAge' # Window
      <3>1. count' = count
        BY <2>2, <1>1
      <3> QED
        BY <2>2, <3>1, Types
    <2> QED
      BY <2>1, <2>2
  <1>7. TypeOK'
    BY <1>2, <1>3, <1>4, <1>5, <1>6 DEF TypeOK, Logs
  <1>8. \A k \in Ages : /\ handled'[k] <= arrived'[k]
                        /\ k < countAge' => arrived'[k] = 0
    <2> TAKE k \in Ages
    <2>1. CASE k = 0
      BY <2>1, <1>2
    <2>2. CASE k # 0
      <3>1. /\ k - 1 \in Ages /\ arrived'[k] = arrived[k - 1] /\ handled'[k] = handled[k - 1]
        BY <2>2, <1>2
      <3>2. /\ handled[k - 1] <= arrived[k - 1]
            /\ k - 1 < countAge => arrived[k - 1] = 0
        BY <3>1 DEF ThrottleInv
      <3>3. k < countAge' => k - 1 < countAge
        BY <1>5, Types, Bounds DEF Ages
      <3> QED
        BY <3>1, <3>2, <3>3
    <2> QED
      BY <2>1, <2>2
  <1>9. countAge' < Window => arrived'[countAge'] > 0
    <2> HAVE countAge' < Window
    <2>1. countAge' = countAge + 1 /\ countAge \in Ages /\ countAge' \in Ages /\ countAge' # 0
      BY <1>5, Types, Bounds DEF Ages
    <2>2. arrived'[countAge'] = arrived[countAge]
      BY <2>1, <1>2
    <2>3. arrived[countAge] > 0
      BY <2>1, Bounds DEF ThrottleInv, Ages
    <2> QED
      BY <2>2, <2>3
  <1>10. Recent(handled') <= count' /\ Recent(handled') <= FloodLimit
    <2>1. Recent(handled) <= count /\ Recent(handled) <= FloodLimit
      BY DEF ThrottleInv
    <2>2. Recent(handled) \in Nat /\ Recent(handled') \in Nat
      BY EventsFinite
    <2>3. CASE countAge' = Window
      <3>1. \A k \in Ages : handled'[k] = 0
        BY <2>3, <1>2, <1>8, Bounds DEF Ages, Logs
      <3> QED
        BY <3>1, <1>6, <2>3, NothingRecent, Bounds
    <2>4. CASE countAge' # Window
      BY <2>1, <2>2, <2>4, <1>1, <1>2, Types, Bounds
    <2> QED
      BY <2>3, <2>4
  <1> QED
    BY <1>3, <1>4, <1>6, <1>7, <1>8, <1>9, <1>10 DEF ThrottleInv, Recent, Events

(* An event, dropped or not, is the youngest entry of the log. *)
LEMMA CountedEvent ==
  ASSUME ThrottleInv, Counted
  PROVE  /\ arrived' \in Logs /\ arrived[0] \in 0 .. MaxBurst - 1
         /\ arrived'[0] = arrived[0] + 1
         /\ \A k \in Ages : k # 0 => arrived'[k] = arrived[k]
         /\ countAge' = 0
         /\ count' = FloodCount /\ FloodCount \in 0 .. FloodLimit + 1
         /\ count <= FloodCount
         /\ FloodCount <= FloodLimit => FloodCount = count + 1
  <1>1. arrived \in Logs /\ arrived[0] < MaxBurst /\ arrived' = Note(arrived)
    BY Types DEF Counted
  <1>2. arrived' \in Logs
    BY <1>1, NoteCounts
  <1>3. /\ arrived[0] \in 0 .. MaxBurst - 1 /\ arrived'[0] = arrived[0] + 1
        /\ \A k \in Ages : k # 0 => arrived'[k] = arrived[k]
    BY <1>1, Bounds DEF Logs, Note
  <1>4. count' = FloodCount /\ countAge' = 0
    BY DEF Counted
  <1>5. /\ FloodCount \in 0 .. FloodLimit + 1 /\ count <= FloodCount
        /\ FloodCount <= FloodLimit => FloodCount = count + 1
    BY Types, Bounds DEF FloodCount
  <1> QED
    BY <1>2, <1>3, <1>4, <1>5

(* What is left to show of each action that counts an event. *)
LEMMA CountedThrottle ==
  ASSUME ThrottleInv, Counted,
         lastAge' \in [Actions -> 0 .. Rate], warnAge' \in 0 .. WarnGap + 1,
         handled' \in Logs,
         \A k \in Ages : handled'[k] <= arrived'[k],
         Recent(handled') <= count', Recent(handled') <= FloodLimit
  PROVE  ThrottleInv'
  <1>1. /\ countAge' = 0 /\ arrived'[0] > 0
        /\ \A k \in Ages : ~ k < countAge'
    BY CountedEvent, Bounds DEF Ages
  <1>2. TypeOK'
    BY <1>1, CountedEvent, Bounds DEF TypeOK, Logs
  <1>3. Reported(warnAge, WarnGap + 1)' /\ \A a \in Actions : Reported(lastAge[a], Rate)'
    BY <1>1, Bounds DEF Reported
  <1> QED
    BY <1>1, <1>2, <1>3, Bounds DEF ThrottleInv, Recent, Events

LEMMA NextThrottle ==
  ASSUME ThrottleInv, [Next]_vars
  PROVE  ThrottleInv'
  <1>0. Recent(handled) \in Nat /\ Recent(handled) <= count /\ Recent(handled) <= FloodLimit
    BY EventsFinite DEF ThrottleInv
  <1>1. ASSUME Counted, UNCHANGED handled
        PROVE  /\ handled' \in Logs /\ \A k \in Ages : handled'[k] <= arrived'[k]
               /\ Recent(handled') <= count' /\ Recent(handled') <= FloodLimit
    <2>1. \A k \in Ages : handled[k] <= arrived[k] /\ handled[k] \in Nat /\ arrived[k] \in Nat
      BY Types, Bounds DEF ThrottleInv, Logs
    <2>2. \A k \in Ages : arrived[k] <= arrived'[k] /\ arrived'[k] \in Nat
      BY <1>1, <2>1, CountedEvent, Bounds DEF Logs
    <2>3. \A k \in Ages : handled'[k] <= arrived'[k]
      BY <1>1, <2>1, <2>2
    <2> QED
      BY <1>0, <1>1, <2>3, CountedEvent, Types, Bounds
  <1>2. CASE Tick
    BY <1>2, TickThrottle
  <1>3. CASE DropFlood
    BY <1>1, <1>3, CountedThrottle, Types DEF DropFlood
  <1>4. ASSUME NEW a \in Actions, DropFast(a) PROVE ThrottleInv'
    <2>1. warnAge' \in 0 .. WarnGap + 1
      <3>1. warnAge' = 0 \/ warnAge' = warnAge
        BY <1>4 DEF DropFast
      <3> QED
        BY <3>1, Types, Bounds
    <2> QED
      BY <1>1, <1>4, <2>1, CountedThrottle, Types DEF DropFast
  <1>5. ASSUME NEW a \in Actions, Handle(a) PROVE ThrottleInv'
    <2>1. /\ Counted /\ FloodCount <= FloodLimit /\ handled' = Note(handled)
          /\ lastAge' = [lastAge EXCEPT ![a] = 0] /\ warnAge' = warnAge
      BY <1>5 DEF Handle
    <2>2. handled[0] <= arrived[0] /\ handled \in Logs
      BY Types, Bounds DEF ThrottleInv
    <2>3. handled[0] < MaxBurst
      BY <2>1, <2>2, CountedEvent, Bounds DEF Logs
    <2>4. handled' \in Logs /\ Recent(handled') = Recent(handled) + 1
      BY <2>1, <2>2, <2>3, NoteCounts
    <2>5. ASSUME NEW k \in Ages PROVE handled'[k] <= arrived'[k]
      <3>1. handled[k] <= arrived[k]
        BY DEF ThrottleInv
      <3>2. CASE k = 0
        BY <3>2, <2>1, <2>2, CountedEvent, Bounds DEF Note, Logs
      <3>3. CASE k # 0
        BY <3>1, <3>3, <2>1, <2>2, CountedEvent, Bounds DEF Note, Logs
      <3> QED
        BY <3>2, <3>3
    <2>6. lastAge' \in [Actions -> 0 .. Rate]
      BY <2>1, Types, Bounds
    <2>7. count' = count + 1 /\ count' <= FloodLimit
      BY <2>1, CountedEvent
    <2>8. Recent(handled') <= count' /\ Recent(handled') <= FloodLimit
      BY <2>4, <2>7, <1>0, Types, Bounds
    <2> QED
      BY <2>1, <2>4, <2>5, <2>6, <2>8, CountedThrottle, Types
  <1>6. CASE UNCHANGED vars
    BY <1>6 DEF vars, ThrottleInv, TypeOK, Reported, Recent, Events
  <1> QED
    BY <1>2, <1>3, <1>4, <1>5, <1>6 DEF Next

LEMMA AlwaysThrottle == Spec => []ThrottleInv
  BY InitThrottle, NextThrottle, PTL DEF Spec

-----------------------------------------------------------------------------
(* Types hold, for any limits. *)
THEOREM TypeCorrect == Spec => []TypeOK
  <1>1. ThrottleInv => TypeOK
    BY DEF ThrottleInv
  <1> QED
    BY <1>1, AlwaysThrottle, PTL

(* No mix of actions, bursts and pauses gets more than FloodLimit events   *)
(* of a user handled within a window.                                      *)
THEOREM HandledBoundAlways == Spec => []HandledBound
  <1>1. ThrottleInv => HandledBound
    BY DEF ThrottleInv, HandledBound
  <1> QED
    BY <1>1, AlwaysThrottle, PTL

(* After a window of silence nothing that came before holds a user back.   *)
THEOREM SilenceForgivesAlways == Spec => []SilenceForgives
  <1>1. ThrottleInv => SilenceForgives
    <2> SUFFICES ASSUME ThrottleInv, Recent(arrived) = 0
                 PROVE  count = 0 /\ warnAge > WarnGap /\ \A a \in Actions : lastAge[a] >= Rate
      BY DEF SilenceForgives
    <2>1. \A k \in Ages : arrived[k] = 0
      BY SilentLog, Types
    <2>2. countAge = Window
      BY <2>1, Types, Bounds DEF ThrottleInv, Ages
    <2>3. count = 0 /\ Reported(warnAge, WarnGap + 1)
          /\ \A a \in Actions : Reported(lastAge[a], Rate)
      BY <2>2 DEF ThrottleInv
    <2> QED
      BY <2>2, <2>3, Types, Bounds DEF Reported
  <1> QED
    BY <1>1, AlwaysThrottle, PTL
=============================================================================
