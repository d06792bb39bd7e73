--------------------------- MODULE DialogsProofs ---------------------------
(***************************************************************************)
(* Theorems about the administrator's conversation, for any number of      *)
(* handlers, settings, messages, buttons, exceptions and restarts.         *)
(***************************************************************************)
EXTENDS Dialogs, FiniteSetTheorems, TLAPS

(* The handlers that are at one of some statements for one purpose. *)
At(r, does, pcs) == {h \in Handlers : r[h].does = does /\ r[h].pc \in pcs}

(* The handlers that will enter the state that permits k, and those that   *)
(* will make use of it.                                                    *)
Granting(r, k) ==
  IF k = "confirm" THEN At(r, "preview", {"merge", "answer", "mark"}) ELSE At(r, k, {"enter"})
Owing(r, k) ==
  IF k = "confirm" THEN At(r, "confirm", {"take", "delete", "reset"}) ELSE At(r, k, {"write"})

(* What a handler may be doing at a statement. *)
Role(does, pc) ==
  /\ pc = "idle" <=> does = "none"
  /\ pc = "enter" => does \in Prompts
  /\ pc \in {"merge", "answer", "mark"} => does = "preview"
  /\ pc \in {"write", "reply"} => does \in Settings
  /\ pc \in {"take", "send"} => does = "confirm"
  /\ pc \in {"delete", "reset"} => does \in {"confirm", "clear"} \cup Settings

Roles ==
  \A h \in Handlers :
    /\ Role(run[h].does, run[h].pc)
    /\ run[h].pc = "idle" => run[h] = Idle
    /\ run[h].pc \in {"merge", "answer"} => run[h].text \in 1 .. texts

(* Every state entered and every use of one is the work of one update. *)
Budget ==
  \A k \in Permits :
    /\ granted[k] + Cardinality(Granting(run, k)) <= texts + presses
    /\ used[k] + Cardinality(Owing(run, k)) <= texts + presses
    /\ twins[k] <= texts + presses

(* The uses of k there may be; one is to spare when the state permits k    *)
(* and nobody is at it.                                                    *)
Allowed(k) == granted[k] + twins[k] + (IF k = "confirm" THEN 0 ELSE faults)
Spent(k) == used[k] + Cardinality(Owing(run, k))
PermitInv ==
  \A k \in Permits :
    /\ Spent(k) <= Allowed(k)
    /\ row.state = k /\ ~Using(k) => Spent(k) < Allowed(k)

(* As long as handlers do not overlap, what can be confirmed was shown. *)
Alone == \A g, h \in Busy : g = h
ShownInv ==
  ~crossed =>
    /\ Alone
    /\ row.state = "confirm" => row.text \in shown
    /\ \A h \in Handlers :
         /\ run[h].pc \in {"merge", "answer", "reset"} => row.state # "confirm"
         /\ run[h].pc = "answer" => row.text = run[h].text
         /\ run[h].pc \in {"mark", "take"} => row.text \in shown
         /\ run[h].pc \in {"delete", "reset", "send"} /\ run[h].does = "confirm" =>
              run[h].text \in shown

(* The types, without the bounds Budget gives.                             *)
Runs == [does : {"none", "preview", "confirm", "clear"} \cup Prompts,
         pc : Steps, text : 0 .. MaxTexts]
Rows == [state : {"none", "", "confirm"} \cup Prompts, text : 0 .. MaxTexts, old : BOOLEAN]
Types ==
  /\ row \in Rows
  /\ run \in [Handlers -> Runs]
  /\ texts \in 0 .. MaxTexts /\ presses \in 0 .. MaxPresses /\ faults \in 0 .. MaxFaults
  /\ shown \subseteq 1 .. texts
  /\ granted \in [Permits -> Nat] /\ used \in [Permits -> Nat] /\ twins \in [Permits -> Nat]
  /\ crossed \in BOOLEAN
  /\ row.state = "none" => row = NoRow

TypeInv == Types /\ Roles
IInv == TypeInv /\ Budget /\ PermitInv /\ ShownInv

-----------------------------------------------------------------------------
(* Types and roles.                                                        *)

(* The bounds are numbers. *)
LEMMA Bounds == MaxTexts \in Nat /\ MaxPresses \in Nat /\ MaxFaults \in Nat
  BY DialogsAssumption

(* The purposes and the settings are different words. *)
LEMMA Words ==
  /\ Settings \subseteq Permits /\ Settings \subseteq Prompts /\ "confirm" \in Permits
  /\ \A s \in Settings : s \notin {"none", "", "broadcast", "preview", "confirm", "clear"}
  BY DialogsAssumption DEF Permits, Prompts

(* A handler at rest is one of the records of the table. *)
LEMMA IdleType == Idle \in Runs
<1>1. 0 \in 0 .. MaxTexts
  BY Bounds
<1> QED
  BY <1>1 DEF Idle, Runs, Steps, NoText

(* A log of permits stays one when an entry is counted up.                 *)
LEMMA PlusType ==
  ASSUME NEW log \in [Permits -> Nat], NEW k
  PROVE  /\ Plus(log, k) \in [Permits -> Nat]
         /\ \A j \in Permits : Plus(log, k)[j] = log[j] + (IF j = k THEN 1 ELSE 0)
  BY DEF Plus

(* At the start nobody is at work.                                         *)
LEMMA TypeInit == Init => TypeInv
<1> SUFFICES ASSUME Init PROVE TypeInv
  OBVIOUS
<1>1. Types
  <2>1. NoRow \in Rows
    <3>1. 0 \in 0 .. MaxTexts
      BY Bounds
    <3> QED
      BY <3>1 DEF NoRow, NoText, Rows
  <2>2. run \in [Handlers -> Runs]
    BY IdleType DEF Init
  <2>3. /\ texts \in 0 .. MaxTexts /\ presses \in 0 .. MaxPresses /\ faults \in 0 .. MaxFaults
        /\ shown \subseteq 1 .. texts /\ crossed \in BOOLEAN
    <3>1. texts = 0 /\ presses = 0 /\ faults = 0 /\ shown = {} /\ crossed = FALSE
      BY DEF Init
    <3>2. 0 \in 0 .. MaxTexts /\ 0 \in 0 .. MaxPresses /\ 0 \in 0 .. MaxFaults
      BY Bounds
    <3> QED
      BY <3>1, <3>2
  <2>4. None \in [Permits -> Nat]
    BY DEF None
  <2> QED
    BY <2>1, <2>2, <2>3, <2>4 DEF Init, Types
<1>2. Roles
  BY DEF Init, Roles, Role, Idle
<1> QED
  BY <1>1, <1>2 DEF TypeInv

(* What an update gives a handler to do. *)
Begins(does, pc, t) ==
  \/ does \in Prompts /\ pc = "enter" /\ t = 0
  \/ does = "confirm" /\ pc = "take" /\ t = 0 /\ row.state = "confirm"
  \/ does = "clear" /\ pc = "delete" /\ t = 0
  \/ does = "preview" /\ pc = "merge" /\ t = texts' /\ t = texts + 1 /\ row.state = "broadcast"
  \/ does \in Settings /\ pc = "write" /\ t = texts' /\ t = texts + 1 /\ row.state = does

(* An update is counted and begins one handler.                            *)
LEMMA UpdateBegins ==
  ASSUME Types, NEW h \in Handlers, Update(h)
  PROVE  /\ texts' \in texts .. MaxTexts /\ presses' \in presses .. MaxPresses
         /\ texts' + presses' = texts + presses + 1
         /\ \E does, pc, t : Dispatch(h, does, pc, t) /\ Begins(does, pc, t)
<1>0. texts \in 0 .. MaxTexts /\ presses \in 0 .. MaxPresses /\ MaxTexts \in Nat /\ MaxPresses \in Nat
  BY Bounds DEF Types
<1>1. CASE Press
  <2>1. /\ texts' \in texts .. MaxTexts /\ presses' \in presses .. MaxPresses
        /\ texts' + presses' = texts + presses + 1
    BY <1>0, <1>1 DEF Press
  <2>2. CASE Ask(h)
    <3>1. PICK st \in Prompts : Dispatch(h, st, "enter", NoText)
      BY <2>2 DEF Ask
    <3>2. Begins(st, "enter", NoText)
      BY DEF Begins, NoText
    <3> QED
      BY <2>1, <3>1, <3>2
  <2>3. CASE Confirm(h)
    <3>1. Dispatch(h, "confirm", "take", NoText) /\ Begins("confirm", "take", NoText)
      BY <2>3 DEF Begins, NoText, Confirm
    <3> QED
      BY <2>1, <3>1
  <2>4. CASE Leave(h)
    <3>1. Dispatch(h, "clear", "delete", NoText) /\ Begins("clear", "delete", NoText)
      BY <2>4 DEF Begins, NoText, Leave
    <3> QED
      BY <2>1, <3>1
  <2>5. CASE Write(h)
    BY <1>0, <1>1, <2>5 DEF Write, Press
  <2> QED
    BY <2>2, <2>3, <2>4, <2>5 DEF Update
<1>2. CASE Write(h)
  <2>1. /\ texts' \in texts .. MaxTexts /\ presses' \in presses .. MaxPresses
        /\ texts' + presses' = texts + presses + 1 /\ texts' = texts + 1
    BY <1>0, <1>2 DEF Write
  <2>2. CASE row.state = "broadcast" /\ Dispatch(h, "preview", "merge", texts + 1)
    <3>1. Begins("preview", "merge", texts + 1)
      BY <2>1, <2>2 DEF Begins
    <3> QED
      BY <2>1, <2>2, <3>1
  <2>3. CASE row.state \in Settings /\ Dispatch(h, row.state, "write", texts + 1)
    <3>1. Begins(row.state, "write", texts + 1)
      BY <2>1, <2>3 DEF Begins
    <3> QED
      BY <2>1, <2>3, <3>1
  <2> QED
    BY <1>2, <2>2, <2>3 DEF Write
<1> QED
  BY <1>1, <1>2 DEF Update, Ask, Confirm, Leave

(* An update begins one handler, whose role fits.                          *)
LEMMA UpdateTypes ==
  ASSUME TypeInv, NEW h \in Handlers, Update(h)
  PROVE  TypeInv'
<1> USE DEF TypeInv
<1>1. /\ texts' \in texts .. MaxTexts /\ presses' \in 0 .. MaxPresses
      /\ texts \in Nat /\ texts' \in 0 .. MaxTexts /\ MaxTexts \in Nat
  BY UpdateBegins, Bounds DEF Types
<1>2. PICK does, pc, t : Dispatch(h, does, pc, t) /\ Begins(does, pc, t)
  BY UpdateBegins
<1>3. /\ [does |-> does, pc |-> pc, text |-> t] \in Runs
      /\ Role(does, pc) /\ pc # "idle" /\ (pc \in {"merge", "answer"} => t \in 1 .. texts')
  <2>1. t \in 0 .. MaxTexts /\ (pc = "merge" => t \in 1 .. texts')
    BY <1>1, <1>2 DEF Begins
  <2>2. pc \in Steps \ {"idle", "answer"} /\ Role(does, pc)
    BY <1>2, Words DEF Begins, Steps, Role, Prompts
  <2>3. does \in {"none", "preview", "confirm", "clear"} \cup Prompts
    BY <1>2, Words DEF Begins
  <2> QED
    BY <2>1, <2>2, <2>3 DEF Runs
<1>4. Types'
  <2>1. run' \in [Handlers -> Runs]
    BY <1>2, <1>3 DEF Dispatch, Types
  <2>2. twins' \in [Permits -> Nat]
    BY <1>2, PlusType DEF Dispatch, Types
  <2>3. crossed' \in BOOLEAN
    BY <1>2 DEF Dispatch, Types
  <2>4. shown' \subseteq 1 .. texts'
    BY <1>1, <1>2 DEF Dispatch, Types
  <2> QED
    BY <1>1, <1>2, <2>1, <2>2, <2>3, <2>4 DEF Dispatch, Types, NoRow
<1>5. Roles'
  <2>1. ASSUME NEW g \in Handlers
        PROVE  /\ Role(run'[g].does, run'[g].pc)
               /\ run'[g].pc = "idle" => run'[g] = Idle
               /\ run'[g].pc \in {"merge", "answer"} => run'[g].text \in 1 .. texts'
    <3>1. CASE g = h
      BY <1>2, <1>3, <3>1 DEF Dispatch, Types
    <3>2. CASE g # h
      <4>1. run'[g] = run[g]
        BY <1>2, <3>2 DEF Dispatch, Types
      <4> QED
        BY <4>1, <1>1 DEF Roles
    <3> QED
      BY <3>1, <3>2
  <2> QED
    BY <2>1 DEF Roles
<1> QED
  BY <1>4, <1>5

(* What the handler at a statement is about to be, if it does not raise.   *)
Moved(h, to) == IF to = "idle" THEN Idle ELSE [run[h] EXCEPT !.pc = to]

(* A statement of one handler leaves the others where they are.            *)
LEMMA ThenMoves ==
  ASSUME Types, NEW h \in Handlers, NEW from \in Steps, NEW to \in Steps, Then(h, from, to)
  PROVE  /\ run[h].pc = from /\ run'[h] = Moved(h, to)
         /\ run' \in [Handlers -> Runs]
         /\ \A g \in Handlers \ {h} : run'[g] = run[g]
         /\ to = "idle" => run'[h] = Idle
         /\ to # "idle" => /\ run'[h].pc = to /\ run'[h].does = run[h].does
                           /\ run'[h].text = run[h].text
         /\ UNCHANGED <<texts, presses, faults, twins>>
<1>1. Moved(h, to) \in Runs
  <2>1. CASE to = "idle"
    BY <2>1, IdleType DEF Moved
  <2>2. CASE to # "idle"
    BY <2>2 DEF Moved, Types, Runs
  <2> QED
    BY <2>1, <2>2
<1>2. run' = [run EXCEPT ![h] = Moved(h, to)]
  BY DEF Then, Moved
<1>3. /\ run'[h] = Moved(h, to) /\ \A g \in Handlers \ {h} : run'[g] = run[g]
      /\ run' \in [Handlers -> Runs]
  BY <1>1, <1>2 DEF Types
<1>4. to # "idle" => /\ run'[h].pc = to /\ run'[h].does = run[h].does
                     /\ run'[h].text = run[h].text
  BY <1>3 DEF Moved, Types, Runs
<1>5. to = "idle" => run'[h] = Idle
  BY <1>3 DEF Moved
<1> QED
  BY <1>3, <1>4, <1>5 DEF Then

(* What the statements on the row leave there.                             *)
LEMMA RowTypes ==
  ASSUME Types
  PROVE  /\ \A st \in Prompts \cup {"confirm"} :
              SetState(st) => /\ row' \in Rows /\ row'.state = st /\ row'.state # "none"
                              /\ row'.text = row.text
         /\ \A t \in 0 .. MaxTexts :
              SetData(t) => /\ row' \in Rows /\ row'.text = t /\ row'.state # "none"
                            /\ row'.state = IF row.state = "none" THEN "" ELSE row.state
         /\ RemoveState => row' \in Rows /\ row' = NoRow /\ row'.state = "none"
<1>1. ASSUME NEW st \in Prompts \cup {"confirm"}, SetState(st)
      PROVE  /\ row' \in Rows /\ row'.state = st /\ row'.state # "none"
             /\ row'.text = row.text
  <2>1. st # "none"
    BY Words DEF Prompts
  <2> QED
    BY <1>1, <2>1 DEF SetState, Types, Rows
<1>2. ASSUME NEW t \in 0 .. MaxTexts, SetData(t)
      PROVE  /\ row' \in Rows /\ row'.text = t /\ row'.state # "none"
             /\ row'.state = IF row.state = "none" THEN "" ELSE row.state
  BY <1>2 DEF SetData, Types, Rows
<1>3. ASSUME RemoveState PROVE row' \in Rows /\ row' = NoRow /\ row'.state = "none"
  <2>1. 0 \in 0 .. MaxTexts
    BY Bounds
  <2> QED
    BY <1>3, <2>1 DEF RemoveState, NoRow, NoText, Rows
<1> QED
  BY <1>1, <1>2, <1>3

(* The steps a statement may end in, by the one before it; the row and the *)
(* logs after it.                                                          *)
Follows(h, from, to) ==
  \/ from = "enter" /\ to = "idle" /\ SetState(run[h].does)
  \/ from = "merge" /\ to = "answer" /\ SetData(run[h].text)
  \/ from = "answer" /\ to = "mark" /\ UNCHANGED row
  \/ from = "mark" /\ to = "idle" /\ SetState("confirm")
  \/ from = "write" /\ to = "reply" /\ UNCHANGED row
  \/ from = "reply" /\ to = "delete" /\ UNCHANGED row
  \/ from = "delete" /\ to = "reset" /\ RemoveState
  \/ from = "reset" /\ SetData(NoText)
     /\ to = (IF run[h].does = "confirm" THEN "send" ELSE "idle")
  \/ from = "send" /\ to = "idle" /\ UNCHANGED row

Logs(h, from) ==
  /\ shown' = IF from = "answer" THEN shown \cup {run[h].text} ELSE shown
  /\ granted' = CASE from = "enter" -> Plus(granted, run[h].does)
                   [] from = "mark" -> Plus(granted, "confirm")
                   [] OTHER -> granted
  /\ used' = CASE from = "write" -> Plus(used, run[h].does)
                [] from = "reset" /\ run[h].does = "confirm" -> Plus(used, "confirm")
                [] OTHER -> used

(* Every statement but Take moves the handler on and nothing else of it.   *)
LEMMA StatementFollows ==
  ASSUME NEW h \in Handlers, Statement(h), ~Take(h)
  PROVE  /\ Settle
         /\ \E from, to \in Steps : Then(h, from, to) /\ Follows(h, from, to) /\ Logs(h, from)
<1>0. /\ "idle" \in Steps /\ "enter" \in Steps /\ "merge" \in Steps /\ "answer" \in Steps
      /\ "mark" \in Steps /\ "write" \in Steps /\ "reply" \in Steps /\ "delete" \in Steps
      /\ "reset" \in Steps /\ "send" \in Steps
  BY DEF Steps
<1>1. CASE Enter(h)
  <2>1. Then(h, "enter", "idle") /\ Follows(h, "enter", "idle") /\ Logs(h, "enter") /\ Settle
    BY <1>1 DEF Enter, Follows, Logs
  <2> QED
    BY <1>0, <2>1
<1>2. CASE Merge(h)
  <2>1. Then(h, "merge", "answer") /\ Follows(h, "merge", "answer") /\ Logs(h, "merge") /\ Settle
    BY <1>2 DEF Merge, Follows, Logs
  <2> QED
    BY <1>0, <2>1
<1>3. CASE Answer(h)
  <2>1. Then(h, "answer", "mark") /\ Follows(h, "answer", "mark") /\ Logs(h, "answer") /\ Settle
    BY <1>3 DEF Answer, Follows, Logs
  <2> QED
    BY <1>0, <2>1
<1>4. CASE Mark(h)
  <2>1. Then(h, "mark", "idle") /\ Follows(h, "mark", "idle") /\ Logs(h, "mark") /\ Settle
    BY <1>4 DEF Mark, Follows, Logs
  <2> QED
    BY <1>0, <2>1
<1>5. CASE Store(h)
  <2>1. Then(h, "write", "reply") /\ Follows(h, "write", "reply") /\ Logs(h, "write") /\ Settle
    BY <1>5 DEF Store, Follows, Logs
  <2> QED
    BY <1>0, <2>1
<1>6. CASE Reply(h)
  <2>1. Then(h, "reply", "delete") /\ Follows(h, "reply", "delete") /\ Logs(h, "reply") /\ Settle
    BY <1>6 DEF Reply, Follows, Logs
  <2> QED
    BY <1>0, <2>1
<1>7. CASE Delete(h)
  <2>1. Then(h, "delete", "reset") /\ Follows(h, "delete", "reset") /\ Logs(h, "delete") /\ Settle
    BY <1>7 DEF Delete, Follows, Logs
  <2> QED
    BY <1>0, <2>1
<1>8. CASE Reset(h)
  <2>1. CASE run[h].does = "confirm"
    <3>1. Then(h, "reset", "send") /\ Follows(h, "reset", "send") /\ Logs(h, "reset") /\ Settle
      BY <1>8, <2>1 DEF Reset, Follows, Logs
    <3> QED
      BY <1>0, <3>1
  <2>2. CASE run[h].does # "confirm"
    <3>1. Then(h, "reset", "idle") /\ Follows(h, "reset", "idle") /\ Logs(h, "reset") /\ Settle
      BY <1>8, <2>2 DEF Reset, Follows, Logs
    <3> QED
      BY <1>0, <3>1
  <2> QED
    BY <2>1, <2>2
<1>9. CASE Sent(h)
  <2>1. Then(h, "send", "idle") /\ Follows(h, "send", "idle") /\ Logs(h, "send") /\ Settle
    BY <1>9 DEF Sent, Follows, Logs
  <2> QED
    BY <1>0, <2>1
<1> QED
  BY <1>1, <1>2, <1>3, <1>4, <1>5, <1>6, <1>7, <1>8, <1>9 DEF Statement

(* A statement keeps the types, and what follows fits the handler's role.  *)
LEMMA FollowsTypes ==
  ASSUME TypeInv, NEW h \in Handlers, NEW from \in Steps, NEW to \in Steps,
         Then(h, from, to), Follows(h, from, to), Logs(h, from), Settle
  PROVE  TypeInv'
<1> USE DEF TypeInv
<1>1. /\ run[h].pc = from /\ run' \in [Handlers -> Runs]
      /\ \A g \in Handlers \ {h} : run'[g] = run[g]
      /\ to = "idle" => run'[h] = Idle
      /\ to # "idle" => /\ run'[h].pc = to /\ run'[h].does = run[h].does
                        /\ run'[h].text = run[h].text
      /\ UNCHANGED <<texts, presses, faults, twins>>
  BY ThenMoves
<1>2. run[h] \in Runs /\ run[h].text \in 0 .. MaxTexts
  BY DEF Types, Runs
<1>3. Role(run[h].does, from) /\ (from \in {"merge", "answer"} => run[h].text \in 1 .. texts)
  BY <1>1 DEF Roles
<1>4. row' \in Rows /\ (row'.state = "none" => row' = NoRow)
  <2>1. CASE UNCHANGED row
    BY <2>1 DEF Types
  <2>2. CASE SetState(run[h].does) /\ from = "enter"
    BY <1>3, <2>2, RowTypes DEF Role
  <2>3. CASE SetState("confirm")
    BY <2>3, RowTypes
  <2>4. CASE SetData(run[h].text)
    BY <1>2, <2>4, RowTypes
  <2>5. CASE SetData(NoText)
    <3>1. NoText \in 0 .. MaxTexts
      BY Bounds DEF NoText
    <3> QED
      BY <3>1, <2>5, RowTypes
  <2>6. CASE RemoveState
    BY <2>6, RowTypes
  <2> QED
    BY <2>1, <2>2, <2>3, <2>4, <2>5, <2>6 DEF Follows
<1>5. shown' \subseteq 1 .. texts'
  BY <1>1, <1>3 DEF Logs, Types
<1>6. granted' \in [Permits -> Nat] /\ used' \in [Permits -> Nat]
  <2>1. /\ \A k : Plus(granted, k) \in [Permits -> Nat] /\ Plus(used, k) \in [Permits -> Nat]
        /\ granted \in [Permits -> Nat] /\ used \in [Permits -> Nat]
    BY PlusType DEF Types
  <2>2. granted' \in {granted, Plus(granted, run[h].does), Plus(granted, "confirm")}
    BY DEF Logs
  <2>3. used' \in {used, Plus(used, run[h].does), Plus(used, "confirm")}
    BY DEF Logs
  <2> QED
    BY <2>1, <2>2, <2>3
<1>7. crossed' \in BOOLEAN
  BY DEF Settle, Types
<1>8. Types'
  BY <1>1, <1>4, <1>5, <1>6, <1>7 DEF Types, NoRow
<1>9. Roles'
  <2>1. ASSUME NEW g \in Handlers
        PROVE  /\ Role(run'[g].does, run'[g].pc)
               /\ run'[g].pc = "idle" => run'[g] = Idle
               /\ run'[g].pc \in {"merge", "answer"} => run'[g].text \in 1 .. texts'
    <3>1. CASE g # h
      BY <1>1, <3>1 DEF Roles
    <3>2. CASE g = h /\ to = "idle"
      BY <1>1, <3>2 DEF Role, Idle
    <3>3. CASE g = h /\ to # "idle"
      <4>1. Role(run[h].does, to)
        BY <1>3, <3>3, Words DEF Role, Follows
      <4>2. to \in {"merge", "answer"} => from = "merge"
        BY DEF Follows
      <4> QED
        BY <1>1, <1>3, <3>3, <4>1, <4>2
    <3> QED
      BY <3>1, <3>2, <3>3
  <2> QED
    BY <2>1 DEF Roles
<1> QED
  BY <1>8, <1>9

(* get_data of cb_broadcast_confirm moves the handler on, with a text.     *)
LEMMA TakeMoves ==
  ASSUME TypeInv, NEW h \in Handlers, Take(h)
  PROVE  /\ run[h].pc = "take" /\ run[h].does = "confirm"
         /\ run' \in [Handlers -> Runs]
         /\ run'[h].pc = "delete" /\ run'[h].does = "confirm" /\ run'[h].text = row.text
         /\ \A g \in Handlers \ {h} : run'[g] = run[g]
         /\ UNCHANGED <<row, texts, presses, faults, history>> /\ Settle
<1>1. run' = [run EXCEPT ![h].text = row.text, ![h].pc = "delete"] /\ run[h].pc = "take"
  BY DEF Take
<1>2. run[h].does = "confirm"
  BY <1>1 DEF TypeInv, Roles, Role
<1>3. run \in [Handlers -> Runs] /\ row.text \in 0 .. MaxTexts
  BY DEF TypeInv, Types, Rows
<1>4. /\ run' \in [Handlers -> Runs] /\ \A g \in Handlers \ {h} : run'[g] = run[g]
      /\ run'[h].pc = "delete" /\ run'[h].does = run[h].does /\ run'[h].text = row.text
  BY <1>1, <1>3 DEF Runs, Steps
<1> QED
  BY <1>1, <1>2, <1>4 DEF Take

(* A handler that raises, and a restart, leave some handlers at rest and   *)
(* cost a fault.                                                           *)
LEMMA FaultMoves ==
  ASSUME Types, (\E h \in Handlers : Raise(h)) \/ Restart
  PROVE  \E G \in SUBSET Handlers :
           /\ \A g \in G : run'[g] = Idle
           /\ \A g \in Handlers \ G : run'[g] = run[g]
           /\ run' \in [Handlers -> Runs]
           /\ faults' = faults + 1 /\ faults' \in 0 .. MaxFaults
           /\ UNCHANGED <<row, texts, presses, history>> /\ Settle
<1>1. ASSUME faults < MaxFaults, faults' = faults + 1 PROVE faults' \in 0 .. MaxFaults
  BY <1>1, Bounds DEF Types
<1>2. ASSUME NEW h \in Handlers, Raise(h)
      PROVE  /\ run'[h] = Idle /\ \A g \in Handlers \ {h} : run'[g] = run[g]
             /\ run' \in [Handlers -> Runs]
  BY <1>2, IdleType DEF Raise, Types
<1>3. ASSUME Restart
      PROVE  run' \in [Handlers -> Runs] /\ \A g \in Handlers : run'[g] = Idle
  BY <1>3, IdleType DEF Restart
<1>4. CASE \E h \in Handlers : Raise(h)
  <2>1. PICK h \in Handlers : Raise(h)
    BY <1>4
  <2> WITNESS {h} \in SUBSET Handlers
  <2> QED
    BY <1>1, <1>2, <2>1 DEF Raise
<1>5. CASE Restart
  <2> WITNESS Handlers \in SUBSET Handlers
  <2> QED
    BY <1>1, <1>3, <1>5 DEF Restart
<1> QED
  BY <1>4, <1>5

(* Types and roles are kept by every step. *)
LEMMA TypeStep == TypeInv /\ [Next]_vars => TypeInv'
<1> SUFFICES ASSUME TypeInv, [Next]_vars PROVE TypeInv'
  OBVIOUS
<1> USE DEF TypeInv
<1>1. CASE \E h \in Handlers : Update(h)
  BY <1>1, UpdateTypes
<1>2. CASE \E h \in Handlers : Statement(h) /\ ~Take(h)
  BY <1>2, StatementFollows, FollowsTypes
<1>3. CASE \E h \in Handlers : Take(h)
  <2>1. PICK h \in Handlers : Take(h)
    BY <1>3
  <2>2. Types'
    BY <2>1, TakeMoves DEF Types, history, Settle
  <2>3. Roles'
    BY <2>1, TakeMoves DEF Roles, Role
  <2> QED
    BY <2>2, <2>3
<1>4. CASE (\E h \in Handlers : Raise(h)) \/ Restart
  <2>1. PICK G \in SUBSET Handlers :
           /\ \A g \in G : run'[g] = Idle
           /\ \A g \in Handlers \ G : run'[g] = run[g]
           /\ run' \in [Handlers -> Runs]
           /\ faults' = faults + 1 /\ faults' \in 0 .. MaxFaults
           /\ UNCHANGED <<row, texts, presses, history>> /\ Settle
    BY <1>4, FaultMoves
  <2>2. Types'
    BY <2>1 DEF Types, history, Settle
  <2>3. Roles'
    BY <2>1 DEF Roles, Role, Idle
  <2> QED
    BY <2>2, <2>3
<1>5. CASE Age \/ Cleanup
  <2>1. /\ UNCHANGED <<run, texts, presses, faults, history>>
        /\ crossed' \in BOOLEAN /\ row' \in Rows /\ (row'.state = "none" => row' = NoRow)
    <3>1. CASE Age
      BY <3>1 DEF Age, Types, Rows, NoRow
    <3>2. CASE Cleanup
      BY <3>2, RowTypes DEF Cleanup, Types
    <3> QED
      BY <1>5, <3>1, <3>2
  <2>2. Types'
    BY <2>1 DEF Types, history, NoRow
  <2>3. Roles'
    BY <2>1 DEF Roles
  <2> QED
    BY <2>2, <2>3
<1>6. CASE UNCHANGED vars
  BY <1>6 DEF vars, history, Types, Roles
<1> QED
  BY <1>1, <1>2, <1>3, <1>4, <1>5, <1>6 DEF Next, Statement

-----------------------------------------------------------------------------
(* Counting the handlers at work for a purpose.                            *)

Holds(S, h) == IF h \in S THEN 1 ELSE 0

(* One handler moves: the count follows it in and out.                     *)
LEMMA AtMoves ==
  ASSUME NEW r, NEW s, NEW does, NEW pcs, NEW h \in Handlers,
         \A g \in Handlers \ {h} : s[g] = r[g]
  PROVE  /\ Cardinality(At(r, does, pcs)) \in Nat /\ Cardinality(At(s, does, pcs)) \in Nat
         /\ Cardinality(At(s, does, pcs)) + Holds(At(r, does, pcs), h)
              = Cardinality(At(r, does, pcs)) + Holds(At(s, does, pcs), h)
<1> DEFINE A == At(r, does, pcs)
           B == At(s, does, pcs)
<1>1. IsFiniteSet(A) /\ IsFiniteSet(B)
  BY DialogsAssumption, FS_Subset DEF At
<1>2. Cardinality(A) \in Nat /\ Cardinality(B) \in Nat
  BY <1>1, FS_CardinalityType
<1>3. B \ {h} = A \ {h}
  BY DEF At
<1>4. CASE h \in A /\ h \in B
  <2>1. A = B
    BY <1>3, <1>4
  <2> QED
    BY <1>2, <2>1
<1>5. CASE h \notin A /\ h \notin B
  <2>1. A = B
    BY <1>3, <1>5
  <2> QED
    BY <1>2, <2>1
<1>6. CASE h \in A /\ h \notin B
  <2>1. A = B \cup {h}
    BY <1>3, <1>6
  <2>2. Cardinality(A) = Cardinality(B) + 1
    BY <1>1, <1>6, <2>1, FS_AddElement
  <2> QED
    BY <1>2, <1>6, <2>2 DEF Holds
<1>7. CASE h \notin A /\ h \in B
  <2>1. B = A \cup {h}
    BY <1>3, <1>7
  <2>2. Cardinality(B) = Cardinality(A) + 1
    BY <1>1, <1>7, <2>1, FS_AddElement
  <2> QED
    BY <1>2, <1>7, <2>2 DEF Holds
<1> QED
  BY <1>4, <1>5, <1>6, <1>7

(* When a handler is counted.                                              *)
LEMMA Counted ==
  ASSUME NEW r, NEW h \in Handlers, NEW k
  PROVE  /\ k = "confirm" =>
              /\ h \in Granting(r, k) <=>
                   r[h].does = "preview" /\ r[h].pc \in {"merge", "answer", "mark"}
              /\ h \in Owing(r, k) <=>
                   r[h].does = "confirm" /\ r[h].pc \in {"take", "delete", "reset"}
         /\ k # "confirm" =>
              /\ h \in Granting(r, k) <=> r[h].does = k /\ r[h].pc = "enter"
              /\ h \in Owing(r, k) <=> r[h].does = k /\ r[h].pc = "write"
  BY DEF Granting, Owing, At

(* Both counts follow the handler that moves.                              *)
LEMMA CountMoves ==
  ASSUME NEW r, NEW s, NEW k \in Permits, NEW h \in Handlers,
         \A g \in Handlers \ {h} : s[g] = r[g]
  PROVE  /\ Cardinality(Granting(r, k)) \in Nat /\ Cardinality(Granting(s, k)) \in Nat
         /\ Cardinality(Owing(r, k)) \in Nat /\ Cardinality(Owing(s, k)) \in Nat
         /\ Cardinality(Granting(s, k)) + Holds(Granting(r, k), h)
              = Cardinality(Granting(r, k)) + Holds(Granting(s, k), h)
         /\ Cardinality(Owing(s, k)) + Holds(Owing(r, k), h)
              = Cardinality(Owing(r, k)) + Holds(Owing(s, k), h)
<1>1. CASE k = "confirm"
  BY <1>1, AtMoves DEF Granting, Owing
<1>2. CASE k # "confirm"
  BY <1>2, AtMoves DEF Granting, Owing
<1> QED
  BY <1>1, <1>2

(* Some handlers come to rest: the counts do not grow, and the second      *)
(* drops when one of those it counts is among them.                        *)
LEMMA CountRests ==
  ASSUME NEW r, NEW s, NEW k \in Permits, NEW G \in SUBSET Handlers,
         \A g \in G : s[g] = Idle, \A g \in Handlers \ G : s[g] = r[g]
  PROVE  /\ Cardinality(Granting(r, k)) \in Nat /\ Cardinality(Granting(s, k)) \in Nat
         /\ Cardinality(Owing(r, k)) \in Nat /\ Cardinality(Owing(s, k)) \in Nat
         /\ Cardinality(Granting(s, k)) <= Cardinality(Granting(r, k))
         /\ Cardinality(Owing(s, k)) <= Cardinality(Owing(r, k))
         /\ G \cap Owing(r, k) # {} => Cardinality(Owing(s, k)) < Cardinality(Owing(r, k))
<1>1. /\ Granting(s, k) \subseteq Granting(r, k) /\ Owing(s, k) \subseteq Owing(r, k)
      /\ Owing(s, k) \cap G = {}
      /\ Granting(r, k) \in SUBSET Handlers /\ Owing(r, k) \in SUBSET Handlers
  BY DEF Granting, Owing, At, Idle
<1>2. IsFiniteSet(Granting(r, k)) /\ IsFiniteSet(Owing(r, k))
  BY <1>1, DialogsAssumption, FS_Subset
<1>3. /\ IsFiniteSet(Granting(s, k)) /\ IsFiniteSet(Owing(s, k))
      /\ Cardinality(Granting(s, k)) <= Cardinality(Granting(r, k))
      /\ Cardinality(Owing(s, k)) <= Cardinality(Owing(r, k))
      /\ Cardinality(Owing(r, k)) = Cardinality(Owing(s, k)) => Owing(r, k) = Owing(s, k)
  BY <1>1, <1>2, FS_Subset
<1>4. /\ Cardinality(Granting(r, k)) \in Nat /\ Cardinality(Granting(s, k)) \in Nat
      /\ Cardinality(Owing(r, k)) \in Nat /\ Cardinality(Owing(s, k)) \in Nat
  BY <1>2, <1>3, FS_CardinalityType
<1>5. ASSUME G \cap Owing(r, k) # {}
      PROVE  Cardinality(Owing(s, k)) < Cardinality(Owing(r, k))
  <2>1. Owing(r, k) # Owing(s, k)
    BY <1>1, <1>5
  <2> QED
    BY <1>3, <1>4, <2>1
<1> QED
  BY <1>3, <1>4, <1>5

-----------------------------------------------------------------------------
(* The budget and the permits.                                             *)

(* A dispatch puts its handler in one count at most.                       *)
LEMMA DispatchCounts ==
  ASSUME TypeInv, NEW h \in Handlers, NEW does, NEW pc, NEW t,
         Dispatch(h, does, pc, t), Begins(does, pc, t), NEW k \in Permits
  PROVE  /\ Cardinality(Granting(run, k)) \in Nat /\ Cardinality(Owing(run, k)) \in Nat
         /\ Cardinality(Granting(run', k)) \in Nat /\ Cardinality(Owing(run', k)) \in Nat
         /\ Cardinality(Granting(run', k)) <= Cardinality(Granting(run, k)) + 1
         /\ Cardinality(Owing(run', k)) =
              Cardinality(Owing(run, k)) + (IF does = k /\ pc \in {"take", "write"} THEN 1 ELSE 0)
         /\ Using(k) => Using(k)'
         /\ does = k /\ pc \in {"take", "write"} => Using(k)' /\ row.state = k
<1>1. /\ run[h] = Idle /\ run'[h] = [does |-> does, pc |-> pc, text |-> t]
      /\ \A g \in Handlers \ {h} : run'[g] = run[g]
  BY DEF Dispatch, TypeInv, Types
<1>2. h \notin Granting(run, k) /\ h \notin Owing(run, k)
  BY <1>1 DEF Granting, Owing, At, Idle
<1>3. h \in Owing(run', k) <=> does = k /\ pc \in {"take", "write"}
  <2>1. run'[h].does = does /\ run'[h].pc = pc
    BY <1>1
  <2>2. CASE k = "confirm"
    <3>1. does = "confirm" => pc \notin {"write", "delete", "reset"}
      BY Words DEF Begins
    <3> QED
      BY <2>1, <2>2, <3>1, Counted
  <2>3. CASE k # "confirm"
    <3>1. pc = "take" => does = "confirm"
      BY DEF Begins
    <3> QED
      BY <2>1, <2>3, <3>1, Counted
  <2> QED
    BY <2>2, <2>3
<1>4. /\ Cardinality(Granting(run, k)) \in Nat /\ Cardinality(Granting(run', k)) \in Nat
      /\ Cardinality(Owing(run, k)) \in Nat /\ Cardinality(Owing(run', k)) \in Nat
      /\ Cardinality(Granting(run', k)) + Holds(Granting(run, k), h)
           = Cardinality(Granting(run, k)) + Holds(Granting(run', k), h)
      /\ Cardinality(Owing(run', k)) + Holds(Owing(run, k), h)
           = Cardinality(Owing(run, k)) + Holds(Owing(run', k), h)
  BY <1>1, CountMoves
<1>5. Cardinality(Granting(run', k)) <= Cardinality(Granting(run, k)) + 1
  BY <1>2, <1>4 DEF Holds
<1>6. Cardinality(Owing(run', k)) =
        Cardinality(Owing(run, k)) + (IF does = k /\ pc \in {"take", "write"} THEN 1 ELSE 0)
  BY <1>2, <1>3, <1>4 DEF Holds
<1>7. Using(k) => Using(k)'
  BY <1>1 DEF Using, Idle
<1>8. does = k /\ pc \in {"take", "write"} => Using(k)' /\ row.state = k
  BY <1>1 DEF Using, Begins
<1> QED
  BY <1>4, <1>5, <1>6, <1>7, <1>8

(* A statement takes a handler out of a count as it writes the log.        *)
LEMMA FollowsCounts ==
  ASSUME TypeInv, NEW h \in Handlers, NEW from \in Steps, NEW to \in Steps,
         Then(h, from, to), Follows(h, from, to), Logs(h, from), NEW k \in Permits
  PROVE  /\ Cardinality(Granting(run, k)) \in Nat /\ Cardinality(Owing(run, k)) \in Nat
         /\ Cardinality(Granting(run', k)) \in Nat /\ Cardinality(Owing(run', k)) \in Nat
         /\ granted'[k] + Cardinality(Granting(run', k)) = granted[k] + Cardinality(Granting(run, k))
         /\ used'[k] + Cardinality(Owing(run', k)) = used[k] + Cardinality(Owing(run, k))
         /\ granted'[k] \in Nat /\ granted'[k] >= granted[k] /\ used'[k] \in Nat
         /\ row'.state = k /\ ~Using(k)' =>
              granted'[k] > granted[k] \/ (row.state = k /\ ~Using(k))
<1>1. /\ run[h].pc = from /\ run' \in [Handlers -> Runs]
      /\ \A g \in Handlers \ {h} : run'[g] = run[g]
      /\ to = "idle" => run'[h] = Idle
      /\ to # "idle" => /\ run'[h].pc = to /\ run'[h].does = run[h].does
      /\ Role(run[h].does, from)
  BY ThenMoves DEF TypeInv, Roles
<1>2. /\ Cardinality(Granting(run, k)) \in Nat /\ Cardinality(Granting(run', k)) \in Nat
      /\ Cardinality(Owing(run, k)) \in Nat /\ Cardinality(Owing(run', k)) \in Nat
      /\ Cardinality(Granting(run', k)) + Holds(Granting(run, k), h)
           = Cardinality(Granting(run, k)) + Holds(Granting(run', k), h)
      /\ Cardinality(Owing(run', k)) + Holds(Owing(run, k), h)
           = Cardinality(Owing(run, k)) + Holds(Owing(run', k), h)
  BY <1>1, CountMoves
<1>3. /\ granted[k] \in Nat /\ used[k] \in Nat
      /\ Plus(granted, run[h].does)[k] = granted[k] + (IF k = run[h].does THEN 1 ELSE 0)
      /\ Plus(granted, "confirm")[k] = granted[k] + (IF k = "confirm" THEN 1 ELSE 0)
      /\ Plus(used, run[h].does)[k] = used[k] + (IF k = run[h].does THEN 1 ELSE 0)
      /\ Plus(used, "confirm")[k] = used[k] + (IF k = "confirm" THEN 1 ELSE 0)
  BY PlusType DEF TypeInv, Types
<1> DEFINE gets == (from = "enter" /\ run[h].does = k) \/ (from = "mark" /\ k = "confirm")
           uses == (from = "write" /\ run[h].does = k)
                     \/ (from = "reset" /\ run[h].does = "confirm" /\ k = "confirm")
<1>4. Holds(Granting(run, k), h) = Holds(Granting(run', k), h) + (IF gets THEN 1 ELSE 0)
  <2>1. CASE k = "confirm"
    <3>1. h \in Granting(run, k) <=> from \in {"merge", "answer", "mark"}
      BY <1>1, <2>1, Counted DEF Role
    <3>2. h \in Granting(run', k) <=> from \in {"merge", "answer"}
      BY <1>1, <2>1, Counted DEF Role, Follows, Idle
    <3>3. gets <=> from = "mark"
      BY <1>1, <2>1, Words DEF Role, Prompts
    <3> QED
      BY <3>1, <3>2, <3>3 DEF Holds
  <2>2. CASE k # "confirm"
    <3>1. h \in Granting(run, k) <=> from = "enter" /\ run[h].does = k
      BY <1>1, <2>2, Counted
    <3>2. h \notin Granting(run', k)
      BY <1>1, <2>2, Counted DEF Follows, Idle
    <3>3. gets <=> from = "enter" /\ run[h].does = k
      BY <2>2
    <3> QED
      BY <3>1, <3>2, <3>3 DEF Holds
  <2> QED
    BY <2>1, <2>2
<1>5. Holds(Owing(run, k), h) = Holds(Owing(run', k), h) + (IF uses THEN 1 ELSE 0)
  <2>1. CASE k = "confirm"
    <3>1. h \in Owing(run, k) <=> run[h].does = "confirm" /\ from \in {"take", "delete", "reset"}
      BY <1>1, <2>1, Counted
    <3>2. h \in Owing(run', k) <=> run[h].does = "confirm" /\ from = "delete"
      <4>1. from = "reply" => run[h].does # "confirm"
        BY <1>1, Words DEF Role
      <4>2. CASE to = "idle"
        BY <1>1, <2>1, <4>2, Counted DEF Follows, Idle
      <4>3. CASE to # "idle"
        <5>1. h \in Owing(run', k) <=> run[h].does = "confirm" /\ to \in {"take", "delete", "reset"}
          BY <1>1, <2>1, <4>3, Counted
        <5>2. to \in {"take", "delete", "reset"} <=> from \in {"reply", "delete"}
          BY <4>3 DEF Follows
        <5> QED
          BY <4>1, <5>1, <5>2
      <4> QED
        BY <4>2, <4>3
    <3>3. from # "take" /\ (run[h].does = "confirm" => from # "write")
      BY <1>1, Words DEF Role, Follows
    <3>4. uses <=> from = "reset" /\ run[h].does = "confirm"
      BY <2>1, <3>3
    <3> QED
      BY <3>1, <3>2, <3>3, <3>4 DEF Holds
  <2>2. CASE k # "confirm"
    <3>1. h \in Owing(run, k) <=> from = "write" /\ run[h].does = k
      BY <1>1, <2>2, Counted
    <3>2. h \notin Owing(run', k)
      BY <1>1, <2>2, Counted DEF Follows, Idle
    <3>3. uses <=> from = "write" /\ run[h].does = k
      BY <2>2
    <3> QED
      BY <3>1, <3>2, <3>3 DEF Holds
  <2> QED
    BY <2>1, <2>2
<1>6. granted'[k] = granted[k] + (IF gets THEN 1 ELSE 0)
  <2>1. CASE from = "enter"
    BY <1>3, <2>1 DEF Logs
  <2>2. CASE from = "mark"
    BY <1>3, <2>2 DEF Logs
  <2>3. CASE from \notin {"enter", "mark"}
    <3>1. granted' = granted /\ ~gets
      BY <2>3 DEF Logs
    <3> QED
      BY <1>3, <3>1
  <2> QED
    BY <2>1, <2>2, <2>3
<1>7. used'[k] = used[k] + (IF uses THEN 1 ELSE 0)
  <2>1. CASE from = "write"
    BY <1>3, <2>1 DEF Logs
  <2>2. CASE from = "reset" /\ run[h].does = "confirm"
    BY <1>3, <2>2 DEF Logs
  <2>3. CASE from # "write" /\ ~(from = "reset" /\ run[h].does = "confirm")
    <3>1. used' = used /\ ~uses
      BY <2>3 DEF Logs
    <3> QED
      BY <1>3, <3>1
  <2> QED
    BY <2>1, <2>2, <2>3
<1>8. ASSUME row'.state = k, ~Using(k)'
      PROVE  gets \/ (row.state = k /\ ~Using(k))
  <2>1. k \in Prompts \cup {"confirm"} /\ k # "" /\ k # "none"
    BY Words DEF Permits, Prompts
  <2>2. CASE from = "enter" \/ from = "mark"
    BY <1>1, <1>8, <2>2, RowTypes DEF Follows, Role, TypeInv
  <2>3. CASE from \notin {"enter", "mark", "delete"}
    <3>1. row.state = k
      <4>1. run[h].text \in 0 .. MaxTexts /\ NoText \in 0 .. MaxTexts
        BY Bounds DEF TypeInv, Types, Runs, NoText
      <4> QED
        BY <1>1, <1>8, <2>1, <2>3, <4>1, RowTypes DEF Follows, TypeInv
    <3>2. ~Using(k)
      BY <1>1, <1>8, <2>3 DEF Follows, Using
    <3> QED
      BY <3>1, <3>2
  <2>4. CASE from = "delete"
    BY <1>8, <2>1, <2>4, RowTypes DEF Follows, TypeInv
  <2> QED
    BY <2>2, <2>3, <2>4
<1> HIDE DEF gets, uses
<1>9. granted'[k] + Cardinality(Granting(run', k)) = granted[k] + Cardinality(Granting(run, k))
  <2>1. Holds(Granting(run, k), h) \in Nat /\ Holds(Granting(run', k), h) \in Nat
    BY DEF Holds
  <2> QED
    BY <1>2, <1>3, <1>4, <1>6, <2>1
<1>10. used'[k] + Cardinality(Owing(run', k)) = used[k] + Cardinality(Owing(run, k))
  <2>1. Holds(Owing(run, k), h) \in Nat /\ Holds(Owing(run', k), h) \in Nat
    BY DEF Holds
  <2> QED
    BY <1>2, <1>3, <1>5, <1>7, <2>1
<1>11. /\ granted'[k] \in Nat /\ granted'[k] >= granted[k] /\ used'[k] \in Nat
       /\ gets => granted'[k] > granted[k]
  BY <1>3, <1>6, <1>7
<1> QED
  BY <1>2, <1>8, <1>9, <1>10, <1>11

(* At the start nothing was entered, used or begun.                        *)
LEMMA CountInit == Init => Budget /\ PermitInv
<1> SUFFICES ASSUME Init PROVE Budget /\ PermitInv
  OBVIOUS
<1>1. ASSUME NEW k \in Permits
      PROVE  /\ granted[k] = 0 /\ used[k] = 0 /\ twins[k] = 0
             /\ Cardinality(Granting(run, k)) = 0 /\ Cardinality(Owing(run, k)) = 0
             /\ row.state # k
  <2>1. Granting(run, k) = {} /\ Owing(run, k) = {}
    BY DEF Init, Granting, Owing, At, Idle
  <2>2. row.state = "none" /\ k # "none"
    BY Words DEF Init, NoRow, Permits
  <2> QED
    BY <2>1, <2>2, FS_EmptySet DEF Init, None
<1>2. texts = 0 /\ presses = 0 /\ faults = 0
  BY DEF Init
<1>3. Budget
  BY <1>1, <1>2 DEF Budget
<1>4. PermitInv
  BY <1>1, <1>2 DEF PermitInv, Spent, Allowed
<1> QED
  BY <1>3, <1>4

(* The logs and the counts are numbers.                                    *)
LEMMA Numbers ==
  ASSUME Types, NEW k \in Permits
  PROVE  /\ granted[k] \in Nat /\ used[k] \in Nat /\ twins[k] \in Nat /\ faults \in Nat
         /\ texts \in Nat /\ presses \in Nat
         /\ Cardinality(Granting(run, k)) \in Nat /\ Cardinality(Owing(run, k)) \in Nat
<1>1. Granting(run, k) \in SUBSET Handlers /\ Owing(run, k) \in SUBSET Handlers
  BY DEF Granting, Owing, At
<1>2. Cardinality(Granting(run, k)) \in Nat /\ Cardinality(Owing(run, k)) \in Nat
  BY <1>1, DialogsAssumption, FS_Subset, FS_CardinalityType
<1> QED
  BY <1>2, Bounds DEF Types

(* An update is paid from the budget, and a second use of a permit before  *)
(* the first has left the state is a twin.                                 *)
LEMMA UpdateCounts ==
  ASSUME TypeInv, Budget, PermitInv, NEW h \in Handlers, Update(h)
  PROVE  Budget' /\ PermitInv'
<1>1. PICK does, pc, t : Dispatch(h, does, pc, t) /\ Begins(does, pc, t)
  BY UpdateBegins DEF TypeInv
<1>2. texts' + presses' = texts + presses + 1
  BY UpdateBegins DEF TypeInv
<1>3. /\ UNCHANGED <<row, faults, granted, used>>
      /\ twins' = IF pc \in {"write", "take"} /\ Using(does) THEN Plus(twins, does) ELSE twins
  BY <1>1 DEF Dispatch
<1>4. ASSUME NEW k \in Permits
      PROVE  /\ granted[k]' + Cardinality(Granting(run, k))' <= texts' + presses'
             /\ used[k]' + Cardinality(Owing(run, k))' <= texts' + presses'
             /\ twins[k]' <= texts' + presses'
             /\ Spent(k)' <= Allowed(k)'
             /\ (row.state = k /\ ~Using(k))' => Spent(k)' < Allowed(k)'
  <2> DEFINE begins == does = k /\ pc \in {"take", "write"}
             G == Cardinality(Granting(run, k))
             O == Cardinality(Owing(run, k))
  <2>1. /\ G \in Nat /\ O \in Nat /\ G' \in Nat /\ O' \in Nat
        /\ G' <= G + 1 /\ O' = O + (IF begins THEN 1 ELSE 0)
        /\ Using(k) => Using(k)'
        /\ begins => Using(k)' /\ row.state = k
    BY <1>1, DispatchCounts
  <2>2. /\ granted[k] \in Nat /\ used[k] \in Nat /\ twins[k] \in Nat /\ faults \in Nat
        /\ texts \in Nat /\ presses \in Nat
    BY Numbers DEF TypeInv
  <2>3. twins'[k] = twins[k] + (IF begins /\ Using(k) THEN 1 ELSE 0)
    BY <1>3, PlusType DEF TypeInv, Types
  <2>4. /\ granted[k] + G <= texts + presses /\ used[k] + O <= texts + presses
        /\ twins[k] <= texts + presses
    BY DEF Budget
  <2>5. Spent(k) <= Allowed(k) /\ (row.state = k /\ ~Using(k) => Spent(k) < Allowed(k))
    BY DEF PermitInv
  <2> HIDE DEF begins, G, O
  <2>6. granted'[k] = granted[k] /\ used'[k] = used[k] /\ faults' = faults /\ row' = row
    BY <1>3
  <2>7. granted'[k] + G' <= texts' + presses' /\ used'[k] + O' <= texts' + presses'
        /\ twins'[k] <= texts' + presses'
    <3>1. /\ O' <= O + 1 /\ twins'[k] <= twins[k] + 1
      BY <2>1, <2>2, <2>3
    <3>2. granted[k] + G' <= texts + presses + 1 /\ used[k] + O' <= texts + presses + 1
          /\ twins'[k] <= texts + presses + 1
      BY <2>1, <2>2, <2>3, <2>4, <3>1
    <3> QED
      BY <1>2, <2>6, <3>2
  <2>8. /\ Spent(k) = used[k] + O /\ Spent(k)' = used'[k] + O'
        /\ Allowed(k) = granted[k] + twins[k] + (IF k = "confirm" THEN 0 ELSE faults)
        /\ Allowed(k)' = granted'[k] + twins'[k] + (IF k = "confirm" THEN 0 ELSE faults')
    BY DEF Spent, Allowed, O
  <2>9. CASE begins /\ Using(k)
    BY <2>1, <2>2, <2>3, <2>5, <2>6, <2>8, <2>9, <2>7 DEF G, O
  <2>10. CASE begins /\ ~Using(k)
    BY <2>1, <2>2, <2>3, <2>5, <2>6, <2>8, <2>10, <2>7 DEF G, O
  <2>11. CASE ~begins
    BY <2>1, <2>2, <2>3, <2>5, <2>6, <2>8, <2>11, <2>7 DEF G, O
  <2> QED
    BY <2>9, <2>10, <2>11
<1> QED
  BY <1>4 DEF Budget, PermitInv

(* A statement spends what was owed, and a state it enters permits one     *)
(* more use.                                                               *)
LEMMA StatementCounts ==
  ASSUME TypeInv, Budget, PermitInv, NEW h \in Handlers, NEW from \in Steps, NEW to \in Steps,
         Then(h, from, to), Follows(h, from, to), Logs(h, from)
  PROVE  Budget' /\ PermitInv'
<1>1. UNCHANGED <<texts, presses, faults, twins>>
  BY DEF Then
<1>2. ASSUME NEW k \in Permits
      PROVE  /\ granted[k]' + Cardinality(Granting(run, k))' <= texts' + presses'
             /\ used[k]' + Cardinality(Owing(run, k))' <= texts' + presses'
             /\ twins[k]' <= texts' + presses'
             /\ Spent(k)' <= Allowed(k)'
             /\ (row.state = k /\ ~Using(k))' => Spent(k)' < Allowed(k)'
  <2>1. /\ granted'[k] + Cardinality(Granting(run', k)) = granted[k] + Cardinality(Granting(run, k))
        /\ used'[k] + Cardinality(Owing(run', k)) = used[k] + Cardinality(Owing(run, k))
        /\ granted'[k] \in Nat /\ granted'[k] >= granted[k]
        /\ row'.state = k /\ ~Using(k)' =>
             granted'[k] > granted[k] \/ (row.state = k /\ ~Using(k))
    BY FollowsCounts
  <2>2. /\ granted[k] + Cardinality(Granting(run, k)) <= texts + presses
        /\ used[k] + Cardinality(Owing(run, k)) <= texts + presses
        /\ twins[k] <= texts + presses
    BY DEF Budget
  <2>3. Spent(k) <= Allowed(k) /\ (row.state = k /\ ~Using(k) => Spent(k) < Allowed(k))
    BY DEF PermitInv
  <2>4. /\ granted[k] \in Nat /\ used[k] \in Nat /\ twins[k] \in Nat /\ faults \in Nat
        /\ Cardinality(Owing(run, k)) \in Nat
    BY Numbers, FollowsCounts DEF TypeInv
  <2>5. Spent(k)' = Spent(k) /\ Spent(k) \in Nat
    BY <2>1, <2>4 DEF Spent
  <2>6. /\ Allowed(k) \in Nat /\ Allowed(k)' \in Nat
        /\ Allowed(k)' - Allowed(k) = granted'[k] - granted[k]
    BY <1>1, <2>1, <2>4 DEF Allowed
  <2>7. Spent(k)' <= Allowed(k)'
    BY <2>1, <2>3, <2>4, <2>5, <2>6
  <2>8. (row.state = k /\ ~Using(k))' => Spent(k)' < Allowed(k)'
    BY <2>1, <2>3, <2>4, <2>5, <2>6
  <2> QED
    BY <1>1, <2>1, <2>2, <2>7, <2>8
<1> QED
  BY <1>2 DEF Budget, PermitInv

(* get_data changes no count.                                              *)
LEMMA TakeCounts ==
  ASSUME TypeInv, Budget, PermitInv, NEW h \in Handlers, Take(h)
  PROVE  Budget' /\ PermitInv'
<1>1. /\ run[h].pc = "take" /\ run[h].does = "confirm"
      /\ run' \in [Handlers -> Runs]
      /\ run'[h].pc = "delete" /\ run'[h].does = "confirm"
      /\ \A g \in Handlers \ {h} : run'[g] = run[g]
      /\ UNCHANGED <<row, texts, presses, faults, history>>
  BY TakeMoves
<1>2. ASSUME NEW k \in Permits
      PROVE  /\ Granting(run', k) = Granting(run, k) /\ Owing(run', k) = Owing(run, k)
             /\ Using(k)' <=> Using(k)
  <2>1. Granting(run', k) = Granting(run, k)
    BY <1>1 DEF Granting, At
  <2>2. Owing(run', k) = Owing(run, k)
    BY <1>1 DEF Owing, At
  <2>3. Using(k)' <=> Using(k)
    BY <1>1 DEF Using
  <2> QED
    BY <2>1, <2>2, <2>3
<1> QED
  BY <1>1, <1>2 DEF Budget, PermitInv, Spent, Allowed, history

(* An exception or a restart while a permit is used leaves one to spare.   *)
LEMMA FaultCounts ==
  ASSUME TypeInv, Budget, PermitInv, (\E h \in Handlers : Raise(h)) \/ Restart
  PROVE  Budget' /\ PermitInv'
<1>1. PICK G \in SUBSET Handlers :
        /\ \A g \in G : run'[g] = Idle
        /\ \A g \in Handlers \ G : run'[g] = run[g]
        /\ run' \in [Handlers -> Runs]
        /\ faults' = faults + 1
        /\ UNCHANGED <<row, texts, presses, history>>
  BY FaultMoves DEF TypeInv
<1>2. UNCHANGED <<row, texts, presses, granted, used, twins>>
  BY <1>1 DEF history
<1>3. ASSUME NEW k \in Permits
      PROVE  /\ granted[k]' + Cardinality(Granting(run, k))' <= texts' + presses'
             /\ used[k]' + Cardinality(Owing(run, k))' <= texts' + presses'
             /\ twins[k]' <= texts' + presses'
             /\ Spent(k)' <= Allowed(k)'
             /\ (row.state = k /\ ~Using(k))' => Spent(k)' < Allowed(k)'
  <2>1. /\ Cardinality(Granting(run, k)) \in Nat /\ Cardinality(Granting(run', k)) \in Nat
        /\ Cardinality(Owing(run, k)) \in Nat /\ Cardinality(Owing(run', k)) \in Nat
        /\ Cardinality(Granting(run', k)) <= Cardinality(Granting(run, k))
        /\ Cardinality(Owing(run', k)) <= Cardinality(Owing(run, k))
        /\ G \cap Owing(run, k) # {} => Cardinality(Owing(run', k)) < Cardinality(Owing(run, k))
    BY <1>1, CountRests
  <2>2. /\ granted[k] + Cardinality(Granting(run, k)) <= texts + presses
        /\ used[k] + Cardinality(Owing(run, k)) <= texts + presses
        /\ twins[k] <= texts + presses
    BY DEF Budget
  <2>3. Spent(k) <= Allowed(k) /\ (row.state = k /\ ~Using(k) => Spent(k) < Allowed(k))
    BY DEF PermitInv
  <2>4. /\ granted[k] \in Nat /\ used[k] \in Nat /\ twins[k] \in Nat /\ faults \in Nat
        /\ texts \in Nat /\ presses \in Nat
    BY Numbers DEF TypeInv
  <2>5. /\ granted[k]' + Cardinality(Granting(run, k))' <= texts' + presses'
        /\ used[k]' + Cardinality(Owing(run, k))' <= texts' + presses'
        /\ twins[k]' <= texts' + presses'
    BY <1>2, <2>1, <2>2, <2>4
  <2>6. Spent(k) \in Nat /\ Spent(k)' \in Nat /\ Spent(k)' <= Spent(k)
    BY <1>2, <2>1, <2>4 DEF Spent
  <2>7. CASE k # "confirm"
    <3>1. Allowed(k)' = Allowed(k) + 1 /\ Allowed(k) \in Nat
      BY <1>1, <1>2, <2>4, <2>7 DEF Allowed
    <3> QED
      BY <2>3, <2>5, <2>6, <3>1
  <2>8. CASE k = "confirm"
    <3>1. Allowed(k)' = Allowed(k) /\ Allowed(k) \in Nat
      BY <1>2, <2>4, <2>8 DEF Allowed
    <3>2. ASSUME row'.state = k, ~Using(k)' PROVE Spent(k)' < Allowed(k)'
      <4>1. CASE Using(k)
        <5>1. PICK h \in Handlers : run[h].does = k /\ run[h].pc \in {"write", "reply", "take", "delete"}
          BY <4>1 DEF Using
        <5>2. h \in G
          BY <1>1, <3>2, <5>1 DEF Using
        <5>3. h \in Owing(run, k)
          BY <2>8, <5>1, Words DEF Owing, At, TypeInv, Roles, Role
        <5>4. Spent(k)' < Spent(k)
          BY <1>2, <2>1, <2>4, <5>2, <5>3 DEF Spent
        <5> QED
          BY <2>3, <2>6, <3>1, <5>4
      <4>2. CASE ~Using(k)
        <5>1. Spent(k) < Allowed(k)
          BY <1>2, <2>3, <3>2, <4>2
        <5> QED
          BY <2>6, <3>1, <5>1
      <4> QED
        BY <4>1, <4>2
    <3>3. Spent(k)' <= Allowed(k)'
      BY <2>3, <2>6, <3>1
    <3> QED
      BY <2>5, <3>2, <3>3
  <2> QED
    BY <2>7, <2>8
<1> QED
  BY <1>3 DEF Budget, PermitInv

(* Every step keeps the budget and the permits.                            *)
LEMMA CountStep == TypeInv /\ Budget /\ PermitInv /\ [Next]_vars => Budget' /\ PermitInv'
<1> SUFFICES ASSUME TypeInv, Budget, PermitInv, [Next]_vars PROVE Budget' /\ PermitInv'
  OBVIOUS
<1>1. CASE \E h \in Handlers : Update(h)
  BY <1>1, UpdateCounts
<1>2. CASE \E h \in Handlers : Statement(h) /\ ~Take(h)
  BY <1>2, StatementFollows, StatementCounts
<1>3. CASE \E h \in Handlers : Take(h)
  BY <1>3, TakeCounts
<1>4. CASE (\E h \in Handlers : Raise(h)) \/ Restart
  BY <1>4, FaultCounts
<1>5. CASE Age \/ Cleanup \/ UNCHANGED vars
  <2>1. /\ UNCHANGED <<run, texts, presses, faults, granted, used, twins>>
        /\ row'.state = row.state \/ row'.state = "none"
    <3>1. CASE Age
      BY <3>1 DEF Age, history, TypeInv, Types, Rows
    <3>2. CASE Cleanup
      BY <3>2, RowTypes DEF Cleanup, history, TypeInv
    <3>3. CASE UNCHANGED vars
      BY <3>3 DEF vars, history
    <3> QED
      BY <1>5, <3>1, <3>2, <3>3
  <2>2. Budget'
    BY <2>1 DEF Budget
  <2>3. \A k \in Permits : k # "none"
    BY Words DEF Permits
  <2>4. \A k \in Permits : Using(k)' <=> Using(k)
    BY <2>1 DEF Using
  <2>5. PermitInv'
    BY <2>1, <2>3, <2>4 DEF PermitInv, Spent, Allowed
  <2> QED
    BY <2>2, <2>5
<1> QED
  BY <1>1, <1>2, <1>3, <1>4, <1>5 DEF Next, Statement

-----------------------------------------------------------------------------
(* What was shown.                                                         *)

(* What ShownInv says of one handler.                                      *)
Knows(h) ==
  /\ run[h].pc \in {"merge", "answer", "reset"} => row.state # "confirm"
  /\ run[h].pc = "answer" => row.text = run[h].text
  /\ run[h].pc \in {"mark", "take"} => row.text \in shown
  /\ run[h].pc \in {"delete", "reset", "send"} /\ run[h].does = "confirm" => run[h].text \in shown

(* A handler that has left the conversation only remembers its text.       *)
LEMMA LeftKnows ==
  ASSUME NEW g \in Handlers, ~crossed, ShownInv, run[g].pc \in {"idle", "send"},
         run'[g] = run[g], shown \subseteq shown'
  PROVE  Knows(g)'
<1>1. Knows(g)
  BY DEF ShownInv, Knows
<1> QED
  BY <1>1 DEF Knows

(* When a conversation is empty again there is nothing to know.            *)
LEMMA FreshShown == Fresh => ShownInv'
<1> SUFFICES ASSUME Fresh PROVE ShownInv'
  OBVIOUS
<1>1. \A h \in Handlers : run'[h] = Idle
  BY DEF Fresh
<1>2. row'.state # "confirm"
  BY DEF Fresh
<1>3. Busy' = {}
  BY <1>1 DEF Busy, Idle
<1> QED
  BY <1>1, <1>2, <1>3 DEF ShownInv, Alone, Idle

(* The first update of a conversation starts from what was shown before.   *)
LEMMA UpdateShown ==
  ASSUME TypeInv, ShownInv, NEW h \in Handlers, Update(h)
  PROVE  ShownInv'
<1>1. PICK does, pc, t : Dispatch(h, does, pc, t) /\ Begins(does, pc, t)
  BY UpdateBegins DEF TypeInv
<1>2. CASE crossed'
  BY <1>2 DEF ShownInv
<1>3. CASE ~crossed'
  <2>1. /\ ~crossed /\ Busy = {} /\ row' = row /\ shown' = shown
        /\ run'[h] = [does |-> does, pc |-> pc, text |-> t]
        /\ \A g \in Handlers \ {h} : run'[g] = run[g]
    BY <1>1, <1>3 DEF Dispatch, TypeInv, Types
  <2>2. \A g \in Handlers : run[g].pc \in {"idle", "send"}
    BY <2>1 DEF Busy
  <2>3. Alone'
    <3>1. \A g \in Busy' : g = h
      BY <2>1, <2>2 DEF Busy
    <3> QED
      BY <3>1 DEF Alone
  <2>4. row.state = "confirm" => row.text \in shown
    BY <2>1 DEF ShownInv
  <2>5. Knows(h)'
    <3>1. Begins(does, pc, t)
      BY <1>1
    <3>2. /\ pc \notin {"answer", "reset", "mark", "send"}
          /\ pc = "merge" => row.state # "confirm"
          /\ pc = "take" => row.state = "confirm"
          /\ pc = "delete" => does # "confirm"
      BY <3>1 DEF Begins
    <3>3. run'[h].pc = pc /\ run'[h].does = does /\ run'[h].text = t
      BY <2>1
    <3> QED
      BY <2>1, <2>4, <3>2, <3>3 DEF Knows
  <2>6. \A g \in Handlers \ {h} : Knows(g)'
    BY <2>1, <2>2, LeftKnows
  <2> QED
    BY <2>1, <2>3, <2>4, <2>5, <2>6 DEF ShownInv, Knows
<1> QED
  BY <1>2, <1>3

(* A statement of the only handler at work.                                *)
LEMMA StatementShown ==
  ASSUME TypeInv, ShownInv, NEW h \in Handlers, NEW from \in Steps, NEW to \in Steps,
         Then(h, from, to), Follows(h, from, to), Logs(h, from), ~crossed
  PROVE  ShownInv'
<1>1. /\ run[h].pc = from /\ run' \in [Handlers -> Runs]
      /\ \A g \in Handlers \ {h} : run'[g] = run[g]
      /\ to = "idle" => run'[h] = Idle
      /\ to # "idle" => /\ run'[h].pc = to /\ run'[h].does = run[h].does
                        /\ run'[h].text = run[h].text
      /\ Role(run[h].does, from)
  BY ThenMoves DEF TypeInv, Roles
<1>2. shown \subseteq shown' /\ (from = "answer" => run[h].text \in shown')
  BY DEF Logs
<1>3. Knows(h) /\ Alone /\ (row.state = "confirm" => row.text \in shown)
  BY DEF ShownInv, Knows
<1>4. from # "idle" /\ from # "take"
  BY DEF Follows
<1>5. Alone'
  <2>1. \A g \in Busy' : g \in Busy
    BY <1>1, <1>4 DEF Busy, Follows, Idle
  <2> QED
    BY <1>3, <2>1 DEF Alone
<1>6. run[h].text \in 0 .. MaxTexts /\ NoText \in 0 .. MaxTexts
  BY Bounds DEF TypeInv, Types, Runs, NoText
<1>7. row'.state = "confirm" => row'.text \in shown'
  <2>1. CASE from = "enter"
    <3>1. run[h].does \in Prompts /\ run[h].does # "confirm"
      BY <1>1, <2>1, Words DEF Role, Prompts
    <3> QED
      BY <2>1, <3>1, RowTypes DEF Follows, TypeInv
  <2>2. CASE from = "mark"
    BY <1>1, <1>2, <1>3, <2>2, RowTypes DEF Follows, TypeInv, Knows
  <2>3. CASE from \in {"merge", "reset"}
    <3>1. row.state # "confirm"
      BY <1>1, <1>3, <2>3 DEF Knows
    <3>2. row'.state = IF row.state = "none" THEN "" ELSE row.state
      BY <1>6, <2>3, RowTypes DEF Follows, TypeInv
    <3> QED
      BY <3>1, <3>2
  <2>4. CASE from = "delete"
    BY <2>4, RowTypes DEF Follows, TypeInv
  <2>5. CASE from \in {"answer", "write", "reply", "send"}
    <3>1. row' = row
      BY <2>5 DEF Follows
    <3> QED
      BY <1>2, <1>3, <3>1
  <2> QED
    BY <2>1, <2>2, <2>3, <2>4, <2>5 DEF Follows
<1>8. Knows(h)'
  <2>1. CASE to = "idle"
    BY <1>1, <2>1 DEF Knows, Idle
  <2>2. CASE to = "answer"
    <3>1. from = "merge" /\ SetData(run[h].text)
      BY <2>2 DEF Follows
    <3>2. row.state # "confirm"
      BY <1>1, <1>3, <3>1 DEF Knows
    <3>3. row'.text = run[h].text /\ row'.state # "confirm"
      <4>1. /\ row'.text = run[h].text
            /\ row'.state = IF row.state = "none" THEN "" ELSE row.state
        BY <1>6, <3>1, RowTypes DEF TypeInv
      <4> QED
        BY <3>2, <4>1
    <3> QED
      BY <1>1, <2>2, <3>3 DEF Knows
  <2>3. CASE to = "mark"
    <3>1. from = "answer" /\ row' = row
      BY <2>3 DEF Follows
    <3>2. row.text = run[h].text
      BY <1>1, <1>3, <3>1 DEF Knows
    <3> QED
      BY <1>1, <1>2, <2>3, <3>1, <3>2 DEF Knows
  <2>4. CASE to = "reply"
    BY <1>1, <2>4 DEF Knows
  <2>5. CASE to = "delete"
    <3>1. run[h].does # "confirm"
      BY <1>1, <2>5, Words DEF Follows, Role
    <3> QED
      BY <1>1, <2>5, <3>1 DEF Knows
  <2>6. CASE to = "reset"
    <3>1. from = "delete" /\ RemoveState
      BY <2>6 DEF Follows
    <3>2. row'.state # "confirm"
      BY <3>1, RowTypes DEF TypeInv
    <3>3. run[h].does = "confirm" => run[h].text \in shown
      BY <1>1, <1>3, <3>1 DEF Knows
    <3> QED
      BY <1>1, <1>2, <2>6, <3>2, <3>3 DEF Knows
  <2>7. CASE to = "send"
    <3>1. from = "reset" /\ run[h].does = "confirm"
      BY <2>7 DEF Follows
    <3>2. run[h].text \in shown
      BY <1>1, <1>3, <3>1 DEF Knows
    <3> QED
      BY <1>1, <1>2, <2>7, <3>2 DEF Knows
  <2> QED
    BY <2>1, <2>2, <2>3, <2>4, <2>5, <2>6, <2>7 DEF Follows
<1>9. \A g \in Handlers \ {h} : Knows(g)'
  <2>1. CASE from = "send"
    <3>1. row' = row
      BY <2>1 DEF Follows
    <3>2. \A g \in Handlers : Knows(g)
      BY DEF ShownInv, Knows
    <3> QED
      BY <1>1, <1>2, <3>1, <3>2 DEF Knows
  <2>2. CASE from # "send"
    <3>1. h \in Busy
      BY <1>1, <1>4, <2>2 DEF Busy
    <3>2. \A g \in Handlers \ {h} : run[g].pc \in {"idle", "send"}
      BY <1>3, <3>1 DEF Alone, Busy
    <3> QED
      BY <1>1, <1>2, <3>2, LeftKnows
  <2> QED
    BY <2>1, <2>2
<1> QED
  BY <1>5, <1>7, <1>8, <1>9 DEF ShownInv, Knows

(* get_data reads a text that was shown.                                   *)
LEMMA TakeShown ==
  ASSUME TypeInv, ShownInv, NEW h \in Handlers, Take(h), ~crossed
  PROVE  ShownInv'
<1>1. /\ run[h].pc = "take"
      /\ run'[h].pc = "delete" /\ run'[h].does = "confirm" /\ run'[h].text = row.text
      /\ \A g \in Handlers \ {h} : run'[g] = run[g]
      /\ row' = row /\ shown' = shown
  BY TakeMoves DEF history
<1>2. Knows(h) /\ Alone /\ (row.state = "confirm" => row.text \in shown)
  BY DEF ShownInv, Knows
<1>3. Alone'
  <2>1. \A g \in Busy' : g \in Busy
    BY <1>1 DEF Busy
  <2> QED
    BY <1>2, <2>1 DEF Alone
<1>4. Knows(h)'
  BY <1>1, <1>2 DEF Knows
<1>5. \A g \in Handlers \ {h} : Knows(g)'
  <2>1. h \in Busy
    BY <1>1 DEF Busy
  <2>2. \A g \in Handlers \ {h} : run[g].pc \in {"idle", "send"}
    BY <1>2, <2>1 DEF Alone, Busy
  <2> QED
    BY <1>1, <2>2, LeftKnows
<1> QED
  BY <1>1, <1>2, <1>3, <1>4, <1>5 DEF ShownInv, Knows

(* Every step keeps what is known of the texts.                            *)
LEMMA ShownStep == TypeInv /\ ShownInv /\ [Next]_vars => ShownInv'
<1> SUFFICES ASSUME TypeInv, ShownInv, [Next]_vars PROVE ShownInv'
  OBVIOUS
<1>0. ASSUME Settle, crossed PROVE ShownInv'
  <2>1. CASE Fresh
    BY <2>1, FreshShown
  <2>2. CASE ~Fresh
    BY <1>0, <2>2 DEF Settle, ShownInv
  <2> QED
    BY <2>1, <2>2
<1>1. CASE \E h \in Handlers : Update(h)
  BY <1>1, UpdateShown
<1>2. CASE \E h \in Handlers : Statement(h) /\ ~Take(h)
  BY <1>0, <1>2, StatementFollows, StatementShown
<1>3. CASE \E h \in Handlers : Take(h)
  BY <1>0, <1>3, TakeMoves, TakeShown
<1>4. CASE (\E h \in Handlers : Raise(h)) \/ Restart
  <2>1. PICK G \in SUBSET Handlers :
          /\ \A g \in G : run'[g] = Idle
          /\ \A g \in Handlers \ G : run'[g] = run[g]
          /\ UNCHANGED <<row, texts, presses, history>> /\ Settle
    BY <1>4, FaultMoves DEF TypeInv
  <2>2. CASE ~crossed
    <3>1. Alone /\ \A h \in Handlers : Knows(h)
      BY <2>2 DEF ShownInv, Knows
    <3>2. row' = row /\ shown' = shown
      BY <2>1 DEF history
    <3>3. Alone'
      <4>1. \A g \in Busy' : g \in Busy
        BY <2>1 DEF Busy, Idle
      <4> QED
        BY <3>1, <4>1 DEF Alone
    <3>4. ASSUME NEW g \in Handlers PROVE Knows(g)'
      <4>1. CASE g \in G
        BY <2>1, <4>1 DEF Knows, Idle
      <4>2. CASE g \notin G
        BY <2>1, <3>1, <3>2, <4>2 DEF Knows
      <4> QED
        BY <4>1, <4>2
    <3> QED
      BY <2>2, <3>2, <3>3, <3>4 DEF ShownInv, Knows
  <2> QED
    BY <1>0, <2>1, <2>2
<1>5. CASE Age
  <2>1. /\ row'.state = row.state /\ row'.text = row.text
        /\ UNCHANGED <<run, shown, crossed>>
    BY <1>5 DEF Age, history, TypeInv, Types, Rows
  <2> QED
    BY <2>1 DEF ShownInv, Alone, Busy
<1>6. CASE Cleanup
  <2>1. CASE crossed'
    BY <2>1 DEF ShownInv
  <2>2. CASE ~crossed'
    <3>1. /\ ~crossed /\ Busy = {} /\ row'.state # "confirm" /\ UNCHANGED <<run, shown>>
      BY <1>6, <2>2, RowTypes DEF Cleanup, history, TypeInv
    <3>2. \A g \in Handlers : run[g].pc \in {"idle", "send"} /\ run'[g] = run[g]
      BY <3>1 DEF Busy
    <3>3. \A g \in Handlers : Knows(g)'
      BY <3>1, <3>2, LeftKnows
    <3>4. Alone'
      BY <3>1 DEF Alone, Busy
    <3> QED
      BY <3>1, <3>3, <3>4 DEF ShownInv, Knows
  <2> QED
    BY <2>1, <2>2
<1>7. CASE UNCHANGED vars
  BY <1>7 DEF vars, history, ShownInv, Alone, Busy
<1> QED
  BY <1>1, <1>2, <1>3, <1>4, <1>5, <1>6, <1>7 DEF Next, Statement

-----------------------------------------------------------------------------
(* The theorems.                                                           *)

(* The invariant holds throughout.                                         *)
LEMMA AlwaysIInv == Spec => []IInv
<1>1. Init => IInv
  <2>1. Init => ShownInv
    BY DEF Init, ShownInv, Alone, Busy, Idle, NoRow
  <2> QED
    BY <2>1, TypeInit, CountInit DEF IInv
<1>2. IInv /\ [Next]_vars => IInv'
  BY TypeStep, CountStep, ShownStep DEF IInv
<1> QED
  BY <1>1, <1>2, PTL DEF Spec

(* Every variable has its type; no log outgrows the updates there were.    *)
THEOREM TypeCorrect == Spec => []TypeOK
<1>1. IInv => TypeOK
  <2> SUFFICES ASSUME IInv PROVE TypeOK
    OBVIOUS
  <2>1. Types /\ Budget
    BY DEF IInv, TypeInv
  <2>2. ASSUME NEW k \in Permits
        PROVE  /\ granted[k] \in 0 .. MaxTexts + MaxPresses
               /\ used[k] \in 0 .. MaxTexts + MaxPresses
               /\ twins[k] \in 0 .. MaxTexts + MaxPresses
    <3>1. /\ granted[k] + Cardinality(Granting(run, k)) <= texts + presses
          /\ used[k] + Cardinality(Owing(run, k)) <= texts + presses
          /\ twins[k] <= texts + presses
      BY <2>1 DEF Budget
    <3>2. Cardinality(Granting(run, k)) \in Nat /\ Cardinality(Owing(run, k)) \in Nat
      BY <2>1, Numbers
    <3>3. /\ texts \in 0 .. MaxTexts /\ presses \in 0 .. MaxPresses
          /\ MaxTexts \in Nat /\ MaxPresses \in Nat
      BY <2>1, Bounds DEF Types
    <3>4. granted[k] \in Nat /\ used[k] \in Nat /\ twins[k] \in Nat
      BY <2>1 DEF Types
    <3> QED
      BY <3>1, <3>2, <3>3, <3>4
  <2>3. /\ granted \in [Permits -> 0 .. MaxTexts + MaxPresses]
        /\ used \in [Permits -> 0 .. MaxTexts + MaxPresses]
        /\ twins \in [Permits -> 0 .. MaxTexts + MaxPresses]
    BY <2>1, <2>2 DEF Types
  <2> QED
    BY <2>1, <2>3 DEF Types, TypeOK, Rows, Runs
<1> QED
  BY <1>1, AlwaysIInv, PTL

(* A preview is broadcast once per confirmation that found the state: for  *)
(* any number of handlers, failures and restarts (cb_broadcast_confirm).   *)
THEOREM OncePerPreviewAlways == Spec => []OncePerPreview
<1>1. IInv => OncePerPreview
  <2> SUFFICES ASSUME IInv PROVE OncePerPreview
    OBVIOUS
  <2>1. "confirm" \in Permits
    BY Words
  <2>2. Spent("confirm") <= Allowed("confirm")
    BY <2>1 DEF IInv, PermitInv
  <2>3. /\ Cardinality(Owing(run, "confirm")) \in Nat /\ used["confirm"] \in Nat
        /\ granted["confirm"] \in Nat /\ twins["confirm"] \in Nat
    BY <2>1, Numbers DEF IInv, TypeInv
  <2>4. /\ Spent("confirm") = used["confirm"] + Cardinality(Owing(run, "confirm"))
        /\ Allowed("confirm") = granted["confirm"] + twins["confirm"]
    BY <2>3 DEF Spent, Allowed
  <2> QED
    BY <2>2, <2>3, <2>4 DEF OncePerPreview
<1> QED
  BY <1>1, AlwaysIInv, PTL

(* A prompt is good for one setting, a late twin and a fault apart         *)
(* (do_set_details, do_set_amount).                                        *)
THEOREM OncePerPromptAlways == Spec => []OncePerPrompt
<1>1. IInv => OncePerPrompt
  <2> SUFFICES ASSUME IInv, NEW s \in Settings PROVE used[s] <= granted[s] + twins[s] + faults
    BY DEF OncePerPrompt
  <2>1. s \in Permits /\ s # "confirm"
    BY Words
  <2>2. Spent(s) <= Allowed(s)
    BY <2>1 DEF IInv, PermitInv
  <2>3. /\ Cardinality(Owing(run, s)) \in Nat /\ used[s] \in Nat
        /\ granted[s] \in Nat /\ twins[s] \in Nat /\ faults \in Nat
    BY <2>1, Numbers DEF IInv, TypeInv
  <2>4. /\ Spent(s) = used[s] + Cardinality(Owing(run, s))
        /\ Allowed(s) = granted[s] + twins[s] + faults
    BY <2>1 DEF Spent, Allowed
  <2> QED
    BY <2>2, <2>3, <2>4
<1> QED
  BY <1>1, AlwaysIInv, PTL

(* What handlers that did not overlap broadcast had been previewed.        *)
THEOREM SentWasPreviewedAlways == Spec => []SentWasPreviewed
<1>1. IInv => SentWasPreviewed
  BY DEF IInv, TypeInv, Roles, Role, ShownInv, SentWasPreviewed
<1> QED
  BY <1>1, AlwaysIInv, PTL
=============================================================================
