------------------------------ MODULE Dialogs ------------------------------
(***************************************************************************)
(* The conversation of one administrator: the row SQLiteStorage            *)
(* (core/fsm_storage.py) keeps for it and the handlers of admin.py that    *)
(* read and write it.  An update is given to a handler by the state read   *)
(* when it arrives; handlers run as tasks of their own and may overlap,    *)
(* and every statement on the row is a step.  A row survives a restart.    *)
(*                                                                         *)
(* The data of a conversation has one key, broadcast_text: what            *)
(* update_data reads before it writes is always replaced.                  *)
(***************************************************************************)
EXTENDS Naturals, FiniteSets

CONSTANTS
  Handlers,   \* handlers at work at once
  Settings,   \* waiting_payment_details, waiting_payment_amount
  MaxTexts,   \* bound on the messages the administrator writes
  MaxPresses, \* bound on the buttons pressed
  MaxFaults   \* bound on the exceptions and restarts

ASSUME DialogsAssumption ==
  /\ IsFiniteSet(Handlers)
  /\ Settings \cap {"none", "", "broadcast", "preview", "confirm", "clear"} = {}
  /\ MaxTexts \in Nat /\ MaxPresses \in Nat /\ MaxFaults \in Nat

VARIABLES
  row,      \* the row of fsm_states: its state, text, and whether 48 h passed
  run,      \* the handlers at work
  texts,    \* messages written so far; a text is its number
  presses,  \* buttons pressed so far
  faults,   \* exceptions and restarts so far
  shown,    \* texts whose preview reached the administrator (history)
  granted,  \* times a state that permits something was entered (history)
  used,     \* times it was made use of: a broadcast, a setting (history)
  twins,    \* uses begun before an earlier one had left the state (history)
  crossed   \* handlers overlapped since the conversation was last empty

history == <<shown, granted, used, twins>>
vars == <<row, run, texts, presses, faults, shown, granted, used, twins, crossed>>

NoText == 0
NoRow == [state |-> "none", text |-> NoText, old |-> FALSE]
Idle == [does |-> "none", pc |-> "idle", text |-> NoText]

Prompts == {"broadcast"} \cup Settings
Permits == {"confirm"} \cup Settings
Steps == {"idle", "enter", "merge", "answer", "mark", "write", "reply",
          "take", "delete", "reset", "send"}

TypeOK ==
  /\ row \in [state : {"none", "", "confirm"} \cup Prompts, text : 0 .. MaxTexts,
              old : BOOLEAN]
  /\ run \in [Handlers -> [does : {"none", "preview", "confirm", "clear"} \cup Prompts,
                           pc : Steps, text : 0 .. MaxTexts]]
  /\ texts \in 0 .. MaxTexts /\ presses \in 0 .. MaxPresses /\ faults \in 0 .. MaxFaults
  /\ shown \subseteq 1 .. texts
  /\ {granted, used, twins} \subseteq [Permits -> 0 .. MaxTexts + MaxPresses]
  /\ crossed \in BOOLEAN
  /\ row.state = "none" => row = NoRow

None == [k \in Permits |-> 0]

Init ==
  /\ row = NoRow /\ run = [h \in Handlers |-> Idle]
  /\ texts = 0 /\ presses = 0 /\ faults = 0
  /\ shown = {} /\ granted = None /\ used = None /\ twins = None
  /\ crossed = FALSE

-----------------------------------------------------------------------------
(* The storage.                                                            *)

SetState(st) == row' = [row EXCEPT !.state = st, !.old = FALSE]
SetData(t) ==
  row' = [row EXCEPT !.state = IF @ = "none" THEN "" ELSE @, !.text = t, !.old = FALSE]

(* Mutant: only the state is emptied. *)
RemoveStateOnly == row' = [row EXCEPT !.state = "none"]

RemoveState == row' = NoRow

-----------------------------------------------------------------------------
Plus(log, k) == IF k \in Permits THEN [log EXCEPT ![k] = @ + 1] ELSE log

(* The handlers that have not left the conversation yet. *)
Busy == {h \in Handlers : run[h].pc \notin {"idle", "send"}}

(* A handler that makes use of k and has not removed the state yet.        *)
Using(k) ==
  \E h \in Handlers : run[h].does = k /\ run[h].pc \in {"write", "reply", "take", "delete"}

Dispatch(h, does, pc, t) ==
  /\ run[h] = Idle
  /\ run' = [run EXCEPT ![h] = [does |-> does, pc |-> pc, text |-> t]]
  /\ twins' = IF pc \in {"write", "take"} /\ Using(does) THEN Plus(twins, does) ELSE twins
  /\ crossed' = (crossed \/ Busy # {})
  /\ UNCHANGED <<row, faults, shown, granted, used>>

Press == presses < MaxPresses /\ presses' = presses + 1 /\ UNCHANGED texts

(* cb_broadcast, cb_set_details, cb_set_amount *)
Ask(h) == Press /\ \E st \in Prompts : Dispatch(h, st, "enter", NoText)

(* cb_broadcast_confirm; its button is on the previews. *)
Confirm(h) ==
  /\ row.state = "confirm" /\ shown # {}
  /\ Press /\ Dispatch(h, "confirm", "take", NoText)

(* cb_broadcast_cancel, and cb_back_admin, cb_back_to_menu and cmd_start,  *)
(* which look at no state.                                                 *)
Leave(h) == Press /\ Dispatch(h, "clear", "delete", NoText)

(* do_broadcast_preview, do_set_details, do_set_amount; a message in any   *)
(* other state has no handler.                                             *)
Write(h) ==
  /\ texts < MaxTexts /\ texts' = texts + 1 /\ UNCHANGED presses
  /\ \/ row.state = "broadcast" /\ Dispatch(h, "preview", "merge", texts + 1)
     \/ row.state \in Settings /\ Dispatch(h, row.state, "write", texts + 1)

-----------------------------------------------------------------------------
(* One statement of a handler, and the statement after it. *)
Then(h, from, to) ==
  /\ run[h].pc = from
  /\ run' = [run EXCEPT ![h] = IF to = "idle" THEN Idle ELSE [@ EXCEPT !.pc = to]]
  /\ UNCHANGED <<texts, presses, faults, twins>>

Fresh == row'.state \in {"none", ""} /\ row'.text = NoText /\ run' = [h \in Handlers |-> Idle]
Settle == crossed' = (crossed /\ ~Fresh)

Enter(h) ==
  /\ Then(h, "enter", "idle") /\ SetState(run[h].does)
  /\ granted' = Plus(granted, run[h].does)
  /\ UNCHANGED <<shown, used>> /\ Settle

(* Mutant: the state is entered before the preview is sent. *)
MergeMarks(h) ==
  /\ Then(h, "merge", "answer")
  /\ row' = [state |-> "confirm", text |-> run[h].text, old |-> FALSE]
  /\ UNCHANGED <<shown, granted, used>> /\ Settle

(* update_data of do_broadcast_preview. *)
Merge(h) ==
  /\ Then(h, "merge", "answer") /\ SetData(run[h].text)
  /\ UNCHANGED <<shown, granted, used>> /\ Settle

Answer(h) ==
  /\ Then(h, "answer", "mark")
  /\ shown' = shown \cup {run[h].text}
  /\ UNCHANGED <<row, granted, used>> /\ Settle

Mark(h) ==
  /\ Then(h, "mark", "idle") /\ SetState("confirm")
  /\ granted' = Plus(granted, "confirm")
  /\ UNCHANGED <<shown, used>> /\ Settle

(* set_setting. *)
Store(h) ==
  /\ Then(h, "write", "reply")
  /\ used' = Plus(used, run[h].does)
  /\ UNCHANGED <<row, shown, granted>> /\ Settle

(* Mutant: a setting handler ends without state.clear(). *)
ReplyEnds(h) == Then(h, "reply", "idle") /\ UNCHANGED <<row, shown, granted, used>> /\ Settle

Reply(h) == Then(h, "reply", "delete") /\ UNCHANGED <<row, shown, granted, used>> /\ Settle

(* Mutant: the broadcast is sent without state.clear(). *)
TakeSends(h) ==
  /\ run[h].pc = "take"
  /\ run' = [run EXCEPT ![h].text = row.text, ![h].pc = "send"]
  /\ used' = Plus(used, "confirm")
  /\ UNCHANGED <<row, texts, presses, faults, shown, granted, twins>> /\ Settle

(* get_data of cb_broadcast_confirm. *)
Take(h) ==
  /\ run[h].pc = "take"
  /\ run' = [run EXCEPT ![h].text = row.text, ![h].pc = "delete"]
  /\ UNCHANGED <<row, texts, presses, faults, history>> /\ Settle

(* state.clear(): set_state(None), then set_data({}). *)
Delete(h) ==
  /\ Then(h, "delete", "reset") /\ RemoveState
  /\ UNCHANGED <<shown, granted, used>> /\ Settle

(* The broadcast goes to every user in turn, whatever befalls one of them. *)
Reset(h) ==
  /\ LET casts == run[h].does = "confirm" IN
       /\ Then(h, "reset", IF casts THEN "send" ELSE "idle")
       /\ used' = IF casts THEN Plus(used, "confirm") ELSE used
  /\ SetData(NoText)
  /\ UNCHANGED <<shown, granted>> /\ Settle

Sent(h) == Then(h, "send", "idle") /\ UNCHANGED <<row, shown, granted, used>> /\ Settle

-----------------------------------------------------------------------------
(* A handler raises at its next statement: a text is not valid HTML, the   *)
(* database is locked.                                                     *)
Raise(h) ==
  /\ run[h] # Idle /\ run' = [run EXCEPT ![h] = Idle]
  /\ faults < MaxFaults /\ faults' = faults + 1
  /\ UNCHANGED <<row, texts, presses, history>> /\ Settle

Restart ==
  /\ faults < MaxFaults /\ faults' = faults + 1
  /\ run' = [h \in Handlers |-> Idle]
  /\ UNCHANGED <<row, texts, presses, history>> /\ Settle

(* 48 hours without a statement on the row. *)
Age ==
  /\ row # NoRow /\ ~row.old /\ Busy = {}
  /\ row' = [row EXCEPT !.old = TRUE]
  /\ UNCHANGED <<run, texts, presses, faults, history, crossed>>

(* cleanup_fsm_states, every night. *)
Cleanup ==
  /\ row.old /\ RemoveState
  /\ crossed' = (crossed \/ Busy # {})
  /\ UNCHANGED <<run, texts, presses, faults, history>>

Update(h) == Ask(h) \/ Confirm(h) \/ Leave(h) \/ Write(h)
Statement(h) ==
  \/ Enter(h) \/ Merge(h) \/ Answer(h) \/ Mark(h) \/ Store(h) \/ Reply(h)
  \/ Take(h) \/ Delete(h) \/ Reset(h) \/ Sent(h)

Next ==
  \/ \E h \in Handlers : Update(h) \/ Statement(h) \/ Raise(h)
  \/ Restart \/ Age \/ Cleanup

Spec == Init /\ [][Next]_vars

-----------------------------------------------------------------------------
(* A preview is confirmed once: however handlers overlap, fail or are cut  *)
(* off, there are at most as many broadcasts as there were previews to     *)
(* confirm and confirmations that arrived before an earlier one had left   *)
(* the state.  (cb_broadcast_confirm leaves it before it sends.)           *)
OncePerPreview == used["confirm"] <= granted["confirm"] + twins["confirm"]

(* A setting is overwritten once per prompt, but for messages that arrived *)
(* before an earlier one had left the state and handlers that failed after *)
(* they wrote: then the administrator's next message becomes the setting.  *)
OncePerPrompt == \A s \in Settings : used[s] <= granted[s] + twins[s] + faults

(* Handlers that ran one after the other broadcast only what was previewed *)
(* to the administrator, whatever failed, restarted or lapsed in between.  *)
SentWasPreviewed ==
  \A h \in Handlers : run[h].pc = "send" /\ ~crossed => run[h].text \in shown
=============================================================================
