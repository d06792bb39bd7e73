------------------------ MODULE MtprotoSidecarProofs ------------------------
(***************************************************************************)
(* The safety of the MTProto sidecar for any number of secrets, and that   *)
(* it implements the table its client relies on.                           *)
(***************************************************************************)
EXTENDS MtprotoSidecar, WellFoundedInduction, TLAPS

(* Where a handler stands: what it has already written agrees with the     *)
(* table, for no other request changed the table meanwhile.                *)
StepInv ==
  /\ request.step # "none" => up
  /\ request.step \in {"sync", "reload"} => file = secrets /\ ~torn
  /\ request.step = "reload" => toml = Enabled(secrets)

(* A revoked secret is enabled neither in memory nor in the file a restart *)
(* would load.                                                             *)
RevokedInv == \A i \in Ids : Revoked(i) => secrets[i] # "on" /\ file[i] # "on"

(* A file that parses, and that no torn one preceded, agrees with every    *)
(* answer.                                                                 *)
FileInv == ~lost /\ ~torn => \A i \in Ids : told[i] \in {"unsure", file[i]}

IInv ==
  /\ TypeOK /\ StepInv /\ CounterCovers /\ RevokedInv /\ FileInv
  /\ AnswersStand /\ RevokedSilent /\ GrantedServed

-----------------------------------------------------------------------------
(* All invariants hold before the first start. *)
LEMMA InitIInv == Init => IInv
  <1> SUFFICES ASSUME Init PROVE IInv
    OBVIOUS
  <1> USE SidecarAssumption DEF Init, Ids, NoSecrets, NoRequest, Live
  <1>1. TypeOK
    <2>1. NoSecrets \in [Ids -> Status] /\ NoSecrets \in [Ids -> Status \cup {"unsure"}]
      BY DEF Status
    <2>2. NoRequest \in [step : {"none", "save", "sync", "reload"}, id : Ids \cup {0}]
      OBVIOUS
    <2>3. counter \in 0 .. MaxIds
      OBVIOUS
    <2> QED
      BY <2>1, <2>2, <2>3 DEF TypeOK
  <1>2. StepInv /\ CounterCovers /\ RevokedInv /\ FileInv
    BY DEF StepInv, CounterCovers, RevokedInv, FileInv
  <1>3. AnswersStand /\ RevokedSilent /\ GrantedServed
    BY DEF AnswersStand, RevokedSilent, GrantedServed, Revoked
  <1> QED
    BY <1>1, <1>2, <1>3 DEF IInv

(* The change of one entry of the table, which all four requests begin     *)
(* with, keeps the invariants, provided the counter covers the entry.      *)
LEMMA HandleIInv ==
  ASSUME IInv, NEW i \in Ids, NEW status \in Status, Handle(i, status),
         counter' \in 0 .. MaxIds, counter' >= counter, i <= counter'
  PROVE  IInv'
  <1> USE DEF Handle
  <1>1. secrets' \in [Ids -> Status] /\ \A j \in Ids : j # i => secrets'[j] = secrets[j]
    BY DEF IInv, TypeOK
  <1>2. /\ told' \in [Ids -> Status \cup {"unsure"}]
        /\ told'[i] = "unsure"
        /\ \A j \in Ids : j # i => told'[j] = told[j]
    BY DEF IInv, TypeOK
  <1>3. TypeOK'
    BY <1>1, <1>2 DEF IInv, TypeOK
  <1>4. StepInv'
    BY DEF IInv, StepInv
  <1>5. CounterCovers'
    BY <1>1, SidecarAssumption DEF IInv, TypeOK, CounterCovers, Live, Ids
  <1>6. RevokedInv' /\ FileInv' /\ AnswersStand' /\ RevokedSilent' /\ GrantedServed'
    BY <1>1, <1>2 DEF IInv, RevokedInv, FileInv, AnswersStand, RevokedSilent,
                      GrantedServed, Revoked
  <1> QED
    BY <1>3, <1>4, <1>5, <1>6 DEF IInv

(* Every step of the sidecar keeps the invariants. *)
LEMMA StepIInv == IInv /\ [Next]_vars => IInv'
  <1> SUFFICES ASSUME IInv, [Next]_vars PROVE IInv'
    OBVIOUS
  <1>1. CASE Start
    <2> USE <1>1 DEF Start
    <2>1. Loaded \in [Ids -> Status]
      BY DEF Loaded, NoSecrets, Status, IInv, TypeOK
    <2>2. TypeOK'
      BY <2>1 DEF IInv, TypeOK, Enabled
    <2>3. StepInv'
      BY DEF IInv, StepInv
    <2>4. CounterCovers'
      BY DEF CounterCovers, LastId
    <2>5. RevokedInv' /\ RevokedSilent'
      BY DEF IInv, RevokedInv, RevokedSilent, Revoked, Loaded, NoSecrets, Enabled
    <2>6. FileInv' /\ AnswersStand' /\ GrantedServed'
      BY DEF IInv, FileInv, AnswersStand, GrantedServed, Loaded, Enabled
    <2> QED
      BY <2>2, <2>3, <2>4, <2>5, <2>6 DEF IInv
  <1>2. CASE Crash
    <2> USE <1>2 DEF Crash
    <2>1. TypeOK'
      <3>1. secrets' \in [Ids -> Status] /\ counter' \in 0 .. MaxIds
        BY SidecarAssumption DEF NoSecrets, Status
      <3>2. file' \in [Ids -> Status] /\ torn' \in BOOLEAN
        BY DEF IInv, TypeOK
      <3>3. toml' \subseteq Ids
        BY DEF IInv, TypeOK, Enabled
      <3>4. request' \in [step : {"none", "save", "sync", "reload"}, id : Ids \cup {0}]
        BY DEF NoRequest
      <3> QED
        BY <3>1, <3>2, <3>3, <3>4 DEF IInv, TypeOK, NoRequest
    <2>2. StepInv' /\ CounterCovers' /\ AnswersStand'
      BY DEF StepInv, CounterCovers, AnswersStand, NoRequest, NoSecrets, Live
    <2>3. RevokedInv' /\ RevokedSilent'
      BY DEF IInv, RevokedInv, RevokedSilent, Revoked, NoSecrets, Enabled
    <2>4. FileInv' /\ GrantedServed'
      BY DEF IInv, FileInv, AnswersStand, GrantedServed, Enabled
    <2> QED
      BY <2>1, <2>2, <2>3, <2>4 DEF IInv
  <1>3. CASE CreateSecret
    <2>1. counter + 1 \in Ids /\ counter' = counter + 1
      BY <1>3, SidecarAssumption DEF CreateSecret, Ids, IInv, TypeOK
    <2>2. counter' \in 0 .. MaxIds /\ counter' >= counter /\ counter + 1 <= counter'
      BY <2>1, SidecarAssumption DEF Ids, IInv, TypeOK
    <2>3. Handle(counter + 1, "on") /\ "on" \in Status
      BY <1>3 DEF CreateSecret, Status
    <2> QED
      BY <2>1, <2>2, <2>3, HandleIInv
  <1>4. ASSUME NEW i \in Ids, DisableSecret(i) \/ EnableSecret(i) \/ DeleteSecret(i)
        PROVE  IInv'
    <2>1. counter' = counter /\ i <= counter
      BY <1>4 DEF DisableSecret, EnableSecret, DeleteSecret, IInv, CounterCovers
    <2>2. PICK status \in Status : Handle(i, status)
      BY <1>4 DEF DisableSecret, EnableSecret, DeleteSecret, Status
    <2> QED
      BY <2>1, <2>2, HandleIInv DEF IInv, TypeOK
  <1>5. CASE SaveState
    <2> USE <1>5 DEF SaveState
    <2>1. TypeOK' /\ StepInv' /\ CounterCovers'
      BY DEF IInv, TypeOK, StepInv, CounterCovers
    <2>2. RevokedInv' /\ FileInv' /\ AnswersStand' /\ RevokedSilent' /\ GrantedServed'
      BY DEF IInv, StepInv, RevokedInv, FileInv, AnswersStand, RevokedSilent,
             GrantedServed, Revoked
    <2> QED
      BY <2>1, <2>2 DEF IInv
  <1>6. CASE SyncToml
    <2> USE <1>6 DEF SyncToml
    <2>1. TypeOK' /\ StepInv' /\ CounterCovers'
      BY DEF IInv, TypeOK, StepInv, CounterCovers, Enabled
    <2>2. RevokedInv' /\ FileInv' /\ AnswersStand' /\ RevokedSilent' /\ GrantedServed'
      BY DEF IInv, StepInv, RevokedInv, FileInv, AnswersStand, RevokedSilent,
             GrantedServed, Revoked, Enabled
    <2> QED
      BY <2>1, <2>2 DEF IInv
  <1>7. CASE HandlerRaises
    <2> USE <1>7 DEF HandlerRaises
    <2>1. TypeOK' /\ StepInv' /\ CounterCovers'
      BY DEF IInv, TypeOK, StepInv, CounterCovers, NoRequest
    <2>2. RevokedInv' /\ FileInv' /\ AnswersStand' /\ RevokedSilent' /\ GrantedServed'
      BY DEF IInv, RevokedInv, FileInv, AnswersStand, RevokedSilent, GrantedServed, Revoked
    <2> QED
      BY <2>1, <2>2 DEF IInv
  <1>8. CASE ReloadProxy
    <2> USE <1>8 DEF ReloadProxy
    <2>1. request.id \in Ids /\ file = secrets /\ ~torn /\ toml = Enabled(secrets)
      BY DEF IInv, TypeOK, StepInv
    <2>2. /\ told' \in [Ids -> Status \cup {"unsure"}]
          /\ told'[request.id] = secrets[request.id]
          /\ \A j \in Ids : j # request.id => told'[j] = told[j]
      BY <2>1 DEF IInv, TypeOK
    <2>3. TypeOK' /\ StepInv' /\ CounterCovers'
      BY <2>2 DEF IInv, TypeOK, StepInv, CounterCovers, NoRequest
    <2>4. RevokedInv' /\ FileInv' /\ AnswersStand'
      BY <2>1, <2>2 DEF IInv, RevokedInv, FileInv, AnswersStand, Revoked
    <2>5. RevokedSilent' /\ GrantedServed'
      BY <2>1, <2>2 DEF IInv, RevokedSilent, GrantedServed, Revoked, Enabled
    <2> QED
      BY <2>3, <2>4, <2>5 DEF IInv
  <1>9. CASE UNCHANGED vars
    BY <1>9 DEF vars, IInv, TypeOK, StepInv, CounterCovers, RevokedInv, FileInv,
                AnswersStand, RevokedSilent, GrantedServed, Revoked
  <1> QED
    BY <1>1, <1>2, <1>3, <1>4, <1>5, <1>6, <1>7, <1>8, <1>9 DEF Next

(* The strengthened invariant holds of every reachable state. *)
LEMMA AlwaysIInv == Spec => []IInv
  BY InitIInv, StepIInv, PTL DEF Spec

-----------------------------------------------------------------------------
(* create_secret never gives out the identifier of a secret in the table:  *)
(* the counter, also one read back from the file, covers all of them.      *)
THEOREM CounterCoversAlways == Spec => [](TypeOK /\ CounterCovers)
  <1>1. IInv => TypeOK /\ CounterCovers
    BY DEF IInv
  <1> QED
    BY <1>1, AlwaysIInv, PTL

(* Answers stand through crashes, restarts and failed requests as long as  *)
(* no start met a torn file.                                               *)
THEOREM AnswersStandAlways == Spec => []AnswersStand
  <1>1. IInv => AnswersStand
    BY DEF IInv
  <1> QED
    BY <1>1, AlwaysIInv, PTL

(* A revoked secret is out of the TOML, and out of the proxy unless the    *)
(* last reload failed; torn files included.                                *)
THEOREM RevokedSilentAlways == Spec => []RevokedSilent
  <1>1. IInv => RevokedSilent
    BY DEF IInv
  <1> QED
    BY <1>1, AlwaysIInv, PTL

(* A granted secret is served, with the same exception and that of a file  *)
(* lost to a torn save.                                                    *)
THEOREM GrantedServedAlways == Spec => []GrantedServed
  <1>1. IInv => GrantedServed
    BY DEF IInv
  <1> QED
    BY <1>1, AlwaysIInv, PTL

(* Every variable keeps its type. *)
THEOREM TypeCorrect == Spec => []TypeOK
  <1>1. IInv => TypeOK
    BY DEF IInv
  <1> QED
    BY <1>1, AlwaysIInv, PTL

-----------------------------------------------------------------------------
(* The sidecar implements SecretTable.                                     *)

(* The identifier given out last, as the table of the client sees it. *)
Numbered == IF up THEN counter ELSE CHOOSE c \in 0 .. MaxIds : LastId(c, Loaded)

(* What the client was told and what is so. *)
Sure == {i \in Ids : told[i] = Current[i]}

(* While the sidecar runs, the file that a restart would load agrees with  *)
(* the table wherever the last request was answered.                       *)
SavedInv == up /\ ~torn => \A i \in Ids : told[i] = "unsure" \/ file[i] = secrets[i]

(* The entries of the table are identifiers up to MaxIds. *)
LEMMA IdNumbers == MaxIds \in Nat /\ Ids = 1 .. MaxIds /\ 0 \in 0 .. MaxIds
  BY SidecarAssumption DEF Ids

(* Every table has a last identifier, which max(default=0) computes.       *)
LEMMA LastIdIs ==
  ASSUME NEW t \in [Ids -> Status]
  PROVE  \E c \in 0 .. MaxIds : LastId(c, t)
<1> DEFINE Tops == {c \in 0 .. MaxIds : \A i \in Live(t) : i <= c}
<1>1. Live(t) \subseteq 1 .. MaxIds
  BY IdNumbers DEF Live
<1>2. MaxIds \in Tops /\ Tops \subseteq Nat
  BY <1>1, IdNumbers
<1>3. PICK c \in Tops : \A d \in Tops : ~ (<<d, c>> \in OpToRel(<, Nat))
  BY <1>2, NatLessThanWellFounded, WFMin
<1>4. \A d \in Tops : ~ (d < c)
  BY <1>2, <1>3 DEF OpToRel
<1>5. c \in 0 .. MaxIds /\ (\A i \in Live(t) : i <= c)
  OBVIOUS
<1>6. CASE c = 0
  <2>1. Live(t) = {}
    BY <1>1, <1>5, <1>6, IdNumbers
  <2> QED
    BY <1>5, <1>6, <2>1 DEF LastId
<1>7. CASE c # 0
  <2>1. c - 1 \in 0 .. MaxIds /\ c - 1 < c
    BY <1>5, <1>7, IdNumbers
  <2>2. c - 1 \notin Tops
    BY <1>4, <2>1
  <2>3. PICK i \in Live(t) : ~ (i <= c - 1)
    BY <2>1, <2>2
  <2>4. i \in Nat /\ i <= c
    BY <1>1, <1>5, <2>3, IdNumbers
  <2>5. i = c
    BY <1>5, <2>3, <2>4, IdNumbers
  <2> QED
    BY <1>5, <2>3, <2>5 DEF LastId
<1> QED
  BY <1>6, <1>7

(* It has one only. *)
LEMMA LastIdOne ==
  ASSUME NEW t, NEW c \in 0 .. MaxIds, NEW d \in 0 .. MaxIds, LastId(c, t), LastId(d, t)
  PROVE  c = d
<1>1. c \in Nat /\ d \in Nat
  BY IdNumbers
<1>2. CASE c \in Live(t) /\ d \in Live(t)
  BY <1>1, <1>2 DEF LastId
<1>3. CASE Live(t) = {}
  BY <1>3 DEF LastId
<1> QED
  BY <1>2, <1>3 DEF LastId

(* The counter a start reads back is the one the client's table has.       *)
LEMMA LastIdFits ==
  ASSUME NEW t \in [Ids -> Status], NEW c \in 0 .. MaxIds, LastId(c, t)
  PROVE  Table!IsLast(c, t)
  BY IdNumbers DEF LastId, Table!IsLast, Table!Used, Live, Ids, Table!Ids

(* What a start loads is a table, and the one its client sees meanwhile.   *)
DownInv ==
  /\ Loaded \in [Ids -> Status] /\ Current = Loaded
  /\ Numbered \in 0 .. MaxIds /\ LastId(Numbered, Loaded)

(* It has a last identifier. *)
LEMMA NumberedDown == TypeOK /\ ~up => DownInv
<1> SUFFICES ASSUME TypeOK, ~up PROVE DownInv
  OBVIOUS
<1>1. Loaded \in [Ids -> Status]
  BY DEF Loaded, NoSecrets, Status, TypeOK
<1>2. Numbered = CHOOSE c \in 0 .. MaxIds : LastId(c, Loaded)
  BY DEF Numbered
<1> QED
  BY <1>1, <1>2, LastIdIs DEF Current, DownInv

(* The saved answers, at the start and after every step.                   *)
LEMMA SavedInit == Init => SavedInv
  BY DEF Init, SavedInv

(* A restart that loses nothing keeps every answer.                        *)
LEMMA SavedStep == IInv /\ SavedInv /\ [Next]_vars => SavedInv'
<1> SUFFICES ASSUME IInv, SavedInv, [Next]_vars PROVE SavedInv'
  OBVIOUS
<1> USE DEF SavedInv
<1>1. CASE Start
  BY <1>1 DEF Start, Loaded
<1>2. CASE Crash
  BY <1>2 DEF Crash
<1>3. ASSUME NEW i \in Ids, NEW status, Handle(i, status) PROVE SavedInv'
  BY <1>3 DEF Handle, IInv, TypeOK
<1>4. CASE CreateSecret
  <2>1. counter + 1 \in Ids
    BY <1>4, IdNumbers DEF CreateSecret, IInv, TypeOK
  <2> QED
    BY <1>3, <1>4, <2>1 DEF CreateSecret
<1>5. CASE \E i \in Ids : DisableSecret(i) \/ EnableSecret(i) \/ DeleteSecret(i)
  BY <1>3, <1>5 DEF DisableSecret, EnableSecret, DeleteSecret
<1>6. CASE SaveState
  BY <1>6 DEF SaveState
<1>7. CASE SyncToml
  BY <1>7 DEF SyncToml
<1>8. CASE HandlerRaises
  BY <1>8 DEF HandlerRaises
<1>9. CASE ReloadProxy
  BY <1>9 DEF ReloadProxy, IInv, StepInv
<1>10. CASE UNCHANGED vars
  BY <1>10 DEF vars
<1> QED
  BY <1>1, <1>2, <1>4, <1>5, <1>6, <1>7, <1>8, <1>9, <1>10 DEF Next

(* The mapping, spelled out for the steps that follow. *)
LEMMA TableStutters ==
  ASSUME UNCHANGED <<Current, Numbered, Sure>>
  PROVE  UNCHANGED Table!tableVars
  BY DEF Table!tableVars, Numbered, Sure

LEMMA StartImplements ==
  ASSUME IInv, Start
  PROVE  UNCHANGED Table!tableVars
<1>1. TypeOK /\ ~up /\ up' /\ secrets' = Loaded /\ told' = told
  BY DEF IInv, Start
<1>2. Current' = Current
  BY <1>1 DEF Current
<1>3. Numbered' = counter' /\ counter' \in 0 .. MaxIds /\ LastId(counter', Loaded)
  BY <1>1 DEF Numbered, Start
<1>4. Numbered' = Numbered
  BY <1>1, <1>3, NumberedDown, LastIdOne DEF DownInv
<1>5. Sure' = Sure
  BY <1>1, <1>2 DEF Sure
<1> QED
  BY <1>2, <1>4, <1>5, TableStutters

(* A table the counter fits is one a restart may come back with.           *)
LEMMA Rebirth ==
  ASSUME NEW t, Current' = t, Table!IsLast(Numbered', t)
  PROVE  Table!Reborn(t)
  BY DEF Table!Reborn, Numbered

LEMMA CrashImplements ==
  ASSUME IInv, SavedInv, Crash, TypeOK'
  PROVE  Table!Restart \/ Table!Lose
<1>1. /\ up /\ ~up' /\ told' = told /\ Current = secrets /\ TypeOK
      /\ secrets \in [Ids -> Status]
  BY DEF Crash, IInv, TypeOK, Current
<1>2. /\ Loaded' \in [Ids -> Status] /\ Current' = Loaded'
      /\ Numbered' \in 0 .. MaxIds /\ LastId(Numbered', Loaded')
  <2>1. TypeOK' /\ ~up' => DownInv'
    BY NumberedDown, PTL
  <2> QED
    BY <1>1, <2>1 DEF DownInv
<1>3. Table!IsLast(Numbered', Current')
  BY <1>2, LastIdFits
<1>4. Table!Reborn(Current')
  BY <1>3, Rebirth
<1>5. CASE torn'
  <2>1. Current' = Table!Empty
    BY <1>2, <1>5 DEF Loaded, NoSecrets, Table!Empty, Ids, Table!Ids
  <2>2. Sure' \in SUBSET Table!Ids
    BY DEF Sure, Ids, Table!Ids
  <2> QED
    BY <1>4, <2>1, <2>2 DEF Table!Lose, Sure
<1>6. CASE ~torn'
  <2>1. Current' = file'
    BY <1>2, <1>6 DEF Loaded
  <2>2. \A i \in Ids : told[i] = "unsure" \/ file'[i] = secrets[i]
    BY <1>1, <1>6 DEF Crash, SavedInv
  <2>3. \A i \in Ids : secrets[i] # "unsure" /\ file'[i] # "unsure"
    BY <1>1, <1>2, <2>1 DEF Status
  <2>4. Sure' = Sure
    BY <1>1, <2>1, <2>2, <2>3 DEF Sure
  <2>5. \A i \in Sure : Current'[i] = Current[i]
    BY <1>1, <2>1, <2>2, <2>3 DEF Sure
  <2>6. Current' \in [Table!Ids -> Table!Standing]
    BY <1>2 DEF Ids, Status, Table!Ids, Table!Standing
  <2>7. \E t \in [Table!Ids -> Table!Standing] :
          (\A i \in Sure : t[i] = Current[i]) /\ Table!Reborn(t)
    BY <1>4, <2>5, <2>6
  <2> QED
    BY <2>4, <2>7 DEF Table!Restart, Sure
<1> QED
  BY <1>5, <1>6

(* The first change a request makes is the table's. *)
LEMMA HandleImplements ==
  ASSUME IInv, NEW i \in Ids, NEW status \in Status, Handle(i, status)
  PROVE  Table!Ask(i, status)
<1>1. up /\ up' /\ Current = secrets /\ Current' = secrets'
  BY DEF Handle, Current
<1>2. secrets \in [Ids -> Status] /\ told \in [Ids -> Status \cup {"unsure"}]
  BY DEF IInv, TypeOK
<1>3. secrets' = [secrets EXCEPT ![i] = status] /\ told' = [told EXCEPT ![i] = "unsure"]
  BY DEF Handle
<1>4. /\ told'[i] = "unsure" /\ secrets'[i] = status
      /\ \A j \in Ids : j # i => told'[j] = told[j] /\ secrets'[j] = secrets[j]
  BY <1>2, <1>3
<1>5. status # "unsure"
  BY DEF Status
<1>6. Sure' = Sure \ {i}
  BY <1>1, <1>4, <1>5 DEF Sure
<1> QED
  BY <1>1, <1>3, <1>6 DEF Table!Ask, Sure

LEMMA CreateImplements ==
  ASSUME IInv, CreateSecret
  PROVE  Table!Create
<1>1. /\ counter < MaxIds /\ counter' = counter + 1 /\ Handle(counter + 1, "on")
      /\ up /\ up' = up /\ counter \in 0 .. MaxIds
  BY DEF CreateSecret, Handle, IInv, TypeOK
<1>2. counter + 1 \in Ids /\ "on" \in Status
  BY <1>1, IdNumbers DEF Status
<1>3. Table!Ask(counter + 1, "on")
  BY <1>1, <1>2, HandleImplements
<1>4. Numbered = counter /\ Numbered' = counter'
  BY <1>1 DEF Numbered
<1> QED
  BY <1>1, <1>3, <1>4 DEF Table!Create, Numbered

LEMMA ChangeImplements ==
  ASSUME IInv, NEW i \in Ids, DisableSecret(i) \/ EnableSecret(i) \/ DeleteSecret(i)
  PROVE  \E standing \in Table!Standing : Table!Change(i, standing)
<1>1. PICK status \in Status : Handle(i, status)
  BY DEF DisableSecret, EnableSecret, DeleteSecret, Status
<1>2. i \in Live(secrets) /\ counter' = counter /\ up /\ up' = up
  BY <1>1 DEF DisableSecret, EnableSecret, DeleteSecret, Handle
<1>3. Table!Ask(i, status)
  BY <1>1, HandleImplements
<1>4. Numbered' = Numbered
  BY <1>2 DEF Numbered
<1>5. i \in Table!Used(Current)
  BY <1>2 DEF Table!Used, Live, Current, Ids, Table!Ids
<1>6. status \in Table!Standing
  BY DEF Status, Table!Standing
<1> QED
  BY <1>3, <1>4, <1>5, <1>6 DEF Table!Change, Numbered

(* The answer. *)
LEMMA ReloadImplements ==
  ASSUME IInv, ReloadProxy
  PROVE  UNCHANGED Table!tableVars \/ \E i \in Ids : Table!Answer(i)
<1>1. PICK r \in Ids :
        /\ up /\ up' = up /\ secrets' = secrets /\ counter' = counter
        /\ told' = [told EXCEPT ![r] = secrets[r]] /\ told \in [Ids -> Status \cup {"unsure"}]
  <2>1. request.id \in Ids
    BY DEF ReloadProxy, IInv, TypeOK
  <2> QED
    BY <2>1 DEF ReloadProxy, IInv, TypeOK, StepInv
<1>2. Current = secrets /\ Current' = Current /\ Numbered' = Numbered
  BY <1>1 DEF Current, Numbered
<1>3. told'[r] = secrets[r] /\ \A j \in Ids : j # r => told'[j] = told[j]
  BY <1>1
<1>4. Sure' = Sure \cup {r}
  BY <1>1, <1>2, <1>3 DEF Sure
<1>5. CASE r \in Sure
  <2>1. Sure' = Sure
    BY <1>4, <1>5
  <2> QED
    BY <1>2, <2>1, TableStutters
<1>6. CASE r \notin Sure
  <2>1. Table!Answer(r)
    BY <1>2, <1>4, <1>6 DEF Table!Answer, Sure, Numbered
  <2> QED
    BY <2>1
<1> QED
  BY <1>5, <1>6

(* Every step of the sidecar is a step of the table or none.               *)
LEMMA StepImplements ==
  IInv /\ SavedInv /\ [Next]_vars => [Table!TableNext]_(Table!tableVars)
<1> SUFFICES ASSUME IInv, SavedInv, [Next]_vars PROVE [Table!TableNext]_(Table!tableVars)
  OBVIOUS
<1>0. TypeOK'
  BY StepIInv DEF IInv
<1>1. CASE Start
  BY <1>1, StartImplements
<1>2. CASE Crash
  BY <1>0, <1>2, CrashImplements DEF Table!TableNext
<1>3. CASE CreateSecret
  BY <1>3, CreateImplements DEF Table!TableNext
<1>4. CASE \E i \in Ids : DisableSecret(i) \/ EnableSecret(i) \/ DeleteSecret(i)
  BY <1>4, ChangeImplements DEF Table!TableNext, Ids, Table!Ids
<1>5. CASE SaveState \/ SyncToml \/ HandlerRaises
  <2>1. up /\ up' = up /\ secrets' = secrets /\ counter' = counter /\ told' = told
    BY <1>5 DEF SaveState, SyncToml, HandlerRaises, IInv, StepInv
  <2>2. Current' = Current /\ Numbered' = Numbered /\ Sure' = Sure
    BY <2>1 DEF Current, Numbered, Sure
  <2> QED
    BY <2>2, TableStutters
<1>6. CASE ReloadProxy
  BY <1>6, ReloadImplements DEF Table!TableNext, Ids, Table!Ids
<1>7. CASE UNCHANGED vars
  <2>1. UNCHANGED <<Current, Numbered, Sure>>
    BY <1>7 DEF vars, Current, Numbered, Sure, Loaded, LastId, Live
  <2> QED
    BY <2>1, TableStutters
<1> QED
  BY <1>1, <1>2, <1>3, <1>4, <1>5, <1>6, <1>7 DEF Next

(* Before the first start the table is empty and everything in it is sure. *)
LEMMA InitImplements == Init => Table!TableInit
<1> SUFFICES ASSUME Init PROVE Table!TableInit
  OBVIOUS
<1>1. ~up /\ file = NoSecrets /\ told = NoSecrets /\ ~torn
  BY DEF Init
<1>2. TypeOK
  BY InitIInv DEF IInv
<1>3. Current = NoSecrets /\ Loaded = NoSecrets
  BY <1>1 DEF Current, Loaded
<1>4. Numbered \in 0 .. MaxIds /\ LastId(Numbered, NoSecrets)
  BY <1>1, <1>2, <1>3, NumberedDown DEF DownInv
<1>5. Numbered = 0
  <2>1. Live(NoSecrets) = {}
    BY DEF Live, NoSecrets
  <2> QED
    BY <1>4, <2>1 DEF LastId
<1>6. Sure = Ids
  BY <1>1, <1>3 DEF Sure
<1> QED
  BY <1>3, <1>5, <1>6 DEF Table!TableInit, Table!Empty, Table!Ids, Ids, NoSecrets, Numbered, Sure

(* Whatever crashes, torn saves, failed syncs and failed reloads there     *)
(* are, the bot's client sees a table in which an answered request stands  *)
(* until the whole table is lost, and new identifiers count up from those  *)
(* in use (create_secret, _load_state, _save_state).                       *)
THEOREM TableImplemented == Spec => TableSpec
<1>1. Spec => [](IInv /\ SavedInv)
  BY AlwaysIInv, SavedInit, SavedStep, PTL DEF Spec
<1> QED
  BY <1>1, InitImplements, StepImplements, PTL DEF Spec, TableSpec, Table!TableSpec
=============================================================================
