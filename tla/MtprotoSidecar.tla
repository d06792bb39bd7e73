--------------------------- MODULE MtprotoSidecar ---------------------------
(***************************************************************************)
(* The MTProto sidecar (mtproto_manager/main.py): a small HTTP service     *)
(* next to the proxy that keeps a table of secrets in memory, saves it to  *)
(* a JSON file, copies the enabled secrets into the proxy's TOML file and  *)
(* tells the proxy to read it again.                                       *)
(*                                                                         *)
(* Its handlers have no await, so requests do not interleave, but one      *)
(* handler makes four changes (memory, JSON, TOML, proxy) and may raise,   *)
(* or die with the process, between any two.                               *)
(***************************************************************************)
EXTENDS Integers

CONSTANT MaxIds  \* bound on the identifiers given out

ASSUME SidecarAssumption == MaxIds \in Nat

Ids == 1 .. MaxIds
Status == {"none", "on", "off"}  \* no such secret, enabled, disabled

VARIABLES
  up,       \* the sidecar's process runs
  secrets,  \* _secrets
  counter,  \* _counter
  file,     \* the JSON file at STATE_PATH, as it was when it last parsed
  torn,     \* the JSON file does not parse
  toml,     \* ids listed under [access.users] in CONFIG_PATH
  proxy,    \* ids the proxy serves
  request,  \* the handler in progress: what it does next, to which secret
  told,     \* told[i]: what the last answer about i said (history)
  stale,    \* the last reload of the proxy failed (history)
  lost      \* a start met a file it could not parse (history)

vars == <<up, secrets, counter, file, torn, toml, proxy, request, told, stale, lost>>

NoSecrets == [i \in Ids |-> "none"]
Live(table) == {i \in Ids : table[i] # "none"}
Enabled(table) == {i \in Ids : table[i] = "on"}
NoRequest == [step |-> "none", id |-> 0]

TypeOK ==
  /\ up \in BOOLEAN /\ torn \in BOOLEAN /\ stale \in BOOLEAN /\ lost \in BOOLEAN
  /\ secrets \in [Ids -> Status]
  /\ counter \in 0 .. MaxIds
  /\ file \in [Ids -> Status]
  /\ toml \subseteq Ids /\ proxy \subseteq Ids
  /\ request \in [step : {"none", "save", "sync", "reload"}, id : Ids \cup {0}]
  /\ request.step # "none" => request.id \in Ids
  /\ told \in [Ids -> Status \cup {"unsure"}]

Init ==
  /\ up = FALSE /\ torn = FALSE /\ stale = FALSE /\ lost = FALSE
  /\ secrets = NoSecrets /\ counter = 0
  /\ file = NoSecrets
  /\ toml = {} /\ proxy = {}
  /\ request = NoRequest
  /\ told = NoSecrets

-----------------------------------------------------------------------------
(* Startup: load the state, write the TOML; the proxy is not told. *)

(* Mutant: the counter starts at 0 whatever was loaded. *)
NoLastId(c, table) == c = 0 /\ Live(table) \subseteq Ids

(* max(int(k) for k in _secrets), and 0 for an empty table *)
LastId(c, table) ==
  /\ \A i \in Live(table) : i <= c
  /\ c \in Live(table) \/ (c = 0 /\ Live(table) = {})

Loaded == IF torn THEN NoSecrets ELSE file

Start ==
  /\ ~up
  /\ up' = TRUE
  /\ secrets' = Loaded
  /\ counter' \in {c \in 0 .. MaxIds : LastId(c, Loaded)}
  /\ toml' = Enabled(Loaded)
  /\ lost' = (lost \/ torn)
  /\ UNCHANGED <<file, torn, proxy, request, told, stale>>

(* The process dies; a save it was in the middle of is done, not done or   *)
(* torn, for the file is opened with "w" and written in place.  (The TOML  *)
(* is replaced by a rename.)                                               *)
Crash ==
  /\ up
  /\ up' = FALSE
  /\ secrets' = NoSecrets /\ counter' = 0
  /\ \/ UNCHANGED <<file, torn>>
     \/ request.step = "save" /\ torn' = TRUE /\ UNCHANGED file
     \/ request.step = "save" /\ torn' = FALSE /\ file' = secrets
  /\ toml' \in IF request.step = "sync" THEN {toml, Enabled(secrets)} ELSE {toml}
  /\ request' = NoRequest
  /\ UNCHANGED <<proxy, told, stale, lost>>

-----------------------------------------------------------------------------
(* A handler changes the table, then saves, syncs, reloads and answers.    *)

Handle(i, status) ==
  /\ up /\ request.step = "none"
  /\ secrets' = [secrets EXCEPT ![i] = status]
  /\ request' = [step |-> "save", id |-> i]
  /\ told' = [told EXCEPT ![i] = "unsure"]
  /\ UNCHANGED <<up, file, torn, toml, proxy, stale, lost>>

(* Mutant: the counter is incremented twice. *)
CreateSecretTwice ==
  /\ counter < MaxIds
  /\ counter' = counter + 2
  /\ Handle(counter + 1, "on")

CreateSecret ==
  /\ counter < MaxIds
  /\ counter' = counter + 1
  /\ Handle(counter + 1, "on")

(* An id that is not in the table is answered 404 and changes nothing. *)
DisableSecret(i) == i \in Live(secrets) /\ Handle(i, "off") /\ UNCHANGED counter
EnableSecret(i) == i \in Live(secrets) /\ Handle(i, "on") /\ UNCHANGED counter
DeleteSecret(i) == i \in Live(secrets) /\ Handle(i, "none") /\ UNCHANGED counter

(* Mutant: the table is not written. *)
SaveNothing ==
  /\ request.step = "save"
  /\ request' = [request EXCEPT !.step = "sync"]
  /\ UNCHANGED <<up, secrets, counter, file, torn, toml, proxy, told, stale, lost>>

SaveState ==
  /\ request.step = "save"
  /\ file' = secrets /\ torn' = FALSE
  /\ request' = [request EXCEPT !.step = "sync"]
  /\ UNCHANGED <<up, secrets, counter, toml, proxy, told, stale, lost>>

(* Mutants: secrets are only ever added to the TOML; the TOML holds the    *)
(* one secret the request is about.                                        *)
SyncAdds ==
  /\ request.step = "sync"
  /\ toml' = toml \cup Enabled(secrets)
  /\ request' = [request EXCEPT !.step = "reload"]
  /\ UNCHANGED <<up, secrets, counter, file, torn, proxy, told, stale, lost>>
SyncOne ==
  /\ request.step = "sync"
  /\ toml' = Enabled(secrets) \cap {request.id}
  /\ request' = [request EXCEPT !.step = "reload"]
  /\ UNCHANGED <<up, secrets, counter, file, torn, proxy, told, stale, lost>>

SyncToml ==
  /\ request.step = "sync"
  /\ toml' = Enabled(secrets)
  /\ request' = [request EXCEPT !.step = "reload"]
  /\ UNCHANGED <<up, secrets, counter, file, torn, proxy, told, stale, lost>>

(* Mutant: the failure is swallowed and the request answered as done. *)
HandlerSwallows ==
  /\ request.step \in {"save", "sync"}
  /\ (request.step = "save" /\ torn' = TRUE) \/ UNCHANGED torn
  /\ told' = [told EXCEPT ![request.id] = secrets[request.id]]
  /\ request' = NoRequest
  /\ UNCHANGED <<up, secrets, counter, file, toml, proxy, stale, lost>>

(* _save_state or _sync_toml raises: the client is answered 500, the table *)
(* keeps the change.                                                       *)
HandlerRaises ==
  /\ request.step \in {"save", "sync"}
  /\ (request.step = "save" /\ torn' = TRUE) \/ UNCHANGED torn
  /\ request' = NoRequest
  /\ UNCHANGED <<up, secrets, counter, file, toml, proxy, told, stale, lost>>

(* SIGHUP, systemctl reload or restart; when all fail it is only logged,   *)
(* and the answer is the same.                                             *)
ReloadProxy ==
  /\ request.step = "reload"
  /\ \/ proxy' = toml /\ stale' = FALSE
     \/ stale' = TRUE /\ UNCHANGED proxy
  /\ told' = [told EXCEPT ![request.id] = secrets[request.id]]
  /\ request' = NoRequest
  /\ UNCHANGED <<up, secrets, counter, file, torn, toml, lost>>

Next ==
  \/ Start \/ Crash \/ CreateSecret
  \/ \E i \in Ids : DisableSecret(i) \/ EnableSecret(i) \/ DeleteSecret(i)
  \/ SaveState \/ SyncToml \/ HandlerRaises \/ ReloadProxy

Spec == Init /\ [][Next]_vars

-----------------------------------------------------------------------------
(* An identifier given out is never that of a secret in the table, after   *)
(* any restart: the counter read back from the file covers every secret.   *)
CounterCovers == \A i \in Live(secrets) : i <= counter

(* What the sidecar answered stands, through crashes and failed requests   *)
(* about other secrets, as long as no save was torn.                       *)
AnswersStand ==
  up /\ ~lost => \A i \in Ids : told[i] \in {"unsure", secrets[i]}

(* A secret answered disabled or deleted is in the TOML no more, and the   *)
(* proxy serves it no more unless the last reload failed - whatever was    *)
(* lost, whichever later request failed.                                   *)
Revoked(i) == told[i] \in {"off", "none"}
RevokedSilent == \A i \in Ids : Revoked(i) => i \notin toml /\ (~stale => i \notin proxy)

(* A secret answered created or enabled is served until a request disables *)
(* or deletes it, unless a save was torn or the last reload failed.        *)
GrantedServed ==
  \A i \in Ids : told[i] = "on" /\ ~lost => i \in toml /\ (~stale => i \in proxy)

(* The sidecar implements the table its client relies on: between crashes  *)
(* the table in memory, then the one the next start will load.  Whatever   *)
(* fails, an answered request is undone only by a loss of the whole file,  *)
(* and a new identifier is above those in use.                             *)
Current == IF up THEN secrets ELSE Loaded

Table == INSTANCE SecretTable WITH
  table <- Current,
  last <- IF up THEN counter ELSE CHOOSE c \in 0 .. MaxIds : LastId(c, Loaded),
  sure <- {i \in Ids : told[i] = Current[i]}

TableSpec == Table!TableSpec
=============================================================================
