----------------------------- MODULE Migrations -----------------------------
(***************************************************************************)
(* Startup: the migrations of infrastructure/database/db.py, the loading   *)
(* of the encryption key (core/crypto.py), and the order in which run.py   *)
(* and scripts/db_admin.py call them.  The bot and the script may start    *)
(* beside each other on a database of any age, and either may die between  *)
(* two statements; data definition statements commit one by one.           *)
(***************************************************************************)
EXTENDS Integers, Sequences, FiniteSets

CONSTANTS
  Processes,  \* the programs that open the database
  Bot         \* the one that stores and delivers configurations

ASSUME MigrationsAssumption == Bot \in Processes /\ IsFiniteSet(Processes)

(* What _migrate_v1 makes, in its order, and the whole schema. *)
TablesV1 == <<"users", "devices", "payments", "settings", "fsm_states", "indexes v1">>
V1 == {TablesV1[k] : k \in 1 .. 6}
Schema == V1 \cup {"client_name", "indexes v4", "index v5"}
SchemaVersion == 5

VARIABLES
  parts,    \* the parts of the schema the database has
  version,  \* settings.schema_version, 0 when there is none
  forms,    \* the forms configurations are stored in: clear, sealed
  key,      \* ENCRYPTION_KEY is set
  proc,     \* proc[p]: where process p is in its startup
  env,      \* env[p]: it was set when p started
  fernet,   \* fernet[p]: _fernet is there
  raised    \* startups ended by an exception (history)

startVars == <<parts, version, forms, key, proc, env, fernet, raised>>

Steps == {"down", "read", "v1", "v2", "v3", "alter", "v4", "v5", "stamp", "crypto", "up"}

MigrationsTypeOK ==
  /\ parts \subseteq Schema
  /\ version \in 0 .. SchemaVersion
  /\ forms \subseteq {"clear", "sealed"}
  /\ key \in BOOLEAN
  /\ proc \in [Processes -> Steps]
  /\ env \in [Processes -> BOOLEAN] /\ fernet \in [Processes -> BOOLEAN]
  /\ raised \in Nat

(* What a release of version v leaves.  The column client_name is in the   *)
(* CREATE TABLE of some releases older than the migration that adds it.    *)
Release(v) ==
  {V1 \cup column \cup (IF v >= 4 THEN {"indexes v4"} ELSE {})
                  \cup (IF v >= 5 THEN {"index v5"} ELSE {})
     : column \in IF v >= 3 THEN {{"client_name"}} ELSE {{}, {"client_name"}}}

(* An empty volume, or the database of an earlier release, one without     *)
(* schema versions included, with or without configurations stored.        *)
MigrationsInit ==
  /\ version \in 0 .. SchemaVersion
  /\ \/ version = 0 /\ parts = {} /\ forms = {}
     \/ parts \in Release(version) /\ forms \in {{}, {"clear"}}
  /\ key \in BOOLEAN
  /\ proc = [p \in Processes |-> "down"]
  /\ env = [p \in Processes |-> FALSE] /\ fernet = [p \in Processes |-> FALSE]
  /\ raised = 0

Goto(p, step) == proc' = [proc EXCEPT ![p] = step]

-----------------------------------------------------------------------------
(* The operator sets the key; processes see it from their next start on.   *)
SetKey ==
  /\ ~key /\ key' = TRUE
  /\ UNCHANGED <<parts, version, forms, proc, env, fernet, raised>>

Start(p) ==
  /\ proc[p] = "down"
  /\ Goto(p, "read")
  /\ env' = [env EXCEPT ![p] = key]
  /\ UNCHANGED <<parts, version, forms, key, fernet, raised>>

(* The process ends: killed, stopped, or by an exception of its startup.   *)
Ends(p) ==
  /\ Goto(p, "down")
  /\ env' = [env EXCEPT ![p] = FALSE] /\ fernet' = [fernet EXCEPT ![p] = FALSE]
  /\ UNCHANGED <<parts, version, forms, key>>

Die(p) == proc[p] # "down" /\ Ends(p) /\ UNCHANGED raised

-----------------------------------------------------------------------------
(* _apply_migrations.  current_ver is read once, and from the first        *)
(* migration it asks for, all later ones follow.                           *)

Migrates(p) == UNCHANGED <<key, env, fernet, raised>>

(* Mutant: the version is written before the migrations run. *)
StampFirst(p) ==
  /\ proc[p] = "read"
  /\ Goto(p, IF version = SchemaVersion THEN "crypto"
             ELSE <<"v1", "v2", "v3", "v4", "v5">>[version + 1])
  /\ version' = IF "settings" \in parts THEN SchemaVersion ELSE version
  /\ UNCHANGED <<parts, forms>> /\ Migrates(p)

ReadVersion(p) ==
  /\ proc[p] = "read"
  /\ Goto(p, IF version = SchemaVersion THEN "crypto"
             ELSE <<"v1", "v2", "v3", "v4", "v5">>[version + 1])
  /\ UNCHANGED <<parts, version, forms>> /\ Migrates(p)

(* CREATE ... IF NOT EXISTS: the next part that is missing, each committed *)
(* by itself; devices comes with client_name.                              *)
MigrateV1(p) ==
  /\ proc[p] = "v1"
  /\ \/ \E k \in 1 .. 6 :
          /\ TablesV1[k] \notin parts /\ \A j \in 1 .. k - 1 : TablesV1[j] \in parts
          /\ parts' = parts \cup {TablesV1[k]} \cup
                        (IF TablesV1[k] = "devices" THEN {"client_name"} ELSE {})
          /\ UNCHANGED proc
     \/ V1 \subseteq parts /\ Goto(p, "v2") /\ UNCHANGED parts
  /\ UNCHANGED <<version, forms>> /\ Migrates(p)

(* Mutant: the migration reads the key from the environment itself. *)
MigrateV2Early(p) ==
  /\ proc[p] = "v2"
  /\ forms' = IF env[p] /\ forms # {} THEN {"sealed"} ELSE forms
  /\ Goto(p, "v3")
  /\ UNCHANGED <<parts, version>> /\ Migrates(p)

(* Encrypts what is stored in clear, if the key is loaded.                 *)
MigrateV2(p) ==
  /\ proc[p] = "v2"
  /\ forms' = IF fernet[p] /\ forms # {} THEN {"sealed"} ELSE forms
  /\ Goto(p, "v3")
  /\ UNCHANGED <<parts, version>> /\ Migrates(p)

(* Mutant: the column is added without a look. *)
SkipTableInfo(p) ==
  /\ proc[p] = "v3"
  /\ Goto(p, "alter")
  /\ UNCHANGED <<parts, version, forms>> /\ Migrates(p)

(* PRAGMA table_info, then, a statement later, ALTER TABLE.                *)
TableInfo(p) ==
  /\ proc[p] = "v3"
  /\ Goto(p, IF "client_name" \in parts THEN "v4" ELSE "alter")
  /\ UNCHANGED <<parts, version, forms>> /\ Migrates(p)

AlterTable(p) ==
  /\ proc[p] = "alter"
  /\ "client_name" \notin parts
  /\ parts' = parts \cup {"client_name"}
  /\ Goto(p, "v4")
  /\ UNCHANGED <<version, forms>> /\ Migrates(p)

(* The column was added meanwhile: "duplicate column name".                *)
AlterFails(p) ==
  /\ proc[p] = "alter"
  /\ "client_name" \in parts
  /\ Ends(p) /\ raised' = raised + 1

MigrateV4(p) ==
  /\ proc[p] = "v4"
  /\ parts' = parts \cup {"indexes v4"} /\ Goto(p, "v5")
  /\ UNCHANGED <<version, forms>> /\ Migrates(p)

MigrateV5(p) ==
  /\ proc[p] = "v5"
  /\ parts' = parts \cup {"index v5"} /\ Goto(p, "stamp")
  /\ UNCHANGED <<version, forms>> /\ Migrates(p)

(* Mutant: the version is incremented. *)
BumpVersion(p) ==
  /\ proc[p] = "stamp"
  /\ version' = version + 1 /\ Goto(p, "crypto")
  /\ UNCHANGED <<parts, forms>> /\ Migrates(p)

SetSchemaVersion(p) ==
  /\ proc[p] = "stamp"
  /\ version' = SchemaVersion /\ Goto(p, "crypto")
  /\ UNCHANGED <<parts, forms>> /\ Migrates(p)

(* init_crypto, after init_db; then the process is at its work. *)
InitCrypto(p) ==
  /\ proc[p] = "crypto"
  /\ fernet' = [fernet EXCEPT ![p] = env[p]] /\ Goto(p, "up")
  /\ UNCHANGED <<parts, version, forms, key, env, raised>>

(* encrypt_config and add_device: clear when there is no key. *)
StoreConfig ==
  /\ proc[Bot] = "up"
  /\ forms' = forms \cup {IF fernet[Bot] THEN "sealed" ELSE "clear"}
  /\ UNCHANGED <<parts, version, key, proc, env, fernet, raised>>

Startup(p) ==
  \/ ReadVersion(p) \/ MigrateV1(p) \/ MigrateV2(p) \/ TableInfo(p) \/ AlterTable(p)
  \/ AlterFails(p) \/ MigrateV4(p) \/ MigrateV5(p) \/ SetSchemaVersion(p) \/ InitCrypto(p)

MigrationsNext ==
  \/ SetKey \/ StoreConfig
  \/ \E p \in Processes : Start(p) \/ Die(p) \/ Startup(p)

MigrationsSpec == MigrationsInit /\ [][MigrationsNext]_startVars

-----------------------------------------------------------------------------
(* The version stamp tells the truth: whoever died or raced in between,    *)
(* a database stamped with the current version lacks no part of the        *)
(* schema, and no process works on one that does.                          *)
VersionHonest ==
  version = SchemaVersion \/ (\E p \in Processes : proc[p] = "up") => parts = Schema

(* A start fails on the schema at most once for each process started       *)
(* beside another: the next start finds the column and comes up.           *)
StartsFailOnce == raised < Cardinality(Processes)

(* decrypt_config hands out what it cannot decrypt as it is, so a running  *)
(* bot must have the key when a stored configuration is sealed, whatever   *)
(* order the key, the starts and the migrations of the two programs came.  *)
Deliverable == proc[Bot] = "up" /\ "sealed" \in forms => fernet[Bot]
=============================================================================
