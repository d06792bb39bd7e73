---------------------------- MODULE UpkeepProofs ----------------------------
(***************************************************************************)
(* Theorems about startup and the nightly backup, for any number of        *)
(* programs that open the database: what a version stamp promises, how     *)
(* often a start may fail, that the bot can read what it stored, and what  *)
(* the directory of the backups holds.                                     *)
(***************************************************************************)
EXTENDS Backups, FiniteSetTheorems, WellFoundedInduction, TLAPS

-----------------------------------------------------------------------------
(* The schema.  What a process has behind it at each step of its startup,  *)
(* and what each stored version stands for.                                *)

Behind(step, ps) ==
  /\ step \in {"v2", "v3", "alter", "v4", "v5", "stamp", "crypto", "up"} => V1 \subseteq ps
  /\ step \in {"v4", "v5", "stamp", "crypto", "up"} => "client_name" \in ps
  /\ step \in {"v5", "stamp", "crypto", "up"} => "indexes v4" \in ps
  /\ step \in {"stamp", "crypto", "up"} => "index v5" \in ps

Stamped(v, ps) ==
  /\ v \in {1, 2, 3, 4, 5} => V1 \subseteq ps
  /\ v \in {3, 4, 5} => "client_name" \in ps
  /\ v \in {4, 5} => "indexes v4" \in ps
  /\ v = 5 => "index v5" \in ps

SchemaInv == Stamped(version, parts) /\ \A p \in Processes : Behind(proc[p], parts)

(* The key.  It is loaded at the last step, and a sealed configuration was *)
(* stored by a bot that had it.                                            *)
KeyInv ==
  /\ \A p \in Processes :
       /\ fernet[p] = (env[p] /\ proc[p] = "up")
       /\ env[p] => key
  /\ "sealed" \in forms => key /\ (proc[Bot] = "down" \/ env[Bot])

(* The race for the column.  Who still wants to add it when it is there    *)
(* looked before somebody else added it.                                   *)
Late == {p \in Processes : proc[p] = "alter"}

RaceInv ==
  /\ "client_name" \notin parts => raised = 0
  /\ "client_name" \in parts => raised + Cardinality(Late) < Cardinality(Processes)

StartInv == MigrationsTypeOK /\ SchemaInv /\ KeyInv

(* A release has the parts its version stands for, and no others. *)
LEMMA ReleaseParts ==
  ASSUME version \in 0 .. 5, parts \in Release(version)
  PROVE  Stamped(version, parts) /\ parts \subseteq Schema
<1>1. PICK column \in SUBSET {"client_name"} :
        /\ parts = V1 \cup column \cup (IF version >= 4 THEN {"indexes v4"} ELSE {})
                                   \cup (IF version >= 5 THEN {"index v5"} ELSE {})
        /\ version >= 3 => column = {"client_name"}
  <2>1. PICK column \in IF version >= 3 THEN {{"client_name"}} ELSE {{}, {"client_name"}} :
          parts = V1 \cup column \cup (IF version >= 4 THEN {"indexes v4"} ELSE {})
                                 \cup (IF version >= 5 THEN {"index v5"} ELSE {})
    BY DEF Release
  <2>2. column \in SUBSET {"client_name"} /\ (version >= 3 => column = {"client_name"})
    OBVIOUS
  <2> QED
    BY <2>1, <2>2
<1>2. Stamped(version, parts)
  <2>1. V1 \subseteq parts
    BY <1>1
  <2>2. ASSUME version \in {3, 4, 5} PROVE "client_name" \in parts
    <3>1. version >= 3
      BY <2>2
    <3> QED
      BY <1>1, <3>1
  <2>3. ASSUME version \in {4, 5} PROVE "indexes v4" \in parts
    <3>1. version >= 4
      BY <2>3
    <3> QED
      BY <1>1, <3>1
  <2>4. ASSUME version = 5 PROVE "index v5" \in parts
    <3>1. version >= 5
      BY <2>4
    <3> QED
      BY <1>1, <3>1
  <2> QED
    BY <2>1, <2>2, <2>3, <2>4 DEF Stamped
<1>3. parts \subseteq Schema
  BY <1>1 DEF Schema
<1> QED
  BY <1>2, <1>3

(* A database of any release, and an empty one, satisfies the invariant.   *)
LEMMA StartInit == MigrationsInit => StartInv
<1> SUFFICES ASSUME MigrationsInit PROVE StartInv
  OBVIOUS
<1> USE MigrationsAssumption DEF MigrationsInit
<1>0. Stamped(version, parts) /\ parts \subseteq Schema
  <2>1. CASE version = 0 /\ parts = {}
    BY <2>1 DEF Stamped
  <2>2. CASE parts \in Release(version)
    BY <2>2, ReleaseParts DEF SchemaVersion
  <2> QED
    BY <2>1, <2>2
<1>1. MigrationsTypeOK
  BY <1>0 DEF MigrationsTypeOK, Steps
<1>2. SchemaInv
  BY <1>0 DEF SchemaInv, Behind
<1>3. KeyInv
  BY DEF KeyInv
<1> QED
  BY <1>1, <1>2, <1>3 DEF StartInv

(* What _migrate_v1 makes is V1.                                           *)
LEMMA TablesInV1 == \A k \in 1 .. 6 : TablesV1[k] \in V1
  BY DEF V1

(* The column is no table of its own; devices is the second table made.    *)
LEMMA TablesNamed ==
  /\ \A k \in 1 .. 6 : TablesV1[k] # "client_name"
  /\ TablesV1[2] = "devices" /\ 2 \in 1 .. 6
<1>1. /\ TablesV1[1] = "users" /\ TablesV1[2] = "devices" /\ TablesV1[3] = "payments"
      /\ TablesV1[4] = "settings" /\ TablesV1[5] = "fsm_states" /\ TablesV1[6] = "indexes v1"
  BY DEF TablesV1
<1>2. ASSUME NEW k \in 1 .. 6 PROVE TablesV1[k] # "client_name"
  <2>1. k = 1 \/ k = 2 \/ k = 3 \/ k = 4 \/ k = 5 \/ k = 6
    OBVIOUS
  <2> QED
    BY <1>1, <2>1
<1>3. 2 \in 1 .. 6
  OBVIOUS
<1> QED
  BY <1>1, <1>2, <1>3

(* Every step of a startup keeps the types.                                *)
LEMMA TypeStep == MigrationsTypeOK /\ [MigrationsNext]_startVars => MigrationsTypeOK'
<1> SUFFICES ASSUME MigrationsTypeOK, [MigrationsNext]_startVars PROVE MigrationsTypeOK'
  OBVIOUS
<1> USE MigrationsAssumption DEF MigrationsTypeOK, Goto, Migrates, Ends, Steps, SchemaVersion
<1>1. CASE UNCHANGED startVars
  BY <1>1 DEF startVars
<1>2. CASE SetKey
  BY <1>2 DEF SetKey
<1>3. CASE StoreConfig
  BY <1>3 DEF StoreConfig
<1>4. ASSUME NEW p \in Processes, Start(p) \/ Die(p) \/ Startup(p) PROVE MigrationsTypeOK'
  <2>1. CASE Start(p)
    BY <2>1 DEF Start
  <2>2. CASE Die(p)
    BY <2>2 DEF Die
  <2>3. CASE ReadVersion(p)
    BY <2>3 DEF ReadVersion
  <2>4. CASE MigrateV1(p)
    BY <2>4, TablesInV1 DEF MigrateV1, Schema
  <2>5. CASE MigrateV2(p)
    BY <2>5 DEF MigrateV2
  <2>6. CASE TableInfo(p)
    BY <2>6 DEF TableInfo
  <2>7. CASE AlterTable(p)
    BY <2>7 DEF AlterTable, Schema
  <2>8. CASE AlterFails(p)
    BY <2>8 DEF AlterFails
  <2>9. CASE MigrateV4(p)
    BY <2>9 DEF MigrateV4, Schema
  <2>10. CASE MigrateV5(p)
    BY <2>10 DEF MigrateV5, Schema
  <2>11. CASE SetSchemaVersion(p)
    BY <2>11 DEF SetSchemaVersion
  <2>12. CASE InitCrypto(p)
    BY <2>12 DEF InitCrypto
  <2> QED
    BY <1>4, <2>1, <2>2, <2>3, <2>4, <2>5, <2>6, <2>7, <2>8, <2>9, <2>10, <2>11, <2>12
       DEF Startup
<1> QED
  BY <1>1, <1>2, <1>3, <1>4 DEF MigrationsNext

(* Parts are only added, so what a process or the stamp relies on stays.   *)
LEMMA BehindStays ==
  ASSUME NEW step, NEW ps, NEW qs, ps \subseteq qs, Behind(step, ps)
  PROVE  Behind(step, qs)
  BY DEF Behind

(* The same for the stamp.                                                 *)
LEMMA StampedStays ==
  ASSUME NEW v, NEW ps, NEW qs, ps \subseteq qs, Stamped(v, ps)
  PROVE  Stamped(v, qs)
  BY DEF Stamped

(* The migration a stored version leads to has its predecessors behind it. *)
LEMMA StampedBehind ==
  ASSUME NEW v \in 0 .. 5, NEW ps \in SUBSET Schema, Stamped(v, ps)
  PROVE  /\ Behind("v1", ps)
         /\ v = 1 => Behind("v2", ps)
         /\ v = 2 => Behind("v3", ps)
         /\ v = 3 => Behind("v4", ps)
         /\ v = 4 => Behind("v5", ps)
         /\ v = 5 => Behind("crypto", ps)
  BY DEF Stamped, Behind

(* A process that goes to a step it has everything behind for keeps the    *)
(* invariant.                                                              *)
LEMMA MovesOn ==
  ASSUME NEW p \in Processes, NEW step, MigrationsTypeOK, SchemaInv,
         Goto(p, step), parts \subseteq parts', Behind(step, parts'), Stamped(version', parts')
  PROVE  SchemaInv'
<1>1. ASSUME NEW q \in Processes PROVE Behind(proc'[q], parts')
  <2>1. CASE q = p
    BY <2>1 DEF Goto, MigrationsTypeOK
  <2>2. CASE q # p
    <3>1. Behind(proc[q], parts) /\ proc'[q] = proc[q]
      BY <2>2 DEF SchemaInv, Goto, MigrationsTypeOK
    <3> QED
      BY <3>1, BehindStays
  <2> QED
    BY <2>1, <2>2
<1> QED
  BY <1>1 DEF SchemaInv

(* Every step keeps what the processes and the stamp rely on.              *)
LEMMA SchemaStep ==
  ASSUME MigrationsTypeOK, SchemaInv, [MigrationsNext]_startVars
  PROVE  SchemaInv'
<1>1. CASE UNCHANGED startVars
  BY <1>1 DEF startVars, SchemaInv, Stamped, Behind
<1>2. CASE SetKey
  BY <1>2 DEF SetKey, SchemaInv, Stamped, Behind
<1>3. CASE StoreConfig
  BY <1>3 DEF StoreConfig, SchemaInv, Stamped, Behind
<1>4. ASSUME NEW p \in Processes, Start(p) \/ Die(p) \/ Startup(p) PROVE SchemaInv'
  <2> Behind(proc[p], parts) /\ Stamped(version, parts)
    BY DEF SchemaInv
  <2>1. CASE Start(p)
    <3>1. Goto(p, "read") /\ parts' = parts /\ version' = version
      BY <2>1 DEF Start
    <3> QED
      BY <3>1, StampedStays, MovesOn DEF Behind
  <2>2. CASE Die(p) \/ AlterFails(p)
    <3>1. Goto(p, "down") /\ parts' = parts /\ version' = version
      BY <2>2 DEF Die, AlterFails, Ends
    <3> QED
      BY <3>1, StampedStays, MovesOn DEF Behind
  <2>3. CASE ReadVersion(p)
    <3> DEFINE step == IF version = SchemaVersion THEN "crypto"
                       ELSE <<"v1", "v2", "v3", "v4", "v5">>[version + 1]
    <3>1. Goto(p, step) /\ parts' = parts /\ version' = version
      BY <2>3 DEF ReadVersion
    <3>2. version \in 0 .. 5 /\ parts \in SUBSET Schema
      BY DEF MigrationsTypeOK, SchemaVersion
    <3>3. Behind(step, parts)
      <4>1. CASE version = 5
        <5>1. Behind("crypto", parts)
          BY <4>1, <3>2, StampedBehind
        <5>2. step = "crypto"
          BY <4>1 DEF SchemaVersion
        <5> HIDE DEF step
        <5> QED
          BY <5>1, <5>2
      <4>2. CASE version = 0
        <5>1. Behind("v1", parts)
          BY <4>2, <3>2, StampedBehind
        <5>2. step = "v1"
          BY <4>2 DEF SchemaVersion
        <5> HIDE DEF step
        <5> QED
          BY <5>1, <5>2
      <4>3. CASE version = 1
        <5>1. Behind("v2", parts)
          BY <4>3, <3>2, StampedBehind
        <5>2. step = "v2"
          BY <4>3 DEF SchemaVersion
        <5> HIDE DEF step
        <5> QED
          BY <5>1, <5>2
      <4>4. CASE version = 2
        <5>1. Behind("v3", parts)
          BY <4>4, <3>2, StampedBehind
        <5>2. step = "v3"
          BY <4>4 DEF SchemaVersion
        <5> HIDE DEF step
        <5> QED
          BY <5>1, <5>2
      <4>5. CASE version = 3
        <5>1. Behind("v4", parts)
          BY <4>5, <3>2, StampedBehind
        <5>2. step = "v4"
          BY <4>5 DEF SchemaVersion
        <5> HIDE DEF step
        <5> QED
          BY <5>1, <5>2
      <4>6. CASE version = 4
        <5>1. Behind("v5", parts)
          BY <4>6, <3>2, StampedBehind
        <5>2. step = "v5"
          BY <4>6 DEF SchemaVersion
        <5> HIDE DEF step
        <5> QED
          BY <5>1, <5>2
      <4> QED
        BY <3>2, <4>1, <4>2, <4>3, <4>4, <4>5, <4>6
    <3> HIDE DEF step
    <3> QED
      BY <3>1, <3>3, MovesOn
  <2>4. CASE MigrateV1(p)
    <3>1. parts \subseteq parts' /\ version' = version
      BY <2>4 DEF MigrateV1
    <3>2. Stamped(version', parts')
      BY <3>1, StampedStays
    <3>3. CASE proc' = proc
      BY <3>1, <3>2, <3>3, BehindStays DEF SchemaInv
    <3>4. CASE V1 \subseteq parts /\ Goto(p, "v2")
      BY <3>1, <3>2, <3>4, MovesOn DEF Behind
    <3> QED
      BY <2>4, <3>3, <3>4 DEF MigrateV1
  <2>5. CASE MigrateV2(p)
    <3>1. Goto(p, "v3") /\ parts' = parts /\ version' = version /\ proc[p] = "v2"
      BY <2>5 DEF MigrateV2
    <3> QED
      BY <3>1, StampedStays, MovesOn DEF Behind
  <2>6. CASE TableInfo(p)
    <3>1. /\ parts' = parts /\ version' = version /\ proc[p] = "v3"
          /\ Goto(p, "alter") \/ ("client_name" \in parts /\ Goto(p, "v4"))
      BY <2>6 DEF TableInfo
    <3> QED
      BY <3>1, StampedStays, MovesOn DEF Behind
  <2>7. CASE AlterTable(p)
    <3>1. /\ Goto(p, "v4") /\ parts' = parts \cup {"client_name"}
          /\ version' = version /\ proc[p] = "alter"
      BY <2>7 DEF AlterTable
    <3>2. parts \subseteq parts'
      BY <3>1
    <3>4. Stamped(version', parts')
      BY <3>1, <3>2, StampedStays
    <3>3. Behind("v4", parts')
      BY <3>1 DEF Behind
    <3> QED
      BY <3>1, <3>2, <3>3, <3>4, MovesOn
  <2>8. CASE MigrateV4(p)
    <3>1. /\ Goto(p, "v5") /\ parts' = parts \cup {"indexes v4"}
          /\ version' = version /\ proc[p] = "v4"
      BY <2>8 DEF MigrateV4
    <3>2. parts \subseteq parts'
      BY <3>1
    <3>4. Stamped(version', parts')
      BY <3>1, <3>2, StampedStays
    <3>3. Behind("v5", parts')
      BY <3>1 DEF Behind
    <3> QED
      BY <3>1, <3>2, <3>3, <3>4, MovesOn
  <2>9. CASE MigrateV5(p)
    <3>1. /\ Goto(p, "stamp") /\ parts' = parts \cup {"index v5"}
          /\ version' = version /\ proc[p] = "v5"
      BY <2>9 DEF MigrateV5
    <3>2. parts \subseteq parts'
      BY <3>1
    <3>4. Stamped(version', parts')
      BY <3>1, <3>2, StampedStays
    <3>3. Behind("stamp", parts')
      BY <3>1 DEF Behind
    <3> QED
      BY <3>1, <3>2, <3>3, <3>4, MovesOn
  <2>10. CASE SetSchemaVersion(p)
    <3>1. Goto(p, "crypto") /\ parts' = parts /\ proc[p] = "stamp"
      BY <2>10 DEF SetSchemaVersion
    <3>2. Stamped(version', parts')
      BY <3>1 DEF Behind, Stamped
    <3> QED
      BY <3>1, <3>2, MovesOn DEF Behind
  <2>11. CASE InitCrypto(p)
    <3>1. Goto(p, "up") /\ parts' = parts /\ version' = version /\ proc[p] = "crypto"
      BY <2>11 DEF InitCrypto
    <3> QED
      BY <3>1, StampedStays, MovesOn DEF Behind
  <2> QED
    BY <1>4, <2>1, <2>2, <2>3, <2>4, <2>5, <2>6, <2>7, <2>8, <2>9, <2>10, <2>11 DEF Startup
<1> QED
  BY <1>1, <1>2, <1>3, <1>4 DEF MigrationsNext

(* Every step keeps the key where sealed configurations are read.          *)
LEMMA KeyStep ==
  ASSUME MigrationsTypeOK, KeyInv, [MigrationsNext]_startVars
  PROVE  KeyInv'
<1> USE MigrationsAssumption DEF MigrationsTypeOK, KeyInv, Goto, Migrates, Ends
<1>1. CASE UNCHANGED startVars
  BY <1>1 DEF startVars
<1>2. CASE SetKey
  BY <1>2 DEF SetKey
<1>3. CASE StoreConfig
  BY <1>3 DEF StoreConfig
<1>4. ASSUME NEW p \in Processes, Start(p) \/ Die(p) \/ Startup(p) PROVE KeyInv'
  <2>1. CASE Start(p)
    BY <2>1 DEF Start
  <2>2. CASE Die(p)
    BY <2>2 DEF Die
  <2>3. CASE ReadVersion(p)
    <3>1. proc[p] = "read" /\ proc'[p] \in {"crypto", "v1", "v2", "v3", "v4", "v5"}
      BY <2>3 DEF ReadVersion, SchemaVersion
    <3> QED
      BY <2>3, <3>1 DEF ReadVersion
  <2>4. CASE MigrateV1(p)
    BY <2>4 DEF MigrateV1
  <2>5. CASE MigrateV2(p)
    BY <2>5 DEF MigrateV2
  <2>6. CASE TableInfo(p)
    BY <2>6 DEF TableInfo
  <2>7. CASE AlterTable(p)
    BY <2>7 DEF AlterTable
  <2>8. CASE AlterFails(p)
    BY <2>8 DEF AlterFails
  <2>9. CASE MigrateV4(p)
    BY <2>9 DEF MigrateV4
  <2>10. CASE MigrateV5(p)
    BY <2>10 DEF MigrateV5
  <2>11. CASE SetSchemaVersion(p)
    BY <2>11 DEF SetSchemaVersion
  <2>12. CASE InitCrypto(p)
    BY <2>12 DEF InitCrypto
  <2> QED
    BY <1>4, <2>1, <2>2, <2>3, <2>4, <2>5, <2>6, <2>7, <2>8, <2>9, <2>10, <2>11, <2>12
       DEF Startup
<1> QED
  BY <1>1, <1>2, <1>3, <1>4 DEF MigrationsNext

(* The invariant of the startup is inductive.                              *)
LEMMA StartStep == StartInv /\ [MigrationsNext]_startVars => StartInv'
  BY TypeStep, SchemaStep, KeyStep DEF StartInv

(* Whatever else the bot does, its startup is that of Migrations.          *)
LEMMA BackupsStarts == Init /\ [][Next]_vars => MigrationsSpec
<1>1. Init => MigrationsInit
  BY DEF Init
<1>2. [Next]_vars => [MigrationsNext]_startVars
  <2> SUFFICES ASSUME [Next]_vars PROVE [MigrationsNext]_startVars
    OBVIOUS
  <2>1. CASE UNCHANGED vars
    BY <2>1 DEF vars
  <2>2. CASE Snapshot \/ Encrypt \/ Unlink \/ Send \/ Rotate \/ Finish
    BY <2>2 DEF Snapshot, Encrypt, Unlink, Send, Rotate, Finish
  <2>3. CASE BotDies
    BY <2>3, MigrationsAssumption DEF BotDies, MigrationsNext
  <2>4. CASE Others
    BY <2>4 DEF Others, MigrationsNext
  <2> QED
    BY <2>1, <2>2, <2>3, <2>4 DEF Next
<1> QED
  BY <1>1, <1>2, PTL DEF MigrationsSpec

(* It holds in every behaviour of bot and backups.                         *)
LEMMA StartInvAlways == Spec => []StartInv
<1>1. MigrationsSpec => []StartInv
  BY StartInit, StartStep, PTL DEF MigrationsSpec
<1> QED
  BY <1>1, BackupsStarts, PTL DEF Spec

(* A database stamped with the current version, or one a process works on, *)
(* lacks no part of the schema, whatever died or raced (_apply_migrations).*)
THEOREM VersionHonestAlways == Spec => []VersionHonest
<1>1. StartInv => VersionHonest
  <2> SUFFICES ASSUME StartInv, version = SchemaVersion \/ \E p \in Processes : proc[p] = "up"
               PROVE  parts = Schema
    BY DEF VersionHonest
  <2>1. V1 \subseteq parts /\ {"client_name", "indexes v4", "index v5"} \subseteq parts
    <3>1. CASE version = SchemaVersion
      BY <3>1 DEF StartInv, SchemaInv, Stamped, SchemaVersion
    <3>2. ASSUME NEW p \in Processes, proc[p] = "up"
          PROVE  V1 \subseteq parts /\ {"client_name", "indexes v4", "index v5"} \subseteq parts
      <4>1. Behind("up", parts)
        BY <3>2 DEF StartInv, SchemaInv
      <4> QED
        BY <4>1 DEF Behind
    <3> QED
      BY <3>1, <3>2
  <2> QED
    BY <2>1 DEF Schema, StartInv, MigrationsTypeOK
<1> QED
  BY <1>1, StartInvAlways, PTL

(* A running bot has the key of every sealed configuration in its tables   *)
(* (encrypt_config, decrypt_config, and init_crypto after init_db).        *)
THEOREM DeliverableAlways == Spec => []Deliverable
<1>1. StartInv => Deliverable
  BY MigrationsAssumption DEF StartInv, KeyInv, Deliverable
<1> QED
  BY <1>1, StartInvAlways, PTL

-----------------------------------------------------------------------------
(* How often a start fails. *)

(* There is a process, and finitely many.                                  *)
LEMMA ProcessesCounted ==
  /\ Cardinality(Processes) \in Nat /\ Cardinality(Processes) > 0
  /\ Cardinality({}) = 0
<1>1. Cardinality(Processes) \in Nat /\ Cardinality({}) = 0
  BY MigrationsAssumption, FS_CardinalityType, FS_EmptySet
<1>2. Cardinality(Processes) # 0
  BY MigrationsAssumption, FS_EmptySet
<1> QED
  BY <1>1, <1>2

(* Sets of processes are counted; one that lacks somebody is smaller.      *)
LEMMA LateCounted ==
  ASSUME NEW S \in SUBSET Processes
  PROVE  /\ IsFiniteSet(S)
         /\ Cardinality(S) \in Nat
         /\ \A p \in Processes : p \notin S => Cardinality(S) < Cardinality(Processes)
         /\ \A T \in SUBSET S : Cardinality(T) <= Cardinality(S)
<1>1. IsFiniteSet(S) /\ Cardinality(S) \in Nat
  BY MigrationsAssumption, FS_Subset, FS_CardinalityType
<1>2. ASSUME NEW p \in Processes, p \notin S PROVE Cardinality(S) < Cardinality(Processes)
  <2>1. S # Processes
    BY <1>2
  <2> QED
    BY <2>1, MigrationsAssumption, FS_Subset, ProcessesCounted, <1>1
<1>3. ASSUME NEW T \in SUBSET S PROVE Cardinality(T) <= Cardinality(S)
  BY <1>1, FS_Subset
<1> QED
  BY <1>1, <1>2, <1>3

(* Whoever stops wanting to add the column does no harm.                   *)
LEMMA LateShrinks ==
  ASSUME MigrationsTypeOK, RaceInv, Late' \subseteq Late, raised' = raised,
         ("client_name" \in parts') <=> ("client_name" \in parts)
  PROVE  RaceInv'
<1>1. Late \in SUBSET Processes /\ Late' \in SUBSET Processes /\ Late' \in SUBSET Late
  BY DEF Late
<1>2. /\ Cardinality(Late) \in Nat /\ Cardinality(Late') \in Nat
      /\ Cardinality(Late') <= Cardinality(Late)
  BY <1>1, LateCounted
<1>3. "client_name" \notin parts' => raised' = 0
  BY DEF RaceInv
<1>4. ASSUME "client_name" \in parts' PROVE raised' + Cardinality(Late') < Cardinality(Processes)
  <2>1. raised + Cardinality(Late) < Cardinality(Processes)
    BY <1>4 DEF RaceInv
  <2> QED
    BY <2>1, <1>2, ProcessesCounted DEF MigrationsTypeOK
<1> QED
  BY <1>3, <1>4 DEF RaceInv

(* Nobody races before anything started.                                   *)
LEMMA RaceInit == MigrationsInit => RaceInv
<1> SUFFICES ASSUME MigrationsInit PROVE RaceInv
  OBVIOUS
<1>1. Late = {} /\ raised = 0
  BY DEF MigrationsInit, Late
<1> QED
  BY <1>1, ProcessesCounted DEF RaceInv

(* Every step keeps the count of failures and of those still to fail.      *)
LEMMA RaceStep == StartInv /\ RaceInv /\ [MigrationsNext]_startVars => RaceInv'
<1> SUFFICES ASSUME StartInv, RaceInv, [MigrationsNext]_startVars PROVE RaceInv'
  OBVIOUS
<1>0. MigrationsTypeOK /\ SchemaInv
  BY DEF StartInv
<1>1. CASE UNCHANGED startVars
  <2>1. Late' = Late /\ raised' = raised /\ parts' = parts
    BY <1>1 DEF startVars, Late
  <2> QED
    BY <2>1, <1>0, LateShrinks
<1>2. CASE SetKey \/ StoreConfig
  <2>1. Late' = Late /\ raised' = raised /\ parts' = parts
    BY <1>2 DEF SetKey, StoreConfig, Late
  <2> QED
    BY <2>1, <1>0, LateShrinks
<1>3. ASSUME NEW p \in Processes, Start(p) \/ Die(p) \/ Startup(p) PROVE RaceInv'
  (* p goes where nobody adds the column. *)
  <2>1. ASSUME NEW step, step # "alter", Goto(p, step), raised' = raised,
               ("client_name" \in parts') <=> ("client_name" \in parts)
        PROVE  RaceInv'
    <3>1. Late' \subseteq Late
      BY <2>1, <1>0 DEF Goto, Late, MigrationsTypeOK
    <3> QED
      BY <2>1, <3>1, <1>0, LateShrinks
  <2>2. CASE Start(p)
    BY <2>2, <2>1 DEF Start
  <2>3. CASE Die(p)
    BY <2>3, <2>1 DEF Die, Ends
  <2>4. CASE ReadVersion(p)
    <3>1. PICK step \in {"crypto", "v1", "v2", "v3", "v4", "v5"} : Goto(p, step)
      <4> DEFINE step == IF version = SchemaVersion THEN "crypto"
                         ELSE <<"v1", "v2", "v3", "v4", "v5">>[version + 1]
      <4>1. Goto(p, step)
        BY <2>4 DEF ReadVersion
      <4>2. step \in {"crypto", "v1", "v2", "v3", "v4", "v5"}
        BY <1>0 DEF MigrationsTypeOK, SchemaVersion
      <4> HIDE DEF step
      <4> QED
        BY <4>1, <4>2
    <3>2. step # "alter" /\ raised' = raised /\ parts' = parts
      BY <2>4 DEF ReadVersion, Migrates
    <3> QED
      BY <3>1, <3>2, <2>1
  <2>5. CASE MigrateV1(p)
    <3>1. CASE ("client_name" \in parts') <=> ("client_name" \in parts)
      <4>1. Late' \subseteq Late /\ raised' = raised
        BY <2>5, <1>0 DEF MigrateV1, Migrates, Goto, Late, MigrationsTypeOK
      <4> QED
        BY <3>1, <4>1, <1>0, LateShrinks
    (* The table comes with the column; nobody can be past it yet. *)
    <3>2. CASE ~(("client_name" \in parts') <=> ("client_name" \in parts))
      <4>1. /\ "devices" \notin parts /\ "client_name" \notin parts
            /\ proc' = proc /\ raised' = raised
        <5>1. PICK k \in 1 .. 6 :
                /\ TablesV1[k] \notin parts /\ proc' = proc /\ raised' = raised
                /\ parts' = parts \cup {TablesV1[k]} \cup
                              (IF TablesV1[k] = "devices" THEN {"client_name"} ELSE {})
          BY <2>5, <3>2 DEF MigrateV1, Migrates
        <5>2. TablesV1[k] # "client_name"
          BY TablesNamed
        <5>3. TablesV1[k] = "devices"
          BY <3>2, <5>1, <5>2
        <5>4. "client_name" \in parts'
          BY <5>1, <5>3
        <5> QED
          BY <3>2, <5>1, <5>3, <5>4
      <4>2. "devices" \in V1
        BY TablesNamed, TablesInV1
      <4>3. Late = {}
        <5>1. ASSUME NEW q \in Processes PROVE proc[q] # "alter"
          BY <1>0, <4>1, <4>2 DEF SchemaInv, Behind
        <5> QED
          BY <5>1 DEF Late
      <4>4. Late' = {}
        BY <4>1, <4>3 DEF Late
      <4>5. raised' = 0
        BY <4>1 DEF RaceInv
      <4> QED
        BY <4>4, <4>5, ProcessesCounted DEF RaceInv
    <3> QED
      BY <3>1, <3>2
  <2>6. CASE MigrateV2(p)
    BY <2>6, <2>1 DEF MigrateV2, Migrates
  <2>7. CASE TableInfo(p)
    <3>1. raised' = raised /\ parts' = parts
      BY <2>7 DEF TableInfo, Migrates
    <3>2. CASE "client_name" \in parts
      BY <2>7, <3>1, <3>2, <2>1 DEF TableInfo
    <3>3. CASE "client_name" \notin parts
      BY <3>1, <3>3 DEF RaceInv
    <3> QED
      BY <3>2, <3>3
  <2>8. CASE AlterTable(p)
    <3>1. raised' = 0 /\ Goto(p, "v4")
      BY <2>8 DEF AlterTable, Migrates, RaceInv
    <3>2. Late' \in SUBSET Processes /\ p \notin Late'
      BY <3>1, <1>0 DEF Goto, Late, MigrationsTypeOK
    <3>3. Cardinality(Late') \in Nat /\ Cardinality(Late') < Cardinality(Processes)
      BY <3>2, LateCounted
    <3> QED
      BY <3>1, <3>3 DEF RaceInv
  <2>9. CASE AlterFails(p)
    <3>1. /\ proc[p] = "alter" /\ Goto(p, "down") /\ raised' = raised + 1
          /\ "client_name" \in parts /\ parts' = parts
      BY <2>9 DEF AlterFails, Ends
    <3>2. Late' = Late \ {p} /\ p \in Late /\ Late \in SUBSET Processes
      BY <3>1, <1>0 DEF Goto, Late, MigrationsTypeOK
    <3>3. Cardinality(Late') = Cardinality(Late) - 1 /\ Cardinality(Late) \in Nat
      BY <3>2, LateCounted, FS_RemoveElement
    <3>4. raised + Cardinality(Late) < Cardinality(Processes)
      BY <3>1 DEF RaceInv
    <3>5. raised \in Nat
      BY <1>0 DEF MigrationsTypeOK
    <3>6. raised' + Cardinality(Late') = raised + Cardinality(Late)
      BY <3>1, <3>3, <3>5
    <3> QED
      BY <3>1, <3>4, <3>6 DEF RaceInv
  <2>10. CASE MigrateV4(p)
    <3>1. Goto(p, "v5") /\ raised' = raised /\ parts' = parts \cup {"indexes v4"}
      BY <2>10 DEF MigrateV4, Migrates
    <3>2. ("client_name" \in parts') <=> ("client_name" \in parts)
      <4>1. "client_name" # "indexes v4"
        OBVIOUS
      <4> QED
        BY <3>1, <4>1
    <3> QED
      BY <3>1, <3>2, <2>1
  <2>11. CASE MigrateV5(p)
    <3>1. Goto(p, "stamp") /\ raised' = raised /\ parts' = parts \cup {"index v5"}
      BY <2>11 DEF MigrateV5, Migrates
    <3>2. ("client_name" \in parts') <=> ("client_name" \in parts)
      <4>1. "client_name" # "index v5"
        OBVIOUS
      <4> QED
        BY <3>1, <4>1
    <3> QED
      BY <3>1, <3>2, <2>1
  <2>12. CASE SetSchemaVersion(p)
    BY <2>12, <2>1 DEF SetSchemaVersion, Migrates
  <2>13. CASE InitCrypto(p)
    BY <2>13, <2>1 DEF InitCrypto
  <2> QED
    BY <1>3, <2>2, <2>3, <2>4, <2>5, <2>6, <2>7, <2>8, <2>9, <2>10, <2>11, <2>12, <2>13
       DEF Startup
<1> QED
  BY <1>1, <1>2, <1>3 DEF MigrationsNext

(* Programs that start beside each other on an old database fail less      *)
(* often than there are programs, and whatever dies or starts again, the   *)
(* race for the column is over for good (_migrate_v3).                     *)
THEOREM StartsFailOnceAlways == Spec => []StartsFailOnce
<1>1. StartInv /\ RaceInv => StartsFailOnce
  <2> SUFFICES ASSUME StartInv, RaceInv PROVE raised < Cardinality(Processes)
    BY DEF StartsFailOnce
  <2>1. raised \in Nat
    BY DEF StartInv, MigrationsTypeOK
  <2>2. CASE "client_name" \notin parts
    BY <2>2, ProcessesCounted DEF RaceInv
  <2>3. CASE "client_name" \in parts
    <3>1. Cardinality(Late) \in Nat
      BY LateCounted DEF Late
    <3> QED
      BY <2>3, <2>1, <3>1, ProcessesCounted DEF RaceInv
  <2> QED
    BY <2>2, <2>3
<1>2. MigrationsSpec => [](StartInv /\ RaceInv)
  BY StartInit, StartStep, RaceInit, RaceStep, PTL DEF MigrationsSpec
<1> QED
  BY <1>1, <1>2, BackupsStarts, PTL DEF Spec

-----------------------------------------------------------------------------
(* The backup job.  The files of its night at each step, and what it has   *)
(* delivered.                                                              *)

Tonight == {f \in files : f.night = job.night}
Pile == {f \in files : f.night # job.night}

JobInv ==
  /\ IsFiniteSet(files) /\ \A f \in files : f.night <= nights
  /\ delivered <= nights
  /\ job.step = "none" => job = NoJob
  /\ job.step # "none" => job.night = nights /\ nights # 0
  /\ job.step = "encrypt" => Tonight = {Clear}
  /\ job.step = "unlink" => Tonight = {Clear, Sealed}
  /\ job.step = "send" => \E f \in files : Tonight = {f}
  /\ job.step \in {"encrypt", "unlink", "send"} => delivered < nights
  /\ job.step = "rotate" => job.night = delivered
  /\ job.step # "rotate" => job.drop = {}

(* The files the rotation leaves are few, and one of them is tonight's.    *)
KeptInv ==
  /\ job.step = "rotate" =>
       /\ Cardinality(files \ job.drop) <= MaxBackups + 2 * faults
       /\ \E f \in files \ job.drop : f.night = delivered
  /\ delivered # 0 => \E f \in files : f.night = delivered

(* Tonight's snapshot leaves the job in clear only without a key. *)
ClearInv ==
  job.step \in {"send", "rotate"} =>
    \A f \in Tonight : f.form = "clear" => f.night \in keyless

BackupTypes ==
  /\ files \subseteq File
  /\ nights \in 0 .. MaxSnapshots
  /\ job \in [step : {"none", "encrypt", "unlink", "send", "rotate"},
              night : 0 .. MaxSnapshots, drop : SUBSET File]
  /\ delivered \in 0 .. MaxSnapshots
  /\ keyless \subseteq 1 .. MaxSnapshots /\ broken \subseteq 1 .. MaxSnapshots
  /\ faults \in 0 .. MaxFaults

BackupInv == BackupTypes /\ JobInv /\ KeptInv /\ PileBound /\ ClearTraced /\ ClearInv

(* The bounds are numbers.                                                 *)
LEMMA BackupNumbers ==
  MaxBackups \in Nat /\ MaxBackups > 0 /\ MaxSnapshots \in Nat /\ MaxFaults \in Nat
  BY BackupsAssumption

(* The place of a file in sorted(). *)
Rank(f) == 2 * f.night + (IF f.form = "clear" THEN 0 ELSE 1)

(* sorted() orders the files of a directory in a line.                     *)
LEMMA OlderRanks ==
  ASSUME NEW f \in File, NEW g \in File
  PROVE  /\ Rank(f) \in Nat
         /\ Older(f, g) <=> Rank(f) < Rank(g)
         /\ Rank(f) = Rank(g) => f = g
<1>1. /\ f.night \in Nat /\ g.night \in Nat
      /\ f.form \in {"clear", "sealed"} /\ g.form \in {"clear", "sealed"}
  BY BackupNumbers DEF File
<1>2. f.night = g.night /\ f.form = g.form => f = g
  BY DEF File
<1>3. /\ Rank(f) = 2 * f.night \/ Rank(f) = 2 * f.night + 1
      /\ Rank(f) \in Nat
  BY <1>1 DEF Rank
<1>4. CASE f.form = "clear" /\ g.form = "clear"
  <2>1. Rank(f) = 2 * f.night /\ Rank(g) = 2 * g.night
    BY <1>1, <1>4 DEF Rank
  <2> QED
    BY <1>1, <1>2, <1>4, <2>1 DEF Older
<1>5. CASE f.form = "clear" /\ g.form = "sealed"
  <2>1. Rank(f) = 2 * f.night /\ Rank(g) = 2 * g.night + 1
    BY <1>1, <1>5 DEF Rank
  <2> QED
    BY <1>1, <1>5, <2>1 DEF Older
<1>6. CASE f.form = "sealed" /\ g.form = "clear"
  <2>1. Rank(f) = 2 * f.night + 1 /\ Rank(g) = 2 * g.night
    BY <1>1, <1>6 DEF Rank
  <2> QED
    BY <1>1, <1>6, <2>1 DEF Older
<1>7. CASE f.form = "sealed" /\ g.form = "sealed"
  <2>1. Rank(f) = 2 * f.night + 1 /\ Rank(g) = 2 * g.night + 1
    BY <1>1, <1>7 DEF Rank
  <2> QED
    BY <1>1, <1>2, <1>7, <2>1 DEF Older
<1> QED
  BY <1>1, <1>4, <1>5, <1>6, <1>7, <1>3

(* Files there are have an eldest among them.                              *)
LEMMA Eldest ==
  ASSUME NEW K \in SUBSET File, K # {}
  PROVE  \E m \in K : \A g \in K \ {m} : Older(m, g)
<1> DEFINE T == {Rank(f) : f \in K}
<1>1. T \subseteq Nat /\ T # {}
  BY OlderRanks
<1>2. PICK r \in T : \A s \in T : ~ (<<s, r>> \in OpToRel(<, Nat))
  BY <1>1, NatLessThanWellFounded, WFMin
<1>3. \A s \in T : ~ (s < r)
  BY <1>1, <1>2 DEF OpToRel
<1>4. PICK m \in K : r = Rank(m)
  OBVIOUS
<1>5. ASSUME NEW g \in K \ {m} PROVE Older(m, g)
  <2>1. Rank(g) \in Nat /\ Rank(m) \in Nat /\ Rank(m) # Rank(g) /\ ~ (Rank(g) < Rank(m))
    BY <1>3, <1>4, OlderRanks
  <2> QED
    BY <2>1, OlderRanks
<1> QED
  BY <1>5

(* What is not surplus is no more than what may be kept.                   *)
LEMMA FewKept ==
  ASSUME files \subseteq File, IsFiniteSet(files)
  PROVE  Cardinality(files \ Surplus) <= MaxBackups
<1> DEFINE K == files \ Surplus
<1>1. IsFiniteSet(K) /\ Cardinality(K) \in Nat
  BY FS_Subset, FS_CardinalityType
<1>2. CASE K = {}
  BY <1>2, FS_EmptySet, BackupNumbers
<1>3. CASE K # {}
  <2>1. PICK m \in K : \A g \in K \ {m} : Older(m, g)
    BY <1>3, Eldest
  <2> DEFINE N == {g \in files : Older(m, g)}
  <2>2. IsFiniteSet(N) /\ Cardinality(N) \in Nat
    BY FS_Subset, FS_CardinalityType
  <2>3. ~ (Cardinality(N) >= MaxBackups)
    BY <2>1 DEF Surplus
  <2>4. K \ {m} \subseteq N
    BY <2>1
  <2>5. Cardinality(K \ {m}) <= Cardinality(N)
    BY <2>2, <2>4, FS_Subset
  <2>6. Cardinality(K \ {m}) = Cardinality(K) - 1
    BY <1>1, <2>1, FS_RemoveElement
  <2> HIDE DEF K, N
  <2> QED
    BY <1>1, <2>2, <2>3, <2>5, <2>6, BackupNumbers DEF K
<1> QED
  BY <1>2, <1>3

(* The newest file is not surplus.                                         *)
LEMMA NewestKept ==
  ASSUME NEW f \in files, \A g \in files : ~Older(f, g)
  PROVE  f \notin Surplus
<1>1. {g \in files : Older(f, g)} = {}
  OBVIOUS
<1>2. Cardinality({g \in files : Older(f, g)}) = 0
  BY <1>1, FS_EmptySet
<1>3. ~ (Cardinality({g \in files : Older(f, g)}) >= MaxBackups)
  BY <1>2, BackupNumbers
<1> QED
  BY <1>3 DEF Surplus

(* A file is its night and its form.                                       *)
LEMMA Forms ==
  ASSUME NEW f \in File
  PROVE  f = [night |-> f.night, form |-> "clear"] \/ f = [night |-> f.night, form |-> "sealed"]
  BY DEF File

(* The night in progress is one of those counted.                          *)
LEMMA JobNight ==
  ASSUME BackupTypes, JobInv, job.step # "none"
  PROVE  job.night = nights /\ nights \in 1 .. MaxSnapshots
<1>1. job.night = nights /\ nights # 0 /\ nights \in 0 .. MaxSnapshots
  BY DEF BackupTypes, JobInv
<1> QED
  BY <1>1, BackupNumbers

(* The whole directory, as what other nights left and what this one may    *)
(* have.                                                                   *)
LEMMA PileAndTonight ==
  ASSUME BackupTypes, JobInv
  PROVE  /\ files \subseteq Pile \cup {Clear, Sealed}
         /\ job = NoJob => files \subseteq Pile
         /\ IsFiniteSet(Pile) /\ Cardinality(Pile) \in Nat
<1>1. files \subseteq Pile \cup {Clear, Sealed}
  BY Forms DEF BackupTypes, Pile, Clear, Sealed
<1>2. ASSUME job = NoJob PROVE files \subseteq Pile
  <2>1. \A f \in files : f.night # 0
    BY BackupNumbers DEF BackupTypes, File
  <2> QED
    BY <1>2, <2>1 DEF NoJob, Pile
<1>3. IsFiniteSet(Pile) /\ Cardinality(Pile) \in Nat
  BY FS_Subset, FS_CardinalityType DEF JobInv, Pile
<1> QED
  BY <1>1, <1>2, <1>3

(* Two more files are at most two more.                                    *)
LEMMA TwoMore ==
  ASSUME NEW P, NEW Q, NEW a, NEW b, IsFiniteSet(P), Q \subseteq P \cup {a, b}
  PROVE  /\ IsFiniteSet(Q) /\ Cardinality(Q) \in Nat /\ Cardinality(P) \in Nat
         /\ Cardinality(Q) <= Cardinality(P) + 2
<1> DEFINE A == P \cup {a}
           B == A \cup {b}
<1>1. IsFiniteSet(A) /\ Cardinality(A) \in Nat /\ Cardinality(P) \in Nat
      /\ (Cardinality(A) = Cardinality(P) \/ Cardinality(A) = Cardinality(P) + 1)
  BY FS_AddElement, FS_CardinalityType
<1> HIDE DEF A
<1>2. IsFiniteSet(B) /\ Cardinality(B) \in Nat
      /\ (Cardinality(B) = Cardinality(A) \/ Cardinality(B) = Cardinality(A) + 1)
  BY <1>1, FS_AddElement, FS_CardinalityType
<1>3. Q \subseteq B
  BY DEF A
<1> HIDE DEF B
<1>4. IsFiniteSet(Q) /\ Cardinality(Q) \in Nat /\ Cardinality(Q) <= Cardinality(B)
  BY <1>2, <1>3, FS_Subset, FS_CardinalityType
<1> QED
  BY <1>1, <1>2, <1>4

(* A job that breaks leaves two files of its night at most, and a fault is *)
(* counted for them.                                                       *)
LEMMA BreakKeeps ==
  ASSUME BackupInv, NEW n \in 1 .. MaxSnapshots, Breaks(n),
         nights' = n, nights <= n, delivered' = delivered,
         keyless \subseteq keyless', keyless' \subseteq 1 .. MaxSnapshots,
         files \subseteq files', files' \subseteq File,
         NEW a, NEW b, files' \subseteq Pile \cup {a, b},
         \A f \in files' \ Pile : f.night = n
  PROVE  BackupInv'
<1> USE DEF Breaks
<1>0. BackupTypes /\ JobInv /\ KeptInv /\ PileBound /\ ClearTraced
  BY DEF BackupInv
<1>1. nights \in Nat /\ n \in Nat /\ delivered \in Nat /\ faults \in Nat /\ n # 0
      /\ faults' = faults + 1 /\ faults' \in 0 .. MaxFaults /\ n \in 0 .. MaxSnapshots
  BY <1>0, BackupNumbers DEF BackupTypes
<1>2. job' = NoJob /\ job'.step = "none" /\ job'.night = 0 /\ job'.drop = {}
  BY DEF NoJob
<1>3. Pile \subseteq files /\ IsFiniteSet(Pile)
  BY <1>0, PileAndTonight DEF Pile
<1>4. /\ IsFiniteSet(files') /\ Cardinality(files') \in Nat /\ Cardinality(Pile) \in Nat
      /\ Cardinality(files') <= Cardinality(Pile) + 2
  BY <1>3, TwoMore
<1>5. \A f \in files' : f.night <= n /\ f.night \in Nat
  <2>1. ASSUME NEW f \in files' PROVE f.night <= n /\ f.night \in Nat
    <3>1. f.night \in Nat
      BY BackupNumbers DEF File
    <3>2. CASE f \in Pile
      BY <3>1, <3>2, <1>0, <1>1, <1>3 DEF JobInv
    <3>3. CASE f \notin Pile
      BY <3>3, <1>1
    <3> QED
      BY <3>1, <3>2, <3>3
  <2> QED
    BY <2>1
<1>6. BackupTypes'
  <2>1. job' \in [step : {"none", "encrypt", "unlink", "send", "rotate"},
              night : 0 .. MaxSnapshots, drop : SUBSET File]
    BY BackupNumbers DEF NoJob
  <2>2. broken' \subseteq 1 .. MaxSnapshots
    BY <1>0 DEF BackupTypes
  <2> QED
    BY <1>0, <1>1, <2>1, <2>2 DEF BackupTypes
<1>7. JobInv'
  <2>1. delivered' <= nights'
    BY <1>0, <1>1 DEF JobInv
  <2> QED
    BY <1>2, <1>4, <1>5, <2>1 DEF JobInv
<1>8. KeptInv'
  <2>1. delivered' # 0 => \E f \in files' : f.night = delivered'
    BY <1>0 DEF KeptInv
  <2> QED
    BY <1>2, <2>1 DEF KeptInv
<1>9. PileBound'
  <2>1. Cardinality(Pile) <= MaxBackups + 2 * faults
    BY <1>0 DEF PileBound, Pile
  <2>2. Cardinality(files') <= MaxBackups + 2 * faults'
    BY <1>1, <1>4, <2>1, BackupNumbers
  <2>3. {f \in files' : f.night # job'.night} \subseteq files'
    OBVIOUS
  <2>4. Cardinality({f \in files' : f.night # job'.night}) <= Cardinality(files')
        /\ Cardinality({f \in files' : f.night # job'.night}) \in Nat
    BY <1>4, <2>3, FS_Subset, FS_CardinalityType
  <2>5. Cardinality({f \in files' : f.night # job'.night}) <= MaxBackups + 2 * faults'
    BY <1>1, <1>4, <2>2, <2>4, BackupNumbers
  <2> QED
    BY <2>5 DEF PileBound
<1>10. ClearTraced'
  <2>1. ASSUME NEW f \in files', f.form = "clear"
        PROVE  f.night \in {job'.night} \cup keyless' \cup broken'
    <3>1. CASE f \in Pile
      <4>1. f \in files /\ f.night # job.night
        BY <3>1 DEF Pile
      <4> QED
        BY <4>1, <2>1, <1>0 DEF ClearTraced
    <3>2. CASE f \notin Pile
      BY <3>2
    <3> QED
      BY <3>1, <3>2
  <2> QED
    BY <2>1 DEF ClearTraced
<1>11. ClearInv'
  BY <1>2 DEF ClearInv
<1> QED
  BY <1>6, <1>7, <1>8, <1>9, <1>10, <1>11 DEF BackupInv

(* The start of a backup: the night is new, and all there was is the pile. *)
LEMMA SnapshotKeeps == ASSUME BackupInv, Snapshot PROVE BackupInv'
<1> DEFINE n == nights + 1
           file == [night |-> n, form |-> "clear"]
<1>0. BackupTypes /\ JobInv /\ KeptInv /\ PileBound /\ ClearTraced
  BY DEF BackupInv
<1>1. /\ nights \in Nat /\ n \in 1 .. MaxSnapshots /\ nights' = n /\ nights < n /\ n # 0
      /\ delivered' = delivered /\ delivered \in Nat
  BY <1>0, BackupNumbers DEF Snapshot, BackupTypes
<1>2. job = NoJob
  BY <1>0 DEF Snapshot, JobInv
<1>3. Pile = files /\ IsFiniteSet(Pile)
  BY <1>0, <1>2, PileAndTonight DEF Pile
<1>4. keyless \subseteq keyless' /\ keyless' \subseteq 1 .. MaxSnapshots
      /\ keyless' \subseteq keyless \cup {n} /\ (~ fernet[Bot] => n \in keyless')
  BY <1>0, <1>1 DEF Snapshot, BackupTypes
<1>5. file \in File /\ file.night = n /\ file.form = "clear"
  BY <1>1 DEF File
<1>6. \A f \in files : f.night \in Nat /\ f.night <= nights /\ f.night # n /\ f.night < n
  <2>1. \A f \in files : f.night \in Nat /\ f.night <= nights
    BY <1>0, BackupNumbers DEF BackupTypes, File, JobInv
  <2> QED
    BY <1>1, <2>1
<1>7. CASE files' \in {files, files \cup {file}} /\ Breaks(n)
  <2>1. files \subseteq files' /\ files' \subseteq File /\ files' \subseteq Pile \cup {file, file}
    BY <1>0, <1>3, <1>5, <1>7 DEF BackupTypes
  <2>2. \A f \in files' \ Pile : f.night = n
    BY <1>5, <2>1
  <2>3. nights <= n
    BY <1>1
  <2>4. Breaks(n)
    BY <1>7
  <2> HIDE DEF n, file
  <2> QED
    BY <1>1, <1>4, <2>1, <2>2, <2>3, <2>4, BreakKeeps
<1>8. CASE /\ files' = files \cup {file}
           /\ job' = [step |-> IF fernet[Bot] THEN "encrypt" ELSE "send", night |-> n, drop |-> {}]
           /\ Works
  <2>1. /\ job'.step \in {"encrypt", "send"} /\ job'.night = n /\ job'.drop = {}
        /\ faults' = faults /\ broken' = broken
        /\ (job'.step = "send" => ~ fernet[Bot])
    BY <1>8 DEF Works
  <2>2. BackupTypes'
    <3>1. job' \in [step : {"none", "encrypt", "unlink", "send", "rotate"},
              night : 0 .. MaxSnapshots, drop : SUBSET File]
      <4>1. n \in 0 .. MaxSnapshots
        BY <1>1, BackupNumbers
      <4> QED
        BY <1>8, <4>1
    <3>2. nights' \in 0 .. MaxSnapshots
      BY <1>1, BackupNumbers
    <3>3. files' \subseteq File
      BY <1>0, <1>5, <1>8 DEF BackupTypes
    <3> QED
      BY <1>0, <1>1, <1>4, <2>1, <3>1, <3>2, <3>3 DEF BackupTypes
  <2>3. {f \in files' : f.night = job'.night} = {file}
    BY <1>5, <1>6, <1>8, <2>1
  <2>4. {f \in files' : f.night # job'.night} = files
    BY <1>5, <1>6, <1>8, <2>1
  <2>5. JobInv'
    <3>1. IsFiniteSet(files')
      BY <1>3, <1>8, FS_AddElement
    <3>2. \A f \in files' : f.night <= n
      <4>1. n <= n
        BY <1>1
      <4>2. \A f \in files : f.night <= n
        BY <1>1, <1>6
      <4> QED
        BY <1>5, <1>8, <4>1, <4>2
    <3>3. delivered <= n /\ delivered < n
      BY <1>0, <1>1 DEF JobInv
    <3>4. Tonight' = {file} /\ Clear' = file /\ file \in files'
      BY <1>8, <2>1, <2>3 DEF Tonight, Clear
    <3> HIDE DEF n, file
    <3> QED
      BY <1>1, <2>1, <3>1, <3>2, <3>3, <3>4 DEF JobInv
  <2>6. KeptInv'
    BY <1>0, <1>1, <1>8, <2>1 DEF KeptInv
  <2>7. PileBound'
    <3>1. Cardinality(files) <= MaxBackups + 2 * faults
      BY <1>0, <1>3 DEF PileBound, Pile
    <3> QED
      BY <2>1, <2>4, <3>1 DEF PileBound
  <2>8. ClearTraced'
    <3>1. ASSUME NEW f \in files', f.form = "clear"
          PROVE  f.night \in {job'.night} \cup keyless' \cup broken'
      <4>1. CASE f = file
        BY <4>1, <1>5, <2>1
      <4>2. CASE f \in files
        <5>1. f.night # 0
          BY <4>2, <1>0, BackupNumbers DEF BackupTypes, File
        <5>2. f.night \in keyless \cup broken
          BY <4>2, <5>1, <3>1, <1>0, <1>2 DEF ClearTraced, NoJob
        <5> QED
          BY <5>2, <1>4, <2>1
      <4> QED
        BY <1>8, <4>1, <4>2
    <3> QED
      BY <3>1 DEF ClearTraced
  <2>9. ClearInv'
    <3>1. Tonight' = {file}
      BY <2>3 DEF Tonight
    <3>2. job'.step = "send" => n \in keyless'
      BY <1>4, <2>1
    <3> QED
      BY <1>5, <2>1, <3>1, <3>2 DEF ClearInv
  <2> QED
    BY <2>2, <2>5, <2>6, <2>7, <2>8, <2>9 DEF BackupInv
<1> QED
  BY <1>7, <1>8 DEF Snapshot

(* A break in the middle of a job. *)
LEMMA JobBreaks ==
  ASSUME BackupInv, job.step # "none", Breaks(job.night),
         UNCHANGED <<nights, delivered, keyless>>,
         files \subseteq files', files' \subseteq files \cup {Sealed}
  PROVE  BackupInv'
<1>0. BackupTypes /\ JobInv
  BY DEF BackupInv
<1>1. job.night = nights /\ nights \in 1 .. MaxSnapshots /\ nights <= nights
  BY <1>0, JobNight
<1>2. files' \subseteq Pile \cup {Clear, Sealed}
  BY <1>0, PileAndTonight
<1>3. files' \subseteq File
  BY <1>0, <1>1 DEF BackupTypes, Sealed, File
<1>4. \A f \in files' \ Pile : f.night = job.night
  BY <1>2 DEF Clear, Sealed
<1>5. keyless' \subseteq 1 .. MaxSnapshots
  BY <1>0 DEF BackupTypes
<1> QED
  BY <1>1, <1>2, <1>3, <1>4, <1>5, BreakKeeps

(* A step of a job that goes on, which changes nothing but tonight's files. *)
LEMMA GoesOn ==
  ASSUME BackupInv, NEW step \in {"unlink", "send"}, job.step \in {"encrypt", "unlink"},
         Goes(step), Works, UNCHANGED <<nights, delivered, keyless>>,
         Pile \subseteq files', files' \subseteq Pile \cup {Clear, Sealed},
         step = "unlink" => Tonight' = {Clear, Sealed},
         step = "send" => Tonight' = {Sealed}
  PROVE  BackupInv'
<1>0. BackupTypes /\ JobInv /\ KeptInv /\ PileBound /\ ClearTraced
  BY DEF BackupInv
<1>1. job.night = nights /\ nights \in 1 .. MaxSnapshots /\ nights # 0
  BY <1>0, JobNight DEF JobInv
<1>2. job'.step = step /\ job'.night = job.night /\ job'.drop = job.drop /\ job.drop = {}
  BY <1>0 DEF Goes, BackupTypes, JobInv
<1>3. nights' = nights /\ delivered' = delivered /\ keyless' = keyless
      /\ faults' = faults /\ broken' = broken
  BY DEF Works
<1>4. Clear \in File /\ Sealed \in File /\ Clear.night = nights /\ Sealed.night = nights
      /\ Sealed.form = "sealed"
  BY <1>1 DEF File, Clear, Sealed
<1>5. Pile' = Pile
  BY <1>1, <1>2, <1>4 DEF Pile
<1>6. BackupTypes'
  <2>1. files' \subseteq File
    BY <1>0, <1>4 DEF BackupTypes, Pile
  <2>2. job' \in [step : {"none", "encrypt", "unlink", "send", "rotate"},
              night : 0 .. MaxSnapshots, drop : SUBSET File]
    BY <1>0 DEF Goes, BackupTypes
  <2> QED
    BY <1>0, <1>3, <2>1, <2>2 DEF BackupTypes
<1>7. JobInv'
  <2>1. IsFiniteSet(files')
    BY <1>0, PileAndTonight, TwoMore
  <2>2. \A f \in files' : f.night <= nights
    <3>1. nights <= nights
      BY <1>1
    <3>2. \A f \in Pile : f.night <= nights
      BY <1>0 DEF JobInv, Pile
    <3> QED
      BY <1>4, <3>1, <3>2
  <2>3. delivered < nights /\ delivered <= nights
    BY <1>0 DEF JobInv
  <2>4. Clear' = Clear /\ Sealed' = Sealed
    BY <1>2 DEF Clear, Sealed
  <2>5. step = "send" => \E f \in files' : Tonight' = {f}
    <3>1. step = "send" => Sealed \in files'
      BY DEF Tonight
    <3> QED
      BY <3>1
  <2> QED
    BY <1>1, <1>2, <1>3, <2>1, <2>2, <2>3, <2>4, <2>5 DEF JobInv
<1>8. KeptInv'
  <2>1. ASSUME delivered # 0 PROVE \E f \in files' : f.night = delivered
    <3>1. PICK f \in files : f.night = delivered
      BY <2>1, <1>0 DEF KeptInv
    <3>2. delivered < nights /\ delivered \in Nat /\ nights \in Nat
      BY <1>0, <1>1 DEF JobInv, BackupTypes
    <3>3. delivered # nights
      BY <3>2
    <3>4. f \in Pile
      BY <1>1, <3>1, <3>3 DEF Pile
    <3> QED
      BY <3>1, <3>4
  <2> QED
    BY <1>2, <1>3, <2>1 DEF KeptInv
<1>9. PileBound'
  BY <1>0, <1>3, <1>5 DEF PileBound, Pile
<1>10. ClearTraced'
  <2>1. ASSUME NEW f \in files', f.form = "clear"
        PROVE  f.night \in {job.night} \cup keyless \cup broken
    <3>1. CASE f \in Pile
      BY <2>1, <3>1, <1>0 DEF ClearTraced, Pile
    <3>2. CASE f \notin Pile
      BY <3>2, <1>1, <1>4
    <3> QED
      BY <3>1, <3>2
  <2> QED
    BY <1>2, <1>3, <2>1 DEF ClearTraced
<1>11. ClearInv'
  BY <1>2, <1>4 DEF ClearInv
<1> QED
  BY <1>6, <1>7, <1>8, <1>9, <1>10, <1>11 DEF BackupInv

(* Sealing, and the removal of the clear file. *)
LEMMA SealKeeps == ASSUME BackupInv, Encrypt \/ Unlink PROVE BackupInv'
<1>0. BackupTypes /\ JobInv
  BY DEF BackupInv
<1>1. files \subseteq Pile \cup {Clear, Sealed} /\ Pile \subseteq files
  BY <1>0, PileAndTonight DEF Pile
<1>2. Clear # Sealed /\ Clear.night = job.night /\ Sealed.night = job.night
  <2>1. "clear" # "sealed"
    OBVIOUS
  <2> QED
    BY <2>1 DEF Clear, Sealed
<1>3. \A step : Goes(step) => job'.night = job.night
  BY <1>0 DEF Goes, BackupTypes
<1>4. CASE /\ job.step = "encrypt" /\ files' = files \cup {Sealed} /\ Goes("unlink") /\ Works
           /\ UNCHANGED <<nights, delivered, keyless>>
  <2>1. Tonight = {Clear}
    BY <1>0, <1>4 DEF JobInv
  <2>2. Tonight' = {Clear, Sealed}
    BY <1>2, <1>3, <1>4, <2>1 DEF Tonight
  <2>3. "unlink" # "send"
    OBVIOUS
  <2>4. Pile \subseteq files' /\ files' \subseteq Pile \cup {Clear, Sealed}
    BY <1>1, <1>4
  <2> QED
    BY <1>4, <2>2, <2>3, <2>4, GoesOn
<1>5. CASE /\ job.step = "unlink" /\ files' = files \ {Clear} /\ Goes("send") /\ Works
           /\ UNCHANGED <<nights, delivered, keyless>>
  <2>1. Tonight = {Clear, Sealed}
    BY <1>0, <1>5 DEF JobInv
  <2>2. Tonight' = {Sealed}
    BY <1>2, <1>3, <1>5, <2>1 DEF Tonight
  <2>3. "unlink" # "send"
    OBVIOUS
  <2>4. Pile \subseteq files' /\ files' \subseteq Pile \cup {Clear, Sealed}
    BY <1>1, <1>2, <1>5 DEF Pile
  <2> QED
    BY <1>5, <2>2, <2>3, <2>4, GoesOn
<1>6. CASE /\ job.step \in {"encrypt", "unlink"} /\ files' \in {files, files \cup {Sealed}}
           /\ Breaks(job.night) /\ UNCHANGED <<nights, delivered, keyless>>
  BY <1>6, JobBreaks
<1> QED
  BY <1>4, <1>5, <1>6 DEF Encrypt, Unlink

(* Delivery: tonight's one file is the newest, so the rotation that starts *)
(* keeps it, and few others.                                               *)
LEMMA SendKeeps == ASSUME BackupInv, Send PROVE BackupInv'
<1>0. BackupTypes /\ JobInv /\ KeptInv /\ PileBound /\ ClearTraced /\ ClearInv
  BY DEF BackupInv
<1>1. job.step = "send" /\ UNCHANGED <<files, nights, keyless>>
  BY DEF Send
<1>2. job.night = nights /\ nights \in 1 .. MaxSnapshots /\ nights # 0
  BY <1>0, <1>1, JobNight DEF JobInv
<1>3. CASE Breaks(job.night) /\ UNCHANGED delivered
  BY <1>1, <1>3, JobBreaks
<1>4. CASE /\ job' = [job EXCEPT !.step = "rotate", !.drop = Surplus]
           /\ delivered' = job.night /\ Works
  <2>1. /\ job'.step = "rotate" /\ job'.night = nights /\ job'.drop = Surplus
        /\ delivered' = nights /\ faults' = faults /\ broken' = broken
    BY <1>0, <1>2, <1>4 DEF Works, BackupTypes
  <2>2. BackupTypes'
    <3>1. Surplus \in SUBSET File
      BY <1>0 DEF Surplus, BackupTypes
    <3>2. job' \in [step : {"none", "encrypt", "unlink", "send", "rotate"},
              night : 0 .. MaxSnapshots, drop : SUBSET File]
      BY <1>0, <1>4, <3>1 DEF BackupTypes
    <3>3. delivered' \in 0 .. MaxSnapshots
      BY <1>0, <2>1 DEF BackupTypes
    <3> QED
      BY <1>0, <1>1, <2>1, <3>2, <3>3 DEF BackupTypes
  <2>3. JobInv'
    <3>1. nights <= nights
      BY <1>2
    <3> QED
      BY <1>0, <1>1, <1>2, <2>1, <3>1 DEF JobInv
  <2>4. PICK f \in files : Tonight = {f}
    BY <1>0, <1>1 DEF JobInv
  <2>5. f.night = nights
    BY <1>2, <2>4 DEF Tonight
  <2>6. f \notin Surplus
    <3>1. ASSUME NEW g \in files PROVE ~ Older(f, g)
      <4>1. g.night \in Nat /\ g.night <= nights /\ nights \in Nat
        BY <1>0, <1>2, BackupNumbers DEF BackupTypes, File, JobInv
      <4>2. CASE g = f
        <5>1. "clear" # "sealed"
          OBVIOUS
        <5>2. ~ (f.night < f.night)
          BY <2>5, <4>1
        <5> QED
          BY <4>2, <5>1, <5>2 DEF Older
      <4>3. CASE g # f
        <5>1. g.night # nights
          BY <1>2, <2>4, <4>3 DEF Tonight
        <5>2. ~ (nights < g.night) /\ nights # g.night
          BY <4>1, <5>1
        <5> QED
          BY <2>5, <5>2 DEF Older
      <4> QED
        BY <4>2, <4>3
    <3> QED
      BY <3>1, NewestKept
  <2>7. KeptInv'
    <3>1. Cardinality(files \ Surplus) <= MaxBackups + 2 * faults
      <4>1. Cardinality(files \ Surplus) <= MaxBackups
        BY <1>0, FewKept DEF BackupTypes, JobInv
      <4>2. Cardinality(files \ Surplus) \in Nat
        BY <1>0, FS_Subset, FS_CardinalityType DEF JobInv
      <4>3. faults \in Nat
        BY <1>0, BackupNumbers DEF BackupTypes
      <4> QED
        BY <4>1, <4>2, <4>3, BackupNumbers
    <3> QED
      BY <1>1, <2>1, <2>4, <2>5, <2>6, <3>1 DEF KeptInv
  <2>8. PileBound'
    BY <1>0, <1>1, <1>2, <2>1 DEF PileBound
  <2>9. ClearTraced'
    BY <1>0, <1>1, <1>2, <2>1 DEF ClearTraced
  <2>10. ClearInv'
    BY <1>0, <1>1, <1>2, <2>1 DEF ClearInv, Tonight
  <2> QED
    BY <2>2, <2>3, <2>7, <2>8, <2>9, <2>10 DEF BackupInv
<1> QED
  BY <1>3, <1>4 DEF Send

(* Rotation: a file is removed, or stays and is a fault.                   *)
LEMMA RotateKeeps == ASSUME BackupInv, Rotate PROVE BackupInv'
<1>0. BackupTypes /\ JobInv /\ KeptInv /\ PileBound /\ ClearTraced /\ ClearInv
  BY DEF BackupInv
<1>1. job.step = "rotate" /\ UNCHANGED <<nights, delivered, keyless, broken>>
  BY DEF Rotate
<1>2. job.night = nights /\ nights \in 1 .. MaxSnapshots /\ nights # 0 /\ job.night = delivered
  BY <1>0, <1>1, JobNight DEF JobInv
<1>3. PICK f \in job.drop :
        /\ job' = [job EXCEPT !.drop = @ \ {f}]
        /\ \/ files' = files \ {f} /\ UNCHANGED faults
           \/ faults < MaxFaults /\ faults' = faults + 1 /\ UNCHANGED files
  BY DEF Rotate
<1>4. job'.step = "rotate" /\ job'.night = nights /\ job'.drop = job.drop \ {f}
  BY <1>0, <1>1, <1>2, <1>3 DEF BackupTypes
<1>5. files' \subseteq files /\ IsFiniteSet(files')
  BY <1>0, <1>3, FS_Subset DEF JobInv
<1>6. faults \in Nat /\ faults' \in 0 .. MaxFaults /\ faults' \in Nat /\ faults <= faults'
  BY <1>0, <1>3, BackupNumbers DEF BackupTypes
<1>7. BackupTypes'
  <2>1. job' \in [step : {"none", "encrypt", "unlink", "send", "rotate"},
            night : 0 .. MaxSnapshots, drop : SUBSET File]
    BY <1>0, <1>3 DEF BackupTypes
  <2> QED
    BY <1>0, <1>1, <1>5, <1>6, <2>1 DEF BackupTypes
<1>8. JobInv'
  BY <1>0, <1>1, <1>2, <1>4, <1>5 DEF JobInv
<1>9. files' \ job'.drop \subseteq (files \ job.drop) \cup {f}
  BY <1>4, <1>5
<1>10. \E g \in files' \ job'.drop : g.night = delivered
  <2>1. PICK g \in files \ job.drop : g.night = delivered
    BY <1>0, <1>1 DEF KeptInv
  <2>2. g \in files' \ job'.drop
    BY <1>3, <1>4
  <2> QED
    BY <2>1, <2>2
<1>11. Cardinality(files' \ job'.drop) <= MaxBackups + 2 * faults'
  <2> DEFINE K == files \ job.drop
             L == files' \ job'.drop
  <2>1. IsFiniteSet(K) /\ Cardinality(K) \in Nat /\ Cardinality(K) <= MaxBackups + 2 * faults
    BY <1>0, <1>1, FS_Subset, FS_CardinalityType DEF JobInv, KeptInv
  <2>2. IsFiniteSet(L) /\ Cardinality(L) \in Nat
    BY <1>5, FS_Subset, FS_CardinalityType
  <2>3. CASE files' = files \ {f} /\ UNCHANGED faults
    <3>1. L \subseteq K
      BY <1>4, <2>3
    <3>2. Cardinality(L) <= Cardinality(K)
      BY <2>1, <3>1, FS_Subset
    <3> HIDE DEF K, L
    <3>3. Cardinality(L) <= MaxBackups + 2 * faults'
      BY <1>6, <2>1, <2>2, <2>3, <3>2, BackupNumbers
    <3> QED
      BY <3>3 DEF L
  <2>4. CASE faults' = faults + 1
    <3>1. L \subseteq K \cup {f, f}
      BY <1>9
    <3> HIDE DEF K, L
    <3>2. Cardinality(L) <= Cardinality(K) + 2
      BY <2>1, <3>1, TwoMore
    <3>3. Cardinality(L) <= MaxBackups + 2 * faults'
      BY <1>6, <2>1, <2>2, <2>4, <3>2, BackupNumbers
    <3> QED
      BY <3>3 DEF L
  <2> QED
    BY <1>3, <2>3, <2>4
<1>12. KeptInv'
  BY <1>1, <1>10, <1>11 DEF KeptInv
<1>13. PileBound'
  <2> DEFINE P == {g \in files' : g.night # job'.night}
  <2>1. P \subseteq Pile
    BY <1>2, <1>4, <1>5 DEF Pile
  <2>2. IsFiniteSet(Pile) /\ Cardinality(Pile) \in Nat
    BY <1>0, PileAndTonight
  <2>3. Cardinality(P) <= Cardinality(Pile) /\ Cardinality(P) \in Nat
    BY <2>1, <2>2, FS_Subset, FS_CardinalityType
  <2>4. Cardinality(Pile) <= MaxBackups + 2 * faults
    BY <1>0 DEF PileBound, Pile
  <2> HIDE DEF P
  <2>5. Cardinality(P) <= MaxBackups + 2 * faults'
    BY <1>6, <2>2, <2>3, <2>4, BackupNumbers
  <2> QED
    BY <2>5 DEF P, PileBound
<1>14. ClearTraced'
  BY <1>0, <1>1, <1>2, <1>4, <1>5 DEF ClearTraced
<1>15. ClearInv'
  BY <1>0, <1>1, <1>2, <1>4, <1>5 DEF ClearInv, Tonight
<1> QED
  BY <1>7, <1>8, <1>12, <1>13, <1>14, <1>15 DEF BackupInv

(* The end of the job: what it leaves is the next night's pile.            *)
LEMMA FinishKeeps == ASSUME BackupInv, Finish PROVE BackupInv'
<1>0. BackupTypes /\ JobInv /\ KeptInv /\ PileBound /\ ClearTraced /\ ClearInv
  BY DEF BackupInv
<1>1. /\ job.step = "rotate" /\ job.drop = {} /\ job' = NoJob
      /\ UNCHANGED <<files, nights, delivered, keyless, broken, faults>>
  BY DEF Finish, Works
<1>2. job'.step = "none" /\ job'.night = 0 /\ job'.drop = {}
  BY <1>1 DEF NoJob
<1>3. BackupTypes'
  <2>1. job' \in [step : {"none", "encrypt", "unlink", "send", "rotate"},
            night : 0 .. MaxSnapshots, drop : SUBSET File]
    BY <1>1, BackupNumbers DEF NoJob
  <2> QED
    BY <1>0, <1>1, <2>1 DEF BackupTypes
<1>4. JobInv'
  BY <1>0, <1>1, <1>2 DEF JobInv
<1>5. KeptInv'
  BY <1>0, <1>1, <1>2 DEF KeptInv
<1>6. PileBound'
  <2> DEFINE P == {g \in files' : g.night # job'.night}
  <2>1. files \ job.drop = files /\ P \subseteq files
    BY <1>1
  <2>2. Cardinality(files) <= MaxBackups + 2 * faults
    BY <1>0, <1>1, <2>1 DEF KeptInv
  <2>3. Cardinality(P) <= Cardinality(files) /\ Cardinality(P) \in Nat /\ Cardinality(files) \in Nat
    BY <1>0, <2>1, FS_Subset, FS_CardinalityType DEF JobInv
  <2>4. faults \in Nat /\ faults' = faults
    BY <1>0, <1>1, BackupNumbers DEF BackupTypes
  <2> HIDE DEF P
  <2>5. Cardinality(P) <= MaxBackups + 2 * faults'
    BY <2>2, <2>3, <2>4, BackupNumbers
  <2> QED
    BY <2>5 DEF P, PileBound
<1>7. ClearTraced'
  <2>1. ASSUME NEW g \in files', g.form = "clear" PROVE g.night \in keyless \cup broken
    <3>1. CASE g.night = job.night
      BY <1>0, <1>1, <2>1, <3>1 DEF ClearInv, Tonight
    <3>2. CASE g.night # job.night
      BY <1>0, <1>1, <2>1, <3>2 DEF ClearTraced
    <3> QED
      BY <3>1, <3>2
  <2> QED
    BY <1>1, <2>1 DEF ClearTraced
<1>8. ClearInv'
  BY <1>2 DEF ClearInv
<1> QED
  BY <1>3, <1>4, <1>5, <1>6, <1>7, <1>8 DEF BackupInv

(* A step of something else than the backup.                               *)
LEMMA OtherKeeps == ASSUME BackupInv, UNCHANGED backupVars PROVE BackupInv'
  BY DEF backupVars, BackupInv, BackupTypes, JobInv, KeptInv, PileBound, ClearTraced, ClearInv,
         Tonight, Pile, Clear, Sealed

(* The bot dies, and a job it had with it.                                 *)
LEMMA DeathKeeps == ASSUME BackupInv, BotDies PROVE BackupInv'
<1>1. CASE job = NoJob
  <2>1. UNCHANGED backupVars
    BY <1>1 DEF BotDies, Works, backupVars
  <2> QED
    BY <2>1, OtherKeeps
<1>2. CASE job # NoJob
  <2>1. job.step # "none"
    BY <1>2 DEF BackupInv, JobInv
  <2>2. Breaks(job.night) /\ UNCHANGED <<files, nights, delivered, keyless>>
    BY <1>2 DEF BotDies
  <2> QED
    BY <2>1, <2>2, JobBreaks
<1> QED
  BY <1>1, <1>2

(* Every step of the system keeps the invariant of the backups.            *)
LEMMA BackupStep == BackupInv /\ [Next]_vars => BackupInv'
<1> SUFFICES ASSUME BackupInv, [Next]_vars PROVE BackupInv'
  OBVIOUS
<1>1. CASE UNCHANGED vars
  <2>1. UNCHANGED backupVars
    BY <1>1 DEF vars
  <2> QED
    BY <2>1, OtherKeeps
<1> QED
  BY <1>1, SnapshotKeeps, SealKeeps, SendKeeps, RotateKeeps, FinishKeeps, DeathKeeps, OtherKeeps
     DEF Next

(* An empty directory satisfies it. *)
LEMMA BackupStart == Init => BackupInv
<1> SUFFICES ASSUME Init PROVE BackupInv
  OBVIOUS
<1>1. /\ files = {} /\ nights = 0 /\ job = NoJob
      /\ delivered = 0 /\ keyless = {} /\ broken = {} /\ faults = 0
  BY DEF Init
<1>2. 0 \in 0 .. MaxSnapshots /\ 0 \in 0 .. MaxFaults
  BY BackupNumbers
<1>3. job.step = "none" /\ job.night = 0 /\ job.drop = {}
  BY <1>1 DEF NoJob
<1>4. BackupTypes
  <2>1. job \in [step : {"none", "encrypt", "unlink", "send", "rotate"},
            night : 0 .. MaxSnapshots, drop : SUBSET File]
    BY <1>1, <1>2 DEF NoJob
  <2> QED
    BY <1>1, <1>2, <2>1 DEF BackupTypes
<1>5. JobInv
  BY <1>1, <1>3, FS_EmptySet DEF JobInv
<1>6. KeptInv
  BY <1>1, <1>3 DEF KeptInv
<1>7. PileBound
  <2>1. {f \in files : f.night # job.night} = {}
    BY <1>1
  <2>2. Cardinality({f \in files : f.night # job.night}) = 0
    BY <2>1, FS_EmptySet
  <2> QED
    BY <2>2, <1>1, BackupNumbers DEF PileBound
<1>8. ClearTraced /\ ClearInv
  BY <1>1, <1>3 DEF ClearTraced, ClearInv
<1> QED
  BY <1>4, <1>5, <1>6, <1>7, <1>8 DEF BackupInv

(* Every reachable state satisfies the invariant of the backups. *)
LEMMA BackupAlways == Spec => []BackupInv
  BY BackupStart, BackupStep, PTL DEF Spec

(* Every variable keeps its type, however many programs start and however  *)
(* many backups fail.                                                      *)
THEOREM TypeCorrect == Spec => []TypeOK
<1>1. BackupInv /\ StartInv => TypeOK
  BY DEF BackupInv, BackupTypes, StartInv, TypeOK
<1> QED
  BY <1>1, BackupAlways, StartInvAlways, PTL

(* The directory of the backups does not grow without bound, whatever step *)
(* of create_backup fails and whenever the process dies in it.             *)
THEOREM PileBoundAlways == Spec => []PileBound
<1>1. BackupInv => PileBound
  BY DEF BackupInv
<1> QED
  BY <1>1, BackupAlways, PTL

(* A snapshot in clear is never forgotten by a job that went well with a   *)
(* key: encrypt_file and the unlink after it are one or the night is       *)
(* marked broken.                                                          *)
THEOREM ClearTracedAlways == Spec => []ClearTraced
<1>1. BackupInv => ClearTraced
  BY DEF BackupInv
<1> QED
  BY <1>1, BackupAlways, PTL

(* Rotation never takes the snapshot that was delivered last, since it is  *)
(* the newest when the files to drop are listed.                           *)
THEOREM DeliveredKeptAlways == Spec => []DeliveredKept
<1>1. BackupInv => DeliveredKept
  BY DEF BackupInv, KeptInv, DeliveredKept
<1> QED
  BY <1>1, BackupAlways, PTL
=============================================================================
