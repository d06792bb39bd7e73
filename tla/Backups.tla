------------------------------ MODULE Backups ------------------------------
(***************************************************************************)
(* The nightly backup (core/backup.py): a snapshot of the database, sealed *)
(* when the running bot has a key, sent to a chat, and the oldest files    *)
(* dropped.  Every step may fail, which ends the job, and the process may  *)
(* die between two; it comes back as Migrations says.                      *)
(***************************************************************************)
EXTENDS Migrations

CONSTANTS
  MaxBackups,    \* _MAX_BACKUPS
  MaxSnapshots,  \* bound on the nights
  MaxFaults      \* bound on the failed steps and the jobs cut off

ASSUME BackupsAssumption ==
  MaxBackups \in Nat \ {0} /\ MaxSnapshots \in Nat /\ MaxFaults \in Nat

VARIABLES
  files,      \* BACKUP_DIR: snapshots by night and form
  nights,     \* snapshots begun, which is what the time stamps order
  job,        \* the job in progress: its step, its night, the files to drop
  delivered,  \* the night of the last snapshot delivered (history)
  keyless,    \* nights the bot had no key (history)
  broken,     \* nights whose job failed or was cut off (history)
  faults      \* failures so far (auxiliary)

backupVars == <<files, nights, job, delivered, keyless, broken, faults>>
vars == <<startVars, backupVars>>

File == [night : 1 .. MaxSnapshots, form : {"clear", "sealed"}]
NoJob == [step |-> "none", night |-> 0, drop |-> {}]

TypeOK ==
  /\ MigrationsTypeOK
  /\ files \subseteq File
  /\ nights \in 0 .. MaxSnapshots
  /\ job \in [step : {"none", "encrypt", "unlink", "send", "rotate"},
              night : 0 .. MaxSnapshots, drop : SUBSET File]
  /\ delivered \in 0 .. MaxSnapshots
  /\ keyless \subseteq 1 .. MaxSnapshots /\ broken \subseteq 1 .. MaxSnapshots
  /\ faults \in 0 .. MaxFaults

Init ==
  /\ MigrationsInit
  /\ files = {} /\ nights = 0 /\ job = NoJob
  /\ delivered = 0 /\ keyless = {} /\ broken = {} /\ faults = 0

(* sorted(): the names begin with the time stamp, and ".sqlite" comes      *)
(* before ".sqlite.enc".                                                   *)
Older(f, g) == f.night < g.night \/ (f.night = g.night /\ f.form = "clear" /\ g.form = "sealed")

(* Mutant: one file too many is kept; the newest are dropped. *)
SurplusLess == {f \in files : Cardinality({g \in files : Older(f, g)}) >= MaxBackups + 1}
SurplusNewest == {f \in files : Cardinality({g \in files : Older(g, f)}) >= MaxBackups}

(* all_files[:-_MAX_BACKUPS] *)
Surplus == {f \in files : Cardinality({g \in files : Older(f, g)}) >= MaxBackups}

-----------------------------------------------------------------------------
Goes(step) == job' = [job EXCEPT !.step = step]
Works == UNCHANGED <<broken, faults>>

(* An exception in the job, or the end of the process. *)
Breaks(night) ==
  /\ faults < MaxFaults /\ faults' = faults + 1
  /\ broken' = broken \cup {night}
  /\ job' = NoJob

Clear == [night |-> job.night, form |-> "clear"]
Sealed == [night |-> job.night, form |-> "sealed"]

(* VACUUM INTO a file that does not exist yet. *)
Snapshot ==
  /\ proc[Bot] = "up" /\ job.step = "none"
  /\ nights < MaxSnapshots /\ nights' = nights + 1
  /\ keyless' = IF fernet[Bot] THEN keyless ELSE keyless \cup {nights + 1}
  /\ LET file == [night |-> nights + 1, form |-> "clear"] IN
       \/ /\ files' = files \cup {file}
          /\ job' = [step |-> IF fernet[Bot] THEN "encrypt" ELSE "send",
                     night |-> nights + 1, drop |-> {}]
          /\ Works
       \/ files' \in {files, files \cup {file}} /\ Breaks(nights + 1)
  /\ UNCHANGED <<startVars, delivered>>

Encrypt ==
  /\ job.step = "encrypt"
  /\ \/ files' = files \cup {Sealed} /\ Goes("unlink") /\ Works
     \/ files' \in {files, files \cup {Sealed}} /\ Breaks(job.night)
  /\ UNCHANGED <<startVars, nights, delivered, keyless>>

(* Mutant: the clear file stays. *)
KeepClear ==
  /\ job.step = "unlink" /\ Goes("send") /\ Works
  /\ UNCHANGED <<startVars, files, nights, delivered, keyless>>

Unlink ==
  /\ job.step = "unlink"
  /\ \/ files' = files \ {Clear} /\ Goes("send") /\ Works
     \/ Breaks(job.night) /\ UNCHANGED files
  /\ UNCHANGED <<startVars, nights, delivered, keyless>>

(* Delivery; the files to drop are listed right after it.                  *)
Send ==
  /\ job.step = "send"
  /\ \/ /\ job' = [job EXCEPT !.step = "rotate", !.drop = Surplus]
        /\ delivered' = job.night /\ Works
     \/ Breaks(job.night) /\ UNCHANGED delivered
  /\ UNCHANGED <<startVars, files, nights, keyless>>

(* A file that cannot be removed is logged and left for the next night.    *)
Rotate ==
  /\ job.step = "rotate" /\ job.drop # {}
  /\ \E f \in job.drop :
       /\ \A g \in job.drop \ {f} : Older(f, g)
       /\ job' = [job EXCEPT !.drop = @ \ {f}]
       /\ \/ files' = files \ {f} /\ UNCHANGED faults
          \/ faults < MaxFaults /\ faults' = faults + 1 /\ UNCHANGED files
  /\ UNCHANGED <<startVars, nights, delivered, keyless, broken>>

Finish ==
  /\ job.step = "rotate" /\ job.drop = {}
  /\ job' = NoJob /\ Works
  /\ UNCHANGED <<startVars, files, nights, delivered, keyless>>

(* The bot dies with the job, or while there is none. *)
BotDies ==
  /\ Die(Bot)
  /\ IF job = NoJob THEN Works /\ UNCHANGED job ELSE Breaks(job.night)
  /\ UNCHANGED <<files, nights, delivered, keyless>>

Others ==
  \/ SetKey \/ StoreConfig
  \/ \E p \in Processes : Start(p) \/ Startup(p) \/ (p # Bot /\ Die(p))

Next ==
  \/ Snapshot \/ Encrypt \/ Unlink \/ Send \/ Rotate \/ Finish
  \/ BotDies
  \/ Others /\ UNCHANGED backupVars

Spec == Init /\ [][Next]_vars

-----------------------------------------------------------------------------
(* The directory does not grow without bound: beyond the files that are    *)
(* kept there are at most two for each failure, whatever failed, although  *)
(* nothing is dropped before a snapshot was delivered.                     *)
PileBound == Cardinality({f \in files : f.night # job.night}) <= MaxBackups + 2 * faults

(* A snapshot in clear is the job's own, one of a night without a key, or  *)
(* the trace of a job that failed or died.                                 *)
ClearTraced ==
  \A f \in files : f.form = "clear" => f.night \in {job.night} \cup keyless \cup broken

(* Rotation never takes the snapshot that was delivered last. *)
DeliveredKept == delivered # 0 => \E f \in files : f.night = delivered
=============================================================================
