------------------------------ MODULE Backups -------------------------------
(***************************************************************************)
(* Backups of the gateway's database and their restoring: create_backup()  *)
(* in the gateway and on the command line, the life of the gateway under   *)
(* its supervisor (scripts/supervise-stack.ps1), and                       *)
(* scripts/restore-database.ps1 -ReplaceLive.                              *)
(*                                                                         *)
(* The database is a version number that grows with every write of the     *)
(* gateway.  Bounds: MaxClock, MaxVersion, MaxBackups, and MaxFaults for   *)
(* the failures, kills and aborted scripts together; one command line at a *)
(* time; a job is done within the daily window of retention.               *)
(* Simplified: a JSON file is written and put in place in one step, a file *)
(* is deleted together with its metadata, a gateway that runs listens, and *)
(* the bucket fits into one page of list_objects_v2.                       *)
(***************************************************************************)
EXTENDS BackupJob

CONSTANTS MaxClock, MaxVersion, MaxFaults

ASSUME BoundAssumption ==
    /\ MaxClock \in Nat
    /\ MaxVersion \in Nat
    /\ MaxFaults \in Nat

VARIABLES clock,   (* the time of day, in ticks                            *)
          gateway, (* the gateway: "up", "stopping" (it does not listen, but
                      its jobs go on) or "down"                            *)
          live,    (* the version that is in the live database             *)
          newest,  (* the newest version there ever was                    *)
          script,  (* the restore script: where it is, the backup it was
                      given, and the gateways that ran beside it: one that
                      was "stopping", one that was "started" meanwhile     *)
          faults   (* how many steps failed                                *)

vars == <<r2_enabled, jobVars, clock, gateway, live, newest, script, faults>>

NoScript == [phase |-> "idle", backup |-> 0, beside |-> {}]

Init ==
    /\ r2_enabled \in R2Settings
    /\ JobInit
    /\ clock = 0
    /\ gateway = "up"
    /\ live = 0
    /\ newest = 0
    /\ script = NoScript
    /\ faults = 0

Faulty == faults < MaxFaults /\ faults' = faults + 1

Whole == {n \in Names : backups[n].local = "whole"}

----------------------------------------------------------------------------
(* The gateway and the time.                                               *)

Tick ==
    /\ clock < MaxClock
    /\ \A p \in Processes :
         job[p].name # 0 => Daily(backups[job[p].name].at, clock + 1)
    /\ clock' = clock + 1
    /\ UNCHANGED <<r2_enabled, jobVars, gateway, live, newest, script, faults>>

(* Any handler that writes.  Requests in flight are served to the end. *)
ServeWrite ==
    /\ gateway \in {"up", "stopping"}
    /\ newest < MaxVersion
    /\ newest' = newest + 1
    /\ live' = newest + 1
    /\ UNCHANGED <<r2_enabled, jobVars, clock, gateway, script, faults>>

(* The scheduler when the last success is a day old, or the administrator at
   any time. *)
GatewayBacksUp ==
    /\ gateway = "up"
    /\ Acquire(Gateway)
    /\ UNCHANGED <<r2_enabled, clock, gateway, live, newest, script, faults>>

CliBacksUp ==
    /\ script.phase = "idle"
    /\ Acquire(Cli)
    /\ UNCHANGED <<r2_enabled, clock, gateway, live, newest, script, faults>>

JobProgresses(p) ==
    /\ Progress(p, clock, live)
    /\ UNCHANGED <<r2_enabled, clock, gateway, live, newest, script, faults>>

JobFails(p) ==
    /\ Failure(p)
    /\ Faulty
    /\ UNCHANGED <<r2_enabled, clock, gateway, live, newest, script>>

(* The sockets are closed first; the process waits for its threads. *)
StopGateway ==
    /\ gateway = "up"
    /\ gateway' = "stopping"
    /\ UNCHANGED <<r2_enabled, jobVars, clock, live, newest, script, faults>>

GatewayExits ==
    /\ gateway = "stopping"
    /\ At(Gateway, {"idle"})
    /\ gateway' = "down"
    /\ Killed(Gateway)
    /\ UNCHANGED <<r2_enabled, clock, live, newest, script, faults>>

CrashGateway ==
    /\ gateway # "down"
    /\ Faulty
    /\ gateway' = "down"
    /\ Killed(Gateway)
    /\ UNCHANGED <<r2_enabled, clock, live, newest, script>>

(* The supervisor, or the administrator, finds no gateway. *)
StartGateway ==
    /\ gateway = "down"
    /\ gateway' = "up"
    /\ script' = IF script.phase = "idle" THEN script
                 ELSE [script EXCEPT !.beside = @ \cup {"started"}]
    /\ UNCHANGED <<r2_enabled, jobVars, clock, live, newest, faults>>

KillCli ==
    /\ Cli \in Processes
    /\ ~At(Cli, {"idle"})
    /\ Faulty
    /\ Killed(Cli)
    /\ UNCHANGED <<r2_enabled, clock, gateway, live, newest, script>>

----------------------------------------------------------------------------
(* restore-database.ps1 -ReplaceLive.                                      *)

ScriptGoes(phase) == script' = [script EXCEPT !.phase = phase]

ScriptEnds == script' = NoScript

BeginRestore(n) ==
    /\ Cli \in Processes
    /\ script.phase = "idle"
    /\ At(Cli, {"idle"})
    /\ gateway # "up"
    /\ n \in OnDisk
    /\ script' = [phase |-> "verify", backup |-> n,
                  beside |-> {"stopping"} \cap {gateway}]
    /\ UNCHANGED <<r2_enabled, jobVars, clock, gateway, live, newest, faults>>

(* A torn file does not decrypt. *)
Verify ==
    /\ script.phase = "verify"
    /\ \/ script.backup \in Whole /\ ScriptGoes("save")
       \/ script.backup \notin Whole /\ ScriptEnds
    /\ UNCHANGED <<r2_enabled, jobVars, clock, gateway, live, newest, faults>>

SafetyBackup ==
    /\ script.phase = "save"
    /\ Acquire(Cli)
    /\ ScriptGoes("saving")
    /\ UNCHANGED <<r2_enabled, clock, gateway, live, newest, faults>>

(* Mutant: the exit code of the safety backup is not looked at. *)
SafetyBackupEndsAnyhow ==
    /\ script.phase = "saving"
    /\ job[Cli].outcome \in {"done", "failed"}
    /\ ScriptGoes("replace")
    /\ UNCHANGED <<r2_enabled, jobVars, clock, gateway, live, newest, faults>>

SafetyBackupEnds ==
    /\ script.phase = "saving"
    /\ \/ job[Cli].outcome = "done" /\ ScriptGoes("replace")
       \/ job[Cli].outcome = "failed" /\ ScriptEnds
    /\ UNCHANGED <<r2_enabled, jobVars, clock, gateway, live, newest, faults>>

(* The backup is decrypted and checked beside the database, and then takes
   its place. *)
Replace ==
    /\ script.phase = "replace"
    /\ script.backup \in Whole
    /\ live' = backups[script.backup].copy
    /\ ScriptEnds
    /\ UNCHANGED <<r2_enabled, jobVars, clock, gateway, newest, faults>>

ReplaceImpossible ==
    /\ script.phase = "replace"
    /\ script.backup \notin Whole
    /\ ScriptEnds
    /\ UNCHANGED <<r2_enabled, jobVars, clock, gateway, live, newest, faults>>

ScriptAborted ==
    /\ script.phase \in {"verify", "save", "replace"}
    /\ Faulty
    /\ ScriptEnds
    /\ UNCHANGED <<r2_enabled, jobVars, clock, gateway, live, newest>>

Next ==
    \/ Tick \/ ServeWrite
    \/ GatewayBacksUp \/ CliBacksUp
    \/ \E p \in Processes : JobProgresses(p) \/ JobFails(p)
    \/ StopGateway \/ GatewayExits \/ CrashGateway \/ StartGateway \/ KillCli
    \/ \E n \in Names : BeginRestore(n)
    \/ Verify \/ SafetyBackup \/ SafetyBackupEnds
    \/ Replace \/ ReplaceImpossible \/ ScriptAborted

Spec == Init /\ [][Next]_vars

----------------------------------------------------------------------------
(* Properties.                                                             *)

Phases == {"idle", "announce", "announcing", "prepare", "snapshot", "encrypt",
           "describe", "upload", "upload metadata", "mark", "upload again",
           "list remote", "delete remote", "list", "prune", "report",
           "reporting", "excuse", "excusing"}

(* A job that has named its backup. *)
NamedPhases == Phases \ {"idle", "announce", "announcing", "prepare",
                         "excuse", "excusing"}

NameOrNone == Names \cup {0}

Statuses == [state : {"never_run", "unknown", "running", "success",
                      "local_only", "failed"},
             last_backup : NameOrNone]

Backup == {b \in [at : Nat, local : {"none", "torn", "whole", "deleted"},
                  copy : {NoCopy} \cup 0..MaxVersion,
                  metadata : Metadata \cup {NoMetadata},
                  remote : {"none", "whole", "deleted"},
                  remote_metadata : Metadata \cup {NoMetadata}] :
             b.local = "whole" => b.copy # NoCopy}

Job == [phase : Phases, name : NameOrNone, copy : 0..MaxVersion,
        metadata : Metadata, doomed : SUBSET Names, seen : Statuses,
        outcome : {"none", "done", "failed"}]

Script == [phase : {"idle", "verify", "save", "saving", "replace"},
           backup : NameOrNone, beside : SUBSET {"stopping", "started"}]

(* Every variable has its type: whatever names a backup names one that was
   begun, and a job past the naming has a name. *)
TypeOK ==
    /\ r2_enabled \in R2Settings
    /\ lock \in [Processes -> BOOLEAN]
    /\ status \in Statuses
    /\ stuck \subseteq Processes
    /\ overlapping \subseteq Processes
    /\ backups \in Seq(Backup)
    /\ job \in [Processes -> Job]
    /\ \A p \in Processes : At(p, NamedPhases) => job[p].name # 0
    /\ clock \in 0..MaxClock
    /\ gateway \in {"up", "stopping", "down"}
    /\ live \in 0..MaxVersion
    /\ newest \in 0..MaxVersion
    /\ script \in Script
    /\ faults \in 0..MaxFaults

(* What retention may delete: a backup out of the daily window that is out of
   the weekly window too or has a newer one of its week beside it. *)
Superseded(n, stored) ==
    /\ ~Daily(backups[n].at, clock)
    /\ \/ ~Weekly(backups[n].at, clock)
       \/ \E m \in stored :
            m > n /\ Week(backups[m].at) = Week(backups[n].at)

(* However the jobs of two processes interleave, with lists of files that are
   out of date when they delete, no backup goes that the retention rules of
   README.md promise to keep: of the week's backups the newest stays. *)
RetentionKept ==
    \A n \in Names : backups[n].local = "deleted" => Superseded(n, OnDisk)

(* The same for the bucket, where deletions can be dropped silently. *)
RemoteRetentionKept ==
    \A n \in Names : backups[n].remote = "deleted" => Superseded(n, InBucket)

(* The backup the status calls the last success was written to the end,
   whatever failed, crashed or overlapped since: it is still whole, or
   retention had the right to delete it. *)
ReportedBackupIsWhole ==
    status.last_backup # 0 =>
        \/ status.last_backup \in Whole
        \/ Superseded(status.last_backup, OnDisk)

(* "success" with R2 enabled, and "r2_uploaded" in the metadata, mean that the
   backup and its metadata reached the bucket; a bucket's metadata never says
   so of a backup that did not. *)
OffsiteClaimsTrue ==
    /\ r2_enabled /\ status.state = "success" =>
           backups[status.last_backup].remote # "none"
    /\ \A n \in Names :
         "r2_uploaded" \in backups[n].metadata \cup backups[n].remote_metadata =>
            \/ backups[n].remote = "deleted"
            \/ /\ backups[n].remote = "whole"
               /\ backups[n].remote_metadata # NoMetadata

(* The lock is taken exactly while the process makes a backup: all the ways
   out of create_backup release it, but the failure to announce the start. *)
LockExplained ==
    \A p \in Processes : lock[p] <=> ~At(p, {"idle"}) \/ p \in stuck

(* The status goes back to an older last success only in the hands of a job
   that ran beside a job of another process, or that could not read the file
   it rewrites: without an overlap no read of the status is out of date when
   it is written back, and no job reports after one that began later. *)
ForgottenOnlyByOverlap ==
    [][status'.last_backup < status.last_backup =>
         \E p \in Processes :
           /\ At(p, {"announcing", "reporting", "excusing"})
           /\ job'[p] # job[p]
           /\ \/ p \in overlapping
              \/ ~At(p, {"reporting"}) /\ job[p].seen.state = "unknown"]_vars

(* The restore script never discards a version of the database that no backup
   holds, unless a gateway ran beside it. *)
NothingLostUnobserved ==
    [][Replace /\ script.beside = {} =>
         \E n \in Whole : backups[n].copy = live]_vars

(* README.md: the script "creates a fresh encrypted safety backup of the
   current database before replacement".  So it does not discard a version
   that no backup holds, once the gateway was down when it began. *)
CurrentDatabaseSaved ==
    [][Replace /\ "stopping" \notin script.beside =>
         \E n \in Whole : backups[n].copy = live]_vars

(* README.md: the latest 30 days "are kept, followed by one per week for 12
   weeks".  A week that had a backup that can be restored still has one. *)
WeeksCovered ==
    \A n \in Names :
        /\ backups[n].copy # NoCopy
        /\ Weekly(backups[n].at, clock)
        => \E m \in Whole : Week(backups[m].at) = Week(backups[n].at)
=============================================================================
