----------------------------- MODULE BackupJob ------------------------------
(***************************************************************************)
(* One run of create_backup() of src/gateway/backup.py, in any of the      *)
(* processes that can run it: the gateway (scheduler and administrator)    *)
(* and the command line.  The lock is a threading.Lock, one in each        *)
(* process; the status file, the backup files with their metadata, and the *)
(* R2 bucket are shared.  Module Backups joins the jobs with the life of   *)
(* the gateway and with the restore script.                                *)
(*                                                                         *)
(* A job is an operating-system thread: it gives way at every access to a  *)
(* file or to R2, and each such access can fail.                           *)
(***************************************************************************)
EXTENDS Retention, Sequences, FiniteSets

CONSTANTS Gateway, Cli, (* the processes that can make backups             *)
          Processes,    (* those that there are                            *)
          R2Settings,   (* the values of settings.r2_backup_enabled        *)
          MaxBackups    (* bound: how many backups are started             *)

ASSUME ProcessAssumption ==
    /\ Gateway # Cli
    /\ {Gateway} \subseteq Processes
    /\ Processes \subseteq {Gateway, Cli}
    /\ R2Settings \subseteq BOOLEAN
    /\ MaxBackups \in Nat

VARIABLES r2_enabled, (* settings.r2_backup_enabled, fixed                 *)
          lock,       (* is _backup_lock of the process taken              *)
          status,     (* the status file                                   *)
          stuck,      (* history: the processes whose announcement failed  *)
          overlapping,(* history: the processes whose job ran beside one of
                         another process, at some time since it began      *)
          backups,    (* per backup, in order of the names: its files      *)
          job         (* per process: where create_backup is, its locals   *)

jobVars == <<lock, status, stuck, overlapping, backups, job>>

(* The version in a file that was never finished. *)
NoCopy == -1

(* What a metadata file says; another value stands for no such file. *)
Metadata == SUBSET {"r2_uploaded", "r2_error"}
NoMetadata == {"no file"}

Names == DOMAIN backups

Times == [n \in Names |-> backups[n].at]

OnDisk == {n \in Names : backups[n].local \in {"torn", "whole"}}

InBucket == {n \in Names : backups[n].remote = "whole"}

(* Nothing is left of a process that has no job but its exit code. *)
NoJob(outcome) ==
    [phase |-> "idle", name |-> 0, copy |-> 0, metadata |-> {},
     doomed |-> {}, seen |-> [state |-> "never_run", last_backup |-> 0],
     outcome |-> outcome]

JobInit ==
    /\ lock = [p \in Processes |-> FALSE]
    /\ status = [state |-> "never_run", last_backup |-> 0]
    /\ stuck = {}
    /\ overlapping = {}
    /\ backups = <<>>
    /\ job = [p \in Processes |-> NoJob("none")]

At(p, phases) == job[p].phase \in phases

Becomes(p, j) == job' = [job EXCEPT ![p] = j]

Goto(p, phase) == Becomes(p, [job[p] EXCEPT !.phase = phase])

Mine(p) == backups[job[p].name]

Write(p, files) == backups' = [backups EXCEPT ![job[p].name] = files]

(* The job of process p is over.  A command line is over with it: its lock
   is gone, its exit code is left.  The gateway keeps no outcome. *)
EndJob(p, outcome, held) ==
    /\ Becomes(p, NoJob(IF p = Cli THEN outcome ELSE "none"))
    /\ lock' = [lock EXCEPT ![p] = held /\ p # Cli]
    /\ overlapping' = overlapping \ {p}

----------------------------------------------------------------------------
(* The lock, and the status file around the job.                           *)

Busy == {p \in Processes : ~At(p, {"idle"})}

Unnamed == {p \in Processes : At(p, {"announce", "announcing", "prepare"})}

(* A second job of the process is refused here, and changes nothing. *)
Acquire(p) ==
    /\ p \in Processes
    /\ At(p, {"idle"})
    /\ ~lock[p]
    /\ Len(backups) + Cardinality(Unnamed) < MaxBackups
    /\ lock' = [lock EXCEPT ![p] = TRUE]
    /\ Becomes(p, [NoJob("none") EXCEPT !.phase = "announce"])
    /\ overlapping' = IF Busy = {} THEN overlapping ELSE Busy \cup {p}
    /\ UNCHANGED <<status, stuck, backups>>

(* _update_status reads the file, then writes it with some fields changed.
   A file that cannot be read counts as one that says nothing. *)
ReadStatus(p, readable) ==
    /\ \E step \in {<<"announce", "announcing">>, <<"report", "reporting">>,
                    <<"excuse", "excusing">>} :
         /\ At(p, {step[1]})
         /\ Becomes(p, [job[p] EXCEPT
                          !.phase = step[2],
                          !.seen = IF readable THEN status
                                   ELSE [state |-> "unknown", last_backup |-> 0]])
    /\ UNCHANGED <<overlapping, lock, status, stuck, backups>>

(* Mutant: the new status is not built on the old one. *)
AnnounceAfresh(p) ==
    /\ At(p, {"announcing"})
    /\ status' = [state |-> "running", last_backup |-> 0]
    /\ Goto(p, "prepare")
    /\ UNCHANGED <<overlapping, lock, stuck, backups>>

Announce(p) ==
    /\ At(p, {"announcing"})
    /\ status' = [job[p].seen EXCEPT !.state = "running"]
    /\ Goto(p, "prepare")
    /\ UNCHANGED <<overlapping, lock, stuck, backups>>

(* The first write is before the try: nobody releases the lock. *)
AnnounceFails(p) ==
    /\ At(p, {"announcing"})
    /\ EndJob(p, "failed", TRUE)
    /\ stuck' = stuck \cup ({p} \ {Cli})
    /\ UNCHANGED <<status, backups>>

Report(p) ==
    /\ At(p, {"reporting"})
    /\ status' = [state |-> IF r2_enabled /\ "r2_uploaded" \notin job[p].metadata
                            THEN "local_only" ELSE "success",
                  last_backup |-> job[p].name]
    /\ EndJob(p, "done", FALSE)
    /\ UNCHANGED <<stuck, backups>>

Excuse(p) ==
    /\ At(p, {"excusing"})
    /\ status' = [job[p].seen EXCEPT !.state = "failed"]
    /\ EndJob(p, "failed", FALSE)
    /\ UNCHANGED <<stuck, backups>>

(* Mutant: the lock is released after the handler, not in a finally. *)
ExcuseFailsHolding(p) ==
    /\ At(p, {"excusing"})
    /\ EndJob(p, "failed", TRUE)
    /\ UNCHANGED <<status, stuck, backups>>

ExcuseFails(p) ==
    /\ At(p, {"excusing"})
    /\ EndJob(p, "failed", FALSE)
    /\ UNCHANGED <<status, stuck, backups>>

----------------------------------------------------------------------------
(* The local backup.                                                       *)

(* The name is the time; the file is not there yet. *)
Prepare(p, now) ==
    /\ At(p, {"prepare"})
    /\ backups' = Append(backups,
                    [at |-> now, local |-> "none", copy |-> NoCopy,
                     metadata |-> NoMetadata, remote |-> "none",
                     remote_metadata |-> NoMetadata])
    /\ Becomes(p, [job[p] EXCEPT !.phase = "snapshot", !.name = Len(backups) + 1])
    /\ UNCHANGED <<overlapping, lock, status, stuck>>

(* SQLite's online backup of the live database is checked and compressed in
   a directory of its own, which nobody else sees.  Then the encrypted file
   is written in place, under its final name. *)
Snapshot(p, live) ==
    /\ At(p, {"snapshot"})
    /\ Becomes(p, [job[p] EXCEPT !.phase = "encrypt", !.copy = live])
    /\ Write(p, [Mine(p) EXCEPT !.local = "torn"])
    /\ UNCHANGED <<overlapping, lock, status, stuck>>

CloseFile(p) ==
    /\ At(p, {"encrypt"})
    /\ Write(p, [Mine(p) EXCEPT !.local = "whole", !.copy = job[p].copy])
    /\ Goto(p, "describe")
    /\ UNCHANGED <<overlapping, lock, status, stuck>>

WriteMetadata(p) ==
    /\ At(p, {"describe"})
    /\ Write(p, [Mine(p) EXCEPT !.metadata = {}])
    /\ Goto(p, IF r2_enabled THEN "upload" ELSE "list")
    /\ UNCHANGED <<overlapping, lock, status, stuck>>

Remote == {"upload", "upload metadata", "mark", "upload again",
           "list remote", "delete remote"}

(* Mutant: the exception is swallowed, and the job goes on to its report. *)
FailUnnoticed(p) ==
    /\ At(p, Remote \cup {"prepare", "snapshot", "encrypt", "describe",
                          "list", "prune", "reporting"})
    /\ Goto(p, IF job[p].name = 0 THEN "excuse" ELSE "report")
    /\ UNCHANGED <<overlapping, lock, status, stuck, backups>>

(* An exception inside the try, outside of the R2 part or in the handler of
   that part, which writes a file. *)
Fail(p) ==
    /\ At(p, Remote \cup {"prepare", "snapshot", "encrypt", "describe",
                          "list", "prune", "reporting"})
    /\ Goto(p, "excuse")
    /\ UNCHANGED <<overlapping, lock, status, stuck, backups>>

----------------------------------------------------------------------------
(* The copy in R2.  The remote metadata is what the local file said when   *)
(* it was uploaded.                                                        *)

Upload(p) ==
    /\ At(p, {"upload"})
    /\ Write(p, [Mine(p) EXCEPT !.remote = "whole"])
    /\ Goto(p, "upload metadata")
    /\ UNCHANGED <<overlapping, lock, status, stuck>>

UploadMetadata(p) ==
    /\ \E step \in {<<"upload metadata", "mark">>,
                    <<"upload again", "list remote">>} :
         /\ At(p, {step[1]})
         /\ Goto(p, step[2])
    /\ Write(p, [Mine(p) EXCEPT !.remote_metadata = Mine(p).metadata])
    /\ UNCHANGED <<overlapping, lock, status, stuck>>

(* Mutant: the key in the metadata is misspelt. *)
MarkUploadedMisspelt(p) ==
    /\ At(p, {"mark"})
    /\ Becomes(p, [job[p] EXCEPT !.phase = "upload again",
                                 !.metadata = {"r2_upload"}])
    /\ Write(p, [Mine(p) EXCEPT !.metadata = {"r2_upload"}])
    /\ UNCHANGED <<overlapping, lock, status, stuck>>

MarkUploaded(p) ==
    /\ At(p, {"mark"})
    /\ Becomes(p, [job[p] EXCEPT !.phase = "upload again",
                                 !.metadata = {"r2_uploaded"}])
    /\ Write(p, [Mine(p) EXCEPT !.metadata = {"r2_uploaded"}])
    /\ UNCHANGED <<overlapping, lock, status, stuck>>

ListRemote(p, now) ==
    /\ At(p, {"list remote"})
    /\ Becomes(p, [job[p] EXCEPT
                     !.phase = "delete remote",
                     !.doomed = InBucket \ KeepSet(InBucket, Times, now)])
    /\ UNCHANGED <<overlapping, lock, status, stuck, backups>>

(* One quiet delete_objects: objects that R2 does not delete are not
   reported. *)
DeleteRemote(p) ==
    /\ At(p, {"delete remote"})
    /\ \E gone \in SUBSET job[p].doomed :
         backups' = [n \in Names |->
                      IF n \in gone
                      THEN [backups[n] EXCEPT !.remote = "deleted",
                                              !.remote_metadata = NoMetadata]
                      ELSE backups[n]]
    /\ Becomes(p, [job[p] EXCEPT !.phase = "list", !.doomed = {}])
    /\ UNCHANGED <<overlapping, lock, status, stuck>>

(* Mutant: r2_uploaded is set before the upload. *)
RemoteFailsMarked(p) ==
    /\ At(p, Remote)
    /\ LET said == {"r2_uploaded", "r2_error"}
       IN  /\ Becomes(p, [job[p] EXCEPT !.phase = "list", !.metadata = said,
                                        !.doomed = {}])
           /\ Write(p, [Mine(p) EXCEPT !.metadata = said])
    /\ UNCHANGED <<overlapping, lock, status, stuck>>

(* Any exception of the R2 part is caught there.  metadata["r2_uploaded"] is
   set before the file is written, so a failing write leaves it set. *)
RemoteFails(p) ==
    /\ At(p, Remote)
    /\ LET uploaded == IF At(p, {"upload", "upload metadata"}) THEN {}
                       ELSE {"r2_uploaded"}
           said == uploaded \cup {"r2_error"}
       IN  /\ Becomes(p, [job[p] EXCEPT !.phase = "list", !.metadata = said,
                                        !.doomed = {}])
           /\ Write(p, [Mine(p) EXCEPT !.metadata = said])
    /\ UNCHANGED <<overlapping, lock, status, stuck>>

----------------------------------------------------------------------------
(* Local retention: one look at the directory, then one file at a time.    *)

ListLocal(p, now) ==
    /\ At(p, {"list"})
    /\ LET doomed == OnDisk \ KeepSet(OnDisk, Times, now)
       IN  Becomes(p, [job[p] EXCEPT
                         !.phase = IF doomed = {} THEN "report" ELSE "prune",
                         !.doomed = doomed])
    /\ UNCHANGED <<overlapping, lock, status, stuck, backups>>

Prune(p) ==
    /\ At(p, {"prune"})
    /\ \E n \in job[p].doomed :
         /\ backups' = [backups EXCEPT ![n] = [backups[n] EXCEPT
                                                !.local = "deleted",
                                                !.metadata = NoMetadata]]
         /\ Becomes(p, [job[p] EXCEPT
                          !.phase = IF job[p].doomed = {n} THEN "report" ELSE @,
                          !.doomed = @ \ {n}])
    /\ UNCHANGED <<overlapping, lock, status, stuck>>

Progress(p, now, live) ==
    \/ ReadStatus(p, TRUE) \/ Announce(p) \/ Report(p) \/ Excuse(p)
    \/ Prepare(p, now) \/ Snapshot(p, live) \/ CloseFile(p)
    \/ WriteMetadata(p)
    \/ Upload(p) \/ UploadMetadata(p) \/ MarkUploaded(p)
    \/ ListRemote(p, now) \/ DeleteRemote(p)
    \/ ListLocal(p, now) \/ Prune(p)

Failure(p) ==
    \/ ReadStatus(p, FALSE)
    \/ AnnounceFails(p) \/ ExcuseFails(p)
    \/ Fail(p) \/ RemoteFails(p)

(* The process is killed, at any line: what it wrote stays. *)
Killed(p) ==
    /\ EndJob(p, "failed", FALSE)
    /\ stuck' = stuck \ {p}
    /\ UNCHANGED <<status, backups>>
=============================================================================
