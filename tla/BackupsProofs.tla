--------------------------- MODULE BackupsProofs ----------------------------
(***************************************************************************)
(* Proofs about the backups of module Backups, for every value of its      *)
(* constants: first the files of one directory, then what goes beyond      *)
(* them: what retention may delete of the R2 bucket, what the metadata and *)
(* the status may say of it, and what the status and the database may      *)
(* lose.                                                                   *)
(*                                                                         *)
(* One DeleteRemote can delete many objects, where a Prune deletes one     *)
(* file.  That a superseded object stays superseded is therefore a fact    *)
(* about the newest object of a week: the least-element principle of the   *)
(* library gives it.                                                       *)
(***************************************************************************)
EXTENDS Backups, TLAPS, SequenceTheorems, WellFoundedInduction

JobTypeOK ==
    /\ lock \in [Processes -> BOOLEAN]
    /\ status \in Statuses
    /\ stuck \subseteq Processes
    /\ backups \in Seq(Backup)
    /\ job \in [Processes -> Job]
    /\ \A p \in Processes : At(p, NamedPhases) => job[p].name # 0

(* More names, more values for what holds a name. *)
LEMMA TypesGrow ==
    ASSUME Names \subseteq Names'
    PROVE  /\ NameOrNone \subseteq NameOrNone'
           /\ Statuses \subseteq Statuses'
           /\ Job \subseteq Job'
           /\ Script \subseteq Script'
<1>1. NameOrNone \subseteq NameOrNone'
  BY DEF NameOrNone
<1>2. Statuses \subseteq Statuses'
  BY <1>1 DEF Statuses
<1>3. QED
  BY <1>1, <1>2 DEF Job, Script

(* Writing to one backup begins no other. *)
LEMMA OneBackupChanges ==
    ASSUME NEW files \in Seq(Backup), NEW n \in DOMAIN files, NEW b \in Backup
    PROVE  /\ [files EXCEPT ![n] = b] \in Seq(Backup)
           /\ DOMAIN [files EXCEPT ![n] = b] = DOMAIN files
BY ExceptSeq

LEMMA NamesAreNumbers ==
    ASSUME backups \in Seq(Backup)
    PROVE  /\ Names = 1..Len(backups)
           /\ Len(backups) \in Nat
           /\ \A n \in Names : backups[n] \in Backup
BY LenProperties, ElementOfSeq DEF Names

LEMMA JobBecomes ==
    ASSUME JobTypeOK, Names \subseteq Names',
           NEW p \in Processes, NEW j \in Job', Becomes(p, j),
           j.phase \in NamedPhases => j.name # 0
    PROVE  /\ job' \in [Processes -> Job']
           /\ \A q \in Processes : At(q, NamedPhases)' => job'[q].name # 0
<1>1. Job \subseteq Job'
  BY TypesGrow
<1>2. QED
  BY <1>1 DEF Becomes, JobTypeOK, At, NamedPhases

LEMMA NoJobType ==
    ASSUME NEW outcome \in {"none", "done", "failed"}
    PROVE  NoJob(outcome) \in Job
BY BoundAssumption DEF NoJob, Job, Statuses, NameOrNone, Phases, Metadata

LEMMA EndJobType ==
    ASSUME JobTypeOK, NEW p, NEW outcome \in {"none", "done", "failed"},
           NEW held \in BOOLEAN, EndJob(p, outcome, held), UNCHANGED backups
    PROVE  /\ lock' \in [Processes -> BOOLEAN]
           /\ job' \in [Processes -> Job']
           /\ \A q \in Processes : At(q, NamedPhases)' => job'[q].name # 0
<1> DEFINE over == NoJob(IF p = Cli THEN outcome ELSE "none")
<1>1. over \in Job' /\ over.phase = "idle"
  BY BoundAssumption
  DEF NoJob, Job, Statuses, NameOrNone, Phases, Metadata
<1>2. Names \subseteq Names'
  BY DEF EndJob, Names
<1>3. lock' \in [Processes -> BOOLEAN]
  BY DEF EndJob, JobTypeOK
<1>4. CASE p \in Processes
  BY <1>1, <1>2, <1>3, <1>4, JobBecomes DEF EndJob, NamedPhases
<1>5. CASE p \notin Processes
  BY <1>2, <1>3, <1>5, TypesGrow DEF EndJob, Becomes, JobTypeOK, At
<1>6. QED
  BY <1>4, <1>5

(* The steps that change no backup and do not end the job. *)
LEMMA QuietSteps ==
    ASSUME JobTypeOK, NEW p \in Processes, NEW now \in Nat,
           \/ Acquire(p) \/ ReadStatus(p, TRUE) \/ ReadStatus(p, FALSE)
           \/ Announce(p) \/ Fail(p) \/ ListRemote(p, now) \/ ListLocal(p, now)
    PROVE  JobTypeOK'
<1> DEFINE me == job[p]
<1>1. /\ me \in Job
      /\ me.phase \in NamedPhases => me.name # 0
      /\ status \in Statuses
      /\ me.seen \in Statuses
  BY DEF JobTypeOK, At, Job
<1>2. SUFFICES ASSUME UNCHANGED <<stuck, backups>>
               PROVE  JobTypeOK'
  BY DEF Acquire, ReadStatus, Announce, Fail, ListRemote, ListLocal
<1>3. /\ Names' = Names /\ Job' = Job
      /\ Statuses' = Statuses
      /\ stuck' \subseteq Processes
      /\ backups' \in Seq(Backup)
  BY <1>2 DEF Names, Job, Statuses, NameOrNone, JobTypeOK
<1>4. SUFFICES ASSUME NEW j \in Job, Becomes(p, j),
                      j.phase \in NamedPhases => j.name # 0,
                      lock' \in [Processes -> BOOLEAN],
                      status' \in Statuses
               PROVE  JobTypeOK'
  <2>1. CASE Acquire(p)
    <3>1. NoJob("none") \in Job
      BY NoJobType
    <3>2. [NoJob("none") EXCEPT !.phase = "announce"] \in Job
      BY <3>1 DEF Job, Phases
    <3>3. QED
      BY <2>1, <3>2, <1>1, <1>4 DEF Acquire, NamedPhases, JobTypeOK, NoJob
  <2>2. ASSUME NEW readable \in BOOLEAN, ReadStatus(p, readable)
        PROVE  JobTypeOK'
    <3> DEFINE read == IF readable THEN status
                       ELSE [state |-> "unknown", last_backup |-> 0]
    <3>1. read \in Statuses
      BY <1>1 DEF Statuses, NameOrNone
    <3>2. PICK step \in {<<"announce", "announcing">>, <<"report", "reporting">>,
                         <<"excuse", "excusing">>} :
            /\ At(p, {step[1]})
            /\ Becomes(p, [me EXCEPT !.phase = step[2], !.seen = read])
      BY <2>2 DEF ReadStatus
    <3> DEFINE j == [me EXCEPT !.phase = step[2], !.seen = read]
    <3>3. /\ step[2] \in {"announcing", "reporting", "excusing"}
          /\ step[2] \in NamedPhases => me.phase \in NamedPhases
      <4>1. CASE step = <<"announce", "announcing">>
        BY <4>1 DEF NamedPhases, Phases
      <4>2. CASE step = <<"report", "reporting">>
        BY <3>2, <4>2 DEF At, NamedPhases, Phases
      <4>3. CASE step = <<"excuse", "excusing">>
        BY <4>3 DEF NamedPhases, Phases
      <4>4. QED
        BY <4>1, <4>2, <4>3
    <3>4. j \in Job /\ (j.phase \in NamedPhases => j.name # 0)
      BY <1>1, <3>1, <3>3 DEF Job, Phases
    <3>5. lock' \in [Processes -> BOOLEAN] /\ status' \in Statuses
      BY <2>2 DEF ReadStatus, JobTypeOK
    <3>6. QED
      BY <3>2, <3>4, <3>5, <1>4
  <2>4. CASE Announce(p)
    <3>1. [me.seen EXCEPT !.state = "running"] \in Statuses
      BY <1>1 DEF Statuses
    <3>2. QED
      BY <2>4, <3>1, <1>1, <1>4 DEF Announce, Goto, NamedPhases, JobTypeOK, At, Job, Phases
  <2>5. CASE Fail(p)
    BY <2>5, <1>1, <1>4 DEF Fail, Goto, NamedPhases, JobTypeOK, At, Job, Phases
  <2>6. CASE ListRemote(p, now)
    BY <2>6, <1>1, <1>4 DEF ListRemote, NamedPhases, JobTypeOK, At, Job, Phases, InBucket
  <2>7. CASE ListLocal(p, now)
    BY <2>7, <1>1, <1>4 DEF ListLocal, NamedPhases, JobTypeOK, At, Job, Phases, OnDisk
  <2>8. QED
    BY <2>1, <2>2, <2>4, <2>5, <2>6, <2>7
<1>5. QED
  BY <1>3, <1>4, JobBecomes DEF JobTypeOK

(* The ways out of a job. *)
LEMMA EndSteps ==
    ASSUME JobTypeOK, NEW p,
           \/ /\ p \in Processes
              /\ AnnounceFails(p) \/ Report(p) \/ Excuse(p) \/ ExcuseFails(p)
           \/ Killed(p)
    PROVE  JobTypeOK'
<1>1. SUFFICES ASSUME NEW outcome \in {"none", "done", "failed"},
                      NEW held \in BOOLEAN, EndJob(p, outcome, held),
                      stuck' \subseteq Processes, UNCHANGED backups,
                      status' \in Statuses
               PROVE  JobTypeOK'
  <2>1. CASE p \in Processes /\ AnnounceFails(p)
    BY <2>1, <1>1 DEF AnnounceFails, JobTypeOK
  <2>2. CASE p \in Processes /\ Report(p)
    <3>1. job[p].name \in NameOrNone
      BY <2>2 DEF JobTypeOK, Job
    <3>2. status' \in Statuses
      BY <2>2, <3>1 DEF Report, Statuses
    <3>3. QED
      BY <2>2, <3>2, <1>1 DEF Report, JobTypeOK
  <2>3. CASE p \in Processes /\ Excuse(p)
    <3>1. job[p].seen \in Statuses
      BY <2>3 DEF JobTypeOK, Job
    <3>2. status' \in Statuses
      BY <2>3, <3>1 DEF Excuse, Statuses
    <3>3. QED
      BY <2>3, <3>2, <1>1 DEF Excuse, JobTypeOK
  <2>4. CASE p \in Processes /\ ExcuseFails(p)
    BY <2>4, <1>1 DEF ExcuseFails, JobTypeOK
  <2>5. CASE Killed(p)
    BY <2>5, <1>1 DEF Killed, JobTypeOK
  <2>6. QED
    BY <2>1, <2>2, <2>3, <2>4, <2>5
<1>2. /\ Names' = Names
      /\ Statuses' = Statuses
      /\ backups' \in Seq(Backup)
  BY <1>1 DEF Names, Statuses, NameOrNone, JobTypeOK
<1>3. QED
  BY <1>1, <1>2, EndJobType DEF JobTypeOK

(* The steps that change what there is of a backup already begun. *)
LEMMA FileSteps ==
    ASSUME JobTypeOK, NEW p \in Processes, live \in 0..MaxVersion,
           \/ Snapshot(p, live) \/ CloseFile(p) \/ WriteMetadata(p)
           \/ Upload(p) \/ UploadMetadata(p) \/ MarkUploaded(p)
           \/ DeleteRemote(p) \/ RemoteFails(p) \/ Prune(p)
    PROVE  JobTypeOK' /\ Names' = Names
<1> DEFINE me == job[p]
<1>1. /\ me \in Job
      /\ me.phase \in NamedPhases => me.name # 0
  BY DEF JobTypeOK, At
<1>2. SUFFICES ASSUME NEW j \in Job, Becomes(p, j),
                      j.phase \in NamedPhases => j.name # 0,
                      backups' \in Seq(Backup), Names' = Names,
                      UNCHANGED <<lock, status, stuck>>
               PROVE  JobTypeOK' /\ Names' = Names
  <2>1. CASE Prune(p)
    <3>1. PICK n \in me.doomed :
            /\ backups' = [backups EXCEPT ![n] = [backups[n] EXCEPT
                                                    !.local = "deleted",
                                                    !.metadata = NoMetadata]]
            /\ Becomes(p, [me EXCEPT
                             !.phase = IF me.doomed = {n} THEN "report" ELSE @,
                             !.doomed = @ \ {n}])
      BY <2>1 DEF Prune
    <3>2. n \in Names
      BY <1>1 DEF Job
    <3>3. [backups[n] EXCEPT !.local = "deleted", !.metadata = NoMetadata] \in Backup
      BY <3>2, NamesAreNumbers DEF Backup, JobTypeOK
    <3>4. backups' \in Seq(Backup) /\ Names' = Names
      BY <3>1, <3>2, <3>3, OneBackupChanges DEF JobTypeOK, Names
    <3>5. QED
      BY <2>1, <3>1, <3>4, <1>1, <1>2 DEF Prune, At, Job, Phases, NamedPhases
  <2>2. CASE DeleteRemote(p)
    <3>1. PICK gone \in SUBSET me.doomed :
            backups' = [n \in Names |->
                         IF n \in gone
                         THEN [backups[n] EXCEPT !.remote = "deleted",
                                                 !.remote_metadata = NoMetadata]
                         ELSE backups[n]]
      BY <2>2 DEF DeleteRemote
    <3>2. \A n \in Names :
            /\ backups[n] \in Backup
            /\ [backups[n] EXCEPT !.remote = "deleted",
                                  !.remote_metadata = NoMetadata] \in Backup
      BY NamesAreNumbers DEF Backup, JobTypeOK
    <3>3. Names = 1..Len(backups) /\ Len(backups) \in Nat
      BY NamesAreNumbers DEF JobTypeOK
    <3>4. backups' \in [1..Len(backups) -> Backup]
      BY <3>1, <3>2, <3>3
    <3>5. backups' \in Seq(Backup) /\ Names' = Names
      BY <3>3, <3>4 DEF Names
    <3>6. QED
      BY <2>2, <3>5, <1>1, <1>2 DEF DeleteRemote, At, Job, Phases, NamedPhases
  <2>3. ASSUME NEW b \in Backup, Write(p, b), me.phase \in NamedPhases
        PROVE  backups' \in Seq(Backup) /\ Names' = Names
    <3>1. me.name \in Names
      BY <2>3, <1>1 DEF Job, NameOrNone
    <3>2. QED
      BY <2>3, <3>1, OneBackupChanges DEF Write, JobTypeOK, Names
  <2>4. me.phase \in NamedPhases => Mine(p) \in Backup
    BY <1>1, NamesAreNumbers DEF Mine, Job, NameOrNone, JobTypeOK
  <2>5. CASE Snapshot(p, live)
    <3>1. me.phase \in NamedPhases
      BY <2>5 DEF Snapshot, At, NamedPhases, Phases
    <3>2. [Mine(p) EXCEPT !.local = "torn"] \in Backup
      BY <3>1, <2>4 DEF Backup
    <3>3. QED
      BY <2>5, <3>1, <3>2, <2>3, <1>1, <1>2 DEF Snapshot, Job, Phases
  <2>6. CASE CloseFile(p)
    <3>1. me.phase \in NamedPhases
      BY <2>6 DEF CloseFile, At, NamedPhases, Phases
    <3>2. [Mine(p) EXCEPT !.local = "whole", !.copy = me.copy] \in Backup
      <4>1. me.copy \in 0..MaxVersion /\ me.copy # NoCopy
        BY <1>1, BoundAssumption DEF Job, NoCopy
      <4>2. QED
        BY <3>1, <2>4, <4>1 DEF Backup
    <3>3. QED
      BY <2>6, <3>1, <3>2, <2>3, <1>1, <1>2 DEF CloseFile, Goto, Job, Phases
  <2>7. CASE WriteMetadata(p)
    <3>1. me.phase \in NamedPhases
      BY <2>7 DEF WriteMetadata, At, NamedPhases, Phases
    <3>2. [Mine(p) EXCEPT !.metadata = {}] \in Backup
      BY <3>1, <2>4 DEF Backup, Metadata
    <3>3. QED
      BY <2>7, <3>1, <3>2, <2>3, <1>1, <1>2 DEF WriteMetadata, Goto, Job, Phases
  <2>8. CASE Upload(p)
    <3>1. me.phase \in NamedPhases
      BY <2>8 DEF Upload, At, NamedPhases, Phases
    <3>2. [Mine(p) EXCEPT !.remote = "whole"] \in Backup
      BY <3>1, <2>4 DEF Backup
    <3>3. QED
      BY <2>8, <3>1, <3>2, <2>3, <1>1, <1>2 DEF Upload, Goto, Job, Phases
  <2>9. CASE UploadMetadata(p)
    <3>1. /\ me.phase \in NamedPhases
          /\ \E next \in {"mark", "list remote"} : Goto(p, next)
      <4>1. PICK step \in {<<"upload metadata", "mark">>,
                           <<"upload again", "list remote">>} :
              At(p, {step[1]}) /\ Goto(p, step[2])
        BY <2>9 DEF UploadMetadata
      <4>2. CASE step = <<"upload metadata", "mark">>
        BY <4>1, <4>2 DEF At, NamedPhases, Phases
      <4>3. CASE step = <<"upload again", "list remote">>
        BY <4>1, <4>3 DEF At, NamedPhases, Phases
      <4>4. QED
        BY <4>1, <4>2, <4>3
    <3>2. [Mine(p) EXCEPT !.remote_metadata = Mine(p).metadata] \in Backup
      BY <3>1, <2>4 DEF Backup
    <3>3. QED
      BY <2>9, <3>1, <3>2, <2>3, <1>1, <1>2 DEF UploadMetadata, Goto, Job, Phases
  <2>10. CASE MarkUploaded(p)
    <3>1. me.phase \in NamedPhases
      BY <2>10 DEF MarkUploaded, At, NamedPhases, Phases
    <3>2. [Mine(p) EXCEPT !.metadata = {"r2_uploaded"}] \in Backup
      BY <3>1, <2>4 DEF Backup, Metadata
    <3>3. QED
      BY <2>10, <3>1, <3>2, <2>3, <1>1, <1>2 DEF MarkUploaded, Job, Phases, Metadata
  <2>11. CASE RemoteFails(p)
    <3>1. me.phase \in NamedPhases
      BY <2>11 DEF RemoteFails, Remote, At, NamedPhases, Phases
    <3>2. PICK said \in Metadata :
            /\ Becomes(p, [me EXCEPT !.phase = "list", !.metadata = said,
                                     !.doomed = {}])
            /\ Write(p, [Mine(p) EXCEPT !.metadata = said])
      BY <2>11 DEF RemoteFails, Metadata
    <3>3. [Mine(p) EXCEPT !.metadata = said] \in Backup
      BY <3>1, <2>4 DEF Backup
    <3>4. QED
      BY <2>11, <3>1, <3>2, <3>3, <2>3, <1>1, <1>2 DEF RemoteFails, Job, Phases
  <2>12. QED
    BY <2>1, <2>2, <2>5, <2>6, <2>7, <2>8, <2>9, <2>10, <2>11
<1>3. Job' = Job /\ Statuses' = Statuses
  BY <1>2 DEF Job, Statuses, NameOrNone
<1>4. QED
  BY <1>2, <1>3, JobBecomes DEF JobTypeOK

(* A new backup is begun after all the others. *)
LEMMA PrepareStep ==
    ASSUME JobTypeOK, NEW p \in Processes, clock \in 0..MaxClock,
           Prepare(p, clock)
    PROVE  /\ JobTypeOK'
           /\ Names \subseteq Names'
           /\ Names' = 1..(Len(backups) + 1)
           /\ \A n \in Names : backups'[n] = backups[n]
           /\ backups'[Len(backups) + 1] =
                [at |-> clock, local |-> "none", copy |-> NoCopy,
                 metadata |-> NoMetadata, remote |-> "none",
                 remote_metadata |-> NoMetadata]
           /\ job' = [job EXCEPT ![p] = [job[p] EXCEPT
                         !.phase = "snapshot", !.name = Len(backups) + 1]]
<1> DEFINE new == [at |-> clock, local |-> "none", copy |-> NoCopy,
                   metadata |-> NoMetadata, remote |-> "none",
                   remote_metadata |-> NoMetadata]
           j == [job[p] EXCEPT !.phase = "snapshot", !.name = Len(backups) + 1]
<1>1. new \in Backup
  BY BoundAssumption DEF Backup, Metadata
<1>2. backups' = Append(backups, new) /\ Becomes(p, j)
  BY DEF Prepare
<1>3. /\ Len(backups) \in Nat
      /\ Names = 1..Len(backups)
  BY NamesAreNumbers DEF JobTypeOK
<1>4. /\ backups' \in Seq(Backup)
      /\ Len(backups') = Len(backups) + 1
      /\ \A n \in 1..Len(backups) : backups'[n] = backups[n]
      /\ backups'[Len(backups) + 1] = new
  BY <1>1, <1>2, AppendProperties DEF JobTypeOK
<1>5. Names' = 1..(Len(backups) + 1)
  BY <1>4, LenProperties DEF Names
<1>6. Names \subseteq Names' /\ Len(backups) + 1 \in Names'
  BY <1>3, <1>5
<1>7. /\ Job \subseteq Job'
      /\ Statuses \subseteq Statuses'
  BY <1>6, TypesGrow
<1>8. j \in Job' /\ j.name # 0
  <2>1. job[p] \in Job'
    BY <1>7 DEF JobTypeOK
  <2>2. Len(backups) + 1 \in NameOrNone'
    BY <1>6 DEF NameOrNone
  <2>3. j \in Job'
    BY <2>1, <2>2 DEF Job, Phases
  <2>4. Len(backups) + 1 # 0
    BY <1>3
  <2>5. j.name = Len(backups) + 1
    BY <2>1 DEF Job
  <2>6. QED
    BY <2>3, <2>4, <2>5
<1>9. JobTypeOK'
  BY <1>2, <1>4, <1>6, <1>7, <1>8, JobBecomes DEF JobTypeOK, Prepare
<1>10. QED
  BY <1>2, <1>3, <1>4, <1>5, <1>6, <1>9 DEF Becomes

LEMMA ProgressTypes ==
    ASSUME JobTypeOK, clock \in 0..MaxClock, live \in 0..MaxVersion,
           NEW p \in Processes, Progress(p, clock, live) \/ Failure(p)
    PROVE  JobTypeOK' /\ Names \subseteq Names'
<1>1. clock \in Nat
  BY BoundAssumption
<1>2. CASE Prepare(p, clock)
  BY <1>2, PrepareStep
<1>3. CASE \/ Snapshot(p, live) \/ CloseFile(p) \/ WriteMetadata(p)
           \/ Upload(p) \/ UploadMetadata(p) \/ MarkUploaded(p)
           \/ DeleteRemote(p) \/ RemoteFails(p) \/ Prune(p)
  BY <1>3, FileSteps
<1>4. CASE \/ ReadStatus(p, TRUE) \/ ReadStatus(p, FALSE)
           \/ Announce(p) \/ Fail(p) \/ ListRemote(p, clock)
           \/ ListLocal(p, clock)
  <2>1. JobTypeOK'
    BY <1>1, <1>4, QuietSteps
  <2>2. UNCHANGED backups
    BY <1>4 DEF ReadStatus, Announce, Fail, ListRemote, ListLocal
  <2>3. QED
    BY <2>1, <2>2 DEF Names
<1>5. CASE AnnounceFails(p) \/ Report(p) \/ Excuse(p) \/ ExcuseFails(p)
  <2>1. JobTypeOK'
    BY <1>5, EndSteps
  <2>2. UNCHANGED backups
    BY <1>5 DEF AnnounceFails, Report, Excuse, ExcuseFails
  <2>3. QED
    BY <2>1, <2>2 DEF Names
<1>6. QED
  BY <1>2, <1>3, <1>4, <1>5 DEF Progress, Failure

(* A step is one of a job, starts or kills one, or has nothing to do with them. *)
LEMMA NextJob ==
    ASSUME [Next]_vars
    PROVE  \/ \E p \in Processes : /\ Progress(p, clock, live) \/ Failure(p)
                                   /\ UNCHANGED clock
           \/ \E p : Acquire(p)
           \/ \E p : Killed(p)
           \/ UNCHANGED jobVars
BY DEF Next, Tick, ServeWrite, GatewayBacksUp, CliBacksUp, JobProgresses,
       JobFails, StopGateway, GatewayExits, CrashGateway, StartGateway, KillCli,
       BeginRestore, Verify, SafetyBackup, SafetyBackupEnds, Replace,
       ReplaceImpossible, ScriptAborted, vars

Ends(p) ==
    \/ Report(p) \/ Excuse(p) \/ ExcuseFails(p)
    \/ AnnounceFails(p)

(* The set of overlapping jobs grows where a job begins and shrinks where one
   ends. *)
LEMMA JobKeepsOverlapping ==
    ASSUME NEW p, Progress(p, clock, live) \/ Failure(p)
    PROVE  \/ Ends(p) /\ overlapping' = overlapping \ {p}
           \/ UNCHANGED overlapping
<1>1. CASE Ends(p)
  BY <1>1 DEF Ends, Report, Excuse, ExcuseFails, AnnounceFails, EndJob
<1>2. CASE \/ ReadStatus(p, TRUE) \/ ReadStatus(p, FALSE) \/ Announce(p)
           \/ Prepare(p, clock) \/ Snapshot(p, live) \/ CloseFile(p)
           \/ WriteMetadata(p) \/ Fail(p)
  BY <1>2 DEF ReadStatus, Announce, Prepare, Snapshot, CloseFile, WriteMetadata, Fail
<1>3. CASE \/ Upload(p) \/ UploadMetadata(p) \/ MarkUploaded(p)
           \/ ListRemote(p, clock) \/ DeleteRemote(p) \/ RemoteFails(p)
           \/ ListLocal(p, clock) \/ Prune(p)
  BY <1>3 DEF Upload, UploadMetadata, MarkUploaded, ListRemote, DeleteRemote,
              RemoteFails, ListLocal, Prune
<1>4. QED
  BY <1>1, <1>2, <1>3 DEF Progress, Failure, Ends

LEMMA OverlappingTypes ==
    ASSUME TypeOK, [Next]_vars
    PROVE  overlapping' \subseteq Processes
<1>1. overlapping \subseteq Processes
  BY DEF TypeOK
<1>2. ASSUME NEW p, Acquire(p) PROVE overlapping' \subseteq Processes
  BY <1>1, <1>2 DEF Acquire, Busy
<1>3. ASSUME NEW p, Killed(p) PROVE overlapping' \subseteq Processes
  BY <1>1, <1>3 DEF Killed, EndJob
<1>4. ASSUME NEW p, Progress(p, clock, live) \/ Failure(p)
      PROVE  overlapping' \subseteq Processes
  BY <1>1, <1>4, JobKeepsOverlapping
<1>5. QED
  BY <1>1, <1>2, <1>3, <1>4, NextJob DEF jobVars

LEMMA TypeStep == TypeOK /\ [Next]_vars => TypeOK'
<1> SUFFICES ASSUME TypeOK, [Next]_vars PROVE TypeOK'
  OBVIOUS
<1> DEFINE WorldOK == /\ r2_enabled \in R2Settings
                      /\ clock \in 0..MaxClock
                      /\ gateway \in {"up", "stopping", "down"}
                      /\ live \in 0..MaxVersion
                      /\ newest \in 0..MaxVersion
                      /\ faults \in 0..MaxFaults
<1>1. JobTypeOK /\ WorldOK /\ script \in Script
  BY DEF TypeOK, JobTypeOK
<1>2. SUFFICES JobTypeOK' /\ WorldOK' /\ script' \in Script'
  BY OverlappingTypes DEF TypeOK, JobTypeOK
<1>3. ASSUME UNCHANGED jobVars
      PROVE  JobTypeOK' /\ Script' = Script
  BY <1>1, <1>3 DEF jobVars, JobTypeOK, Names, NameOrNone, Statuses, Job, At, Script
<1>4. ASSUME NEW p, Acquire(p)
      PROVE  JobTypeOK' /\ Script' = Script
  <2>1. p \in Processes
    BY <1>4 DEF Acquire
  <2>2. JobTypeOK'
    BY <1>1, <1>4, <2>1, QuietSteps, 0 \in Nat
  <2>3. QED
    BY <2>2, <1>4 DEF Acquire, Names, NameOrNone, Script
<1>5. ASSUME NEW p, Killed(p)
      PROVE  JobTypeOK' /\ Script' = Script
  <2>1. JobTypeOK'
    BY <1>1, <1>5, EndSteps
  <2>2. QED
    BY <2>1, <1>5 DEF Killed, Names, NameOrNone, Script
<1>6. Gateway \in Processes
  BY ProcessAssumption
<1>7. NoScript \in Script
  BY DEF NoScript, Script, NameOrNone
<1>8. CASE UNCHANGED vars
  BY <1>1, <1>3, <1>8 DEF vars
<1>9. CASE Tick \/ ServeWrite \/ StopGateway
  BY <1>1, <1>3, <1>9, BoundAssumption DEF Tick, ServeWrite, StopGateway
<1>10. CASE GatewayBacksUp \/ CliBacksUp
  BY <1>1, <1>4, <1>6, <1>10 DEF GatewayBacksUp, CliBacksUp
<1>11. ASSUME NEW p \in Processes, JobProgresses(p) \/ JobFails(p)
       PROVE  JobTypeOK' /\ WorldOK' /\ script' \in Script'
  <2>1. JobTypeOK' /\ Names \subseteq Names'
    BY <1>1, <1>11, ProgressTypes DEF JobProgresses, JobFails
  <2>2. script' \in Script'
    BY <1>1, <1>11, <2>1, TypesGrow DEF JobProgresses, JobFails
  <2>3. QED
    BY <1>1, <1>11, <2>1, <2>2, BoundAssumption DEF JobProgresses, JobFails, Faulty
<1>12. CASE GatewayExits \/ CrashGateway \/ KillCli
  BY <1>1, <1>5, <1>12, BoundAssumption
  DEF GatewayExits, CrashGateway, KillCli, Faulty
<1>13. CASE StartGateway
  <2>1. script' \in Script
    BY <1>1, <1>13 DEF StartGateway, Script
  <2>2. QED
    BY <1>1, <1>3, <1>13, <2>1 DEF StartGateway
<1>14. ASSUME NEW n \in Names, BeginRestore(n)
       PROVE  JobTypeOK' /\ WorldOK' /\ script' \in Script'
  <2>1. script' \in Script
    BY <1>14 DEF BeginRestore, Script, NameOrNone
  <2>2. QED
    BY <1>1, <1>3, <1>14, <2>1 DEF BeginRestore
<1>15. CASE Verify \/ SafetyBackupEnds \/ ReplaceImpossible \/ ScriptAborted
  <2>1. script' \in Script
    BY <1>1, <1>7, <1>15
    DEF Verify, SafetyBackupEnds, ReplaceImpossible, ScriptAborted,
        ScriptGoes, ScriptEnds, Script
  <2>2. QED
    BY <1>1, <1>3, <1>15, <2>1, BoundAssumption
    DEF Verify, SafetyBackupEnds, ReplaceImpossible, ScriptAborted, Faulty
<1>16. CASE SafetyBackup
  BY <1>1, <1>4, <1>16 DEF SafetyBackup, ScriptGoes, Script
<1>17. CASE Replace
  <2>1. backups[script.backup].copy \in 0..MaxVersion
    BY <1>1, <1>17, NamesAreNumbers DEF Replace, Whole, JobTypeOK, Backup
  <2>2. QED
    BY <1>1, <1>3, <1>7, <1>17, <2>1 DEF Replace, ScriptEnds
<1>18. QED
  BY <1>8, <1>9, <1>10, <1>11, <1>12, <1>13, <1>14, <1>15, <1>16, <1>17 DEF Next

LEMMA TypeInit == Init => TypeOK
<1> SUFFICES ASSUME Init PROVE TypeOK
  OBVIOUS
<1>1. /\ status \in Statuses
      /\ script \in Script
  BY DEF Init, JobInit, Statuses, NameOrNone, NoScript, Script
<1>2. backups \in Seq(Backup)
  BY EmptySeq DEF Init, JobInit
<1>3. /\ NoJob("none") \in Job
      /\ NoJob("none").phase \notin NamedPhases
  BY NoJobType DEF NoJob, NamedPhases
<1>4. QED
  BY <1>1, <1>2, <1>3, BoundAssumption DEF Init, JobInit, TypeOK, At

(* Every variable keeps its type: a job, a status or a script never names a
   backup that was not begun. *)
THEOREM TypeCorrect == Spec => []TypeOK
<1>1. QED
  BY TypeInit, TypeStep, PTL DEF Spec

-----------------------------------------------------------------------------
(* Retention.  The names are in order of time; what a job of either process
   is about to delete was superseded when it looked, and still is.          *)

Chronology ==
    /\ \A n \in Names : backups[n].at <= clock
    /\ \A m, n \in Names : m <= n => backups[m].at <= backups[n].at

DoomedSuperseded ==
    \A p \in Processes : At(p, {"prune"}) =>
        \A n \in job[p].doomed : Superseded(n, OnDisk)

RetentionInv == TypeOK /\ Chronology /\ DoomedSuperseded /\ RetentionKept

(* What a step may do to the files: one superseded backup at most goes. *)
Evolves ==
    /\ Names \subseteq Names'
    /\ clock <= clock'
    /\ \A n \in Names : backups'[n].at = backups[n].at
    /\ \E k \in NameOrNone :
         /\ k # 0 => Superseded(k, OnDisk)
         /\ OnDisk \ {k} \subseteq OnDisk'
         /\ \A n \in Names' : backups'[n].local = "deleted" =>
                n \in Names /\ (backups[n].local = "deleted" \/ n = k)

(* Once superseded, a backup remains so: time goes on, and if the newer one
   of its week goes, that one is superseded itself. *)
LEMMA SupersededStays ==
    ASSUME TypeOK, TypeOK', Chronology, Evolves,
           NEW n \in Names, Superseded(n, OnDisk)
    PROVE  Superseded(n, OnDisk)'
<1>1. /\ clock \in Nat /\ clock' \in Nat /\ clock <= clock'
      /\ \A m \in Names : /\ backups[m].at \in Nat
                          /\ backups'[m].at = backups[m].at
  BY BoundAssumption, NamesAreNumbers DEF TypeOK, Evolves, Backup
<1>2. \A m \in Names : m \in Nat
  BY NamesAreNumbers DEF TypeOK
<1> USE RetentionAssumption DEF Daily, Weekly
<1>3. ~Daily(backups[n].at, clock) /\ ~Daily(backups'[n].at, clock')
  BY <1>1 DEF Superseded
<1>4. CASE ~Weekly(backups[n].at, clock)
  BY <1>1, <1>3, <1>4 DEF Superseded
<1>5. ASSUME NEW m \in OnDisk, m > n, Week(backups[m].at) = Week(backups[n].at)
      PROVE  Superseded(n, OnDisk)'
  <2>1. m \in Names
    BY DEF OnDisk
  <2>2. CASE m \in OnDisk'
    BY <1>1, <1>3, <1>5, <2>1, <2>2 DEF Superseded
  <2>3. CASE m \notin OnDisk'
    <3>1. PICK k \in NameOrNone : /\ k # 0 => Superseded(k, OnDisk)
                                  /\ OnDisk \ {k} \subseteq OnDisk'
      BY DEF Evolves
    <3>2. k = m /\ Superseded(m, OnDisk)
      BY <1>2, <1>5, <2>1, <2>3, <3>1
    <3>3. CASE ~Weekly(backups[m].at, clock)
      <4>1. backups[n].at <= backups[m].at
        BY <1>2, <1>5, <2>1 DEF Chronology
      <4>2. backups'[n].at < clock' - WeeklyWindow
        BY <1>1, <2>1, <3>2, <3>3, <4>1 DEF Superseded
      <4>3. QED
        BY <1>1, <1>3, <4>2 DEF Superseded
    <3>4. ASSUME NEW o \in OnDisk, o > m, Week(backups[o].at) = Week(backups[m].at)
          PROVE  Superseded(n, OnDisk)'
      <4>1. o \in Names /\ o # m /\ o > n
        BY <1>2, <1>5, <2>1, <3>4 DEF OnDisk
      <4>2. o \in OnDisk'
        BY <3>1, <3>2, <4>1
      <4>3. QED
        BY <1>1, <1>3, <1>5, <2>1, <3>4, <4>1, <4>2 DEF Superseded
    <3>5. QED
      BY <3>2, <3>3, <3>4 DEF Superseded
  <2>4. QED
    BY <2>2, <2>3
<1>6. QED
  BY <1>4, <1>5 DEF Superseded

LEMMA RetentionKeptByEvolution ==
    ASSUME TypeOK, TypeOK', Chronology, Evolves, RetentionKept
    PROVE  RetentionKept'
<1> SUFFICES ASSUME NEW n \in Names', backups'[n].local = "deleted"
             PROVE  Superseded(n, OnDisk)'
  BY DEF RetentionKept
<1>1. n \in Names /\ Superseded(n, OnDisk)
  BY NamesAreNumbers DEF Evolves, RetentionKept, TypeOK
<1>2. QED
  BY <1>1, SupersededStays

(* What retention does not keep is superseded: this is what the rules of
   _retention_keep_set are for. *)
LEMMA NotKeptIsSuperseded ==
    ASSUME TypeOK, NEW n \in OnDisk \ KeepSet(OnDisk, Times, clock)
    PROVE  Superseded(n, OnDisk)
<1>1. /\ OnDisk \subseteq Names
      /\ \A m \in Names : Times[m] = backups[m].at /\ m \in Nat
  BY NamesAreNumbers DEF OnDisk, Times, TypeOK
<1>2. ~Daily(Times[n], clock)
  BY DEF KeepSet
<1>3. Weekly(Times[n], clock) =>
        \E m \in OnDisk : /\ Week(Times[m]) = Week(Times[n])
                          /\ ~(m <= n)
  BY DEF KeepSet
<1>4. QED
  BY <1>1, <1>2, <1>3 DEF Superseded

(* A step that deletes nothing. *)
LEMMA NothingGoes ==
    ASSUME Names \subseteq Names', clock <= clock',
           \A n \in Names : /\ backups'[n].at = backups[n].at
                            /\ n \in OnDisk => n \in OnDisk',
           \A n \in Names' : backups'[n].local = "deleted" =>
               n \in Names /\ backups[n].local = "deleted"
    PROVE  Evolves
<1>1. OnDisk \subseteq Names
  BY DEF OnDisk
<1>2. OnDisk \ {0} \subseteq OnDisk'
  BY <1>1
<1>3. \E k \in NameOrNone :
         /\ k # 0 => Superseded(k, OnDisk)
         /\ OnDisk \ {k} \subseteq OnDisk'
         /\ \A n \in Names' : backups'[n].local = "deleted" =>
                n \in Names /\ (backups[n].local = "deleted" \/ n = k)
  <2>1. 0 \in NameOrNone
    BY DEF NameOrNone
  <2>2. WITNESS 0 \in NameOrNone
  <2>3. QED
    BY <1>2
<1>4. QED
  BY <1>3 DEF Evolves

(* A job that writes its own backup deletes nothing, unless it says so. *)
LEMMA WriteEvolves ==
    ASSUME TypeOK, NEW p \in Processes, At(p, NamedPhases), NEW b, Write(p, b),
           UNCHANGED clock,
           b.at = Mine(p).at, b.local # "deleted" \/ b.local = Mine(p).local,
           b.local \in {"torn", "whole"} \/ b.local = Mine(p).local
    PROVE  Evolves
<1>1. job[p].name \in Names
  BY DEF TypeOK, Job, NameOrNone
<1>2. /\ Names' = Names
      /\ \A n \in Names : backups'[n] = IF n = job[p].name THEN b ELSE backups[n]
  BY <1>1 DEF Write, Names
<1>3. clock <= clock'
  BY BoundAssumption DEF TypeOK
<1>4. \A n \in Names : /\ backups'[n].at = backups[n].at
                       /\ n \in OnDisk => n \in OnDisk'
                       /\ backups'[n].local = "deleted" => backups[n].local = "deleted"
  BY <1>1, <1>2 DEF Mine, OnDisk
<1>5. /\ Names \subseteq Names'
      /\ \A n \in Names' : backups'[n].local = "deleted" =>
            n \in Names /\ backups[n].local = "deleted"
  BY <1>2, <1>4
<1>6. QED
  BY <1>3, <1>4, <1>5, NothingGoes

LEMMA PruneEvolves ==
    ASSUME RetentionInv, NEW p \in Processes, Prune(p), UNCHANGED clock
    PROVE  Evolves
<1>1. PICK k \in job[p].doomed :
        backups' = [backups EXCEPT ![k] = [backups[k] EXCEPT
                                             !.local = "deleted",
                                             !.metadata = NoMetadata]]
  BY DEF Prune
<1>2. k \in Names /\ Superseded(k, OnDisk)
  BY DEF RetentionInv, DoomedSuperseded, Prune, TypeOK, Job
<1>3. /\ Names' = Names
      /\ \A n \in Names : n # k => backups'[n] = backups[n]
      /\ backups'[k] = [backups[k] EXCEPT !.local = "deleted", !.metadata = NoMetadata]
  BY <1>1, <1>2 DEF Names
<1>4. backups[k] \in Backup
  BY <1>2, NamesAreNumbers DEF RetentionInv, TypeOK
<1>5. \A n \in Names : backups'[n].at = backups[n].at
  <2>1. backups'[k].at = backups[k].at
    BY <1>3, <1>4 DEF Backup
  <2>2. QED
    BY <1>3, <2>1
<1>6. clock <= clock'
  BY BoundAssumption DEF RetentionInv, TypeOK
<1>7. OnDisk \ {k} \subseteq OnDisk'
  BY <1>3 DEF OnDisk
<1>8. QED
  BY <1>2, <1>3, <1>5, <1>6, <1>7 DEF Evolves, NameOrNone

LEMMA ProgressEvolves ==
    ASSUME RetentionInv, NEW p \in Processes, UNCHANGED clock,
           Progress(p, clock, live) \/ Failure(p)
    PROVE  Evolves
<1>1. TypeOK /\ clock \in Nat /\ clock <= clock' /\ JobTypeOK
  BY BoundAssumption DEF RetentionInv, TypeOK, JobTypeOK
<1>2. CASE Prune(p)
  BY <1>2, PruneEvolves
<1>3. CASE Prepare(p, clock)
  <2>1. /\ Names \subseteq Names'
        /\ Names' = 1..(Len(backups) + 1)
        /\ \A n \in Names : backups'[n] = backups[n]
        /\ backups'[Len(backups) + 1].local = "none"
    <3>1. clock \in 0..MaxClock
      BY <1>1 DEF TypeOK
    <3>2. /\ Names \subseteq Names'
          /\ Names' = 1..(Len(backups) + 1)
          /\ \A n \in Names : backups'[n] = backups[n]
          /\ backups'[Len(backups) + 1] =
                [at |-> clock, local |-> "none", copy |-> NoCopy,
                 metadata |-> NoMetadata, remote |-> "none",
                 remote_metadata |-> NoMetadata]
      BY <1>1, <1>3, <3>1, PrepareStep
    <3>3. QED
      BY <3>2
  <2>2. Names = 1..Len(backups) /\ Len(backups) \in Nat
    BY <1>1, NamesAreNumbers DEF TypeOK
  <2>3. \A n \in Names' : n \in Names \/ n = Len(backups) + 1
    BY <2>1, <2>2
  <2>4. QED
    BY <1>1, <2>1, <2>3, NothingGoes DEF OnDisk
<1>4. CASE DeleteRemote(p)
  <2>1. \A n \in Names : backups[n] \in Backup
    BY <1>1, NamesAreNumbers DEF TypeOK
  <2>2. Names' = Names
    BY <1>4 DEF DeleteRemote, Names
  <2>3. \A n \in Names : /\ backups'[n].at = backups[n].at
                         /\ backups'[n].local = backups[n].local
    BY <1>4, <2>1 DEF DeleteRemote, Backup
  <2>4. QED
    BY <1>1, <2>2, <2>3, NothingGoes DEF OnDisk
<1>5. ASSUME UNCHANGED backups PROVE Evolves
  BY <1>1, <1>5, NothingGoes DEF OnDisk, Names
<1>6. At(p, NamedPhases) => Mine(p) \in Backup
  BY <1>1, NamesAreNumbers DEF Mine, TypeOK, Job, NameOrNone
<1>7. CASE \/ Snapshot(p, live) \/ CloseFile(p) \/ WriteMetadata(p)
           \/ Upload(p) \/ UploadMetadata(p) \/ MarkUploaded(p) \/ RemoteFails(p)
  <2>1. At(p, NamedPhases)
    <3>1. CASE UploadMetadata(p)
      <4>1. At(p, {"upload metadata", "upload again"})
        <5>1. PICK step \in {<<"upload metadata", "mark">>,
                             <<"upload again", "list remote">>} : At(p, {step[1]})
          BY <3>1 DEF UploadMetadata
        <5>2. step[1] \in {"upload metadata", "upload again"}
          <6>1. CASE step = <<"upload metadata", "mark">>
            BY <6>1
          <6>2. CASE step = <<"upload again", "list remote">>
            BY <6>2
          <6>3. QED
            BY <6>1, <6>2
        <5>3. QED
          BY <5>1, <5>2 DEF At
      <4>2. QED
        BY <4>1 DEF At, NamedPhases, Phases
    <3>2. CASE RemoteFails(p)
      BY <3>2 DEF RemoteFails, Remote, At, NamedPhases, Phases
    <3>3. CASE Snapshot(p, live) \/ CloseFile(p) \/ WriteMetadata(p)
      BY <3>3 DEF Snapshot, CloseFile, WriteMetadata, At, NamedPhases, Phases
    <3>4. CASE Upload(p) \/ MarkUploaded(p)
      BY <3>4 DEF Upload, MarkUploaded, At, NamedPhases, Phases
    <3>5. QED
      BY <1>7, <3>1, <3>2, <3>3, <3>4
  <2>2. Mine(p) \in Backup
    BY <1>6, <2>1
  <2>3. CASE Snapshot(p, live)
    BY <1>1, <2>1, <2>2, <2>3, WriteEvolves DEF Snapshot, Backup
  <2>4. CASE CloseFile(p)
    BY <1>1, <2>1, <2>2, <2>4, WriteEvolves DEF CloseFile, Backup
  <2>5. CASE WriteMetadata(p)
    BY <1>1, <2>1, <2>2, <2>5, WriteEvolves DEF WriteMetadata, Backup
  <2>6. CASE Upload(p)
    BY <1>1, <2>1, <2>2, <2>6, WriteEvolves DEF Upload, Backup
  <2>7. CASE UploadMetadata(p)
    BY <1>1, <2>1, <2>2, <2>7, WriteEvolves DEF UploadMetadata, Backup
  <2>8. CASE MarkUploaded(p)
    BY <1>1, <2>1, <2>2, <2>8, WriteEvolves DEF MarkUploaded, Backup
  <2>9. CASE RemoteFails(p)
    <3>1. PICK said : Write(p, [Mine(p) EXCEPT !.metadata = said])
      BY <2>9 DEF RemoteFails
    <3>2. QED
      BY <1>1, <2>1, <2>2, <3>1, WriteEvolves DEF Backup
  <2>10. QED
    BY <1>7, <2>3, <2>4, <2>5, <2>6, <2>7, <2>8, <2>9
<1>8. CASE \/ ReadStatus(p, TRUE) \/ ReadStatus(p, FALSE) \/ Announce(p) \/ Fail(p)
           \/ ListRemote(p, clock) \/ ListLocal(p, clock) \/ AnnounceFails(p)
           \/ Report(p) \/ Excuse(p) \/ ExcuseFails(p)
  BY <1>5, <1>8 DEF ReadStatus, Announce, Fail, ListRemote, ListLocal,
                    AnnounceFails, Report, Excuse, ExcuseFails
<1>9. QED
  BY <1>2, <1>3, <1>4, <1>7, <1>8 DEF Progress, Failure

LEMMA StepEvolves == RetentionInv /\ [Next]_vars => Evolves
<1> SUFFICES ASSUME RetentionInv, [Next]_vars PROVE Evolves
  OBVIOUS
<1>1. TypeOK /\ clock \in Nat
  BY BoundAssumption DEF RetentionInv, TypeOK
<1>2. ASSUME UNCHANGED backups, clock <= clock' PROVE Evolves
  BY <1>2, NothingGoes DEF OnDisk, Names
<1>3. ASSUME NEW p \in Processes, JobProgresses(p) \/ JobFails(p)
      PROVE  Evolves
  BY <1>3, ProgressEvolves DEF JobProgresses, JobFails
<1>4. CASE UNCHANGED vars
  BY <1>1, <1>2, <1>4 DEF vars, jobVars
<1>5. CASE Tick
  BY <1>1, <1>2, <1>5 DEF Tick, jobVars
<1>6. CASE \/ ServeWrite \/ StopGateway \/ StartGateway \/ Verify
           \/ SafetyBackupEnds \/ Replace \/ ReplaceImpossible \/ ScriptAborted
           \/ \E n \in Names : BeginRestore(n)
  BY <1>1, <1>2, <1>6
  DEF ServeWrite, StopGateway, StartGateway, Verify, SafetyBackupEnds, Replace,
      ReplaceImpossible, ScriptAborted, BeginRestore, jobVars
<1>7. CASE GatewayBacksUp \/ CliBacksUp \/ SafetyBackup
  BY <1>1, <1>2, <1>7 DEF GatewayBacksUp, CliBacksUp, SafetyBackup, Acquire
<1>8. CASE GatewayExits \/ CrashGateway \/ KillCli
  <2>1. UNCHANGED backups
    BY <1>8 DEF GatewayExits, CrashGateway, KillCli, Killed
  <2>2. clock <= clock'
    BY <1>1, <1>8 DEF GatewayExits, CrashGateway, KillCli
  <2>3. QED
    BY <1>2, <2>1, <2>2
<1>9. QED
  BY <1>3, <1>4, <1>5, <1>6, <1>7, <1>8 DEF Next

(* Only naming a backup begins one. *)
LEMMA NamesStep ==
    ASSUME TypeOK, [Next]_vars
    PROVE  \/ Names' = Names
           \/ \E p \in Processes : Prepare(p, clock) /\ UNCHANGED clock
<1>1. JobTypeOK /\ clock \in 0..MaxClock /\ live \in 0..MaxVersion
  BY DEF TypeOK, JobTypeOK
<1>2. ASSUME UNCHANGED backups PROVE Names' = Names
  BY <1>2 DEF Names
<1>3. ASSUME NEW p \in Processes, JobProgresses(p) \/ JobFails(p),
             ~Prepare(p, clock)
      PROVE  Names' = Names
  <2>1. CASE \/ Snapshot(p, live) \/ CloseFile(p) \/ WriteMetadata(p)
             \/ Upload(p) \/ UploadMetadata(p) \/ MarkUploaded(p)
             \/ DeleteRemote(p) \/ RemoteFails(p) \/ Prune(p)
    BY <1>1, <2>1, FileSteps
  <2>2. CASE \/ ReadStatus(p, TRUE) \/ ReadStatus(p, FALSE) \/ Announce(p)
             \/ Fail(p) \/ ListRemote(p, clock) \/ ListLocal(p, clock)
             \/ AnnounceFails(p) \/ Report(p) \/ Excuse(p) \/ ExcuseFails(p)
    BY <1>2, <2>2 DEF ReadStatus, Announce, Fail, ListRemote, ListLocal,
                      AnnounceFails, Report, Excuse, ExcuseFails
  <2>3. QED
    BY <1>3, <2>1, <2>2 DEF JobProgresses, JobFails, Progress, Failure
<1>4. CASE UNCHANGED vars
  BY <1>2, <1>4 DEF vars, jobVars
<1>5. CASE \/ Tick \/ ServeWrite \/ StopGateway \/ StartGateway \/ Verify
           \/ SafetyBackupEnds \/ Replace \/ ReplaceImpossible \/ ScriptAborted
           \/ \E n \in Names : BeginRestore(n)
  BY <1>2, <1>5
  DEF Tick, ServeWrite, StopGateway, StartGateway, Verify, SafetyBackupEnds,
      Replace, ReplaceImpossible, ScriptAborted, BeginRestore, jobVars
<1>6. CASE GatewayBacksUp \/ CliBacksUp \/ SafetyBackup
  BY <1>2, <1>6 DEF GatewayBacksUp, CliBacksUp, SafetyBackup, Acquire
<1>7. CASE GatewayExits \/ CrashGateway \/ KillCli
  BY <1>2, <1>7 DEF GatewayExits, CrashGateway, KillCli, Killed
<1>8. QED
  BY <1>3, <1>4, <1>5, <1>6, <1>7 DEF Next, JobProgresses, JobFails

LEMMA ChronologyStep ==
    ASSUME TypeOK, [Next]_vars, Chronology, Evolves
    PROVE  Chronology'
<1>1. /\ clock \in Nat /\ clock' >= clock
      /\ \A n \in Names : /\ n \in Nat
                          /\ backups[n].at \in Nat
                          /\ backups'[n].at = backups[n].at
  BY BoundAssumption, NamesAreNumbers DEF TypeOK, Evolves, Backup
<1>2. clock' \in Int
  BY BoundAssumption, TypeStep DEF TypeOK
<1>3. CASE Names' = Names
  BY <1>1, <1>2, <1>3 DEF Chronology
<1>4. ASSUME NEW p \in Processes, Prepare(p, clock), UNCHANGED clock
      PROVE  Chronology'
  <2> DEFINE new == Len(backups) + 1
  <2>1. JobTypeOK /\ clock \in 0..MaxClock
    BY DEF TypeOK, JobTypeOK
  <2>2. /\ Names' = 1..new
        /\ backups'[new] =
             [at |-> clock, local |-> "none", copy |-> NoCopy,
              metadata |-> NoMetadata, remote |-> "none",
              remote_metadata |-> NoMetadata]
    BY <1>4, <2>1, PrepareStep
  <2>3. backups'[new].at = clock
    BY <2>2
  <2>4. Names = 1..Len(backups) /\ Len(backups) \in Nat
    BY NamesAreNumbers DEF TypeOK
  <2>5. \A n \in Names' : n \in Names \/ n = new
    BY <2>2, <2>4
  <2>6. \A n \in Names' : backups'[n].at <= clock'
    BY <1>1, <1>4, <2>3, <2>5 DEF Chronology
  <2>7. \A m, n \in Names' : m <= n => backups'[m].at <= backups'[n].at
    <3> SUFFICES ASSUME NEW m \in Names', NEW n \in Names', m <= n
                 PROVE  backups'[m].at <= backups'[n].at
      OBVIOUS
    <3>1. CASE n = new
      BY <1>4, <2>3, <2>6, <3>1
    <3>2. CASE n \in Names
      <4>1. m \in Names
        BY <2>2, <2>4, <3>2
      <4>2. QED
        BY <1>1, <3>2, <4>1 DEF Chronology
    <3>3. QED
      BY <2>5, <3>1, <3>2
  <2>8. QED
    BY <2>6, <2>7 DEF Chronology
<1>5. QED
  BY <1>3, <1>4, NamesStep

(* A job comes to the deletion of files from a look at the directory. *)
LEMMA DoomedStep ==
    ASSUME TypeOK, [Next]_vars, NEW q \in Processes, At(q, {"prune"})'
    PROVE  \/ At(q, {"prune"}) /\ job'[q].doomed \subseteq job[q].doomed
           \/ job'[q].doomed = OnDisk \ KeepSet(OnDisk, Times, clock)
<1> DEFINE Goal == \/ At(q, {"prune"}) /\ job'[q].doomed \subseteq job[q].doomed
                   \/ job'[q].doomed = OnDisk \ KeepSet(OnDisk, Times, clock)
<1>1. job \in [Processes -> Job]
  BY DEF TypeOK
<1>2. ASSUME UNCHANGED job PROVE Goal
  BY <1>2 DEF At
<1>3. ASSUME NEW p, NEW j, Becomes(p, j), q # p \/ j.phase # "prune" PROVE Goal
  BY <1>1, <1>3 DEF Becomes, At
<1>4. job[q] \in Job
  BY <1>1
<1>5. ASSUME NEW p \in Processes, JobProgresses(p) \/ JobFails(p) PROVE Goal
  <2>1. CASE p # q
    <3>1. PICK j : Becomes(p, j)
      BY <1>5
      DEF JobProgresses, JobFails, Progress, Failure, ReadStatus, Announce,
          Report, Excuse, EndJob, Prepare, Snapshot, CloseFile, WriteMetadata,
          Upload, UploadMetadata, MarkUploaded, ListRemote, DeleteRemote,
          ListLocal, Prune, AnnounceFails, ExcuseFails, Fail, RemoteFails, Goto
    <3>2. QED
      BY <1>3, <2>1, <3>1
  <2> SUFFICES ASSUME p = q PROVE Goal
    BY <2>1
  <2>2. CASE Prune(q)
    BY <1>1, <1>4, <2>2 DEF Prune, Becomes, At, Job
  <2>3. CASE ListLocal(q, clock)
    BY <1>1, <1>4, <2>3 DEF ListLocal, Becomes, Job
  <2>4. CASE AnnounceFails(q) \/ Report(q) \/ Excuse(q) \/ ExcuseFails(q)
    BY <1>3, <2>4 DEF AnnounceFails, Report, Excuse, ExcuseFails, EndJob, NoJob
  <2>5. CASE ReadStatus(q, TRUE) \/ ReadStatus(q, FALSE)
    <3>1. PICK step \in {<<"announce", "announcing">>, <<"report", "reporting">>,
                         <<"excuse", "excusing">>},
              read \in {status, [state |-> "unknown", last_backup |-> 0]} :
            Becomes(q, [job[q] EXCEPT !.phase = step[2], !.seen = read])
      BY <2>5 DEF ReadStatus
    <3>2. step[2] # "prune"
      <4>1. CASE step = <<"announce", "announcing">>
        BY <4>1
      <4>2. CASE step = <<"report", "reporting">>
        BY <4>2
      <4>3. CASE step = <<"excuse", "excusing">>
        BY <4>3
      <4>4. QED
        BY <4>1, <4>2, <4>3
    <3>3. [job[q] EXCEPT !.phase = step[2], !.seen = read].phase = step[2]
      BY <1>4 DEF Job
    <3>4. QED
      BY <1>3, <3>1, <3>2, <3>3
  <2>6. CASE UploadMetadata(q)
    <3>1. PICK next \in {"mark", "list remote"} :
            Becomes(q, [job[q] EXCEPT !.phase = next])
      <4>1. PICK step \in {<<"upload metadata", "mark">>,
                           <<"upload again", "list remote">>} : Goto(q, step[2])
        BY <2>6 DEF UploadMetadata
      <4>2. CASE step = <<"upload metadata", "mark">>
        BY <4>1, <4>2 DEF Goto
      <4>3. CASE step = <<"upload again", "list remote">>
        BY <4>1, <4>3 DEF Goto
      <4>4. QED
        BY <4>2, <4>3
    <3>2. [job[q] EXCEPT !.phase = next].phase = next
      BY <1>4 DEF Job
    <3>3. QED
      BY <1>3, <3>1, <3>2
  <2>7. CASE \/ Announce(q) \/ Prepare(q, clock) \/ Snapshot(q, live)
             \/ CloseFile(q) \/ WriteMetadata(q) \/ Upload(q) \/ MarkUploaded(q)
             \/ ListRemote(q, clock) \/ DeleteRemote(q) \/ Fail(q)
             \/ RemoteFails(q)
    <3>1. CASE Announce(q) \/ CloseFile(q) \/ WriteMetadata(q) \/ Upload(q) \/ Fail(q)
      <4>1. PICK ph \in {"prepare", "describe", "upload", "list",
                         "upload metadata", "excuse"} :
              Becomes(q, [job[q] EXCEPT !.phase = ph])
        BY <3>1 DEF Announce, CloseFile, WriteMetadata, Upload, Fail, Goto
      <4>2. [job[q] EXCEPT !.phase = ph].phase = ph
        BY <1>4 DEF Job
      <4>3. QED
        BY <1>3, <4>1, <4>2
    <3>2. CASE Prepare(q, clock)
      <4> DEFINE j == [job[q] EXCEPT !.phase = "snapshot", !.name = Len(backups) + 1]
      <4>1. Becomes(q, j)
        BY <3>2 DEF Prepare
      <4>2. j.phase = "snapshot"
        BY <1>4 DEF Job
      <4>3. QED
        BY <1>3, <4>1, <4>2
    <3>3. CASE Snapshot(q, live)
      <4> DEFINE j == [job[q] EXCEPT !.phase = "encrypt", !.copy = live]
      <4>1. Becomes(q, j)
        BY <3>3 DEF Snapshot
      <4>2. j.phase = "encrypt"
        BY <1>4 DEF Job
      <4>3. QED
        BY <1>3, <4>1, <4>2
    <3>4. CASE MarkUploaded(q)
      <4> DEFINE j == [job[q] EXCEPT !.phase = "upload again",
                                           !.metadata = {"r2_uploaded"}]
      <4>1. Becomes(q, j)
        BY <3>4 DEF MarkUploaded
      <4>2. j.phase = "upload again"
        BY <1>4 DEF Job
      <4>3. QED
        BY <1>3, <4>1, <4>2
    <3>5. CASE ListRemote(q, clock)
      <4> DEFINE j == [job[q] EXCEPT !.phase = "delete remote",
                     !.doomed = InBucket \ KeepSet(InBucket, Times, clock)]
      <4>1. Becomes(q, j)
        BY <3>5 DEF ListRemote
      <4>2. j.phase = "delete remote"
        BY <1>4 DEF Job
      <4>3. QED
        BY <1>3, <4>1, <4>2
    <3>6. CASE DeleteRemote(q)
      <4> DEFINE j == [job[q] EXCEPT !.phase = "list", !.doomed = {}]
      <4>1. Becomes(q, j)
        BY <3>6 DEF DeleteRemote
      <4>2. j.phase = "list"
        BY <1>4 DEF Job
      <4>3. QED
        BY <1>3, <4>1, <4>2
    <3>7. CASE RemoteFails(q)
      <4>1. PICK said : Becomes(q, [job[q] EXCEPT !.phase = "list", !.metadata = said,
                                                 !.doomed = {}])
        BY <3>7 DEF RemoteFails
      <4>2. [job[q] EXCEPT !.phase = "list", !.metadata = said, !.doomed = {}].phase
              = "list"
        BY <1>4 DEF Job
      <4>3. QED
        BY <1>3, <4>1, <4>2
    <3>8. QED
      BY <2>7, <3>1, <3>2, <3>3, <3>4, <3>5, <3>6, <3>7
  <2>8. QED
    BY <1>5, <2>2, <2>3, <2>4, <2>5, <2>6, <2>7
    DEF JobProgresses, JobFails, Progress, Failure
<1>6. CASE UNCHANGED vars
  BY <1>2, <1>6 DEF vars, jobVars
<1>7. CASE \/ Tick \/ ServeWrite \/ StopGateway \/ StartGateway \/ Verify
           \/ SafetyBackupEnds \/ Replace \/ ReplaceImpossible \/ ScriptAborted
           \/ \E n \in Names : BeginRestore(n)
  BY <1>2, <1>7
  DEF Tick, ServeWrite, StopGateway, StartGateway, Verify, SafetyBackupEnds,
      Replace, ReplaceImpossible, ScriptAborted, BeginRestore, jobVars
<1>8. ASSUME NEW p, Acquire(p) PROVE Goal
  <2>1. [NoJob("none") EXCEPT !.phase = "announce"].phase = "announce"
    BY DEF NoJob
  <2>2. QED
    BY <1>3, <1>8, <2>1 DEF Acquire
<1>9. CASE GatewayBacksUp \/ CliBacksUp \/ SafetyBackup
  BY <1>8, <1>9 DEF GatewayBacksUp, CliBacksUp, SafetyBackup
<1>10. ASSUME NEW p, Killed(p) PROVE Goal
  BY <1>3, <1>10 DEF Killed, EndJob, NoJob
<1>11. CASE GatewayExits \/ CrashGateway \/ KillCli
  BY <1>10, <1>11 DEF GatewayExits, CrashGateway, KillCli
<1>12. QED
  BY <1>5, <1>6, <1>7, <1>9, <1>11 DEF Next

LEMMA RetentionStep == RetentionInv /\ [Next]_vars => RetentionInv'
<1> SUFFICES ASSUME RetentionInv, [Next]_vars PROVE RetentionInv'
  OBVIOUS
<1>1. TypeOK /\ TypeOK' /\ Chronology /\ RetentionKept /\ Evolves
  BY TypeStep, StepEvolves DEF RetentionInv
<1>2. Chronology' /\ RetentionKept'
  BY <1>1, ChronologyStep, RetentionKeptByEvolution
<1>3. DoomedSuperseded'
  <2> SUFFICES ASSUME NEW q \in Processes, At(q, {"prune"})',
                      NEW n \in job'[q].doomed
               PROVE  Superseded(n, OnDisk)'
    BY DEF DoomedSuperseded
  <2>1. n \in Names /\ Superseded(n, OnDisk)
    <3>1. CASE At(q, {"prune"}) /\ n \in job[q].doomed
      BY <1>1, <3>1 DEF RetentionInv, DoomedSuperseded, TypeOK, Job
    <3>2. CASE n \in OnDisk \ KeepSet(OnDisk, Times, clock)
      BY <1>1, <3>2, NotKeptIsSuperseded DEF OnDisk
    <3>3. QED
      BY <1>1, <3>1, <3>2, DoomedStep
  <2>2. QED
    BY <1>1, <2>1, SupersededStays
<1>4. QED
  BY <1>1, <1>2, <1>3 DEF RetentionInv

LEMMA RetentionInit == Init => RetentionInv
<1> SUFFICES ASSUME Init PROVE RetentionInv
  OBVIOUS
<1>1. TypeOK
  BY TypeInit
<1>2. Names = {}
  BY DEF Init, JobInit, Names
<1>3. \A p \in Processes : ~At(p, {"prune"})
  BY DEF Init, JobInit, At, NoJob
<1>4. QED
  BY <1>1, <1>2, <1>3
  DEF RetentionInv, Chronology, DoomedSuperseded, RetentionKept

(* No backup goes that the retention rules keep, with any number of backups,
   any windows, and lists of files as old as can be. *)
THEOREM RetentionIsKept == Spec => []RetentionKept
<1>1. RetentionInv => RetentionKept
  BY DEF RetentionInv
<1>2. QED
  BY <1>1, RetentionInit, RetentionStep, PTL DEF Spec
-----------------------------------------------------------------------------
(* The lock, and what the status reports.  Change says what a step of its job
   does to a process; what it does to the files is in LocalChange.          *)

(* A job in one of these phases has closed its backup. *)
WrittenPhases == Remote \cup {"describe", "list", "prune", "report", "reporting"}

Change(p) ==
    /\ job'[p].seen.last_backup \in {job[p].seen.last_backup, status.last_backup, 0}
    /\ At(p, WrittenPhases)' => /\ At(p, WrittenPhases) \/ CloseFile(p)
                                /\ job'[p].name = job[p].name
    /\ At(p, {"snapshot"})' => Prepare(p, clock)
    /\ \/ job'[p].name \in {0, job[p].name}
       \/ Prepare(p, clock) /\ job'[p].name = Len(backups) + 1
    /\ \/ Ends(p)
       \/ ~At(p, {"idle"}) /\ ~At(p, {"idle"})' /\ UNCHANGED <<lock, stuck>>

LEMMA EndsIdle ==
    ASSUME job \in [Processes -> Job], NEW p \in Processes, Ends(p)
    PROVE  At(p, {"idle"})'
BY DEF Ends, Report, Excuse, ExcuseFails, AnnounceFails, EndJob, Becomes, NoJob, At

(* The steps that only move on, or that look at something. *)
LEMMA MovesOn ==
    ASSUME job \in [Processes -> Job], NEW p \in Processes, NEW j,
           Becomes(p, j), UNCHANGED <<lock, stuck>>, ~At(p, {"idle"}),
           j.phase \notin {"idle", "snapshot"}, j.name = job[p].name,
           j.seen.last_backup \in {job[p].seen.last_backup, status.last_backup, 0},
           j.phase \in WrittenPhases => At(p, WrittenPhases) \/ CloseFile(p)
    PROVE  Change(p)
<1>1. job'[p] = j
  BY DEF Becomes
<1>2. QED
  BY <1>1 DEF Change, At

LEMMA JobChanges ==
    ASSUME TypeOK, NEW p \in Processes, Progress(p, clock, live) \/ Failure(p)
    PROVE  Change(p) /\ \A q \in Processes \ {p} : job'[q] = job[q]
<1>1. job \in [Processes -> Job] /\ job[p] \in Job
  BY DEF TypeOK
<1>2. ASSUME NEW j, Becomes(p, j), Change(p)
      PROVE  Change(p) /\ \A q \in Processes \ {p} : job'[q] = job[q]
  BY <1>1, <1>2 DEF Becomes
<1>3. CASE Ends(p)
  <2>1. PICK outcome : Becomes(p, NoJob(outcome))
    BY <1>3 DEF Ends, Report, Excuse, ExcuseFails, AnnounceFails, EndJob
  <2>2. job'[p] = NoJob(outcome)
    BY <1>1, <2>1 DEF Becomes
  <2>3. Change(p)
    BY <1>3, <2>2 DEF Change, NoJob, At, WrittenPhases, Remote
  <2>4. QED
    BY <1>2, <2>1, <2>3
<1>4. CASE ReadStatus(p, TRUE) \/ ReadStatus(p, FALSE)
  <2>1. PICK step \in {<<"announce", "announcing">>, <<"report", "reporting">>,
                       <<"excuse", "excusing">>},
             read \in {status, [state |-> "unknown", last_backup |-> 0]} :
          /\ At(p, {step[1]})
          /\ Becomes(p, [job[p] EXCEPT !.phase = step[2], !.seen = read])
          /\ UNCHANGED <<lock, stuck>>
    BY <1>4 DEF ReadStatus
  <2> DEFINE j == [job[p] EXCEPT !.phase = step[2], !.seen = read]
  <2>2. j.phase = step[2] /\ j.seen = read /\ j.name = job[p].name
    BY <1>1 DEF Job
  <2>3. read.last_backup \in {status.last_backup, 0}
    BY <2>1
  <2>4. /\ step[1] # "idle"
        /\ step[2] \notin {"idle", "snapshot"}
        /\ step[2] \in WrittenPhases => step[1] \in WrittenPhases
    <3>1. CASE step = <<"announce", "announcing">>
      BY <3>1 DEF WrittenPhases, Remote
    <3>2. CASE step = <<"report", "reporting">>
      BY <3>2 DEF WrittenPhases, Remote
    <3>3. CASE step = <<"excuse", "excusing">>
      BY <3>3 DEF WrittenPhases, Remote
    <3>4. QED
      BY <3>1, <3>2, <3>3
  <2>5. Becomes(p, j) /\ UNCHANGED <<lock, stuck>>
    BY <2>1
  <2>6. ~At(p, {"idle"}) /\ (step[2] \in WrittenPhases => At(p, WrittenPhases))
    BY <2>1, <2>4 DEF At
  <2>7. Change(p)
    BY <1>1, <2>2, <2>3, <2>4, <2>5, <2>6, MovesOn
  <2>8. QED
    BY <1>2, <2>5, <2>7
<1>5. CASE Prepare(p, clock)
  <2> DEFINE j == [job[p] EXCEPT !.phase = "snapshot", !.name = Len(backups) + 1]
  <2>1. /\ Becomes(p, j) /\ At(p, {"prepare"}) /\ UNCHANGED <<lock, stuck>>
    BY <1>5 DEF Prepare
  <2>2. job'[p] = j
    BY <1>1, <2>1 DEF Becomes
  <2>3. /\ job'[p].phase = "snapshot" /\ job'[p].name = Len(backups) + 1
        /\ job'[p].seen = job[p].seen
    BY <1>1, <2>2 DEF Job
  <2>4. Change(p)
    BY <1>5, <2>1, <2>3 DEF Change, At, WrittenPhases, Remote
  <2>5. QED
    BY <1>2, <2>1, <2>4
<1>6. ASSUME NEW j, Becomes(p, j), UNCHANGED <<lock, stuck>>, ~At(p, {"idle"}),
             j.phase \notin {"idle", "snapshot"},
             j.name = job[p].name, j.seen = job[p].seen,
             j.phase \in WrittenPhases => At(p, WrittenPhases) \/ CloseFile(p)
      PROVE  Change(p) /\ \A q \in Processes \ {p} : job'[q] = job[q]
  BY <1>1, <1>2, <1>6, MovesOn
<1>7. CASE Announce(p)
  <2> DEFINE j == [job[p] EXCEPT !.phase = "prepare"]
  <2>1. /\ Becomes(p, j) /\ UNCHANGED <<lock, stuck>> /\ ~At(p, {"idle"})
        /\ "prepare" \in WrittenPhases => At(p, WrittenPhases) \/ CloseFile(p)
    BY <1>7 DEF Announce, Goto, At, WrittenPhases, Remote
  <2>2. j.phase = "prepare" /\ j.name = job[p].name /\ j.seen = job[p].seen
    BY <1>1 DEF Job
  <2>3. QED
    BY <1>6, <2>1, <2>2
<1>8. CASE Snapshot(p, live)
  <2> DEFINE j == [job[p] EXCEPT !.phase = "encrypt", !.copy = live]
  <2>1. /\ Becomes(p, j) /\ UNCHANGED <<lock, stuck>> /\ ~At(p, {"idle"})
        /\ "encrypt" \in WrittenPhases => At(p, WrittenPhases) \/ CloseFile(p)
    BY <1>8 DEF Snapshot, Goto, At, WrittenPhases, Remote
  <2>2. j.phase = "encrypt" /\ j.name = job[p].name /\ j.seen = job[p].seen
    BY <1>1 DEF Job
  <2>3. QED
    BY <1>6, <2>1, <2>2
<1>9. CASE CloseFile(p)
  <2> DEFINE j == [job[p] EXCEPT !.phase = "describe"]
  <2>1. /\ Becomes(p, j) /\ UNCHANGED <<lock, stuck>> /\ ~At(p, {"idle"})
        /\ "describe" \in WrittenPhases => At(p, WrittenPhases) \/ CloseFile(p)
    BY <1>9 DEF CloseFile, Goto, At, WrittenPhases, Remote
  <2>2. j.phase = "describe" /\ j.name = job[p].name /\ j.seen = job[p].seen
    BY <1>1 DEF Job
  <2>3. QED
    BY <1>6, <2>1, <2>2
<1>10. CASE Upload(p)
  <2> DEFINE j == [job[p] EXCEPT !.phase = "upload metadata"]
  <2>1. /\ Becomes(p, j) /\ UNCHANGED <<lock, stuck>> /\ ~At(p, {"idle"})
        /\ "upload metadata" \in WrittenPhases => At(p, WrittenPhases) \/ CloseFile(p)
    BY <1>10 DEF Upload, Goto, At, WrittenPhases, Remote
  <2>2. j.phase = "upload metadata" /\ j.name = job[p].name /\ j.seen = job[p].seen
    BY <1>1 DEF Job
  <2>3. QED
    BY <1>6, <2>1, <2>2
<1>11. CASE MarkUploaded(p)
  <2> DEFINE j == [job[p] EXCEPT !.phase = "upload again", !.metadata = {"r2_uploaded"}]
  <2>1. /\ Becomes(p, j) /\ UNCHANGED <<lock, stuck>> /\ ~At(p, {"idle"})
        /\ "upload again" \in WrittenPhases => At(p, WrittenPhases) \/ CloseFile(p)
    BY <1>11 DEF MarkUploaded, Goto, At, WrittenPhases, Remote
  <2>2. j.phase = "upload again" /\ j.name = job[p].name /\ j.seen = job[p].seen
    BY <1>1 DEF Job
  <2>3. QED
    BY <1>6, <2>1, <2>2
<1>12. CASE ListRemote(p, clock)
  <2> DEFINE j == [job[p] EXCEPT !.phase = "delete remote",
                             !.doomed = InBucket \ KeepSet(InBucket, Times, clock)]
  <2>1. /\ Becomes(p, j) /\ UNCHANGED <<lock, stuck>> /\ ~At(p, {"idle"})
        /\ "delete remote" \in WrittenPhases => At(p, WrittenPhases) \/ CloseFile(p)
    BY <1>12 DEF ListRemote, Goto, At, WrittenPhases, Remote
  <2>2. j.phase = "delete remote" /\ j.name = job[p].name /\ j.seen = job[p].seen
    BY <1>1 DEF Job
  <2>3. QED
    BY <1>6, <2>1, <2>2
<1>13. CASE DeleteRemote(p)
  <2> DEFINE j == [job[p] EXCEPT !.phase = "list", !.doomed = {}]
  <2>1. /\ Becomes(p, j) /\ UNCHANGED <<lock, stuck>> /\ ~At(p, {"idle"})
        /\ "list" \in WrittenPhases => At(p, WrittenPhases) \/ CloseFile(p)
    BY <1>13 DEF DeleteRemote, Goto, At, WrittenPhases, Remote
  <2>2. j.phase = "list" /\ j.name = job[p].name /\ j.seen = job[p].seen
    BY <1>1 DEF Job
  <2>3. QED
    BY <1>6, <2>1, <2>2
<1>14. CASE Fail(p)
  <2> DEFINE j == [job[p] EXCEPT !.phase = "excuse"]
  <2>1. /\ Becomes(p, j) /\ UNCHANGED <<lock, stuck>> /\ ~At(p, {"idle"})
        /\ "excuse" \in WrittenPhases => At(p, WrittenPhases) \/ CloseFile(p)
    BY <1>14 DEF Fail, Goto, At, WrittenPhases, Remote
  <2>2. j.phase = "excuse" /\ j.name = job[p].name /\ j.seen = job[p].seen
    BY <1>1 DEF Job
  <2>3. QED
    BY <1>6, <2>1, <2>2
<1>15. CASE WriteMetadata(p)
  <2>1. PICK ph \in {"upload", "list"} : Becomes(p, [job[p] EXCEPT !.phase = ph])
    BY <1>15 DEF WriteMetadata, Goto
  <2> DEFINE j == [job[p] EXCEPT !.phase = ph]
  <2>2. UNCHANGED <<lock, stuck>> /\ ~At(p, {"idle"}) /\ At(p, WrittenPhases)
    BY <1>15 DEF WriteMetadata, At, WrittenPhases, Remote
  <2>3. j.phase = ph /\ j.name = job[p].name /\ j.seen = job[p].seen
    BY <1>1 DEF Job
  <2>4. QED
    BY <1>6, <2>1, <2>2, <2>3
<1>16. CASE UploadMetadata(p)
  <2>1. PICK step \in {<<"upload metadata", "mark">>, <<"upload again", "list remote">>} :
          At(p, {step[1]}) /\ Goto(p, step[2]) /\ UNCHANGED <<lock, stuck>>
    BY <1>16 DEF UploadMetadata
  <2>2. /\ step[1] \in {"upload metadata", "upload again"}
        /\ step[2] \in {"mark", "list remote"}
    <3>1. CASE step = <<"upload metadata", "mark">>
      BY <3>1
    <3>2. CASE step = <<"upload again", "list remote">>
      BY <3>2
    <3>3. QED
      BY <3>1, <3>2
  <2>3. At(p, {"upload metadata", "upload again"})
    BY <2>1, <2>2 DEF At
  <2> DEFINE ph == step[2]
             j == [job[p] EXCEPT !.phase = ph]
  <2>4. /\ Becomes(p, j) /\ UNCHANGED <<lock, stuck>> /\ ~At(p, {"idle"})
        /\ At(p, WrittenPhases) /\ ph \notin {"idle", "snapshot"}
    BY <2>1, <2>2, <2>3 DEF Goto, At, WrittenPhases, Remote
  <2>5. j.phase = ph /\ j.name = job[p].name /\ j.seen = job[p].seen
    BY <1>1 DEF Job
  <2>6. QED
    BY <1>6, <2>4, <2>5
<1>17. CASE RemoteFails(p)
  <2>1. PICK said : Becomes(p, [job[p] EXCEPT !.phase = "list", !.metadata = said,
                                              !.doomed = {}])
    BY <1>17 DEF RemoteFails
  <2> DEFINE j == [job[p] EXCEPT !.phase = "list", !.metadata = said, !.doomed = {}]
  <2>2. UNCHANGED <<lock, stuck>> /\ ~At(p, {"idle"}) /\ At(p, WrittenPhases)
    BY <1>17 DEF RemoteFails, At, WrittenPhases, Remote
  <2>3. j.phase = "list" /\ j.name = job[p].name /\ j.seen = job[p].seen
    BY <1>1 DEF Job
  <2>4. QED
    BY <1>6, <2>1, <2>2, <2>3
<1>18. CASE ListLocal(p, clock)
  <2>1. PICK ph \in {"list", "prune", "report"}, doomed \in SUBSET Names :
          Becomes(p, [job[p] EXCEPT !.phase = ph, !.doomed = doomed])
    BY <1>1, <1>18 DEF ListLocal, OnDisk, At, Job
  <2> DEFINE j == [job[p] EXCEPT !.phase = ph, !.doomed = doomed]
  <2>2. UNCHANGED <<lock, stuck>> /\ ~At(p, {"idle"}) /\ At(p, WrittenPhases)
    BY <1>18 DEF ListLocal, At, WrittenPhases, Remote
  <2>3. j.phase = ph /\ j.name = job[p].name /\ j.seen = job[p].seen
    BY <1>1 DEF Job
  <2>4. QED
    BY <1>6, <2>1, <2>2, <2>3
<1>19. CASE Prune(p)
  <2>1. PICK ph \in {"list", "prune", "report"}, doomed \in SUBSET Names :
          Becomes(p, [job[p] EXCEPT !.phase = ph, !.doomed = doomed])
    BY <1>1, <1>19 DEF Prune, At, Job
  <2> DEFINE j == [job[p] EXCEPT !.phase = ph, !.doomed = doomed]
  <2>2. UNCHANGED <<lock, stuck>> /\ ~At(p, {"idle"}) /\ At(p, WrittenPhases)
    BY <1>19 DEF Prune, At, WrittenPhases, Remote
  <2>3. j.phase = ph /\ j.name = job[p].name /\ j.seen = job[p].seen
    BY <1>1 DEF Job
  <2>4. QED
    BY <1>6, <2>1, <2>2, <2>3
<1>20. QED
  BY <1>3, <1>4, <1>5, <1>7, <1>8, <1>9, <1>10, <1>11, <1>12, <1>13, <1>14,
     <1>15, <1>16, <1>17, <1>18, <1>19
  DEF Progress, Failure, Ends

(* A process whose announcement failed makes no backup any more. *)
LockInv ==
    /\ TypeOK
    /\ LockExplained
    /\ \A p \in stuck : At(p, {"idle"}) /\ p # Cli

LEMMA EndKeepsLock ==
    ASSUME LockInv, NEW p, NEW outcome, NEW held, EndJob(p, outcome, held),
           \/ /\ ~held
              /\ stuck' \subseteq stuck /\ stuck \ {p} \subseteq stuck'
              /\ p \notin stuck'
           \/ held /\ stuck' = stuck \cup ({p} \ {Cli}) /\ p \notin stuck
    PROVE  /\ LockExplained'
           /\ \A q \in stuck' : q \in Processes => At(q, {"idle"})' /\ q # Cli
<1>1. lock \in [Processes -> BOOLEAN] /\ job \in [Processes -> Job]
  BY DEF LockInv, TypeOK
<1> SUFFICES ASSUME NEW q \in Processes
             PROVE  /\ lock'[q] <=> ~At(q, {"idle"})' \/ q \in stuck'
                    /\ q \in stuck' => At(q, {"idle"})' /\ q # Cli
  BY DEF LockExplained
<1>2. CASE q = p
  <2>1. lock'[q] = (held /\ p # Cli) /\ At(q, {"idle"})'
    BY <1>1, <1>2 DEF EndJob, Becomes, NoJob, At
  <2>2. CASE ~held
    BY <1>2, <2>1, <2>2
  <2>3. CASE held
    BY <1>2, <2>1, <2>3
  <2>4. QED
    BY <2>2, <2>3
<1>3. CASE q # p
  <2>1. lock'[q] = lock[q] /\ job'[q] = job[q]
    BY <1>1, <1>3 DEF EndJob, Becomes
  <2>2. q \in stuck' <=> q \in stuck
    BY <1>3
  <2>3. QED
    BY <2>1, <2>2 DEF LockInv, LockExplained, At
<1>4. QED
  BY <1>2, <1>3

LEMMA LockStep == LockInv /\ [Next]_vars => LockInv'
<1> SUFFICES ASSUME LockInv, [Next]_vars PROVE LockInv'
  OBVIOUS
<1>1. /\ TypeOK /\ TypeOK' /\ stuck' \subseteq Processes
      /\ lock \in [Processes -> BOOLEAN] /\ job \in [Processes -> Job]
  BY TypeStep DEF LockInv, TypeOK
<1>2. ASSUME UNCHANGED jobVars PROVE LockInv'
  BY <1>1, <1>2 DEF LockInv, LockExplained, At, jobVars
<1>3. ASSUME NEW p, Killed(p) PROVE LockInv'
  <2>1. EndJob(p, "failed", FALSE) /\ stuck' = stuck \ {p}
    BY <1>3 DEF Killed
  <2>2. /\ LockExplained'
        /\ \A q \in stuck' : q \in Processes => At(q, {"idle"})' /\ q # Cli
    BY <2>1, EndKeepsLock
  <2>3. QED
    BY <1>1, <2>2 DEF LockInv
<1>4. ASSUME NEW p, Acquire(p) PROVE LockInv'
  <2>1. [NoJob("none") EXCEPT !.phase = "announce"].phase = "announce"
    BY DEF NoJob
  <2> SUFFICES ASSUME NEW q \in Processes
               PROVE  /\ lock'[q] <=> ~At(q, {"idle"})' \/ q \in stuck
                      /\ q \in stuck => At(q, {"idle"})' /\ q # Cli
    BY <1>1, <1>4 DEF Acquire, LockInv, LockExplained
  <2>2. CASE q = p
    <3>1. lock'[q] = TRUE /\ ~At(q, {"idle"})'
      BY <1>1, <1>4, <2>1, <2>2 DEF Acquire, Becomes, At
    <3>2. q \notin stuck
      BY <1>4, <2>2 DEF Acquire, LockInv, LockExplained
    <3>3. QED
      BY <3>1, <3>2
  <2>3. CASE q # p
    BY <1>1, <1>4, <2>3 DEF Acquire, Becomes, At, LockInv, LockExplained
  <2>4. QED
    BY <2>2, <2>3
<1>5. ASSUME NEW p \in Processes, Progress(p, clock, live) \/ Failure(p)
      PROVE  LockInv'
  <2>1. Change(p) /\ \A q \in Processes \ {p} : job'[q] = job[q]
    BY <1>1, <1>5, JobChanges
  <2>2. CASE Ends(p)
    <3>1. ~At(p, {"idle"})
      BY <2>2 DEF Ends, Report, Excuse, ExcuseFails, AnnounceFails, At
    <3>2. p \notin stuck
      BY <3>1 DEF LockInv
    <3>3. PICK outcome, held :
            /\ EndJob(p, outcome, held)
            /\ \/ ~held /\ stuck' = stuck
               \/ held /\ stuck' = stuck \cup ({p} \ {Cli})
      BY <2>2 DEF Ends, Report, Excuse, ExcuseFails, AnnounceFails
    <3>4. /\ LockExplained'
          /\ \A q \in stuck' : q \in Processes => At(q, {"idle"})' /\ q # Cli
      BY <3>2, <3>3, EndKeepsLock
    <3>5. QED
      BY <1>1, <3>4 DEF LockInv
  <2>3. CASE ~At(p, {"idle"}) /\ ~At(p, {"idle"})' /\ UNCHANGED <<lock, stuck>>
    <3>1. \A q \in Processes : At(q, {"idle"})' <=> At(q, {"idle"})
      BY <2>1, <2>3 DEF At
    <3>2. QED
      BY <1>1, <2>3, <3>1 DEF LockInv, LockExplained
  <2>4. QED
    BY <2>1, <2>2, <2>3 DEF Change
<1>6. QED
  BY <1>2, <1>3, <1>4, <1>5, NextJob

(* Whatever fails and whenever a process is killed, with any processes: the
   lock is taken exactly while a backup is made, except for the gateway that
   could not announce one. *)
THEOREM LockIsExplained == Spec => []LockExplained
<1>1. Init => LockInv
  BY TypeInit DEF Init, JobInit, LockInv, LockExplained, At, NoJob
<1>2. LockInv => LockExplained
  BY DEF LockInv
<1>3. QED
  BY <1>1, <1>2, LockStep, PTL DEF Spec

(* What a step of a job does to a file: it writes its own, or deletes a
   superseded one. *)
LEMMA LocalChange ==
    ASSUME RetentionInv, NEW p \in Processes,
           Progress(p, clock, live) \/ Failure(p), NEW n \in Names
    PROVE  \/ backups'[n].local = backups[n].local
           \/ n = job[p].name /\ At(p, {"snapshot"})
           \/ n = job[p].name /\ At(p, {"encrypt"}) /\ backups'[n].local = "whole"
           \/ backups'[n].local = "deleted" /\ Superseded(n, OnDisk)
<1> DEFINE Goal == \/ backups'[n].local = backups[n].local
                   \/ n = job[p].name /\ At(p, {"snapshot"})
                   \/ n = job[p].name /\ At(p, {"encrypt"}) /\ backups'[n].local = "whole"
                   \/ backups'[n].local = "deleted" /\ Superseded(n, OnDisk)
<1>1. /\ TypeOK /\ backups[n] \in Backup
      /\ n = job[p].name => backups[n] = Mine(p)
      /\ clock \in 0..MaxClock /\ JobTypeOK
  BY NamesAreNumbers DEF RetentionInv, TypeOK, JobTypeOK, Mine
<1>2. ASSUME NEW b, Write(p, b), n = job[p].name => b.local = backups[n].local
      PROVE  Goal
  BY <1>1, <1>2 DEF Write, Names
<1>3. CASE Snapshot(p, live)
  BY <1>1, <1>3 DEF Snapshot, Write, Names
<1>4. CASE CloseFile(p)
  <2> DEFINE b == [Mine(p) EXCEPT !.local = "whole", !.copy = job[p].copy]
  <2>1. Write(p, b)
    BY <1>4 DEF CloseFile
  <2>2. n = job[p].name => b.local = "whole"
    BY <1>1 DEF Backup
  <2>3. backups'[n] = IF n = job[p].name THEN b ELSE backups[n]
    BY <2>1 DEF Write, Names
  <2>4. At(p, {"encrypt"})
    BY <1>4 DEF CloseFile
  <2>5. QED
    BY <2>2, <2>3, <2>4
<1>5. CASE \/ WriteMetadata(p) \/ Upload(p) \/ UploadMetadata(p)
           \/ MarkUploaded(p) \/ RemoteFails(p)
  <2>1. PICK b : /\ Write(p, b)
                 /\ \/ \E said : b = [Mine(p) EXCEPT !.metadata = said]
                    \/ b = [Mine(p) EXCEPT !.remote = "whole"]
                    \/ \E said : b = [Mine(p) EXCEPT !.remote_metadata = said]
    BY <1>5 DEF WriteMetadata, Upload, UploadMetadata, MarkUploaded, RemoteFails
  <2>2. n = job[p].name => b.local = backups[n].local
    <3> SUFFICES ASSUME n = job[p].name PROVE b.local = Mine(p).local
      BY <1>1
    <3>1. [Mine(p) EXCEPT !.remote = "whole"].local = Mine(p).local
      BY <1>1 DEF Backup
    <3>2. CASE \E said : b = [Mine(p) EXCEPT !.metadata = said]
      <4>1. PICK said : b = [Mine(p) EXCEPT !.metadata = said]
        BY <3>2
      <4>2. [Mine(p) EXCEPT !.metadata = said].local = Mine(p).local
        BY <1>1 DEF Backup
      <4>3. QED
        BY <4>1, <4>2
    <3>3. CASE b = [Mine(p) EXCEPT !.remote = "whole"]
      BY <3>1, <3>3
    <3>4. CASE \E said : b = [Mine(p) EXCEPT !.remote_metadata = said]
      <4>1. PICK said : b = [Mine(p) EXCEPT !.remote_metadata = said]
        BY <3>4
      <4>2. [Mine(p) EXCEPT !.remote_metadata = said].local = Mine(p).local
        BY <1>1 DEF Backup
      <4>3. QED
        BY <4>1, <4>2
    <3>5. QED
      BY <2>1, <3>2, <3>3, <3>4
  <2>3. QED
    BY <1>2, <2>1, <2>2
<1>6. CASE Prune(p)
  <2>1. PICK k \in job[p].doomed :
          backups' = [backups EXCEPT ![k] = [backups[k] EXCEPT
                                               !.local = "deleted",
                                               !.metadata = NoMetadata]]
    BY <1>6 DEF Prune
  <2>2. Superseded(k, OnDisk)
    BY <1>6 DEF RetentionInv, DoomedSuperseded, Prune
  <2>3. [backups[n] EXCEPT !.local = "deleted", !.metadata = NoMetadata].local
          = "deleted"
    BY <1>1 DEF Backup
  <2>4. QED
    BY <2>1, <2>2, <2>3 DEF Names
<1>7. CASE DeleteRemote(p)
  <2>1. [backups[n] EXCEPT !.remote = "deleted",
                           !.remote_metadata = NoMetadata].local = backups[n].local
    BY <1>1 DEF Backup
  <2>2. QED
    BY <1>7, <2>1 DEF DeleteRemote
<1>8. CASE Prepare(p, clock)
  BY <1>1, <1>8, PrepareStep
<1>9. CASE UNCHANGED backups
  BY <1>9
<1>10. CASE \/ ReadStatus(p, TRUE) \/ ReadStatus(p, FALSE) \/ Announce(p) \/ Fail(p)
            \/ ListRemote(p, clock) \/ ListLocal(p, clock) \/ AnnounceFails(p)
            \/ Report(p) \/ Excuse(p) \/ ExcuseFails(p)
  BY <1>9, <1>10 DEF ReadStatus, Announce, Fail, ListRemote, ListLocal,
                     AnnounceFails, Report, Excuse, ExcuseFails
<1>11. QED
  BY <1>3, <1>4, <1>5, <1>6, <1>7, <1>8, <1>10 DEF Progress, Failure

(* The backup was written to the end, and is there unless retention had the
   right to delete it. *)
Finished(n) == n \in Whole \/ Superseded(n, OnDisk)

JobReports(p) ==
    /\ At(p, {"snapshot"}) => job[p].name \notin Whole
    /\ At(p, WrittenPhases) => Finished(job[p].name)
    /\ job[p].seen.last_backup # 0 => Finished(job[p].seen.last_backup)

(* No two jobs write one backup; what is to be written is not whole yet; and
   whatever the status names, or a job may still name in it, is finished. *)
ReportInv ==
    /\ RetentionInv
    /\ \A p, q \in Processes :
         job[p].name # 0 /\ job[p].name = job[q].name => p = q
    /\ \A p \in Processes : JobReports(p)
    /\ status.last_backup # 0 => Finished(status.last_backup)

LEMMA NamesOfReport ==
    ASSUME TypeOK
    PROVE  /\ status.last_backup \in NameOrNone
           /\ \A p \in Processes : /\ job[p] \in Job
                                  /\ job[p].name \in NameOrNone
                                  /\ job[p].seen.last_backup \in NameOrNone
                                  /\ At(p, NamedPhases) => job[p].name # 0
BY DEF TypeOK, Statuses, Job

LEMMA FinishedStays ==
    ASSUME ReportInv, [Next]_vars, NEW n \in Names, Finished(n)
    PROVE  Finished(n)'
<1>1. TypeOK /\ TypeOK' /\ Chronology /\ Evolves /\ RetentionInv
  BY TypeStep, StepEvolves DEF ReportInv, RetentionInv
<1>2. CASE Superseded(n, OnDisk)
  BY <1>1, <1>2, SupersededStays DEF Finished
<1>3. CASE n \in Whole
  <2>1. Names \subseteq Names'
    BY <1>1 DEF Evolves
  <2>2. ASSUME backups'[n].local = backups[n].local PROVE Finished(n)'
    BY <1>3, <2>1, <2>2 DEF Whole, Finished
  <2>3. ASSUME UNCHANGED backups PROVE Finished(n)'
    BY <2>2, <2>3
  <2>4. ASSUME NEW p \in Processes, Progress(p, clock, live) \/ Failure(p)
        PROVE  Finished(n)'
    <3>1. ~(n = job[p].name /\ At(p, {"snapshot"}))
      BY <1>3 DEF ReportInv, JobReports
    <3>2. \/ backups'[n].local = backups[n].local
          \/ backups'[n].local = "whole"
          \/ Superseded(n, OnDisk)
      BY <1>1, <2>4, <3>1, LocalChange
    <3>3. CASE backups'[n].local = "whole"
      BY <2>1, <3>3 DEF Whole, Finished
    <3>4. QED
      BY <1>2, <2>2, <3>2, <3>3
  <2>5. QED
    BY <2>3, <2>4, NextJob DEF Acquire, Killed, jobVars
<1>4. QED
  BY <1>2, <1>3 DEF Finished

(* What the status says of the last success comes from what is finished. *)
LEMMA StatusStep ==
    ASSUME ReportInv, [Next]_vars
    PROVE  (status.last_backup # 0 => Finished(status.last_backup))'
<1> DEFINE Goal == (status.last_backup # 0 => Finished(status.last_backup))'
<1>1. TypeOK
  BY DEF ReportInv, RetentionInv
<1>2. ASSUME NEW n \in NameOrNone, status'.last_backup = n, n # 0 => Finished(n)
      PROVE  Goal
  <2>1. CASE n = 0
    BY <1>2, <2>1
  <2>2. CASE n # 0
    <3>1. Finished(n)'
      BY <1>2, <2>2, FinishedStays DEF NameOrNone
    <3>2. QED
      BY <1>2, <3>1 DEF Finished, Superseded
  <2>3. QED
    BY <2>1, <2>2
<1>3. CASE status'.last_backup = status.last_backup
  <2>1. status.last_backup \in NameOrNone
    BY <1>1, NamesOfReport
  <2>2. QED
    BY <1>2, <1>3, <2>1 DEF ReportInv
<1>4. ASSUME NEW p \in Processes, Announce(p) \/ Excuse(p) PROVE Goal
  <2>1. job[p].seen \in Statuses /\ job[p].seen.last_backup \in NameOrNone
    BY <1>1 DEF TypeOK, Job, Statuses
  <2>2. PICK s : status' = [job[p].seen EXCEPT !.state = s]
    BY <1>4 DEF Announce, Excuse
  <2>3. status'.last_backup = job[p].seen.last_backup
    BY <2>1, <2>2 DEF Statuses
  <2>4. QED
    BY <1>2, <2>1, <2>3 DEF ReportInv, JobReports
<1>5. ASSUME NEW p \in Processes, Report(p) PROVE Goal
  <2>1. status'.last_backup = job[p].name /\ At(p, {"reporting"})
    BY <1>5 DEF Report
  <2>2. Finished(job[p].name)
    BY <2>1 DEF ReportInv, JobReports, At, WrittenPhases
  <2>3. job[p].name \in NameOrNone
    BY <1>1 DEF TypeOK, Job
  <2>4. QED
    BY <1>2, <2>1, <2>2, <2>3
<1>6. \/ UNCHANGED status
      \/ \E p \in Processes : Announce(p) \/ Excuse(p) \/ Report(p)
  BY NextJob
  DEF Progress, Failure, ReadStatus, Prepare, Snapshot, CloseFile, WriteMetadata,
      Upload, UploadMetadata, MarkUploaded, ListRemote, DeleteRemote, ListLocal,
      Prune, AnnounceFails, ExcuseFails, Fail, RemoteFails, Acquire, Killed, jobVars
<1>7. QED
  BY <1>3, <1>4, <1>5, <1>6

LEMMA CloseFileFinishes ==
    ASSUME TypeOK, NEW p \in Processes, CloseFile(p), NEW n, n = job[p].name
    PROVE  n \in Names /\ Finished(n)'
<1> DEFINE b == [Mine(p) EXCEPT !.local = "whole", !.copy = job[p].copy]
<1>1. n \in Names
  <2>1. At(p, NamedPhases)
    BY DEF CloseFile, At, NamedPhases, Phases
  <2>2. QED
    BY <2>1 DEF TypeOK, Job, NameOrNone
<1>2. b.local = "whole"
  BY <1>1, NamesAreNumbers DEF TypeOK, Mine, Backup
<1>3. n \in Whole'
  BY <1>1, <1>2 DEF CloseFile, Write, Whole, Names
<1>4. QED
  BY <1>1, <1>3 DEF Finished

LEMMA FinishedHeld ==
    ASSUME ReportInv, NEW n \in NameOrNone, n # 0 => Finished(n), [Next]_vars
    PROVE  n # 0 => Finished(n)'
BY FinishedStays DEF NameOrNone

(* No other job has the name a job takes. *)
LEMMA NamesDistinct ==
    ASSUME ReportInv, TypeOK', [Next]_vars
    PROVE  (\A p, q \in Processes :
              job[p].name # 0 /\ job[p].name = job[q].name => p = q)'
<1>1. TypeOK /\ Names = 1..Len(backups) /\ Len(backups) \in Nat
      /\ job \in [Processes -> Job]
  BY NamesAreNumbers DEF ReportInv, RetentionInv, TypeOK
<1>2. ASSUME \A p \in Processes : job'[p].name \in {0, job[p].name}
      PROVE  (\A p, q \in Processes :
                job[p].name # 0 /\ job[p].name = job[q].name => p = q)'
  BY <1>2 DEF ReportInv
<1>3. ASSUME NEW o \in Processes, Progress(o, clock, live) \/ Failure(o)
      PROVE  (\A p, q \in Processes :
                job[p].name # 0 /\ job[p].name = job[q].name => p = q)'
  <2>1. Change(o) /\ \A q \in Processes \ {o} : job'[q] = job[q]
    BY <1>1, <1>3, JobChanges
  <2>2. CASE job'[o].name \in {0, job[o].name}
    BY <1>2, <2>1, <2>2
  <2>3. CASE job'[o].name = Len(backups) + 1
    <3>1. \A p \in Processes : job[p].name \in 0..Len(backups)
      BY <1>1 DEF Job, NameOrNone
    <3>2. \A p \in Processes \ {o} : job'[p].name # job'[o].name
      BY <1>1, <2>1, <2>3, <3>1
    <3>3. QED
      BY <2>1, <3>2 DEF ReportInv
  <2>4. QED
    BY <2>1, <2>2, <2>3 DEF Change
<1>4. ASSUME NEW o, NEW j, Becomes(o, j), j.name = 0
      PROVE  \A p \in Processes : job'[p].name \in {0, job[p].name}
  BY <1>1, <1>4 DEF Becomes
<1>5. ASSUME NEW o, Acquire(o) \/ Killed(o)
      PROVE  \A p \in Processes : job'[p].name \in {0, job[p].name}
  BY <1>4, <1>5 DEF Acquire, Killed, EndJob, NoJob
<1>6. CASE UNCHANGED jobVars
  BY <1>2, <1>6 DEF jobVars
<1>7. QED
  BY <1>2, <1>3, <1>5, <1>6, NextJob

(* A file that is not written yet is not written by another job. *)
LEMMA NotWholeYet ==
    ASSUME ReportInv, TypeOK', [Next]_vars, NEW p \in Processes,
           At(p, {"snapshot"}), UNCHANGED job[p], NEW n, n = job[p].name
    PROVE  n \notin Whole'
<1>1. TypeOK /\ RetentionInv
  BY DEF ReportInv, RetentionInv
<1>2. n \in Names
  <2>1. At(p, NamedPhases)
    BY DEF At, NamedPhases, Phases
  <2>2. QED
    BY <1>1, <2>1 DEF TypeOK, Job, NameOrNone
<1>3. backups[n].local # "whole"
  BY <1>2 DEF ReportInv, JobReports, Whole
<1>4. ASSUME UNCHANGED backups PROVE n \notin Whole'
  BY <1>3, <1>4 DEF Whole
<1>5. ASSUME NEW o \in Processes, Progress(o, clock, live) \/ Failure(o)
      PROVE  n \notin Whole'
  <2>1. job[o].name = n => o = p
    BY <1>2, NamesAreNumbers, <1>1 DEF ReportInv, TypeOK
  <2>2. o # p
    <3>1. ~At(p, {"prepare"})
      BY DEF At
    <3>2. ~Prepare(p, clock)
      BY <3>1 DEF Prepare
    <3>3. At(p, {"snapshot"})'
      BY DEF At
    <3>4. QED
      BY <1>1, <1>5, <3>2, <3>3, JobChanges DEF Change
  <2>3. backups'[n].local = backups[n].local \/ backups'[n].local = "deleted"
    BY <1>1, <1>2, <1>5, <2>1, <2>2, LocalChange
  <2>4. QED
    BY <1>3, <2>3 DEF Whole
<1>6. QED
  BY <1>4, <1>5, NextJob DEF Acquire, Killed, jobVars

LEMMA JobReportsStep ==
    ASSUME ReportInv, TypeOK', [Next]_vars, NEW p \in Processes
    PROVE  JobReports(p)'
<1>1. /\ TypeOK /\ job \in [Processes -> Job] /\ JobReports(p)
      /\ job[p].name \in NameOrNone /\ job[p].seen.last_backup \in NameOrNone
      /\ status.last_backup \in NameOrNone
      /\ status.last_backup # 0 => Finished(status.last_backup)
  BY DEF ReportInv, RetentionInv, TypeOK, Job, Statuses
<1>2. ASSUME NEW n \in NameOrNone, n # 0 => Finished(n), job'[p].seen.last_backup = n
      PROVE  (job[p].seen.last_backup # 0 => Finished(job[p].seen.last_backup))'
  <2>1. n # 0 => Finished(n)'
    BY <1>2, FinishedHeld
  <2>2. QED
    BY <1>2, <2>1 DEF Finished, Superseded
<1>3. ASSUME NEW n, n = job'[p].name, Finished(n)'
      PROVE  (At(p, WrittenPhases) => Finished(job[p].name))'
  BY <1>3 DEF Finished, Superseded
<1>4. ASSUME NEW n, n = job'[p].name, n \notin Whole'
      PROVE  (At(p, {"snapshot"}) => job[p].name \notin Whole)'
  BY <1>4
<1>5. ASSUME At(p, WrittenPhases), job'[p].name = job[p].name
      PROVE  (At(p, WrittenPhases) => Finished(job[p].name))'
  <2>1. At(p, NamedPhases)
    BY <1>5 DEF At, WrittenPhases, Remote, NamedPhases, Phases
  <2>2. job[p].name # 0
    BY <1>1, <2>1 DEF TypeOK
  <2>3. Finished(job[p].name)
    BY <1>1, <1>5 DEF JobReports
  <2> DEFINE n == job[p].name
  <2>4. \A m \in NameOrNone : m # 0 /\ Finished(m) => Finished(m)'
    BY FinishedHeld
  <2>5. \A m : m = job'[p].name /\ Finished(m)' =>
               (At(p, WrittenPhases) => Finished(job[p].name))'
    BY <1>3
  <2>6. QED
    BY <1>1, <1>5, <2>2, <2>3, <2>4, <2>5
<1>6. CASE UNCHANGED job[p]
  <2>1. (job[p].seen.last_backup # 0 => Finished(job[p].seen.last_backup))'
    BY <1>1, <1>2, <1>6 DEF JobReports
  <2>2. (At(p, WrittenPhases) => Finished(job[p].name))'
    <3>1. At(p, WrittenPhases)' => At(p, WrittenPhases)
      BY <1>6 DEF At
    <3>2. QED
      BY <1>5, <1>6, <3>1
  <2>3. (At(p, {"snapshot"}) => job[p].name \notin Whole)'
    <3>1. At(p, {"snapshot"})' => At(p, {"snapshot"})
      BY <1>6 DEF At
    <3>2. QED
      BY <1>4, <1>6, <3>1, NotWholeYet
  <2>4. QED
    BY <2>1, <2>2, <2>3 DEF JobReports
<1>7. CASE Progress(p, clock, live) \/ Failure(p)
  <2>1. Change(p)
    BY <1>1, <1>7, JobChanges
  <2>2. (job[p].seen.last_backup # 0 => Finished(job[p].seen.last_backup))'
    <3>1. CASE job'[p].seen.last_backup = 0
      BY <3>1
    <3>2. CASE job'[p].seen.last_backup = status.last_backup
      BY <1>1, <1>2, <3>2
    <3>3. CASE job'[p].seen.last_backup = job[p].seen.last_backup
      BY <1>1, <1>2, <3>3 DEF JobReports
    <3>4. QED
      BY <2>1, <3>1, <3>2, <3>3 DEF Change
  <2>3. (At(p, WrittenPhases) => Finished(job[p].name))'
    <3>1. CASE ~At(p, WrittenPhases)'
      BY <3>1
    <3>2. CASE At(p, WrittenPhases)' /\ At(p, WrittenPhases)
      BY <1>5, <2>1, <3>2 DEF Change
    <3>3. CASE At(p, WrittenPhases)' /\ CloseFile(p)
      <4>1. job'[p].name = job[p].name
        BY <2>1, <3>3 DEF Change
      <4>2. QED
        BY <1>1, <1>3, <3>3, <4>1, CloseFileFinishes
    <3>4. QED
      BY <2>1, <3>1, <3>2, <3>3 DEF Change
  <2>4. (At(p, {"snapshot"}) => job[p].name \notin Whole)'
    <3> SUFFICES ASSUME At(p, {"snapshot"})' PROVE (job[p].name \notin Whole)'
      OBVIOUS
    <3>1. Prepare(p, clock)
      BY <2>1 DEF Change
    <3>2. job'[p].name = Len(backups) + 1
      BY <1>1, <3>1 DEF Prepare, Becomes, Job
    <3>3. backups'[Len(backups) + 1].local = "none"
      <4>1. JobTypeOK /\ clock \in 0..MaxClock
        BY <1>1 DEF TypeOK, JobTypeOK
      <4>2. backups'[Len(backups) + 1] =
              [at |-> clock, local |-> "none", copy |-> NoCopy,
               metadata |-> NoMetadata, remote |-> "none",
               remote_metadata |-> NoMetadata]
        BY <3>1, <4>1, PrepareStep
      <4>3. QED
        BY <4>2
    <3>4. QED
      BY <3>2, <3>3 DEF Whole
  <2>5. QED
    BY <2>2, <2>3, <2>4 DEF JobReports
<1>8. ASSUME job'[p].phase \in {"idle", "announce"}, job'[p].seen.last_backup = 0
      PROVE  JobReports(p)'
  BY <1>8 DEF JobReports, At, WrittenPhases, Remote
<1>9. ASSUME NEW o, NEW j, Becomes(o, j), j.phase \in {"idle", "announce"},
             j.seen.last_backup = 0
      PROVE  JobReports(p)'
  BY <1>1, <1>6, <1>8, <1>9 DEF Becomes
<1>10. ASSUME NEW o, Acquire(o) PROVE JobReports(p)'
  <2> DEFINE j == [NoJob("none") EXCEPT !.phase = "announce"]
  <2>1. Becomes(o, j) /\ j.phase = "announce" /\ j.seen.last_backup = 0
    BY <1>10 DEF Acquire, NoJob
  <2>2. QED
    BY <1>9, <2>1
<1>11. ASSUME NEW o, Killed(o) PROVE JobReports(p)'
  <2>1. PICK outcome : Becomes(o, NoJob(outcome))
    BY <1>11 DEF Killed, EndJob
  <2>2. NoJob(outcome).phase = "idle" /\ NoJob(outcome).seen.last_backup = 0
    BY DEF NoJob
  <2>3. QED
    BY <1>9, <2>1, <2>2
<1>12. ASSUME NEW o \in Processes, Progress(o, clock, live) \/ Failure(o)
       PROVE  JobReports(p)'
  BY <1>1, <1>6, <1>7, <1>12, JobChanges
<1>13. QED
  BY <1>6, <1>10, <1>11, <1>12, NextJob DEF jobVars

LEMMA ReportStep == ReportInv /\ [Next]_vars => ReportInv'
<1> SUFFICES ASSUME ReportInv, [Next]_vars PROVE ReportInv'
  OBVIOUS
<1>1. RetentionInv' /\ TypeOK'
  BY RetentionStep DEF ReportInv, RetentionInv
<1>2. (\A p, q \in Processes :
         job[p].name # 0 /\ job[p].name = job[q].name => p = q)'
  BY <1>1, NamesDistinct
<1>3. (\A p \in Processes : JobReports(p))'
  BY <1>1, JobReportsStep
<1>4. (status.last_backup # 0 => Finished(status.last_backup))'
  BY StatusStep
<1>5. QED
  BY <1>1, <1>2, <1>3, <1>4 DEF ReportInv

(* The status never calls a backup the last success that was not written to
   the end, and what it names stays until retention may delete it: with any
   number of backups and faults, and a second process beside the gateway. *)
THEOREM ReportedIsWhole == Spec => []ReportedBackupIsWhole
<1>1. ASSUME Init PROVE ReportInv
  <2>1. RetentionInv /\ status.last_backup = 0
    BY <1>1, RetentionInit DEF Init, JobInit
  <2>2. \A p \in Processes : /\ job[p].phase = "idle" /\ job[p].name = 0
                             /\ job[p].seen.last_backup = 0
    BY <1>1 DEF Init, JobInit, NoJob
  <2>3. QED
    BY <2>1, <2>2 DEF ReportInv, JobReports, At, WrittenPhases, Remote
<1>2. ReportInv => ReportedBackupIsWhole
  BY DEF ReportInv, ReportedBackupIsWhole, Finished
<1>3. QED
  BY <1>1, <1>2, ReportStep, PTL DEF Spec

-----------------------------------------------------------------------------
(* The copies in R2, and the restore *)

(* What the library's theorem on minimal elements says of numbers. *)
LEMMA LeastNumber ==
    ASSUME NEW T \in SUBSET Nat, T # {}
    PROVE  \E m \in T : \A k \in T : m <= k
<1>1. PICK m \in T : \A y \in T : ~ (<<y, m>> \in OpToRel(<, Nat))
  BY NatLessThanWellFounded, WFMin
<1>2. m \in Nat /\ \A y \in T : y \in Nat
  OBVIOUS
<1>3. \A y \in T : ~(y < m)
  BY <1>1, <1>2 DEF OpToRel
<1>4. \A y \in T : m <= y
  BY <1>2, <1>3
<1>5. QED
  BY <1>4

LEMMA GreatestNumber ==
    ASSUME NEW N \in Nat, NEW T \in SUBSET (1..N), T # {}
    PROVE  \E m \in T : \A k \in T : k <= m
<1> DEFINE D == {N - k : k \in T}
<1>1. D \in SUBSET Nat /\ D # {}
  <2>1. \A k \in T : k \in Int /\ k <= N
    OBVIOUS
  <2>2. \A k \in T : N - k \in Nat
    BY <2>1
  <2>3. QED
    BY <2>2
<1>2. PICK d \in D : \A e \in D : d <= e
  BY <1>1, LeastNumber
<1>3. PICK m \in T : d = N - m
  OBVIOUS
<1>4. \A k \in T : N - m <= N - k
  BY <1>2, <1>3
<1>5. \A k \in T : k <= m
  BY <1>4
<1>6. QED
  BY <1>5

-----------------------------------------------------------------------------
(* The course of a job, as far as R2 is concerned.                          *)

(* The object is in the bucket; it has its metadata there too. *)
Uploaded == {"upload metadata", "mark", "upload again", "list remote",
             "delete remote"}

Vouched == Uploaded \ {"upload metadata"}

(* The job has not named its backup yet. *)
Early == {"announce", "announcing", "prepare"}

Course(p) ==
    /\ At(p, Remote)' => At(p, Remote) \/ WriteMetadata(p)
    /\ At(p, Uploaded)' => At(p, Uploaded) \/ Upload(p)
    /\ At(p, Vouched)' => At(p, Vouched) \/ UploadMetadata(p)
    /\ "r2_uploaded" \in job'[p].metadata =>
         /\ "r2_uploaded" \in job[p].metadata \/ At(p, Vouched)
         /\ At(p, Early)' \/ Prepare(p, clock) => At(p, Early)
         /\ Prepare(p, clock) \/ job'[p].name = job[p].name
    /\ At(p, {"delete remote"})' =>
         job'[p].doomed = InBucket \ KeepSet(InBucket, Times, clock)

(* A job that goes on, or looks at something, outside of the R2 part. *)
LEMMA GoesOn ==
    ASSUME job \in [Processes -> Job], NEW p \in Processes, NEW j,
           Becomes(p, j), j.phase \notin Remote, j.name = job[p].name,
           j.metadata = job[p].metadata,
           j.phase \in Early => At(p, Early)
    PROVE  Course(p)
<1>1. job'[p] = j
  BY DEF Becomes
<1>2. ~At(p, Remote)' /\ ~At(p, Uploaded)' /\ ~At(p, Vouched)'
      /\ ~At(p, {"delete remote"})'
  BY <1>1 DEF At, Remote, Uploaded, Vouched
<1>3. Prepare(p, clock) => At(p, Early)
  BY DEF Prepare, At, Early
<1>4. At(p, Early)' => At(p, Early)
  BY <1>1 DEF At
<1>5. QED
  BY <1>1, <1>2, <1>3, <1>4 DEF Course

LEMMA JobCourse ==
    ASSUME TypeOK, NEW p \in Processes, Progress(p, clock, live) \/ Failure(p)
    PROVE  Course(p)
<1>1. job \in [Processes -> Job] /\ job[p] \in Job
  BY DEF TypeOK
<1>2. CASE Ends(p)
  <2>1. PICK outcome : Becomes(p, NoJob(outcome))
    BY <1>2 DEF Ends, Report, Excuse, ExcuseFails, AnnounceFails, EndJob
  <2>2. job'[p] = NoJob(outcome)
    BY <1>1, <2>1 DEF Becomes
  <2>3. job'[p].phase = "idle" /\ job'[p].metadata = {}
    BY <2>2 DEF NoJob
  <2>4. QED
    BY <2>3 DEF Course, At, Remote, Uploaded, Vouched
<1>3. ASSUME NEW j, Becomes(p, j), j.phase \notin Remote, j.name = job[p].name,
             j.metadata = job[p].metadata, j.phase \in Early => At(p, Early)
      PROVE  Course(p)
  BY <1>1, <1>3, GoesOn
<1>4. CASE ReadStatus(p, TRUE) \/ ReadStatus(p, FALSE)
  <2>1. PICK step \in {<<"announce", "announcing">>, <<"report", "reporting">>,
                       <<"excuse", "excusing">>},
             read \in {status, [state |-> "unknown", last_backup |-> 0]} :
          /\ At(p, {step[1]})
          /\ Becomes(p, [job[p] EXCEPT !.phase = step[2], !.seen = read])
    BY <1>4 DEF ReadStatus
  <2> DEFINE j == [job[p] EXCEPT !.phase = step[2], !.seen = read]
  <2>2. j.phase = step[2] /\ j.metadata = job[p].metadata /\ j.name = job[p].name
    BY <1>1 DEF Job
  <2>3. step[2] \notin Remote /\ (step[2] \in Early => step[1] \in Early)
    <3>1. CASE step = <<"announce", "announcing">>
      BY <3>1 DEF Remote, Early
    <3>2. CASE step = <<"report", "reporting">>
      BY <3>2 DEF Remote, Early
    <3>3. CASE step = <<"excuse", "excusing">>
      BY <3>3 DEF Remote, Early
    <3>4. QED
      BY <3>1, <3>2, <3>3
  <2>4. j.phase \in Early => At(p, Early)
    BY <2>1, <2>2, <2>3 DEF At
  <2>5. QED
    BY <1>3, <2>1, <2>2, <2>3, <2>4
<1>5. CASE \/ Announce(p) \/ CloseFile(p) \/ Fail(p)
           \/ WriteMetadata(p) /\ ~r2_enabled
  <2>1. PICK ph \in {"prepare", "describe", "excuse", "list"} :
          /\ Becomes(p, [job[p] EXCEPT !.phase = ph])
          /\ ph = "prepare" => At(p, {"announcing"})
    BY <1>5 DEF Announce, CloseFile, Fail, WriteMetadata, Goto
  <2> DEFINE j == [job[p] EXCEPT !.phase = ph]
  <2>2. j.phase = ph /\ j.metadata = job[p].metadata /\ j.name = job[p].name
    BY <1>1 DEF Job
  <2>3. j.phase \notin Remote /\ (j.phase \in Early => At(p, Early))
    BY <2>1, <2>2 DEF Remote, Early, At
  <2>4. QED
    BY <1>3, <2>1, <2>2, <2>3
<1>6. CASE Snapshot(p, live)
  <2> DEFINE j == [job[p] EXCEPT !.phase = "encrypt", !.copy = live]
  <2>1. j.phase = "encrypt" /\ j.metadata = job[p].metadata /\ j.name = job[p].name
    BY <1>1 DEF Job
  <2>2. QED
    BY <1>3, <1>6, <2>1 DEF Snapshot, Remote, Early
<1>7. CASE DeleteRemote(p) \/ ListLocal(p, clock) \/ Prune(p)
  <2>1. PICK ph \in {"list", "prune", "report"}, doomed \in SUBSET Names :
          Becomes(p, [job[p] EXCEPT !.phase = ph, !.doomed = doomed])
    BY <1>1, <1>7 DEF DeleteRemote, ListLocal, Prune, OnDisk, At, Job
  <2> DEFINE j == [job[p] EXCEPT !.phase = ph, !.doomed = doomed]
  <2>2. j.phase = ph /\ j.metadata = job[p].metadata /\ j.name = job[p].name
    BY <1>1 DEF Job
  <2>3. j.phase \notin Remote \cup Early
    BY <2>2 DEF Remote, Early
  <2>4. QED
    BY <1>3, <2>1, <2>2, <2>3
<1>8. CASE Prepare(p, clock)
  <2> DEFINE j == [job[p] EXCEPT !.phase = "snapshot", !.name = Len(backups) + 1]
  <2>1. job'[p] = j /\ At(p, Early)
    BY <1>1, <1>8 DEF Prepare, Becomes, At, Early
  <2>2. job'[p].phase = "snapshot" /\ job'[p].metadata = job[p].metadata
    BY <1>1, <2>1 DEF Job
  <2>3. QED
    BY <1>8, <2>1, <2>2 DEF Course, At, Remote, Uploaded, Vouched, Early
<1>9. ASSUME NEW ph \in {"upload", "upload metadata"},
             job'[p] = [job[p] EXCEPT !.phase = ph],
             \/ ph = "upload" /\ WriteMetadata(p)
             \/ ph = "upload metadata" /\ Upload(p)
      PROVE  Course(p)
  <2>1. /\ job'[p].phase = ph /\ job'[p].metadata = job[p].metadata
        /\ job'[p].name = job[p].name
    BY <1>1, <1>9 DEF Job
  <2>2. ~At(p, Early) /\ ~Prepare(p, clock) /\ (Upload(p) => At(p, Remote))
    BY <1>9 DEF WriteMetadata, Upload, Prepare, At, Early, Remote
  <2>3. QED
    BY <1>9, <2>1, <2>2 DEF Course, At, Remote, Uploaded, Vouched, Early
<1>10. CASE WriteMetadata(p) /\ r2_enabled
  <2>1. job'[p] = [job[p] EXCEPT !.phase = "upload"]
    BY <1>1, <1>10 DEF WriteMetadata, Goto, Becomes
  <2>2. QED
    BY <1>9, <1>10, <2>1
<1>11. CASE Upload(p)
  <2>1. job'[p] = [job[p] EXCEPT !.phase = "upload metadata"]
    BY <1>1, <1>11 DEF Upload, Goto, Becomes
  <2>2. QED
    BY <1>9, <1>11, <2>1
<1>12. CASE UploadMetadata(p)
  <2>1. PICK step \in {<<"upload metadata", "mark">>, <<"upload again", "list remote">>} :
          At(p, {step[1]}) /\ Goto(p, step[2])
    BY <1>12 DEF UploadMetadata
  <2>2. /\ step[1] \in {"upload metadata", "upload again"}
        /\ step[2] \in {"mark", "list remote"}
    <3>1. CASE step = <<"upload metadata", "mark">>
      BY <3>1
    <3>2. CASE step = <<"upload again", "list remote">>
      BY <3>2
    <3>3. QED
      BY <3>1, <3>2
  <2>3. At(p, {"upload metadata", "upload again"})
    BY <2>1, <2>2 DEF At
  <2> DEFINE ph == step[2]
  <2>4. job'[p] = [job[p] EXCEPT !.phase = ph]
    BY <1>1, <2>1 DEF Goto, Becomes
  <2>5. /\ job'[p].phase \in {"mark", "list remote"}
        /\ job'[p].metadata = job[p].metadata /\ job'[p].name = job[p].name
    BY <1>1, <2>2, <2>4 DEF Job
  <2>6. /\ At(p, Remote) /\ At(p, Uploaded) /\ ~At(p, Early)' /\ ~At(p, {"prepare"})
        /\ ~At(p, {"delete remote"})'
    BY <2>3, <2>5 DEF At, Remote, Uploaded, Early
  <2>7. QED
    BY <1>12, <2>5, <2>6 DEF Course, Prepare
<1>13. CASE MarkUploaded(p) \/ ListRemote(p, clock)
  <2>1. At(p, {"mark", "list remote"})
    BY <1>13 DEF MarkUploaded, ListRemote, At
  <2>2. At(p, Remote) /\ At(p, Uploaded) /\ At(p, Vouched) /\ ~At(p, {"prepare"})
    BY <2>1 DEF At, Remote, Uploaded, Vouched
  <2>3. CASE MarkUploaded(p)
    <3>1. job'[p] = [job[p] EXCEPT !.phase = "upload again", !.metadata = {"r2_uploaded"}]
      BY <1>1, <2>3 DEF MarkUploaded, Becomes
    <3>2. job'[p].phase = "upload again" /\ job'[p].name = job[p].name
      BY <1>1, <3>1 DEF Job
    <3>3. ~At(p, Early)' /\ ~At(p, {"delete remote"})'
      BY <3>2 DEF At, Early
    <3>4. QED
      BY <2>2, <3>2, <3>3 DEF Course, Prepare
  <2>4. CASE ListRemote(p, clock)
    <3> DEFINE doomed == InBucket \ KeepSet(InBucket, Times, clock)
    <3>1. job'[p] = [job[p] EXCEPT !.phase = "delete remote", !.doomed = doomed]
      BY <1>1, <2>4 DEF ListRemote, Becomes
    <3> HIDE DEF doomed
    <3>2. /\ job'[p].phase = "delete remote" /\ job'[p].name = job[p].name
          /\ job'[p].doomed = doomed
      BY <1>1, <3>1 DEF Job
    <3>3. ~At(p, Early)'
      BY <3>2 DEF At, Early
    <3>4. QED
      BY <2>2, <3>2, <3>3 DEF Course, Prepare, doomed
  <2>5. QED
    BY <1>13, <2>3, <2>4
<1>14. CASE RemoteFails(p)
  <2>1. PICK said \in Metadata :
          /\ job'[p] = [job[p] EXCEPT !.phase = "list", !.metadata = said, !.doomed = {}]
          /\ "r2_uploaded" \in said => ~At(p, {"upload", "upload metadata"})
          /\ At(p, Remote)
    <3>1. PICK said \in {{"r2_error"}, {"r2_uploaded", "r2_error"}} :
            /\ Becomes(p, [job[p] EXCEPT !.phase = "list", !.metadata = said,
                                         !.doomed = {}])
            /\ "r2_uploaded" \in said => ~At(p, {"upload", "upload metadata"})
      BY <1>14 DEF RemoteFails
    <3>2. said \in Metadata
      BY <3>1 DEF Metadata
    <3>3. QED
      BY <1>1, <1>14, <3>1, <3>2 DEF Becomes, RemoteFails
  <2>2. /\ job'[p].phase = "list" /\ job'[p].name = job[p].name
        /\ job'[p].metadata = said
    BY <1>1, <2>1 DEF Job
  <2>3. "r2_uploaded" \in said => At(p, Vouched)
    BY <2>1 DEF At, Remote, Uploaded, Vouched
  <2>4. /\ ~At(p, Early)' /\ ~At(p, {"delete remote"})' /\ ~At(p, {"prepare"})
        /\ ~At(p, Remote)' /\ ~At(p, Uploaded)' /\ ~At(p, Vouched)'
    BY <2>1, <2>2 DEF At, Remote, Uploaded, Vouched, Early
  <2>5. QED
    BY <2>2, <2>3, <2>4 DEF Course, Prepare
<1>15. QED
  BY <1>2, <1>4, <1>5, <1>6, <1>7, <1>8, <1>10, <1>11, <1>12, <1>13, <1>14
  DEF Progress, Failure, Ends, WriteMetadata

-----------------------------------------------------------------------------
(* What a step of a job does to what R2 and the metadata say of a backup.   *)

Same(old, new) ==
    /\ new.metadata = old.metadata
    /\ new.remote = old.remote
    /\ new.remote_metadata = old.remote_metadata

(* Only the metadata file is written. *)
Described(old, new, said) ==
    /\ new.metadata = said
    /\ new.remote = old.remote
    /\ new.remote_metadata = old.remote_metadata

Written(p, old, new) ==
    \/ /\ WriteMetadata(p)
       /\ Described(old, new, {})
    \/ /\ Upload(p)
       /\ new.metadata = old.metadata
       /\ new.remote = "whole"
       /\ new.remote_metadata = old.remote_metadata
    \/ /\ UploadMetadata(p)
       /\ At(p, {"upload metadata", "upload again"})
       /\ new.metadata = old.metadata
       /\ new.remote = old.remote
       /\ new.remote_metadata = old.metadata
    \/ /\ At(p, Vouched)
       /\ \E said \in Metadata : Described(old, new, said)
    \/ /\ At(p, {"upload", "upload metadata"})
       /\ Described(old, new, {"r2_error"})

Pruned(old, new) == Described(old, new, NoMetadata)

Purged(old, new) ==
    /\ new.metadata = old.metadata
    /\ new.remote = "deleted"
    /\ new.remote_metadata = NoMetadata

(* The objects a job is about to delete are superseded. *)
BucketDoomed ==
    \A p \in Processes : At(p, {"delete remote"}) =>
        \A n \in job[p].doomed : Superseded(n, InBucket)

LEMMA RemoteChange ==
    ASSUME RetentionInv, BucketDoomed, NEW p \in Processes,
           Progress(p, clock, live) \/ Failure(p), NEW n \in Names
    PROVE  \/ Same(backups[n], backups'[n])
           \/ n = job[p].name /\ Written(p, backups[n], backups'[n])
           \/ Pruned(backups[n], backups'[n]) /\ Superseded(n, OnDisk)
           \/ Purged(backups[n], backups'[n]) /\ Superseded(n, InBucket)
<1> DEFINE Goal == \/ Same(backups[n], backups'[n])
                   \/ n = job[p].name /\ Written(p, backups[n], backups'[n])
                   \/ Pruned(backups[n], backups'[n]) /\ Superseded(n, OnDisk)
                   \/ Purged(backups[n], backups'[n]) /\ Superseded(n, InBucket)
<1>1. /\ TypeOK /\ backups[n] \in Backup
      /\ n = job[p].name => backups[n] = Mine(p)
      /\ clock \in 0..MaxClock /\ JobTypeOK
  BY NamesAreNumbers DEF RetentionInv, TypeOK, JobTypeOK, Mine
<1>2. ASSUME NEW b, Write(p, b), n = job[p].name => Same(backups[n], b) \/ Written(p, backups[n], b)
      PROVE  Goal
  <2>1. backups'[n] = IF n = job[p].name THEN b ELSE backups[n]
    BY <1>2 DEF Write, Names
  <2>2. CASE n = job[p].name
    BY <1>2, <2>1, <2>2
  <2>3. CASE n # job[p].name
    BY <2>1, <2>3 DEF Same
  <2>4. QED
    BY <2>2, <2>3
<1>3. CASE Snapshot(p, live)
  <2> DEFINE b == [Mine(p) EXCEPT !.local = "torn"]
  <2>1. n = job[p].name => Same(backups[n], b)
    BY <1>1 DEF Same, Backup
  <2>2. QED
    BY <1>2, <1>3, <2>1 DEF Snapshot
<1>4. CASE CloseFile(p)
  <2> DEFINE b == [Mine(p) EXCEPT !.local = "whole", !.copy = job[p].copy]
  <2>1. n = job[p].name => Same(backups[n], b)
    BY <1>1 DEF Same, Backup
  <2>2. QED
    BY <1>2, <1>4, <2>1 DEF CloseFile
<1>5. CASE WriteMetadata(p)
  <2> DEFINE b == [Mine(p) EXCEPT !.metadata = {}]
  <2>1. n = job[p].name => Described(backups[n], b, {})
    BY <1>1 DEF Described, Backup
  <2>2. QED
    BY <1>2, <1>5, <2>1 DEF WriteMetadata, Written
<1>6. CASE Upload(p)
  <2> DEFINE b == [Mine(p) EXCEPT !.remote = "whole"]
  <2>1. n = job[p].name => /\ b.metadata = backups[n].metadata
                           /\ b.remote = "whole"
                           /\ b.remote_metadata = backups[n].remote_metadata
    BY <1>1 DEF Backup
  <2>2. Write(p, b)
    BY <1>6 DEF Upload
  <2>3. QED
    BY <1>2, <1>6, <2>1, <2>2 DEF Written
<1>7. CASE UploadMetadata(p)
  <2> DEFINE b == [Mine(p) EXCEPT !.remote_metadata = Mine(p).metadata]
  <2>1. At(p, {"upload metadata", "upload again"}) /\ Write(p, b)
    <3>1. PICK step \in {<<"upload metadata", "mark">>,
                         <<"upload again", "list remote">>} : At(p, {step[1]})
      BY <1>7 DEF UploadMetadata
    <3>2. step[1] \in {"upload metadata", "upload again"}
      <4>1. CASE step = <<"upload metadata", "mark">>
        BY <4>1
      <4>2. CASE step = <<"upload again", "list remote">>
        BY <4>2
      <4>3. QED
        BY <4>1, <4>2
    <3>3. QED
      BY <1>7, <3>1, <3>2 DEF At, UploadMetadata
  <2>2. n = job[p].name => /\ b.metadata = backups[n].metadata
                           /\ b.remote = backups[n].remote
                           /\ b.remote_metadata = backups[n].metadata
    BY <1>1 DEF Backup
  <2>3. n = job[p].name => Written(p, backups[n], b)
    BY <1>7, <2>1, <2>2 DEF Written
  <2>4. QED
    BY <1>2, <2>1, <2>3
<1>8. CASE MarkUploaded(p)
  <2> DEFINE b == [Mine(p) EXCEPT !.metadata = {"r2_uploaded"}]
  <2>1. n = job[p].name => Described(backups[n], b, {"r2_uploaded"})
    BY <1>1 DEF Described, Backup
  <2>2. {"r2_uploaded"} \in Metadata /\ At(p, Vouched)
    BY <1>8 DEF Metadata, MarkUploaded, At, Vouched, Uploaded
  <2>3. n = job[p].name => Written(p, backups[n], b)
    BY <2>1, <2>2 DEF Written
  <2>4. QED
    BY <1>2, <1>8, <2>3 DEF MarkUploaded
<1>9. CASE RemoteFails(p)
  <2>1. PICK said \in {{"r2_error"}, {"r2_uploaded", "r2_error"}} :
          /\ Write(p, [Mine(p) EXCEPT !.metadata = said])
          /\ said = {"r2_error"} \/ ~At(p, {"upload", "upload metadata"})
          /\ said = {"r2_uploaded", "r2_error"} \/ At(p, {"upload", "upload metadata"})
    BY <1>9 DEF RemoteFails
  <2> DEFINE b == [Mine(p) EXCEPT !.metadata = said]
  <2>2. n = job[p].name => Described(backups[n], b, said)
    BY <1>1 DEF Described, Backup
  <2>3. said \in Metadata
    BY <2>1 DEF Metadata
  <2>4. \/ At(p, Vouched)
        \/ At(p, {"upload", "upload metadata"}) /\ said = {"r2_error"}
    <3>1. At(p, Vouched) \/ At(p, {"upload", "upload metadata"})
      BY <1>9 DEF RemoteFails, At, Remote, Vouched, Uploaded
    <3>2. QED
      BY <2>1, <3>1
  <2>5. n = job[p].name => Written(p, backups[n], b)
    BY <2>2, <2>3, <2>4 DEF Written
  <2>6. QED
    BY <1>2, <2>1, <2>5
<1>10. CASE Prune(p)
  <2>1. PICK k \in job[p].doomed :
          backups' = [backups EXCEPT ![k] = [backups[k] EXCEPT
                                               !.local = "deleted",
                                               !.metadata = NoMetadata]]
    BY <1>10 DEF Prune
  <2>2. Superseded(k, OnDisk)
    BY <1>10 DEF RetentionInv, DoomedSuperseded, Prune
  <2>3. Pruned(backups[n], [backups[n] EXCEPT !.local = "deleted",
                                              !.metadata = NoMetadata])
    BY <1>1 DEF Pruned, Described, Backup
  <2>4. QED
    BY <2>1, <2>2, <2>3 DEF Names, Same
<1>11. CASE DeleteRemote(p)
  <2>1. PICK gone \in SUBSET job[p].doomed :
          backups' = [m \in Names |->
                       IF m \in gone
                       THEN [backups[m] EXCEPT !.remote = "deleted",
                                               !.remote_metadata = NoMetadata]
                       ELSE backups[m]]
    BY <1>11 DEF DeleteRemote
  <2>2. n \in gone => Superseded(n, InBucket)
    BY <1>11 DEF BucketDoomed, DeleteRemote
  <2>3. Purged(backups[n], [backups[n] EXCEPT !.remote = "deleted",
                                              !.remote_metadata = NoMetadata])
    BY <1>1 DEF Purged, Backup
  <2>4. QED
    BY <2>1, <2>2, <2>3 DEF Same
<1>12. CASE UNCHANGED backups
  BY <1>12 DEF Same
<1>13. CASE Prepare(p, clock)
  <2>1. backups'[n] = backups[n]
    BY <1>1, <1>13, PrepareStep
  <2>2. QED
    BY <2>1 DEF Same
<1>14. CASE \/ ReadStatus(p, TRUE) \/ ReadStatus(p, FALSE) \/ Announce(p) \/ Fail(p)
            \/ ListRemote(p, clock) \/ ListLocal(p, clock) \/ AnnounceFails(p)
            \/ Report(p) \/ Excuse(p) \/ ExcuseFails(p)
  BY <1>12, <1>14 DEF ReadStatus, Announce, Fail, ListRemote, ListLocal,
                     AnnounceFails, Report, Excuse, ExcuseFails
<1>15. QED
  BY <1>3, <1>4, <1>5, <1>6, <1>7, <1>8, <1>9, <1>10, <1>11, <1>13, <1>14
  DEF Progress, Failure

-----------------------------------------------------------------------------
(* The bucket.                                                              *)

(* Once superseded, an object remains so, however many go with it: if the
   newest of its week goes, that one was superseded by its age alone. *)
LEMMA SupersededObjectStays ==
    ASSUME TypeOK, TypeOK', Chronology, Evolves,
           \A m \in InBucket : m \in InBucket' \/ Superseded(m, InBucket),
           NEW n \in Names, Superseded(n, InBucket)
    PROVE  Superseded(n, InBucket)'
<1>1. /\ clock \in Nat /\ clock' \in Nat /\ clock <= clock'
      /\ \A m \in Names : /\ backups[m].at \in Nat
                          /\ backups'[m].at = backups[m].at
  BY BoundAssumption, NamesAreNumbers DEF TypeOK, Evolves, Backup
<1>2. Names = 1..Len(backups) /\ Len(backups) \in Nat
  BY NamesAreNumbers DEF TypeOK
<1> USE RetentionAssumption DEF Daily, Weekly
<1>3. ~Daily(backups[n].at, clock) /\ ~Daily(backups'[n].at, clock')
  BY <1>1 DEF Superseded
<1>4. CASE ~Weekly(backups[n].at, clock)
  BY <1>1, <1>3, <1>4 DEF Superseded
<1>5. CASE Weekly(backups[n].at, clock)
  <2> DEFINE T == {m \in InBucket : m > n /\ Week(backups[m].at) = Week(backups[n].at)}
  <2>1. T # {}
    BY <1>5 DEF Superseded
  <2>2. T \in SUBSET (1..Len(backups))
    BY <1>2 DEF InBucket
  <2>3. PICK m \in T : \A k \in T : k <= m
    BY <1>2, <2>1, <2>2, GreatestNumber
  <2>4. /\ m \in InBucket /\ m \in Names /\ m > n
        /\ Week(backups[m].at) = Week(backups[n].at)
    BY DEF InBucket
  <2>5. CASE m \in InBucket'
    BY <1>1, <1>3, <2>4, <2>5 DEF Superseded
  <2>6. CASE Superseded(m, InBucket)
    <3>1. ~Weekly(backups[m].at, clock)
      <4>1. ASSUME NEW o \in InBucket, o > m, Week(backups[o].at) = Week(backups[m].at)
            PROVE  FALSE
        <5>1. o \in Int /\ m \in Int /\ n \in Int
          BY <1>2, <2>4 DEF InBucket
        <5>2. o \in T
          BY <2>4, <4>1, <5>1
        <5>3. QED
          BY <2>3, <4>1, <5>1, <5>2
      <4>2. QED
        BY <2>6, <4>1 DEF Superseded
    <3>2. ~Daily(backups[m].at, clock)
      BY <2>6 DEF Superseded
    <3>3. backups[n].at <= backups[m].at
      BY <1>2, <2>4 DEF Chronology
    <3>4. backups'[n].at < clock' - WeeklyWindow
      BY <1>1, <2>4, <3>1, <3>2, <3>3
    <3>5. QED
      BY <1>1, <1>3, <3>4 DEF Superseded
  <2>7. QED
    BY <2>4, <2>5, <2>6
<1>6. QED
  BY <1>4, <1>5

(* What retention does not keep of the bucket is superseded. *)
LEMMA ObjectNotKeptIsSuperseded ==
    ASSUME TypeOK, NEW n \in InBucket \ KeepSet(InBucket, Times, clock)
    PROVE  n \in Names /\ Superseded(n, InBucket)
<1>1. /\ InBucket \subseteq Names
      /\ \A m \in Names : Times[m] = backups[m].at /\ m \in Nat
  BY NamesAreNumbers DEF InBucket, Times, TypeOK
<1>2. ~Daily(Times[n], clock)
  BY DEF KeepSet
<1>3. Weekly(Times[n], clock) =>
        \E m \in InBucket : /\ Week(Times[m]) = Week(Times[n])
                            /\ ~(m <= n)
  BY DEF KeepSet
<1>4. QED
  BY <1>1, <1>2, <1>3 DEF Superseded

(* A job is done within the daily window, so that no list of files to delete
   ever holds the backup of a running job. *)
Held ==
    \A p \in Processes : job[p].name # 0 =>
        Daily(backups[job[p].name].at, clock)

(* How far the backup of a job has come in the bucket. *)
OffsiteJob(p) ==
    /\ At(p, Remote) => Mine(p).metadata # NoMetadata
    /\ At(p, Uploaded) => Mine(p).remote = "whole"
    /\ At(p, Vouched) => Mine(p).remote_metadata # NoMetadata
    /\ "r2_uploaded" \in job[p].metadata =>
         /\ ~At(p, Early)
         /\ job[p].name # 0
         /\ Mine(p).remote = "whole"

ClaimTrue(b) ==
    "r2_uploaded" \in b.metadata \cup b.remote_metadata =>
        \/ b.remote = "deleted"
        \/ b.remote = "whole" /\ b.remote_metadata # NoMetadata

OffsiteInv ==
    /\ ReportInv
    /\ Held
    /\ BucketDoomed
    /\ RemoteRetentionKept
    /\ \A p \in Processes : OffsiteJob(p)
    /\ \A n \in Names : ClaimTrue(backups[n])
    /\ status.state = "success" => status.last_backup # 0
    /\ r2_enabled /\ status.state = "success" =>
          backups[status.last_backup].remote # "none"

LEMMA OffsiteTypes ==
    ASSUME OffsiteInv, [Next]_vars
    PROVE  /\ TypeOK /\ TypeOK' /\ Chronology /\ Evolves
           /\ RetentionInv /\ RetentionInv' /\ ReportInv'
BY TypeStep, StepEvolves, RetentionStep, ReportStep
   DEF OffsiteInv, ReportInv, RetentionInv

(* What becomes of the object of a backup in one step. *)
LEMMA ObjectChange ==
    ASSUME OffsiteInv, [Next]_vars, NEW n \in Names
    PROVE  \/ backups'[n].remote = backups[n].remote
           \/ backups'[n].remote = "whole"
           \/ backups'[n].remote = "deleted" /\ Superseded(n, InBucket)
<1>1. ASSUME NEW p \in Processes, Progress(p, clock, live) \/ Failure(p)
      PROVE  \/ backups'[n].remote = backups[n].remote
             \/ backups'[n].remote = "whole"
             \/ backups'[n].remote = "deleted" /\ Superseded(n, InBucket)
  <2>1. RetentionInv /\ BucketDoomed
    BY DEF OffsiteInv, ReportInv
  <2>2. \/ Same(backups[n], backups'[n])
        \/ Written(p, backups[n], backups'[n])
        \/ Pruned(backups[n], backups'[n])
        \/ Purged(backups[n], backups'[n]) /\ Superseded(n, InBucket)
    BY <1>1, <2>1, RemoteChange
  <2>3. QED
    BY <2>2 DEF Same, Written, Described, Pruned, Purged
<1>2. QED
  BY <1>1, NextJob DEF Acquire, Killed, jobVars

LEMMA BucketGoesBySteps ==
    ASSUME OffsiteInv, [Next]_vars, NEW m \in InBucket
    PROVE  m \in InBucket' \/ Superseded(m, InBucket)
<1>1. m \in Names /\ backups[m].remote = "whole" /\ Names \subseteq Names'
  BY OffsiteTypes DEF InBucket, Evolves
<1>2. QED
  BY <1>1, ObjectChange DEF InBucket

LEMMA ObjectStaysSuperseded ==
    ASSUME OffsiteInv, [Next]_vars, NEW n \in Names, Superseded(n, InBucket)
    PROVE  Superseded(n, InBucket)'
BY OffsiteTypes, BucketGoesBySteps, SupersededObjectStays

LEMMA NewNamesAreEmpty ==
    ASSUME TypeOK, [Next]_vars, NEW n \in Names' \ Names
    PROVE  /\ backups'[n].remote = "none"
           /\ backups'[n].metadata = NoMetadata
           /\ backups'[n].remote_metadata = NoMetadata
<1>1. PICK p \in Processes : Prepare(p, clock)
  BY NamesStep
<1>2. JobTypeOK /\ clock \in 0..MaxClock
  BY DEF TypeOK, JobTypeOK
<1> DEFINE new == Len(backups) + 1
<1>3. /\ Names' = 1..new
      /\ backups'[new] =
           [at |-> clock, local |-> "none", copy |-> NoCopy,
            metadata |-> NoMetadata, remote |-> "none",
            remote_metadata |-> NoMetadata]
  BY <1>1, <1>2, PrepareStep
<1>4. Names = 1..Len(backups) /\ Len(backups) \in Nat
  BY NamesAreNumbers DEF TypeOK
<1>5. n = new
  BY <1>3, <1>4
<1>6. QED
  BY <1>3, <1>5

LEMMA RemoteRetentionStep ==
    ASSUME OffsiteInv, [Next]_vars
    PROVE  RemoteRetentionKept'
<1> SUFFICES ASSUME NEW n \in Names', backups'[n].remote = "deleted"
             PROVE  Superseded(n, InBucket)'
  BY DEF RemoteRetentionKept
<1>1. n \in Names
  BY OffsiteTypes, NewNamesAreEmpty
<1>2. Superseded(n, InBucket)
  BY <1>1, ObjectChange DEF OffsiteInv, RemoteRetentionKept
<1>3. QED
  BY <1>1, <1>2, ObjectStaysSuperseded

(* A job comes to the deletion of objects from a look at the bucket. *)
LEMMA BucketDoomedStep ==
    ASSUME OffsiteInv, [Next]_vars
    PROVE  BucketDoomed'
<1> SUFFICES ASSUME NEW p \in Processes, At(p, {"delete remote"})',
                    NEW n \in job'[p].doomed
             PROVE  Superseded(n, InBucket)'
  BY DEF BucketDoomed
<1>1. TypeOK /\ job \in [Processes -> Job]
  BY OffsiteTypes DEF TypeOK
<1>2. CASE n \in Names /\ Superseded(n, InBucket)
  BY <1>2, ObjectStaysSuperseded
<1>3. CASE UNCHANGED job[p]
  <2>1. At(p, {"delete remote"}) /\ n \in job[p].doomed
    BY <1>3 DEF At
  <2>2. QED
    BY <1>1, <1>2, <2>1 DEF OffsiteInv, BucketDoomed, Job
<1>4. CASE Progress(p, clock, live) \/ Failure(p)
  <2>1. n \in InBucket \ KeepSet(InBucket, Times, clock)
    BY <1>1, <1>4, JobCourse DEF Course
  <2>2. QED
    BY <1>1, <1>2, <2>1, ObjectNotKeptIsSuperseded
<1>5. ASSUME NEW o \in Processes, o # p, Progress(o, clock, live) \/ Failure(o)
      PROVE  UNCHANGED job[p]
  BY <1>1, <1>5, JobChanges
<1>6. ASSUME NEW o, NEW j, Becomes(o, j), j.phase # "delete remote"
      PROVE  UNCHANGED job[p]
  BY <1>1, <1>6 DEF Becomes, At
<1>7. ASSUME NEW o, Acquire(o) PROVE UNCHANGED job[p]
  <2> DEFINE j == [NoJob("none") EXCEPT !.phase = "announce"]
  <2>1. Becomes(o, j) /\ j.phase = "announce"
    BY <1>7 DEF Acquire, NoJob
  <2>2. QED
    BY <1>6, <2>1
<1>8. ASSUME NEW o, Killed(o) PROVE UNCHANGED job[p]
  <2>1. PICK outcome : Becomes(o, NoJob(outcome))
    BY <1>8 DEF Killed, EndJob
  <2>2. NoJob(outcome).phase = "idle"
    BY DEF NoJob
  <2>3. QED
    BY <1>6, <2>1, <2>2
<1>9. QED
  BY <1>3, <1>4, <1>5, <1>7, <1>8, NextJob DEF jobVars

LEMMA HeldStep ==
    ASSUME OffsiteInv, [Next]_vars
    PROVE  Held'
<1>1. /\ TypeOK /\ TypeOK' /\ Evolves
      /\ job \in [Processes -> Job]
      /\ clock \in Nat /\ clock' \in Nat
      /\ \A p \in Processes : job[p].name \in NameOrNone
  <2>1. TypeOK /\ TypeOK' /\ Evolves
    BY OffsiteTypes
  <2>2. clock \in Nat /\ clock' \in Nat
    BY <2>1, BoundAssumption DEF TypeOK
  <2>3. \A p \in Processes : job[p].name \in NameOrNone
    BY <2>1 DEF TypeOK, Job
  <2>4. job \in [Processes -> Job]
    BY <2>1 DEF TypeOK
  <2>5. QED
    BY <2>1, <2>2, <2>3, <2>4
<1>2. ASSUME NEW p \in Processes, job'[p].name \in {0, job[p].name}, clock' = clock
      PROVE  (job[p].name # 0 => Daily(backups[job[p].name].at, clock))'
  BY <1>1, <1>2 DEF OffsiteInv, Held, Evolves, NameOrNone, Daily
<1>3. CASE Tick
  <2>1. \A p \in Processes : job[p].name # 0 =>
          Daily(backups[job[p].name].at, clock + 1)
    BY <1>3 DEF Tick
  <2>2. UNCHANGED <<job, backups>> /\ clock' = clock + 1
    BY <1>3 DEF Tick, jobVars
  <2>3. QED
    BY <2>1, <2>2 DEF Held
<1>4. Tick \/ clock' = clock
  BY DEF Next, ServeWrite, GatewayBacksUp, CliBacksUp, JobProgresses,
         JobFails, StopGateway, GatewayExits, CrashGateway, StartGateway, KillCli,
         BeginRestore, Verify, SafetyBackup, SafetyBackupEnds, Replace,
         ReplaceImpossible, ScriptAborted, vars
<1>5. ASSUME clock' = clock, \A p \in Processes : job'[p].name \in {0, job[p].name}
      PROVE  Held'
  BY <1>2, <1>5 DEF Held
<1>6. ASSUME NEW o \in Processes, Progress(o, clock, live) \/ Failure(o), clock' = clock
      PROVE  Held'
  <2>1. Change(o) /\ \A q \in Processes \ {o} : job'[q] = job[q]
    BY <1>1, <1>6, JobChanges
  <2>2. CASE job'[o].name \in {0, job[o].name}
    BY <1>5, <1>6, <2>1, <2>2
  <2>3. CASE Prepare(o, clock) /\ job'[o].name = Len(backups) + 1
    <3>1. JobTypeOK /\ clock \in 0..MaxClock
      BY <1>1 DEF TypeOK, JobTypeOK
    <3>2. backups'[Len(backups) + 1] =
             [at |-> clock, local |-> "none", copy |-> NoCopy,
              metadata |-> NoMetadata, remote |-> "none",
              remote_metadata |-> NoMetadata]
      BY <2>3, <3>1, PrepareStep
    <3>3. Daily(backups'[job'[o].name].at, clock')
      BY <1>1, <1>6, <2>3, <3>2, RetentionAssumption DEF Daily
    <3>4. \A q \in Processes : (job[q].name # 0 => Daily(backups[job[q].name].at, clock))'
      BY <1>2, <1>6, <2>1, <3>3
    <3>5. QED
      BY <3>4 DEF Held
  <2>4. QED
    BY <2>1, <2>2, <2>3 DEF Change
<1>7. ASSUME NEW o, NEW j, Becomes(o, j), j.name = 0
      PROVE  \A p \in Processes : job'[p].name \in {0, job[p].name}
  BY <1>1, <1>7 DEF Becomes
<1>8. ASSUME NEW o, Acquire(o) \/ Killed(o)
      PROVE  \A p \in Processes : job'[p].name \in {0, job[p].name}
  BY <1>7, <1>8 DEF Acquire, Killed, EndJob, NoJob
<1>9. QED
  BY <1>3, <1>4, <1>5, <1>6, <1>8, NextJob DEF jobVars

-----------------------------------------------------------------------------
(* What the metadata and the status say.                                    *)

(* No other job touches the backup of a job, and retention does not either. *)
LEMMA MyObject ==
    ASSUME OffsiteInv, [Next]_vars, NEW p \in Processes, NEW n \in Names,
           n = job[p].name
    PROVE  \/ Same(backups[n], backups'[n])
           \/ /\ Progress(p, clock, live) \/ Failure(p)
              /\ Written(p, backups[n], backups'[n])
<1>1. n # 0 /\ RetentionInv /\ BucketDoomed
  BY OffsiteTypes, NamesAreNumbers DEF OffsiteInv, TypeOK
<1>2. Daily(backups[n].at, clock)
  BY <1>1 DEF OffsiteInv, Held
<1>3. ~Superseded(n, OnDisk) /\ ~Superseded(n, InBucket)
  BY <1>2 DEF Superseded
<1>4. CASE UNCHANGED backups
  BY <1>4 DEF Same
<1>5. ASSUME NEW o \in Processes, Progress(o, clock, live) \/ Failure(o)
      PROVE  \/ Same(backups[n], backups'[n])
             \/ /\ Progress(p, clock, live) \/ Failure(p)
                /\ Written(p, backups[n], backups'[n])
  <2>1. \/ Same(backups[n], backups'[n])
        \/ n = job[o].name /\ Written(o, backups[n], backups'[n])
    BY <1>1, <1>3, <1>5, RemoteChange
  <2>2. n = job[o].name => o = p
    BY <1>1 DEF OffsiteInv, ReportInv
  <2>3. QED
    BY <1>5, <2>1, <2>2
<1>6. QED
  BY <1>4, <1>5, NextJob DEF Acquire, Killed, jobVars

(* The backup of a job in the R2 part or after it. *)
LEMMA NamedObject ==
    ASSUME OffsiteInv, NEW p \in Processes, At(p, WrittenPhases) \/ job[p].name # 0
    PROVE  /\ job[p].name \in Names
           /\ Mine(p) = backups[job[p].name]
           /\ Mine(p) \in Backup
           /\ Mine(p).remote # "deleted"
<1>1. TypeOK
  BY DEF OffsiteInv, ReportInv, RetentionInv
<1>2. At(p, WrittenPhases) => At(p, NamedPhases)
  BY DEF At, WrittenPhases, Remote, NamedPhases, Phases
<1>3. job[p].name \in Names /\ job[p].name # 0
  BY <1>1, <1>2 DEF TypeOK, Job, NameOrNone
<1>4. ~Superseded(job[p].name, InBucket)
  BY <1>3 DEF OffsiteInv, Held, Superseded
<1>5. QED
  BY <1>1, <1>3, <1>4, NamesAreNumbers DEF OffsiteInv, RemoteRetentionKept, Mine, TypeOK

LEMMA ClaimStep ==
    ASSUME OffsiteInv, [Next]_vars, NEW n \in Names'
    PROVE  ClaimTrue(backups[n])'
<1>1. TypeOK /\ RetentionInv /\ BucketDoomed
  BY OffsiteTypes DEF OffsiteInv
<1>2. CASE n \notin Names
  <2>1. /\ backups'[n].metadata = NoMetadata
        /\ backups'[n].remote_metadata = NoMetadata
    BY <1>1, <1>2, NewNamesAreEmpty
  <2>2. QED
    BY <2>1 DEF ClaimTrue, NoMetadata
<1>3. CASE n \in Names
  <2>1. ClaimTrue(backups[n])
    BY <1>3 DEF OffsiteInv
  <2>2. CASE Same(backups[n], backups'[n])
    BY <2>1, <2>2 DEF Same, ClaimTrue
  <2>3. ASSUME NEW p \in Processes, n = job[p].name,
               Written(p, backups[n], backups'[n])
        PROVE  ClaimTrue(backups[n])'
    <3>1. n # 0
      BY <1>1, <1>3, NamesAreNumbers DEF TypeOK
    <3>2. /\ Mine(p) = backups[n] /\ backups[n].remote # "deleted"
          /\ OffsiteJob(p)
      BY <2>3, <3>1, NamedObject DEF OffsiteInv
    <3>3. CASE Described(backups[n], backups'[n], {})
      BY <2>1, <3>3 DEF Described, ClaimTrue
    <3>4. CASE /\ backups'[n].metadata = backups[n].metadata
               /\ backups'[n].remote = "whole"
               /\ backups'[n].remote_metadata = backups[n].remote_metadata
      BY <2>1, <3>2, <3>4 DEF ClaimTrue
    <3>5. CASE /\ At(p, {"upload metadata", "upload again"})
               /\ backups'[n].metadata = backups[n].metadata
               /\ backups'[n].remote = backups[n].remote
               /\ backups'[n].remote_metadata = backups[n].metadata
      <4>1. At(p, Remote) /\ At(p, Uploaded)
        BY <3>5 DEF At, Remote, Uploaded
      <4>2. backups[n].remote = "whole" /\ backups[n].metadata # NoMetadata
        BY <3>2, <4>1 DEF OffsiteJob
      <4>3. QED
        BY <3>5, <4>2 DEF ClaimTrue
    <3>6. ASSUME At(p, Vouched), NEW said \in Metadata,
                 Described(backups[n], backups'[n], said)
          PROVE  ClaimTrue(backups[n])'
      <4>1. At(p, Uploaded)
        BY <3>6 DEF At, Vouched
      <4>2. backups[n].remote = "whole" /\ backups[n].remote_metadata # NoMetadata
        BY <3>2, <3>6, <4>1 DEF OffsiteJob
      <4>3. QED
        BY <3>6, <4>2 DEF ClaimTrue, Described
    <3>7. CASE Described(backups[n], backups'[n], {"r2_error"})
      BY <2>1, <3>7 DEF Described, ClaimTrue
    <3>8. QED
      BY <2>3, <3>3, <3>4, <3>5, <3>6, <3>7 DEF Written
  <2>4. CASE Pruned(backups[n], backups'[n])
    BY <2>1, <2>4 DEF Pruned, Described, ClaimTrue, NoMetadata
  <2>5. CASE Purged(backups[n], backups'[n])
    BY <2>5 DEF Purged, ClaimTrue
  <2>6. ASSUME NEW p \in Processes, Progress(p, clock, live) \/ Failure(p)
        PROVE  ClaimTrue(backups[n])'
    BY <1>1, <1>3, <2>2, <2>3, <2>4, <2>5, <2>6, RemoteChange
  <2>7. CASE UNCHANGED backups
    BY <2>2, <2>7 DEF Same
  <2>8. QED
    BY <2>6, <2>7, NextJob DEF Acquire, Killed, jobVars
<1>4. QED
  BY <1>2, <1>3

LEMMA OffsiteJobStep ==
    ASSUME OffsiteInv, [Next]_vars, NEW p \in Processes
    PROVE  OffsiteJob(p)'
<1>1. /\ TypeOK /\ TypeOK' /\ OffsiteJob(p)
      /\ job \in [Processes -> Job]
  BY OffsiteTypes DEF OffsiteInv, TypeOK
<1> DEFINE n == job[p].name
           b == backups'[n]
<1>2. CASE UNCHANGED job[p] /\ ~(Progress(p, clock, live) \/ Failure(p))
  <2>1. Mine(p)' = b
    BY <1>2 DEF Mine
  <2>2. n \in Names => Same(backups[n], b)
    BY <1>2, MyObject
  <2>3. At(p, WrittenPhases) \/ n # 0 => Same(Mine(p), Mine(p)')
    BY <2>1, <2>2, NamedObject
  <2>4. At(p, Remote) \/ At(p, Uploaded) \/ At(p, Vouched) => At(p, WrittenPhases)
    BY DEF At, Remote, Uploaded, Vouched, WrittenPhases
  <2>5. QED
    BY <1>1, <1>2, <2>3, <2>4 DEF OffsiteJob, At, Same
<1>3. CASE Progress(p, clock, live) \/ Failure(p)
  <2>1. Course(p) /\ Change(p)
    BY <1>1, <1>3, JobCourse, JobChanges
  <2>2. n # 0 \/ At(p, WrittenPhases) =>
          \/ Same(Mine(p), b)
          \/ Written(p, Mine(p), b)
    BY NamedObject, MyObject
  <2>3. At(p, Remote)' => Mine(p)' = b
    BY <2>1 DEF Change, Mine, At, WrittenPhases
  <2>4. At(p, Uploaded)' \/ At(p, Vouched)' => At(p, Remote)'
    BY DEF At, Remote, Uploaded, Vouched
  <2>5. At(p, Uploaded) \/ At(p, Vouched) => At(p, Remote)
    BY DEF At, Remote, Uploaded, Vouched
  <2>6. At(p, Remote) => At(p, WrittenPhases)
    BY DEF At, WrittenPhases
  <2>7. At(p, Remote)' => b.metadata # NoMetadata
    <3>1. CASE WriteMetadata(p)
      <4>1. n \in Names /\ Mine(p) \in Backup
        <5>1. At(p, WrittenPhases)
          BY <3>1 DEF WriteMetadata, At, WrittenPhases
        <5>2. QED
          BY <5>1, NamedObject
      <4>2. b = [Mine(p) EXCEPT !.metadata = {}]
        BY <3>1, <4>1 DEF WriteMetadata, Write, Names
      <4>3. b.metadata = {}
        BY <4>1, <4>2 DEF Backup
      <4>4. QED
        BY <4>3 DEF NoMetadata
    <3>2. CASE At(p, Remote)
      <4>1. Mine(p).metadata # NoMetadata
        BY <1>1, <3>2 DEF OffsiteJob
      <4>2. NoMetadata \notin Metadata /\ {} # NoMetadata /\ {"r2_error"} # NoMetadata
        BY DEF NoMetadata, Metadata
      <4>3. QED
        BY <2>2, <2>6, <3>2, <4>1, <4>2 DEF Same, Written, Described
    <3>3. QED
      BY <2>1, <3>1, <3>2 DEF Course
  <2>8. At(p, Uploaded)' => b.remote = "whole"
    <3>1. CASE Upload(p)
      <4>1. n \in Names /\ Mine(p) \in Backup
        <5>1. At(p, WrittenPhases)
          BY <3>1 DEF Upload, At, WrittenPhases, Remote
        <5>2. QED
          BY <5>1, NamedObject
      <4>2. b = [Mine(p) EXCEPT !.remote = "whole"]
        BY <3>1, <4>1 DEF Upload, Write, Names
      <4>3. QED
        BY <4>1, <4>2 DEF Backup
    <3>2. CASE At(p, Uploaded)
      <4>1. Mine(p).remote = "whole"
        BY <1>1, <3>2 DEF OffsiteJob
      <4>2. QED
        BY <2>2, <2>5, <2>6, <3>2, <4>1 DEF Same, Written, Described
    <3>3. QED
      BY <2>1, <3>1, <3>2 DEF Course
  <2>9. At(p, Vouched)' => b.remote_metadata # NoMetadata
    <3>1. CASE UploadMetadata(p)
      <4>1. At(p, {"upload metadata", "upload again"})
        <5>1. PICK step \in {<<"upload metadata", "mark">>,
                             <<"upload again", "list remote">>} : At(p, {step[1]})
          BY <3>1 DEF UploadMetadata
        <5>2. step[1] \in {"upload metadata", "upload again"}
          <6>1. CASE step = <<"upload metadata", "mark">>
            BY <6>1
          <6>2. CASE step = <<"upload again", "list remote">>
            BY <6>2
          <6>3. QED
            BY <6>1, <6>2
        <5>3. QED
          BY <5>1, <5>2 DEF At
      <4>2. At(p, Remote)
        BY <4>1 DEF At, Remote
      <4>3. n \in Names /\ Mine(p) \in Backup /\ Mine(p).metadata # NoMetadata
        BY <1>1, <2>6, <4>2, NamedObject DEF OffsiteJob
      <4>4. b = [Mine(p) EXCEPT !.remote_metadata = Mine(p).metadata]
        BY <3>1, <4>3 DEF UploadMetadata, Write, Names
      <4>5. QED
        BY <4>3, <4>4 DEF Backup
    <3>2. CASE At(p, Vouched)
      <4>1. Mine(p).remote_metadata # NoMetadata /\ Mine(p).metadata # NoMetadata
        BY <1>1, <2>5, <3>2 DEF OffsiteJob
      <4>2. QED
        BY <2>2, <2>5, <2>6, <3>2, <4>1 DEF Same, Written, Described
    <3>3. QED
      BY <2>1, <3>1, <3>2 DEF Course
  <2>10. ASSUME "r2_uploaded" \in job'[p].metadata
         PROVE  ~At(p, Early)' /\ job'[p].name # 0 /\ Mine(p)'.remote = "whole"
    <3>1. "r2_uploaded" \in job[p].metadata \/ At(p, Vouched)
      BY <2>1, <2>10 DEF Course
    <3>2. ~At(p, Early)
      BY <1>1, <3>1 DEF OffsiteJob, At, Vouched, Uploaded, Early
    <3>3. ~At(p, Early)' /\ job'[p].name = n
      BY <2>1, <2>10, <3>2 DEF Course
    <3>4. n # 0 /\ Mine(p).remote = "whole"
      <4>1. CASE At(p, Vouched)
        <5>1. At(p, Uploaded) /\ At(p, WrittenPhases) /\ At(p, NamedPhases)
          BY <4>1 DEF At, Vouched, Uploaded, WrittenPhases, Remote, NamedPhases, Phases
        <5>2. QED
          BY <1>1, <5>1 DEF OffsiteJob, TypeOK
      <4>2. QED
        BY <1>1, <3>1, <4>1 DEF OffsiteJob
    <3>5. b.remote = "whole"
      BY <2>2, <3>4 DEF Same, Written, Described
    <3>6. QED
      BY <3>3, <3>4, <3>5 DEF Mine
  <2>11. QED
    BY <2>3, <2>4, <2>7, <2>8, <2>9, <2>10 DEF OffsiteJob
<1>4. ASSUME job'[p].phase \in {"idle", "announce"}, job'[p].metadata = {}
      PROVE  OffsiteJob(p)'
  BY <1>4 DEF OffsiteJob, At, Remote, Uploaded, Vouched
<1>5. ASSUME NEW o, NEW j, Becomes(o, j), j.phase \in {"idle", "announce"},
             j.metadata = {}
      PROVE  \/ UNCHANGED job[p]
             \/ job'[p].phase \in {"idle", "announce"} /\ job'[p].metadata = {}
  BY <1>1, <1>5 DEF Becomes
<1>6. ASSUME NEW o, Acquire(o)
      PROVE  \/ UNCHANGED job[p]
             \/ job'[p].phase \in {"idle", "announce"} /\ job'[p].metadata = {}
  <2> DEFINE j == [NoJob("none") EXCEPT !.phase = "announce"]
  <2>1. Becomes(o, j) /\ j.phase = "announce" /\ j.metadata = {}
    BY <1>6 DEF Acquire, NoJob
  <2>2. QED
    BY <1>5, <2>1
<1>7. ASSUME NEW o, Killed(o)
      PROVE  \/ UNCHANGED job[p]
             \/ job'[p].phase \in {"idle", "announce"} /\ job'[p].metadata = {}
  <2>1. PICK outcome : Becomes(o, NoJob(outcome))
    BY <1>7 DEF Killed, EndJob
  <2>2. NoJob(outcome).phase = "idle" /\ NoJob(outcome).metadata = {}
    BY DEF NoJob
  <2>3. QED
    BY <1>5, <2>1, <2>2
<1>8. ASSUME NEW o \in Processes, o # p, Progress(o, clock, live) \/ Failure(o)
      PROVE  UNCHANGED job[p]
  BY <1>1, <1>8, JobChanges
<1>9. QED
  BY <1>2, <1>3, <1>4, <1>6, <1>7, <1>8, NextJob DEF jobVars

(* A status that claims success names a backup, and with R2 enabled one that
   reached the bucket. *)
StatusTrue ==
    /\ status.state = "success" => status.last_backup # 0
    /\ r2_enabled /\ status.state = "success" =>
          backups[status.last_backup].remote # "none"

LEMMA StatusTrueStep ==
    ASSUME OffsiteInv, [Next]_vars
    PROVE  StatusTrue'
<1>1. TypeOK
  BY OffsiteTypes
<1>2. r2_enabled' = r2_enabled
  BY DEF Next, Tick, ServeWrite, GatewayBacksUp, CliBacksUp, JobProgresses,
         JobFails, StopGateway, GatewayExits, CrashGateway, StartGateway, KillCli,
         BeginRestore, Verify, SafetyBackup, SafetyBackupEnds, Replace,
         ReplaceImpossible, ScriptAborted, vars
<1>3. CASE UNCHANGED status
  <2>1. status.state = "success" => status.last_backup \in Names
    <3>1. status.last_backup \in NameOrNone
      BY <1>1, NamesOfReport
    <3>2. QED
      BY <3>1 DEF OffsiteInv, NameOrNone
  <2>2. r2_enabled /\ status.state = "success" =>
          backups'[status.last_backup].remote # "none"
    BY <2>1, ObjectChange DEF OffsiteInv
  <2>3. QED
    BY <1>2, <1>3, <2>1, <2>2 DEF OffsiteInv, StatusTrue
<1>4. ASSUME NEW p \in Processes, Announce(p) \/ Excuse(p) PROVE StatusTrue'
  <2>1. PICK s \in {"running", "failed"} : status' = [job[p].seen EXCEPT !.state = s]
    BY <1>4 DEF Announce, Excuse
  <2>2. job[p].seen \in Statuses
    BY <1>1 DEF TypeOK, Job
  <2>3. status'.state = s
    BY <2>1, <2>2 DEF Statuses
  <2>4. QED
    BY <2>1, <2>3 DEF StatusTrue
<1>5. ASSUME NEW p \in Processes, Report(p) PROVE StatusTrue'
  <2>1. At(p, {"reporting"}) /\ UNCHANGED backups
    BY <1>5 DEF Report
  <2>2. At(p, NamedPhases)
    BY <2>1 DEF At, NamedPhases, Phases
  <2>3. job[p].name # 0
    BY <1>1, <2>2 DEF TypeOK
  <2>4. /\ status'.last_backup = job[p].name
        /\ status'.state = "success" => ~r2_enabled \/ "r2_uploaded" \in job[p].metadata
    BY <1>5 DEF Report
  <2>5. r2_enabled /\ status'.state = "success" =>
          backups[job[p].name].remote = "whole"
    BY <2>4 DEF OffsiteInv, OffsiteJob, Mine
  <2>6. QED
    BY <1>2, <2>1, <2>3, <2>4, <2>5 DEF StatusTrue
<1>6. \/ UNCHANGED status
      \/ \E p \in Processes : Announce(p) \/ Excuse(p) \/ Report(p)
  BY NextJob
  DEF Progress, Failure, ReadStatus, Prepare, Snapshot, CloseFile, WriteMetadata,
      Upload, UploadMetadata, MarkUploaded, ListRemote, DeleteRemote, ListLocal,
      Prune, AnnounceFails, ExcuseFails, Fail, RemoteFails, Acquire, Killed, jobVars
<1>7. QED
  BY <1>3, <1>4, <1>5, <1>6

LEMMA OffsiteStep == OffsiteInv /\ [Next]_vars => OffsiteInv'
<1> SUFFICES ASSUME OffsiteInv, [Next]_vars PROVE OffsiteInv'
  OBVIOUS
<1>1. ReportInv' /\ Held' /\ BucketDoomed' /\ RemoteRetentionKept'
  BY OffsiteTypes, HeldStep, BucketDoomedStep, RemoteRetentionStep
<1>2. (\A p \in Processes : OffsiteJob(p))'
  BY OffsiteJobStep
<1>3. (\A n \in Names : ClaimTrue(backups[n]))'
  BY ClaimStep
<1>4. StatusTrue'
  BY StatusTrueStep
<1>5. QED
  BY <1>1, <1>2, <1>3, <1>4 DEF OffsiteInv, StatusTrue

LEMMA OffsiteInit == Init => OffsiteInv
<1> SUFFICES ASSUME Init PROVE OffsiteInv
  OBVIOUS
<1>1. RetentionInv /\ Names = {}
  BY RetentionInit DEF Init, JobInit, Names
<1>2. \A p \in Processes : /\ job[p].phase = "idle" /\ job[p].name = 0
                           /\ job[p].seen.last_backup = 0 /\ job[p].metadata = {}
  BY DEF Init, JobInit, NoJob
<1>3. status.last_backup = 0 /\ status.state = "never_run"
  BY DEF Init, JobInit
<1>4. ReportInv
  BY <1>1, <1>2, <1>3 DEF ReportInv, JobReports, At, WrittenPhases, Remote
<1>5. \A p \in Processes : OffsiteJob(p) /\ ~At(p, {"delete remote"})
  BY <1>2 DEF OffsiteJob, At, Remote, Uploaded, Vouched
<1>6. QED
  BY <1>1, <1>2, <1>3, <1>4, <1>5
  DEF OffsiteInv, Held, BucketDoomed, RemoteRetentionKept

(* No object leaves the bucket that the retention rules keep, with any number
   of backups and any windows: neither with lists as old as can be, nor when
   the bucket drops any of the deletions of one request. *)
THEOREM RemoteRetentionIsKept == Spec => []RemoteRetentionKept
<1>1. OffsiteInv => RemoteRetentionKept
  BY DEF OffsiteInv
<1>2. QED
  BY <1>1, OffsiteInit, OffsiteStep, PTL DEF Spec

(* What the metadata, in the directory and in the bucket, and the status say
   of the copy in R2 is true: with any number of backups and faults, and a
   second process beside the gateway. *)
THEOREM OffsiteClaimsAreTrue == Spec => []OffsiteClaimsTrue
<1>1. OffsiteInv => OffsiteClaimsTrue
  BY DEF OffsiteInv, OffsiteClaimsTrue, ClaimTrue
<1>2. QED
  BY <1>1, OffsiteInit, OffsiteStep, PTL DEF Spec

-----------------------------------------------------------------------------
(* What the status forgets.                                                 *)

(* What is sure of a job that ran beside no other: nobody else writes the
   status or begins a backup, so that what it read of the status, if it could
   be read, is what the status says, and its backup is the newest. *)
Undisturbed(p) ==
    /\ \A q \in Processes : ~At(q, {"idle"}) => q = p
    /\ At(p, {"announcing", "excusing"}) =>
         \/ job[p].seen.state = "unknown"
         \/ job[p].seen.last_backup = status.last_backup
    /\ job[p].name # 0 => \A n \in Names : n <= job[p].name

OverlapInv ==
    /\ TypeOK
    /\ \A p \in Processes :
         ~At(p, {"idle"}) /\ p \notin overlapping => Undisturbed(p)

(* A step of a job that goes on does not disturb the job itself. *)
LEMMA OwnStep ==
    ASSUME TypeOK, [Next]_vars, NEW p \in Processes, Undisturbed(p),
           Progress(p, clock, live) \/ Failure(p), ~At(p, {"idle"})'
    PROVE  Undisturbed(p)'
<1>1. /\ job \in [Processes -> Job] /\ job[p] \in Job
      /\ backups \in Seq(Backup)
  BY DEF TypeOK
<1>2. Change(p) /\ \A q \in Processes \ {p} : job'[q] = job[q]
  BY JobChanges
<1>3. \A q \in Processes : ~At(q, {"idle"})' => q = p
  BY <1>2 DEF Undisturbed, At
<1>4. ASSUME At(p, {"announcing", "excusing"})'
      PROVE  \/ job'[p].seen.state = "unknown"
             \/ job'[p].seen.last_backup = status'.last_backup
  <2>1. CASE ReadStatus(p, TRUE)
    <3>1. PICK step : Becomes(p, [job[p] EXCEPT !.phase = step[2], !.seen = status])
      BY <2>1 DEF ReadStatus
    <3>2. job'[p].seen = status /\ status' = status
      BY <1>1, <2>1, <3>1 DEF Becomes, Job, ReadStatus
    <3>3. QED
      BY <3>2
  <2>2. CASE ReadStatus(p, FALSE)
    <3>1. PICK step : Becomes(p, [job[p] EXCEPT !.phase = step[2],
                      !.seen = [state |-> "unknown", last_backup |-> 0]])
      BY <2>2 DEF ReadStatus
    <3>2. job'[p].seen.state = "unknown"
      BY <1>1, <3>1 DEF Becomes, Job
    <3>3. QED
      BY <3>2
  <2>3. CASE Fail(p)
    <3>1. job'[p].phase = "excuse"
      BY <1>1, <2>3 DEF Fail, Goto, Becomes, Job
    <3>2. QED
      BY <1>4, <3>1 DEF At
  <2>4. ASSUME NEW j, Becomes(p, j), j.phase \notin {"announcing", "excusing"}
        PROVE  FALSE
    <3>1. job'[p] = j
      BY <1>1, <2>4 DEF Becomes
    <3>2. QED
      BY <1>4, <2>4, <3>1 DEF At
  <2>5. CASE Announce(p) \/ CloseFile(p) \/ WriteMetadata(p) \/ Upload(p)
    <3>1. PICK phase \in {"prepare", "describe", "upload", "list", "upload metadata"} :
            Becomes(p, [job[p] EXCEPT !.phase = phase])
      BY <2>5 DEF Announce, CloseFile, WriteMetadata, Upload, Goto
    <3>2. [job[p] EXCEPT !.phase = phase].phase = phase
      BY <1>1 DEF Job
    <3>3. QED
      BY <2>4, <3>1, <3>2
  <2>6. CASE UploadMetadata(p)
    <3>1. PICK step \in {<<"upload metadata", "mark">>,
                         <<"upload again", "list remote">>} : Goto(p, step[2])
      BY <2>6 DEF UploadMetadata
    <3>2. step[2] \in {"mark", "list remote"}
      <4>1. CASE step = <<"upload metadata", "mark">>
        BY <4>1
      <4>2. CASE step = <<"upload again", "list remote">>
        BY <4>2
      <4>3. QED
        BY <4>1, <4>2
    <3>3. [job[p] EXCEPT !.phase = step[2]].phase = step[2]
      BY <1>1 DEF Job
    <3>4. QED
      BY <2>4, <3>1, <3>2, <3>3 DEF Goto
  <2>7. CASE Prepare(p, clock)
    <3> DEFINE j == [job[p] EXCEPT !.phase = "snapshot", !.name = Len(backups) + 1]
    <3>1. j.phase = "snapshot"
      BY <1>1 DEF Job
    <3>2. Becomes(p, j)
      BY <2>7 DEF Prepare
    <3>3. QED
      BY <2>4, <3>1, <3>2
  <2>8. CASE Snapshot(p, live)
    <3> DEFINE j == [job[p] EXCEPT !.phase = "encrypt", !.copy = live]
    <3>1. j.phase = "encrypt"
      BY <1>1 DEF Job
    <3>2. Becomes(p, j)
      BY <2>8 DEF Snapshot
    <3>3. QED
      BY <2>4, <3>1, <3>2
  <2>9. CASE MarkUploaded(p)
    <3> DEFINE j == [job[p] EXCEPT !.phase = "upload again",
                                !.metadata = {"r2_uploaded"}]
    <3>1. j.phase = "upload again"
      BY <1>1 DEF Job
    <3>2. Becomes(p, j)
      BY <2>9 DEF MarkUploaded
    <3>3. QED
      BY <2>4, <3>1, <3>2
  <2>10. CASE ListRemote(p, clock)
    <3> DEFINE j == [job[p] EXCEPT !.phase = "delete remote",
                 !.doomed = InBucket \ KeepSet(InBucket, Times, clock)]
    <3>1. j.phase = "delete remote"
      BY <1>1 DEF Job
    <3>2. Becomes(p, j)
      BY <2>10 DEF ListRemote
    <3>3. QED
      BY <2>4, <3>1, <3>2
  <2>11. CASE DeleteRemote(p)
    <3> DEFINE j == [job[p] EXCEPT !.phase = "list", !.doomed = {}]
    <3>1. j.phase = "list"
      BY <1>1 DEF Job
    <3>2. Becomes(p, j)
      BY <2>11 DEF DeleteRemote
    <3>3. QED
      BY <2>4, <3>1, <3>2
  <2>12. CASE RemoteFails(p)
    <3>1. PICK said : Becomes(p, [job[p] EXCEPT !.phase = "list", !.metadata = said,
                                               !.doomed = {}])
      BY <2>12 DEF RemoteFails
    <3>2. [job[p] EXCEPT !.phase = "list", !.metadata = said,
                         !.doomed = {}].phase = "list"
      BY <1>1 DEF Job
    <3>3. QED
      BY <2>4, <3>1, <3>2
  <2>13. CASE ListLocal(p, clock)
    <3> DEFINE doomed == OnDisk \ KeepSet(OnDisk, Times, clock)
               j == [job[p] EXCEPT
                       !.phase = IF doomed = {} THEN "report" ELSE "prune",
                       !.doomed = doomed]
    <3>1. j.phase \in {"report", "prune"}
      BY <1>1 DEF Job
    <3>2. Becomes(p, j)
      BY <2>13 DEF ListLocal
    <3>3. QED
      BY <2>4, <3>1, <3>2
  <2>14. CASE Prune(p)
    <3>1. PICK n : Becomes(p, [job[p] EXCEPT
                      !.phase = IF job[p].doomed = {n} THEN "report" ELSE @,
                      !.doomed = @ \ {n}])
      BY <2>14 DEF Prune
    <3> DEFINE j == [job[p] EXCEPT
                      !.phase = IF job[p].doomed = {n} THEN "report" ELSE @,
                      !.doomed = @ \ {n}]
    <3>2. j.phase \in {"report", job[p].phase}
      BY <1>1 DEF Job
    <3>3. job[p].phase = "prune"
      BY <2>14 DEF Prune, At
    <3>4. QED
      BY <2>4, <3>1, <3>2, <3>3
  <2>15. CASE Ends(p)
    BY <1>1, <2>15, EndsIdle
  <2>16. QED
    BY <2>1, <2>2, <2>3, <2>5, <2>6, <2>7, <2>8, <2>9, <2>10, <2>11, <2>12,
       <2>13, <2>14, <2>15
    DEF Progress, Failure, Ends
<1>5. ASSUME job'[p].name # 0, NEW n \in Names' PROVE n <= job'[p].name
  <2>1. CASE Prepare(p, clock)
    <3>1. job'[p].name = Len(backups) + 1
      BY <1>1, <2>1 DEF Prepare, Becomes, Job
    <3>2. Names' = 1..Len(backups) + 1
      BY <2>1, PrepareStep DEF TypeOK, JobTypeOK
    <3>3. QED
      BY <1>1, <3>1, <3>2, LenProperties
  <2>2. CASE ~Prepare(p, clock)
    <3>1. job'[p].name = job[p].name
      BY <1>2, <1>5, <2>2 DEF Change
    <3>2. Names' = Names
      <4>1. \A q \in Processes : Prepare(q, clock) => q = p
        BY DEF Prepare, Undisturbed, At
      <4>2. QED
        BY <2>2, <4>1, NamesStep
    <3>3. QED
      BY <1>5, <3>1, <3>2 DEF Undisturbed
  <2>3. QED
    BY <2>1, <2>2
<1>6. QED
  BY <1>3, <1>4, <1>5 DEF Undisturbed

LEMMA OverlapStep == OverlapInv /\ [Next]_vars => OverlapInv'
<1> SUFFICES ASSUME OverlapInv, [Next]_vars,
                    NEW p \in Processes, ~At(p, {"idle"})', p \notin overlapping'
             PROVE  Undisturbed(p)'
  BY TypeStep DEF OverlapInv
<1>1. TypeOK /\ job \in [Processes -> Job]
  BY DEF OverlapInv, TypeOK
<1>2. CASE UNCHANGED jobVars
  <2>1. UNCHANGED <<job, status, backups, overlapping>>
    BY <1>2 DEF jobVars
  <2>2. QED
    BY <2>1 DEF OverlapInv, Undisturbed, At, Names
<1>3. ASSUME NEW q, Acquire(q) PROVE Undisturbed(p)'
  <2>1. /\ q \in Processes /\ At(q, {"idle"})
        /\ UNCHANGED <<status, backups>>
        /\ Becomes(q, [NoJob("none") EXCEPT !.phase = "announce"])
    BY <1>3 DEF Acquire
  <2>2. \A r \in Processes \ {q} : job'[r] = job[r]
    BY <1>1, <2>1 DEF Becomes
  <2>3. p = q \/ p \in Busy
    BY <2>2 DEF Busy, At
  <2>4. Busy = {}
    BY <1>3, <2>3 DEF Acquire
  <2>5. p = q /\ \A r \in Processes : ~At(r, {"idle"})' => r = p
    BY <2>2, <2>3, <2>4 DEF Busy, At
  <2>6. job'[p].phase = "announce" /\ job'[p].name = 0
    BY <1>1, <2>1, <2>5 DEF Becomes, NoJob
  <2>7. QED
    BY <2>5, <2>6 DEF Undisturbed, At
<1>4. ASSUME NEW q, Killed(q) PROVE Undisturbed(p)'
  <2>1. PICK j : /\ Becomes(q, j) /\ j.phase = "idle"
                 /\ UNCHANGED <<status, backups>>
                 /\ overlapping' = overlapping \ {q}
    BY <1>4 DEF Killed, EndJob, NoJob
  <2>2. p # q
    BY <1>1, <2>1 DEF Becomes, At
  <2>3. \A r \in Processes : job'[r] = job[r] \/ At(r, {"idle"})'
    BY <1>1, <2>1 DEF Becomes, At
  <2>4. job'[p] = job[p] /\ p \notin overlapping
    BY <2>1, <2>2, <2>3 DEF At
  <2>5. Undisturbed(p)
    BY <2>4 DEF OverlapInv, At
  <2>6. QED
    BY <2>1, <2>3, <2>4, <2>5 DEF Undisturbed, At, Names
<1>5. ASSUME NEW q \in Processes, Progress(q, clock, live) \/ Failure(q)
      PROVE  Undisturbed(p)'
  <2>1. Change(q) /\ \A r \in Processes \ {q} : job'[r] = job[r]
    BY <1>1, <1>5, JobChanges
  <2>2. ~At(q, {"idle"})
    BY <2>1 DEF Change, Ends, Report, Excuse, ExcuseFails, AnnounceFails, At
  <2>3. Ends(q) => At(q, {"idle"})'
    BY <1>1, EndsIdle
  <2>4. ~At(p, {"idle"}) /\ p \notin overlapping
    <3>1. CASE p = q
      BY <1>5, <2>2, <2>3, <3>1, JobKeepsOverlapping
    <3>2. CASE p # q
      BY <1>5, <2>1, <3>2, JobKeepsOverlapping DEF At
    <3>3. QED
      BY <3>1, <3>2
  <2>5. Undisturbed(p)
    BY <2>4 DEF OverlapInv
  <2>6. q = p
    BY <2>2, <2>5 DEF Undisturbed
  <2>7. QED
    BY <1>1, <1>5, <2>5, <2>6, OwnStep
<1>6. QED
  BY <1>2, <1>3, <1>4, <1>5, NextJob

Forgetting ==
    status'.last_backup < status.last_backup =>
      \E p \in Processes :
        /\ At(p, {"announcing", "reporting", "excusing"})
        /\ job'[p] # job[p]
        /\ \/ p \in overlapping
           \/ ~At(p, {"reporting"}) /\ job[p].seen.state = "unknown"

LEMMA ForgettingStep == OverlapInv /\ [Next]_vars => Forgetting
<1> SUFFICES ASSUME OverlapInv, [Next]_vars, status'.last_backup < status.last_backup
             PROVE  \E p \in Processes :
                      /\ At(p, {"announcing", "reporting", "excusing"})
                      /\ job'[p] # job[p]
                      /\ \/ p \in overlapping
                         \/ /\ ~At(p, {"reporting"})
                            /\ job[p].seen.state = "unknown"
  BY DEF Forgetting
<1>1. /\ TypeOK /\ job \in [Processes -> Job]
      /\ status.last_backup \in NameOrNone
      /\ \A p \in Processes : job[p].name \in NameOrNone
  BY DEF OverlapInv, TypeOK, Statuses, Job
<1>2. NameOrNone \subseteq Nat
  BY <1>1, NamesAreNumbers DEF TypeOK, NameOrNone
<1>3. /\ status.last_backup \in Nat
      /\ status'.last_backup # status.last_backup
  <2>1. status.last_backup \in Nat
    BY <1>1, <1>2
  <2>2. ~(status.last_backup < status.last_backup)
    BY <2>1
  <2>3. QED
    BY <2>1, <2>2
<1>4. ASSUME NEW p \in Processes, Announce(p) \/ Excuse(p)
      PROVE  /\ At(p, {"announcing", "excusing"}) /\ job'[p] # job[p]
             /\ p \in overlapping \/ job[p].seen.state = "unknown"
  <2>1. PICK s : status' = [job[p].seen EXCEPT !.state = s]
    BY <1>4 DEF Announce, Excuse
  <2>2. job[p].seen \in Statuses
    BY <1>1 DEF Job
  <2>3. status'.last_backup = job[p].seen.last_backup
    BY <2>1, <2>2 DEF Statuses
  <2>4. At(p, {"announcing", "excusing"}) /\ ~At(p, {"idle"})
    BY <1>4 DEF Announce, Excuse, At
  <2>5. p \in overlapping \/ job[p].seen.state = "unknown"
    BY <1>3, <2>3, <2>4 DEF OverlapInv, Undisturbed
  <2>6. job'[p].phase \in {"prepare", "idle"}
    BY <1>1, <1>4 DEF Announce, Excuse, Goto, EndJob, NoJob, Becomes, Job
  <2>7. QED
    BY <2>4, <2>5, <2>6 DEF At
<1>5. ASSUME NEW p \in Processes, Report(p)
      PROVE  At(p, {"reporting"}) /\ job'[p] # job[p] /\ p \in overlapping
  <2>1. At(p, {"reporting"}) /\ status'.last_backup = job[p].name
    BY <1>5 DEF Report
  <2>2. job[p].name # 0 /\ ~At(p, {"idle"})
    BY <1>1, <2>1 DEF TypeOK, At, NamedPhases, Phases
  <2>3. status.last_backup \in Names
    BY <1>1, <1>2, <2>1 DEF NameOrNone
  <2>4. job[p].name < status.last_backup /\ job[p].name \in Nat
    BY <1>1, <1>2, <2>1
  <2>5. ~(status.last_backup <= job[p].name)
    BY <1>3, <2>4
  <2>6. p \in overlapping
    BY <2>2, <2>3, <2>5 DEF OverlapInv, Undisturbed
  <2>7. job'[p].phase = "idle"
    BY <1>1, <1>5 DEF Report, EndJob, NoJob, Becomes
  <2>8. QED
    BY <2>1, <2>6, <2>7 DEF At
<1>6. \/ UNCHANGED status
      \/ \E p \in Processes : Announce(p) \/ Excuse(p) \/ Report(p)
  BY NextJob
  DEF Progress, Failure, ReadStatus, Prepare, Snapshot, CloseFile, WriteMetadata,
      Upload, UploadMetadata, MarkUploaded, ListRemote, DeleteRemote, ListLocal,
      Prune, AnnounceFails, ExcuseFails, Fail, RemoteFails, Acquire, Killed, jobVars
<1>7. QED
  BY <1>3, <1>4, <1>5, <1>6 DEF At

(* The status goes back to an older last success only where jobs of two
   processes ran at the same time, or where a job could not read the file it
   rewrites: never while one process makes backups and can read the status. *)
THEOREM ForgettingExplained == Spec => ForgottenOnlyByOverlap
<1>1. Init => OverlapInv
  BY TypeInit DEF Init, JobInit, OverlapInv, At, NoJob
<1>2. OverlapInv /\ [Next]_vars => [Forgetting]_vars
  BY ForgettingStep
<1>3. [][Forgetting]_vars => ForgottenOnlyByOverlap
  BY DEF Forgetting, ForgottenOnlyByOverlap
<1>4. QED
  BY <1>1, <1>2, <1>3, OverlapStep, PTL DEF Spec

-----------------------------------------------------------------------------
(* The restore script.                                                      *)

(* Where the gateway is down and the script alone, what a job leaves of its
   outcome and its copy is all that the script depends on. *)
Outcome(p) ==
    /\ ~At(p, {"idle"})
    /\ \/ job'[p].outcome = job[p].outcome
       \/ At(p, {"idle"})' /\ (job'[p].outcome = "done" => Report(p))
    /\ At(p, {"encrypt"})' => job'[p].copy = live

LEMMA KeepsOutcome ==
    ASSUME job \in [Processes -> Job], NEW p \in Processes, NEW j,
           Becomes(p, j), j.phase # "encrypt", j.outcome = job[p].outcome,
           ~At(p, {"idle"})
    PROVE  Outcome(p)
BY DEF Outcome, Becomes, At

LEMMA JobOutcome ==
    ASSUME TypeOK, NEW p \in Processes, Progress(p, clock, live) \/ Failure(p)
    PROVE  Outcome(p)
<1>1. job \in [Processes -> Job] /\ job[p] \in Job
  BY DEF TypeOK
<1>2. ASSUME NEW j, Becomes(p, j), j.phase # "encrypt", j.outcome = job[p].outcome,
             ~At(p, {"idle"})
      PROVE  Outcome(p)
  BY <1>1, <1>2, KeepsOutcome
<1>3. CASE Ends(p)
  <2>1. PICK outcome : /\ Becomes(p, NoJob(IF p = Cli THEN outcome ELSE "none"))
                       /\ outcome = "done" => Report(p)
    BY <1>3 DEF Ends, Report, Excuse, ExcuseFails, AnnounceFails, EndJob
  <2>2. job'[p] = NoJob(IF p = Cli THEN outcome ELSE "none")
    BY <1>1, <2>1 DEF Becomes
  <2>3. job'[p].phase = "idle" /\ (job'[p].outcome = "done" => outcome = "done")
    BY <2>2 DEF NoJob
  <2>4. ~At(p, {"idle"})
    BY <1>3 DEF Ends, Report, Excuse, ExcuseFails, AnnounceFails, At
  <2>5. QED
    BY <2>1, <2>3, <2>4 DEF Outcome, At
<1>4. CASE ReadStatus(p, TRUE) \/ ReadStatus(p, FALSE)
  <2>1. PICK step \in {<<"announce", "announcing">>, <<"report", "reporting">>,
                       <<"excuse", "excusing">>},
             read \in {status, [state |-> "unknown", last_backup |-> 0]} :
          /\ At(p, {step[1]})
          /\ Becomes(p, [job[p] EXCEPT !.phase = step[2], !.seen = read])
    BY <1>4 DEF ReadStatus
  <2> DEFINE j == [job[p] EXCEPT !.phase = step[2], !.seen = read]
  <2>2. j.phase = step[2] /\ j.outcome = job[p].outcome
    BY <1>1 DEF Job
  <2>3. step[1] # "idle" /\ step[2] # "encrypt"
    <3>1. CASE step = <<"announce", "announcing">>
      BY <3>1
    <3>2. CASE step = <<"report", "reporting">>
      BY <3>2
    <3>3. CASE step = <<"excuse", "excusing">>
      BY <3>3
    <3>4. QED
      BY <3>1, <3>2, <3>3
  <2>4. ~At(p, {"idle"})
    BY <2>1, <2>3 DEF At
  <2>5. QED
    BY <1>2, <2>1, <2>2, <2>3, <2>4
<1>5. CASE Announce(p) \/ CloseFile(p) \/ Fail(p) \/ WriteMetadata(p) \/ Upload(p)
  <2>1. PICK ph \in {"prepare", "describe", "excuse", "list", "upload",
                     "upload metadata"} :
          Becomes(p, [job[p] EXCEPT !.phase = ph])
    BY <1>5 DEF Announce, CloseFile, Fail, WriteMetadata, Upload, Goto
  <2> DEFINE j == [job[p] EXCEPT !.phase = ph]
  <2>2. j.phase = ph /\ j.outcome = job[p].outcome
    BY <1>1 DEF Job
  <2>3. ~At(p, {"idle"})
    BY <1>5 DEF Announce, CloseFile, Fail, WriteMetadata, Upload, At, Remote
  <2>4. QED
    BY <1>2, <2>1, <2>2, <2>3
<1>6. CASE Snapshot(p, live)
  <2>1. job'[p] = [job[p] EXCEPT !.phase = "encrypt", !.copy = live]
    BY <1>1, <1>6 DEF Snapshot, Becomes
  <2>2. job'[p].outcome = job[p].outcome /\ job'[p].copy = live
    BY <1>1, <2>1 DEF Job
  <2>3. ~At(p, {"idle"})
    BY <1>6 DEF Snapshot, At
  <2>4. QED
    BY <2>2, <2>3 DEF Outcome
<1>7. CASE DeleteRemote(p) \/ ListRemote(p, clock) \/ ListLocal(p, clock) \/ Prune(p)
  <2>1. PICK ph \in {"delete remote", "list", "prune", "report"}, doomed \in SUBSET Names :
          Becomes(p, [job[p] EXCEPT !.phase = ph, !.doomed = doomed])
    BY <1>1, <1>7 DEF DeleteRemote, ListRemote, ListLocal, Prune, OnDisk, InBucket, At, Job
  <2> DEFINE j == [job[p] EXCEPT !.phase = ph, !.doomed = doomed]
  <2>2. j.phase = ph /\ j.outcome = job[p].outcome
    BY <1>1 DEF Job
  <2>3. ~At(p, {"idle"})
    BY <1>7 DEF DeleteRemote, ListRemote, ListLocal, Prune, At
  <2>4. QED
    BY <1>2, <2>1, <2>2, <2>3
<1>8. CASE Prepare(p, clock)
  <2> DEFINE j == [job[p] EXCEPT !.phase = "snapshot", !.name = Len(backups) + 1]
  <2>1. j.phase = "snapshot" /\ j.outcome = job[p].outcome
    BY <1>1 DEF Job
  <2>2. Becomes(p, j) /\ ~At(p, {"idle"})
    BY <1>8 DEF Prepare, At
  <2>3. QED
    BY <1>2, <2>1, <2>2
<1>9. CASE UploadMetadata(p)
  <2>1. PICK step \in {<<"upload metadata", "mark">>, <<"upload again", "list remote">>} :
          At(p, {step[1]}) /\ Goto(p, step[2])
    BY <1>9 DEF UploadMetadata
  <2>2. step[1] # "idle" /\ step[2] # "encrypt"
    <3>1. CASE step = <<"upload metadata", "mark">>
      BY <3>1
    <3>2. CASE step = <<"upload again", "list remote">>
      BY <3>2
    <3>3. QED
      BY <3>1, <3>2
  <2> DEFINE ph == step[2]
             j == [job[p] EXCEPT !.phase = ph]
  <2>3. j.phase = ph /\ j.outcome = job[p].outcome
    BY <1>1 DEF Job
  <2>4. Becomes(p, j) /\ ~At(p, {"idle"})
    BY <2>1, <2>2 DEF Goto, At
  <2>5. QED
    BY <1>2, <2>2, <2>3, <2>4
<1>10. CASE MarkUploaded(p) \/ RemoteFails(p)
  <2>1. CASE MarkUploaded(p)
    <3> DEFINE j == [job[p] EXCEPT !.phase = "upload again", !.metadata = {"r2_uploaded"}]
    <3>1. j.phase = "upload again" /\ j.outcome = job[p].outcome
      BY <1>1 DEF Job
    <3>2. Becomes(p, j) /\ ~At(p, {"idle"})
      BY <2>1 DEF MarkUploaded, At
    <3>3. QED
      BY <1>2, <3>1, <3>2
  <2>2. CASE RemoteFails(p)
    <3>1. PICK said : Becomes(p, [job[p] EXCEPT !.phase = "list", !.metadata = said,
                                                !.doomed = {}])
      BY <2>2 DEF RemoteFails
    <3> DEFINE j == [job[p] EXCEPT !.phase = "list", !.metadata = said, !.doomed = {}]
    <3>2. j.phase = "list" /\ j.outcome = job[p].outcome
      BY <1>1 DEF Job
    <3>3. ~At(p, {"idle"})
      BY <2>2 DEF RemoteFails, Remote, At
    <3>4. QED
      BY <1>2, <3>1, <3>2, <3>3
  <2>3. QED
    BY <1>10, <2>1, <2>2
<1>11. QED
  BY <1>3, <1>4, <1>5, <1>6, <1>7, <1>8, <1>9, <1>10
  DEF Progress, Failure, Ends

(* What is in a backup is settled when its file is closed. *)
LEMMA CopySettled ==
    ASSUME TypeOK, NEW p \in Processes, Progress(p, clock, live) \/ Failure(p),
           NEW n \in Names, ~CloseFile(p)
    PROVE  backups'[n].copy = backups[n].copy
<1>1. /\ backups[n] \in Backup
      /\ n = job[p].name => backups[n] = Mine(p)
      /\ clock \in 0..MaxClock /\ JobTypeOK
  BY NamesAreNumbers DEF TypeOK, JobTypeOK, Mine
<1>2. ASSUME NEW b, Write(p, b), n = job[p].name => b.copy = backups[n].copy
      PROVE  backups'[n].copy = backups[n].copy
  BY <1>1, <1>2 DEF Write, Names
<1>3. CASE Snapshot(p, live)
  <2> DEFINE b == [Mine(p) EXCEPT !.local = "torn"]
  <2>1. n = job[p].name => b.copy = backups[n].copy
    BY <1>1 DEF Backup
  <2>2. QED
    BY <1>2, <1>3, <2>1 DEF Snapshot
<1>4. CASE WriteMetadata(p) \/ MarkUploaded(p) \/ RemoteFails(p)
  <2>1. PICK said : Write(p, [Mine(p) EXCEPT !.metadata = said])
    BY <1>4 DEF WriteMetadata, MarkUploaded, RemoteFails
  <2> DEFINE b == [Mine(p) EXCEPT !.metadata = said]
  <2>2. n = job[p].name => b.copy = backups[n].copy
    BY <1>1 DEF Backup
  <2>3. QED
    BY <1>2, <2>1, <2>2
<1>5. CASE Upload(p)
  <2> DEFINE b == [Mine(p) EXCEPT !.remote = "whole"]
  <2>1. n = job[p].name => b.copy = backups[n].copy
    BY <1>1 DEF Backup
  <2>2. QED
    BY <1>2, <1>5, <2>1 DEF Upload
<1>6. CASE UploadMetadata(p)
  <2> DEFINE b == [Mine(p) EXCEPT !.remote_metadata = Mine(p).metadata]
  <2>1. n = job[p].name => b.copy = backups[n].copy
    BY <1>1 DEF Backup
  <2>2. QED
    BY <1>2, <1>6, <2>1 DEF UploadMetadata
<1>7. CASE Prune(p)
  <2>1. [backups[n] EXCEPT !.local = "deleted", !.metadata = NoMetadata].copy
          = backups[n].copy
    BY <1>1 DEF Backup
  <2>2. QED
    BY <1>7, <2>1 DEF Prune, Names
<1>8. CASE DeleteRemote(p)
  <2>1. [backups[n] EXCEPT !.remote = "deleted", !.remote_metadata = NoMetadata].copy
          = backups[n].copy
    BY <1>1 DEF Backup
  <2>2. QED
    BY <1>8, <2>1 DEF DeleteRemote
<1>9. CASE Prepare(p, clock)
  BY <1>1, <1>9, PrepareStep
<1>10. CASE \/ ReadStatus(p, TRUE) \/ ReadStatus(p, FALSE) \/ Announce(p) \/ Fail(p)
            \/ ListRemote(p, clock) \/ ListLocal(p, clock) \/ AnnounceFails(p)
            \/ Report(p) \/ Excuse(p) \/ ExcuseFails(p)
  BY <1>10 DEF ReadStatus, Announce, Fail, ListRemote, ListLocal,
               AnnounceFails, Report, Excuse, ExcuseFails
<1>11. QED
  BY <1>3, <1>4, <1>5, <1>6, <1>7, <1>8, <1>9, <1>10 DEF Progress, Failure

(* The live database is in a backup that can be restored. *)
Saved == \E n \in Whole : backups[n].copy = live

(* The safety backup holds the live database from its snapshot on. *)
Saving ==
    /\ At(Cli, {"encrypt"}) => job[Cli].copy = live
    /\ At(Cli, WrittenPhases) =>
         job[Cli].name \in Whole /\ backups[job[Cli].name].copy = live
    /\ job[Cli].outcome = "done" => Saved

(* While the script runs and no gateway beside it. *)
Alone == script.phase # "idle" /\ script.beside = {}

Watch ==
    /\ gateway = "down" => At(Gateway, {"idle"})
    /\ Cli \in Processes => At(Cli, {"idle"}) \/ job[Cli].outcome = "none"
    /\ script.phase # "idle" =>
         /\ Cli \in Processes
         /\ At(Cli, {"idle"}) \/ script.phase = "saving"
    /\ Alone =>
         /\ gateway = "down"
         /\ script.phase = "saving" => Saving
         /\ script.phase = "replace" => Saved

RestoreInv == OffsiteInv /\ Watch

LEMMA RestoreTypes ==
    ASSUME RestoreInv, [Next]_vars
    PROVE  /\ TypeOK /\ TypeOK' /\ OffsiteInv /\ OffsiteInv'
           /\ RetentionInv /\ Evolves
           /\ job \in [Processes -> Job] /\ job' \in [Processes -> Job']
           /\ Gateway \in Processes /\ Gateway # Cli
           /\ \A p \in Processes : p = Gateway \/ p = Cli
<1>1. OffsiteInv /\ OffsiteInv'
  BY OffsiteStep DEF RestoreInv, Watch
<1>2. TypeOK /\ TypeOK' /\ RetentionInv /\ Evolves
  BY <1>1, OffsiteTypes
<1>3. /\ Gateway \in Processes /\ Gateway # Cli
      /\ \A p \in Processes : p = Gateway \/ p = Cli
  BY ProcessAssumption
<1>4. QED
  BY <1>1, <1>2, <1>3 DEF TypeOK

(* The copy a job has made is there as long as the job. *)
LEMMA MyCopyStays ==
    ASSUME RestoreInv, [Next]_vars, NEW p \in Processes,
           Progress(p, clock, live) \/ Failure(p), At(p, WrittenPhases),
           NEW n, n = job[p].name, n \in Whole
    PROVE  n \in Whole' /\ backups'[n].copy = backups[n].copy
<1>1. TypeOK /\ RetentionInv /\ OffsiteInv /\ Names \subseteq Names'
  BY RestoreTypes DEF Evolves
<1>2. n \in Names /\ n # 0
  BY <1>1, NamesAreNumbers DEF Whole, TypeOK
<1>3. ~Superseded(n, OnDisk)
  BY <1>1, <1>2 DEF OffsiteInv, Held, Superseded
<1>4. ~At(p, {"snapshot"}) /\ ~At(p, {"encrypt"}) /\ ~CloseFile(p)
  BY DEF At, WrittenPhases, Remote, CloseFile
<1>5. backups'[n].local = backups[n].local
  BY <1>1, <1>2, <1>3, <1>4, LocalChange
<1>6. backups'[n].copy = backups[n].copy
  BY <1>1, <1>2, <1>4, CopySettled
<1>7. QED
  BY <1>1, <1>2, <1>5, <1>6 DEF Whole

(* One step of the safety backup. *)
LEMMA SavingStep ==
    ASSUME RestoreInv, [Next]_vars, Cli \in Processes, Saving,
           Progress(Cli, clock, live) \/ Failure(Cli), live' = live
    PROVE  Saving'
<1>1. TypeOK /\ Outcome(Cli) /\ Change(Cli)
  BY RestoreTypes, JobOutcome, JobChanges
<1>2. At(Cli, {"encrypt"})' => job'[Cli].copy = live
  BY <1>1 DEF Outcome
<1>3. ASSUME At(Cli, WrittenPhases)'
      PROVE  job'[Cli].name \in Whole' /\ backups'[job'[Cli].name].copy = live
  <2> DEFINE n == job[Cli].name
  <2>1. job'[Cli].name = n
    BY <1>1, <1>3 DEF Change
  <2>2. CASE At(Cli, WrittenPhases)
    <3>1. n \in Whole /\ backups[n].copy = live
      BY <2>2 DEF Saving
    <3>2. n \in Whole' /\ backups'[n].copy = live
      BY <2>2, <3>1, MyCopyStays
    <3>3. QED
      BY <2>1, <3>2
  <2>3. CASE CloseFile(Cli)
    <3>1. At(Cli, NamedPhases) /\ job[Cli].copy = live
      BY <2>3 DEF CloseFile, At, NamedPhases, Phases, Saving
    <3>2. n \in Names /\ n # 0
      BY <1>1, <3>1 DEF TypeOK, Job, NameOrNone
    <3>3. Mine(Cli) \in Backup
      BY <1>1, <3>2, NamesAreNumbers DEF TypeOK, Mine
    <3>4. /\ Names' = Names
          /\ backups'[n] = [Mine(Cli) EXCEPT !.local = "whole", !.copy = job[Cli].copy]
      BY <2>3, <3>2 DEF CloseFile, Write, Names
    <3>5. backups'[n].local = "whole" /\ backups'[n].copy = live
      BY <3>1, <3>3, <3>4 DEF Backup
    <3>6. n \in Whole'
      BY <3>2, <3>4, <3>5 DEF Whole
    <3>7. QED
      BY <2>1, <3>5, <3>6
  <2>4. QED
    BY <1>1, <1>3, <2>2, <2>3 DEF Change
<1>4. ASSUME job'[Cli].outcome = "done"
      PROVE  Saved'
  <2>1. job[Cli].outcome = "none"
    BY <1>1 DEF Outcome, RestoreInv, Watch
  <2>2. Report(Cli)
    BY <1>1, <1>4, <2>1 DEF Outcome
  <2>3. At(Cli, WrittenPhases) /\ UNCHANGED backups
    BY <2>2 DEF Report, At, WrittenPhases
  <2>4. Saved
    BY <2>3 DEF Saving, Saved
  <2>5. QED
    BY <2>3, <2>4 DEF Saved, Whole, Names
<1>5. QED
  BY <1>2, <1>3, <1>4 DEF Saving

LEMMA SavingUntouched ==
    ASSUME UNCHANGED <<job, backups, live>>
    PROVE  (Saving => Saving') /\ (Saved => Saved')
BY DEF Saving, Saved, Whole, Names, At

(* The steps of the jobs. *)
LEMMA WatchJobs ==
    ASSUME RestoreInv, [Next]_vars, NEW p \in Processes,
           JobProgresses(p) \/ JobFails(p)
    PROVE  Watch'
<1>1. /\ Progress(p, clock, live) \/ Failure(p)
      /\ UNCHANGED <<gateway, live, script>>
  BY DEF JobProgresses, JobFails
<1>2. Outcome(p) /\ \A q \in Processes \ {p} : job'[q] = job[q]
  BY <1>1, RestoreTypes, JobOutcome, JobChanges
<1>3. gateway = "down" => p # Gateway
  BY <1>2 DEF RestoreInv, Watch, Outcome
<1>4. (gateway = "down" => At(Gateway, {"idle"}))'
  BY <1>1, <1>2, <1>3, RestoreTypes DEF RestoreInv, Watch, At
<1>5. (Cli \in Processes => At(Cli, {"idle"}) \/ job[Cli].outcome = "none")'
  <2>1. CASE p = Cli
    BY <1>2, <2>1 DEF RestoreInv, Watch, Outcome
  <2>2. CASE p # Cli
    BY <1>2, <2>2 DEF RestoreInv, Watch, At
  <2>3. QED
    BY <2>1, <2>2
<1>6. ASSUME script.phase # "idle"
      PROVE  Cli \in Processes /\ (At(Cli, {"idle"})' \/ script.phase = "saving")
  <2>1. Cli \in Processes /\ (At(Cli, {"idle"}) \/ script.phase = "saving")
    BY <1>6 DEF RestoreInv, Watch
  <2>2. CASE p = Cli
    BY <1>2, <2>1, <2>2 DEF Outcome
  <2>3. CASE p # Cli
    BY <1>2, <2>1, <2>3 DEF At
  <2>4. QED
    BY <2>1, <2>2, <2>3
<1>7. ASSUME Alone
      PROVE  /\ gateway = "down"
             /\ script.phase = "saving" => Saving'
             /\ script.phase = "replace" => Saved'
  <2>1. gateway = "down" /\ p = Cli
    BY <1>3, <1>7, RestoreTypes DEF RestoreInv, Watch
  <2>2. script.phase = "saving"
    BY <1>2, <1>7, <2>1 DEF RestoreInv, Watch, Alone, Outcome
  <2>3. Saving
    BY <1>7, <2>2 DEF RestoreInv, Watch
  <2>4. Saving'
    BY <1>1, <2>1, <2>3, SavingStep
  <2>5. QED
    BY <2>1, <2>2, <2>4
<1>8. QED
  BY <1>1, <1>4, <1>5, <1>6, <1>7 DEF Watch, Alone

(* The gateway and the processes come and go. *)
LEMMA WatchProcesses ==
    ASSUME RestoreInv, [Next]_vars,
           \/ GatewayBacksUp \/ CliBacksUp \/ StopGateway \/ GatewayExits
           \/ CrashGateway \/ StartGateway \/ KillCli
    PROVE  Watch'
<1>1. /\ job \in [Processes -> Job]
      /\ Gateway \in Processes /\ Gateway # Cli
      /\ script \in Script
  BY RestoreTypes DEF TypeOK
<1>2. CASE GatewayBacksUp
  <2>1. gateway = "up" /\ ~Alone /\ UNCHANGED <<gateway, script>>
    BY <1>2 DEF GatewayBacksUp, RestoreInv, Watch
  <2>2. job'[Cli] = job[Cli] \/ Cli \notin Processes
    BY <1>1, <1>2 DEF GatewayBacksUp, Acquire, Becomes
  <2>3. QED
    BY <2>1, <2>2 DEF Watch, RestoreInv, Alone, At
<1>3. CASE CliBacksUp
  <2>1. /\ script.phase = "idle" /\ UNCHANGED <<gateway, script>>
        /\ Becomes(Cli, [NoJob("none") EXCEPT !.phase = "announce"])
        /\ Cli \in Processes
    BY <1>3 DEF CliBacksUp, Acquire
  <2>2. job'[Gateway] = job[Gateway] /\ job'[Cli].outcome = "none"
    BY <1>1, <2>1 DEF Becomes, NoJob
  <2>3. QED
    BY <2>1, <2>2 DEF Watch, RestoreInv, Alone, At
<1>4. CASE StopGateway
  <2>1. /\ gateway = "up" /\ gateway' = "stopping" /\ ~Alone
        /\ UNCHANGED <<job, script>>
    BY <1>4 DEF StopGateway, RestoreInv, Watch, jobVars
  <2>2. QED
    BY <2>1 DEF Watch, RestoreInv, Alone, At
<1>5. CASE GatewayExits \/ CrashGateway
  <2>1. gateway # "down" /\ Killed(Gateway) /\ UNCHANGED script
    BY <1>5 DEF GatewayExits, CrashGateway
  <2>2. ~Alone /\ ~Alone'
    BY <2>1 DEF RestoreInv, Watch, Alone
  <2>3. job' = [job EXCEPT ![Gateway] = NoJob("none")]
    BY <1>1, <2>1 DEF Killed, EndJob, Becomes
  <2>4. At(Gateway, {"idle"})' /\ (Cli \in Processes => job'[Cli] = job[Cli])
    BY <1>1, <2>3 DEF At, NoJob
  <2>5. QED
    BY <2>1, <2>2, <2>4 DEF Watch, RestoreInv, At
<1>6. CASE StartGateway
  <2>1. gateway' = "up" /\ UNCHANGED job
    BY <1>6 DEF StartGateway, jobVars
  <2>2. script'.phase = script.phase
    BY <1>1, <1>6 DEF StartGateway, Script
  <2>3. script.phase # "idle" => "started" \in script'.beside
    BY <1>1, <1>6 DEF StartGateway, Script
  <2>4. ~Alone'
    BY <2>2, <2>3 DEF Alone
  <2>5. QED
    BY <2>1, <2>2, <2>4 DEF Watch, RestoreInv, At
<1>7. CASE KillCli
  <2>1. /\ Cli \in Processes /\ Killed(Cli) /\ ~At(Cli, {"idle"})
        /\ UNCHANGED <<gateway, script, live, backups>>
    BY <1>7 DEF KillCli, Killed
  <2>2. job' = [job EXCEPT ![Cli] = NoJob("failed")]
    BY <2>1 DEF Killed, EndJob, Becomes
  <2>3. /\ job'[Gateway] = job[Gateway] /\ At(Cli, {"idle"})'
        /\ job'[Cli].outcome = "failed"
    BY <1>1, <2>1, <2>2 DEF At, NoJob
  <2>4. Saving'
    BY <2>3 DEF Saving, At, WrittenPhases, Remote
  <2>5. script.phase # "replace"
    BY <2>1 DEF RestoreInv, Watch
  <2>6. QED
    BY <2>1, <2>3, <2>4, <2>5 DEF Watch, RestoreInv, Alone, At
<1>8. QED
  BY <1>2, <1>3, <1>4, <1>5, <1>6, <1>7

(* The script. *)
LEMMA WatchScript ==
    ASSUME RestoreInv, [Next]_vars,
           \/ \E n \in Names : BeginRestore(n)
           \/ Verify \/ SafetyBackup \/ SafetyBackupEnds
           \/ Replace \/ ReplaceImpossible \/ ScriptAborted
    PROVE  Watch'
<1>1. /\ job \in [Processes -> Job]
      /\ Gateway \in Processes /\ Gateway # Cli
      /\ script \in Script /\ gateway \in {"up", "stopping", "down"}
  BY RestoreTypes DEF TypeOK
<1>2. ASSUME script' = NoScript, UNCHANGED <<job, gateway>> PROVE Watch'
  BY <1>2 DEF Watch, RestoreInv, NoScript, Alone, At
<1>3. ASSUME NEW n, BeginRestore(n) PROVE Watch'
  <2>1. /\ script' = [phase |-> "verify", backup |-> n,
                      beside |-> {"stopping"} \cap {gateway}]
        /\ gateway # "up" /\ Cli \in Processes /\ At(Cli, {"idle"})
        /\ UNCHANGED <<job, gateway>>
    BY <1>3 DEF BeginRestore, jobVars
  <2>2. script'.phase = "verify"
    BY <2>1
  <2>3. script'.beside = {} => gateway = "down"
    BY <1>1, <2>1
  <2>4. QED
    BY <2>1, <2>2, <2>3 DEF Watch, RestoreInv, Alone, At
<1>4. ASSUME NEW phase \in {"save", "replace"}, ScriptGoes(phase),
             script.phase \notin {"idle"}, Cli \in Processes => At(Cli, {"idle"}),
             phase = "replace" /\ Alone => Saved,
             UNCHANGED <<job, backups, live, gateway>>
      PROVE  Watch'
  <2>1. script'.phase = phase /\ script'.beside = script.beside
    BY <1>1, <1>4 DEF ScriptGoes, Script
  <2>2. Alone' => Alone
    BY <1>4, <2>1 DEF Alone
  <2>3. phase = "replace" /\ Alone => Saved'
    BY <1>4, SavingUntouched
  <2>4. Alone' => /\ gateway' = "down"
                  /\ script'.phase = "replace" => Saved'
                  /\ script'.phase # "saving"
    BY <1>4, <2>1, <2>2, <2>3 DEF RestoreInv, Watch
  <2>5. QED
    BY <1>4, <2>1, <2>4 DEF Watch, RestoreInv, At
<1>5. CASE Verify
  <2>1. /\ script.phase = "verify" /\ UNCHANGED <<job, backups, live, gateway>>
        /\ ScriptGoes("save") \/ script' = NoScript
    BY <1>5 DEF Verify, ScriptEnds, jobVars
  <2>2. Cli \in Processes => At(Cli, {"idle"})
    BY <2>1 DEF RestoreInv, Watch
  <2>3. QED
    BY <1>2, <1>4, <2>1, <2>2
<1>6. CASE SafetyBackup
  <2>1. /\ script.phase = "save" /\ ScriptGoes("saving") /\ UNCHANGED gateway
        /\ Becomes(Cli, [NoJob("none") EXCEPT !.phase = "announce"])
    BY <1>6 DEF SafetyBackup, Acquire
  <2>2. Cli \in Processes
    BY <2>1 DEF RestoreInv, Watch
  <2>3. script'.phase = "saving" /\ script'.beside = script.beside
    BY <1>1, <2>1 DEF ScriptGoes, Script
  <2>4. /\ job'[Cli].phase = "announce" /\ job'[Cli].outcome = "none"
        /\ job'[Gateway] = job[Gateway]
    BY <1>1, <2>1, <2>2 DEF Becomes, NoJob
  <2>5. Saving'
    BY <2>4 DEF Saving, At, WrittenPhases, Remote
  <2>6. QED
    BY <2>1, <2>2, <2>3, <2>4, <2>5 DEF Watch, RestoreInv, Alone, At
<1>7. CASE SafetyBackupEnds
  <2>1. /\ script.phase = "saving" /\ UNCHANGED <<job, backups, live, gateway>>
        /\ \/ job[Cli].outcome = "done" /\ ScriptGoes("replace")
           \/ job[Cli].outcome = "failed" /\ script' = NoScript
    BY <1>7 DEF SafetyBackupEnds, ScriptEnds, jobVars
  <2>2. CASE job[Cli].outcome = "done" /\ ScriptGoes("replace")
    <3>1. Cli \in Processes => At(Cli, {"idle"})
      BY <2>2 DEF RestoreInv, Watch
    <3>2. Alone => Saved
      BY <2>1, <2>2 DEF RestoreInv, Watch, Saving
    <3>3. QED
      BY <1>4, <2>1, <2>2, <3>1, <3>2
  <2>3. QED
    BY <1>2, <2>1, <2>2
<1>8. CASE Replace \/ ReplaceImpossible \/ ScriptAborted
  BY <1>2, <1>8 DEF Replace, ReplaceImpossible, ScriptAborted, ScriptEnds, jobVars
<1>9. QED
  BY <1>3, <1>5, <1>6, <1>7, <1>8

LEMMA RestoreStep == RestoreInv /\ [Next]_vars => RestoreInv'
<1> SUFFICES ASSUME RestoreInv, [Next]_vars PROVE RestoreInv'
  OBVIOUS
<1>1. OffsiteInv'
  BY RestoreTypes
<1>2. ASSUME UNCHANGED <<job, backups, live, gateway, script>> PROVE Watch'
  <2>1. (Saving => Saving') /\ (Saved => Saved')
    BY <1>2, SavingUntouched
  <2>2. QED
    BY <1>2, <2>1 DEF RestoreInv, Watch, Alone, At
<1>3. ASSUME Tick \/ UNCHANGED vars PROVE Watch'
  <2>1. UNCHANGED <<job, backups, live, gateway, script>>
    BY <1>3 DEF Tick, vars, jobVars
  <2>2. QED
    BY <1>2, <2>1
<1>4. ASSUME ServeWrite PROVE Watch'
  <2>1. gateway # "down" /\ UNCHANGED <<job, gateway, script>>
    BY <1>4 DEF ServeWrite, jobVars
  <2>2. ~Alone'
    BY <2>1 DEF RestoreInv, Watch, Alone
  <2>3. QED
    BY <2>1, <2>2 DEF RestoreInv, Watch, At
<1>5. Watch'
  BY <1>3, <1>4, WatchJobs, WatchProcesses, WatchScript DEF Next
<1>6. QED
  BY <1>1, <1>5 DEF RestoreInv, Watch

LEMMA RestoreInit == Init => RestoreInv
<1> SUFFICES ASSUME Init PROVE RestoreInv
  OBVIOUS
<1>1. OffsiteInv
  BY OffsiteInit
<1>2. /\ script.phase = "idle" /\ gateway = "up"
      /\ Cli \in Processes => At(Cli, {"idle"})
  BY DEF Init, NoScript, JobInit, NoJob, At
<1>3. QED
  BY <1>1, <1>2 DEF RestoreInv, Watch, Alone

(* The restore script does not discard a version of the database that no
   backup holds while no gateway runs beside it: the safety backup it waits
   for holds that version and is whole when the database is replaced. *)
THEOREM NothingLost == Spec => NothingLostUnobserved
<1>1. RestoreInv /\ [Next]_vars =>
        [Replace /\ script.beside = {} => \E n \in Whole : backups[n].copy = live]_vars
  BY DEF RestoreInv, Watch, Alone, Replace, Saved
<1>2. QED
  BY <1>1, RestoreInit, RestoreStep, PTL DEF Spec, NothingLostUnobserved
=============================================================================
