----------------------------- MODULE DomainRuns -----------------------------
(***************************************************************************)
(* Domain runs: the _execute() functions of src/gateway/routes/legal.py,   *)
(* financial.py and market.py and run_agent() of agents.py, the killable   *)
(* processes of the market analyzers, and the audit row and the hourly     *)
(* purge of src/gateway/domain_runtime.py.                                 *)
(*                                                                         *)
(* A run reads and validates its input, has it analyzed, writes one row    *)
(* and answers.  Legal and financial analyses run in a thread, market      *)
(* analyses in a process that a thread listens to; database statements     *)
(* need a thread of the same pool.  Which of these a run asks for, and by  *)
(* which route, is left open.  The semaphore of the market processes  *)
(* is taken as the SlotQueue that module Inference shows a semaphore to be.*)
(*                                                                         *)
(* A thread and the coroutine that awaits it go on in one step.  The rows  *)
(* a purge deletes are a day old at least, older than any run here, and    *)
(* are left out, like all the contents of inputs, results and rows.        *)
(***************************************************************************)
EXTENDS ThreadPool

CONSTANTS MarketSlots,  (* MARKET_PROCESS_CAPACITY                         *)
          Interval,     (* DOMAIN_AUDIT_PURGE_INTERVAL_SECONDS, in ticks   *)
          MaxClock      (* bound on the clock                              *)

ASSUME DomainAssumption ==
    /\ MarketSlots \in Nat \ {0}
    /\ Interval \in Nat \ {0}
    /\ MaxClock \in Nat

VARIABLES stage,     (* where each run is                                  *)
          outcome,   (* the status it is going to record                   *)
          row,       (* the status in its row of domain_runs               *)
          reply,     (* the status its client got                          *)
          late,      (* the runs whose deadline for a process has passed   *)
          owners,    (* market runs that have a slot                       *)
          line,      (* market runs that wait for one                      *)
          leaked,    (* history: runs that ended without giving it back    *)
          worker,    (* the process of each market run                     *)
          sent,      (* what is in the pipe from it                        *)
          clock,     (* time.monotonic()                                   *)
          lastPurge, (* _last_domain_audit_purge                           *)
          gate,      (* _domain_audit_purge_lock: the `now` of its holder  *)
          purges,    (* history: the times of the purges                   *)
          recorded   (* history: when each run looked whether one is due   *)

runVars == <<stage, outcome, row, reply>>
slotVars == <<owners, line, leaked>>
workerVars == <<worker, sent>>
purgeVars == <<lastPurge, gate, purges, recorded>>
vars == <<poolVars, runVars, slotVars, workerVars, purgeVars, late, clock>>

Pending == "pending"  (* no row yet, no reply yet                          *)
Statuses == {"ok", "refused", "timeout", "error"}
Unlocked == -1

ProcessSlots == INSTANCE SlotQueue
    WITH Requests <- Runs, MaxConcurrent <- MarketSlots

Stages == {"new", "reading", "analyzing", "waiting", "receiving", "joining",
           "rejoining", "recording", "purge due", "purging", "done"}

Init ==
    /\ PoolInit
    /\ ProcessSlots!QueueInit
    /\ leaked = {}
    /\ stage = [r \in Runs |-> "new"]
    /\ outcome = [r \in Runs |-> Pending]
    /\ row = [r \in Runs |-> Pending]
    /\ reply = [r \in Runs |-> Pending]
    /\ late = {}
    /\ worker = [r \in Runs |-> "none"]
    /\ sent = [r \in Runs |-> Pending]
    /\ clock \in {0, Interval}   \* the machine may have been up for long
    /\ lastPurge = 0
    /\ gate = Unlocked
    /\ purges = <<>>
    /\ recorded = [r \in Runs |-> 0]

Move(r, from, to) ==
    /\ stage[r] = from
    /\ stage' = [stage EXCEPT ![r] = to]

(* record_domain_run() comes next, with this status. *)
GoRecord(r, from, status) ==
    /\ Move(r, from, "recording")
    /\ outcome' = [outcome EXCEPT ![r] = status]
    /\ UNCHANGED <<row, reply>>

Answer(r, status) == reply' = [reply EXCEPT ![r] = status]

-----------------------------------------------------------------------------
(* Reading and validating. *)

(* The limiter has let the run in and its clock starts. *)
Begin(r) ==
    /\ Move(r, "new", "reading")
    /\ UNCHANGED <<poolVars, slotVars, workerVars, purgeVars, outcome, row,
                   reply, late, clock>>

(* The body, the privacy check, the schema or the agent's name. *)
Refuse(r) ==
    /\ GoRecord(r, "reading", "refused")
    /\ Submit(Job(r, "insert"))
    /\ UNCHANGED <<slotVars, workerVars, purgeVars, late, clock>>

(* The client goes away while its body is read, or another exception that is
   neither of validation nor of HTTP.  run_agent() does not catch it here,
   and leaves without a row. *)
BodyLost(r) ==
    /\ \/ /\ GoRecord(r, "reading", "error")
          /\ Submit(Job(r, "insert"))
       \/ /\ Move(r, "reading", "done")
          /\ Answer(r, "error")
          /\ UNCHANGED <<poolVars, outcome, row>>
    /\ UNCHANGED <<slotVars, workerVars, purgeVars, late, clock>>

-----------------------------------------------------------------------------
(* Legal and financial analyses: a thread, and a timeout on waiting for it. *)

Analyze(r) ==
    /\ Move(r, "reading", "analyzing")
    /\ Submit(Job(r, "analyze"))
    /\ UNCHANGED <<slotVars, workerVars, purgeVars, outcome, row, reply, late, clock>>

AnalysisEnds(r) ==
    /\ \E status \in {"ok", "error"} : GoRecord(r, "analyzing", status)
    /\ FinishAndSubmit(Job(r, "analyze"), Job(r, "insert"))
    /\ UNCHANGED <<slotVars, workerVars, purgeVars, late, clock>>

AnalysisTimesOut(r) ==
    /\ GoRecord(r, "analyzing", "timeout")
    /\ AbandonAndSubmit(Job(r, "analyze"), Job(r, "insert"))
    /\ UNCHANGED <<slotVars, workerVars, purgeVars, late, clock>>

(* An analysis nobody waits for ends; its result is dropped. *)
AbandonedAnalysisEnds(r) ==
    /\ stage[r] # "analyzing"
    /\ Finish(Job(r, "analyze"))
    /\ UNCHANGED <<runVars, slotVars, workerVars, purgeVars, late, clock>>

-----------------------------------------------------------------------------
(* Market analyses: _run_in_killable_process(). *)

AskSlot(r) ==
    /\ IF r \in late
       THEN /\ GoRecord(r, "reading", "timeout")
            /\ Submit(Job(r, "insert"))
            /\ UNCHANGED slotVars
       ELSE /\ Move(r, "reading", "waiting")
            /\ ProcessSlots!Arrive(r)
            /\ UNCHANGED <<poolVars, outcome, row, reply, leaked>>
    /\ UNCHANGED <<workerVars, purgeVars, late, clock>>

(* The event loop runs the first of those that wait for a slot. *)
SlotServed ==
    /\ ProcessSlots!ServeFirst
    /\ UNCHANGED <<poolVars, runVars, leaked, workerVars, purgeVars, late, clock>>

(* A slot that came with the deadline is handed on. *)
WaitTimesOut(r) ==
    /\ r \in late
    /\ GoRecord(r, "waiting", "timeout")
    /\ IF r \in owners THEN ProcessSlots!Depart(r) ELSE ProcessSlots!GiveUp(r)
    /\ Submit(Job(r, "insert"))
    /\ UNCHANGED <<leaked, workerVars, purgeVars, late, clock>>

(* Mutant: the slot is released only when there is a process to clean up. *)
PipeFailsKeepingSlot(r) ==
    /\ r \in owners
    /\ GoRecord(r, "waiting", "error")
    /\ Submit(Job(r, "insert"))
    /\ UNCHANGED <<slotVars, workerVars, purgeVars, late, clock>>

(* Pipe() fails: there is no process yet, only the slot to give back. *)
PipeFails(r) ==
    /\ r \in owners
    /\ GoRecord(r, "waiting", "error")
    /\ ProcessSlots!Depart(r)
    /\ Submit(Job(r, "insert"))
    /\ UNCHANGED <<leaked, workerVars, purgeVars, late, clock>>

(* Mutant: it is only killed, after a join that has to find a thread. *)
LeftToBeKilled(process) == process

(* The finally clause terminates a process that is still alive. *)
Terminated(process) == IF process = "alive" THEN "told" ELSE process

(* Towards the finally clause: the run will record `status`, unless the
   clause itself fails. *)
CleanUp(r, from, status, process) ==
    /\ Move(r, from, "joining")
    /\ outcome' = [outcome EXCEPT ![r] = status]
    /\ worker' = [worker EXCEPT ![r] = Terminated(process)]
    /\ UNCHANGED <<row, reply>>

StartWorker(r) ==
    /\ r \in owners
    /\ IF r \in late
       THEN /\ CleanUp(r, "waiting", "timeout", "alive")
            /\ Submit(Job(r, "join"))
       ELSE /\ Move(r, "waiting", "receiving")
            /\ worker' = [worker EXCEPT ![r] = "alive"]
            /\ Submit(Job(r, "receive"))
            /\ UNCHANGED <<outcome, row, reply>>
    /\ UNCHANGED <<slotVars, sent, purgeVars, late, clock>>

(* start() raises: the clean-up joins a process that was never started. *)
StartFails(r) ==
    /\ r \in owners
    /\ CleanUp(r, "waiting", "error", "unstarted")
    /\ Submit(Job(r, "join"))
    /\ UNCHANGED <<slotVars, sent, purgeVars, late, clock>>

(* The worker sends its result, or that it failed. *)
WorkerAnswers(r) ==
    /\ worker[r] = "alive"
    /\ sent[r] = Pending
    /\ \E status \in {"ok", "error"} : sent' = [sent EXCEPT ![r] = status]
    /\ UNCHANGED <<poolVars, runVars, slotVars, worker, purgeVars, late, clock>>

(* The worker is through, told to go, or killed by the system. *)
WorkerExits(r) ==
    /\ worker[r] \in {"alive", "told"}
    /\ worker' = [worker EXCEPT ![r] = "dead"]
    /\ UNCHANGED <<poolVars, runVars, slotVars, sent, purgeVars, late, clock>>

(* recv() returns, or finds the end of the file. *)
PipeReadable(r) == sent[r] # Pending \/ worker[r] = "dead"

(* A result can be too large or unreadable. *)
ReceiveEnds(r) ==
    /\ PipeReadable(r)
    /\ sent' = [sent EXCEPT ![r] = Pending]
    /\ \E status \in {"error", sent[r]} \ {Pending} :
          CleanUp(r, "receiving", status, worker[r])
    /\ FinishAndSubmit(Job(r, "receive"), Job(r, "join"))
    /\ UNCHANGED <<slotVars, purgeVars, late, clock>>

(* Mutant: the deadline only ends the waiting, and the worker goes on. *)
ReceiveStopsWaiting(r) ==
    /\ r \in late
    /\ GoRecord(r, "receiving", "timeout")
    /\ ProcessSlots!Depart(r)
    /\ AbandonAndSubmit(Job(r, "receive"), Job(r, "insert"))
    /\ UNCHANGED <<leaked, workerVars, purgeVars, late, clock>>

(* The thread of recv() is left behind; it ends when the worker does. *)
ReceiveTimesOut(r) ==
    /\ r \in late
    /\ CleanUp(r, "receiving", "timeout", worker[r])
    /\ AbandonAndSubmit(Job(r, "receive"), Job(r, "join"))
    /\ UNCHANGED <<slotVars, sent, purgeVars, late, clock>>

AbandonedReceiveEnds(r) ==
    /\ stage[r] # "receiving"
    /\ PipeReadable(r)
    /\ sent' = [sent EXCEPT ![r] = Pending]
    /\ Finish(Job(r, "receive"))
    /\ UNCHANGED <<runVars, slotVars, worker, purgeVars, late, clock>>

(* close() succeeds and the slot is released. *)
CleanedUp(r, from) ==
    /\ worker[r] = "dead"
    /\ GoRecord(r, from, outcome[r])
    /\ ProcessSlots!Depart(r)
    /\ UNCHANGED leaked

(* The clause fails before its last line: AssertionError of join(), or
   ValueError of close() for a process that is still alive. *)
CleanUpFails(r, from) ==
    /\ GoRecord(r, from, "error")
    /\ leaked' = leaked \cup {r}
    /\ UNCHANGED <<owners, line>>

(* Mutant: the slot is released although the process has not ended. *)
JoinEndsEarly(r) ==
    /\ FinishAndSubmit(Job(r, "join"), Job(r, "insert"))
    /\ \/ /\ worker[r] # "unstarted"
          /\ GoRecord(r, "joining", outcome[r])
          /\ ProcessSlots!Depart(r)
          /\ UNCHANGED leaked
       \/ worker[r] = "unstarted" /\ CleanUpFails(r, "joining")
    /\ UNCHANGED <<workerVars, purgeVars, late, clock>>

(* join(1.0) returns; whoever is alive after the second is killed. *)
JoinEnds(r) ==
    /\ \/ /\ FinishAndSubmit(Job(r, "join"), Job(r, "insert"))
          /\ \/ CleanedUp(r, "joining")
             \/ worker[r] = "unstarted" /\ CleanUpFails(r, "joining")
          /\ UNCHANGED worker
       \/ /\ worker[r] \in {"alive", "told"}
          /\ Move(r, "joining", "rejoining")
          /\ worker' = [worker EXCEPT ![r] = "told"]
          /\ FinishAndSubmit(Job(r, "join"), Job(r, "join"))
          /\ UNCHANGED <<outcome, row, reply, slotVars>>
    /\ UNCHANGED <<sent, purgeVars, late, clock>>

RejoinEnds(r) ==
    /\ FinishAndSubmit(Job(r, "join"), Job(r, "insert"))
    /\ \/ CleanedUp(r, "rejoining")
       \/ worker[r] = "told" /\ CleanUpFails(r, "rejoining")
    /\ UNCHANGED <<workerVars, purgeVars, late, clock>>

-----------------------------------------------------------------------------
(* The audit row and the purge. *)

PurgeDue == clock - lastPurge >= Interval

(* The run answers: its result, or the exception it recorded. *)
Close(r, from) ==
    /\ Move(r, from, "done")
    /\ Answer(r, outcome[r])

RowInserted(r) ==
    /\ Finish(Job(r, "insert"))
    /\ row' = [row EXCEPT ![r] = outcome[r]]
    /\ recorded' = [recorded EXCEPT ![r] = clock]
    /\ IF PurgeDue
       THEN Move(r, "recording", "purge due") /\ UNCHANGED reply
       ELSE Close(r, "recording")
    /\ UNCHANGED <<outcome, slotVars, workerVars, lastPurge, gate, purges, late, clock>>

(* Mutant: a row that cannot be written is not the caller's business. *)
InsertFailsSilently(r) ==
    /\ Close(r, "recording")
    /\ Finish(Job(r, "insert"))
    /\ UNCHANGED <<outcome, row, slotVars, workerVars, purgeVars, late, clock>>

(* The exception of the statement replaces the reply. *)
InsertFails(r) ==
    /\ Move(r, "recording", "done")
    /\ Answer(r, "error")
    /\ Finish(Job(r, "insert"))
    /\ UNCHANGED <<outcome, row, slotVars, workerVars, purgeVars, late, clock>>

(* Mutant: the holder of the lock does not look again. *)
EnterGateUnchecked(r) ==
    /\ gate = Unlocked
    /\ Move(r, "purge due", "purging")
    /\ gate' = clock
    /\ Submit(Job(r, "purge"))
    /\ UNCHANGED <<outcome, row, reply, slotVars, workerVars, lastPurge, purges,
                   recorded, late, clock>>

(* With the lock, the run looks again whether the purge is still due. *)
EnterGate(r) ==
    /\ gate = Unlocked
    /\ \/ /\ PurgeDue
          /\ Move(r, "purge due", "purging")
          /\ gate' = clock
          /\ Submit(Job(r, "purge"))
          /\ UNCHANGED reply
       \/ /\ ~PurgeDue
          /\ Close(r, "purge due")
          /\ UNCHANGED <<poolVars, gate>>
    /\ UNCHANGED <<outcome, row, slotVars, workerVars, lastPurge, purges, recorded,
                   late, clock>>

(* Mutant: the lock's owner is forgotten before its time is noted. *)
RowsDeletedUnlockedFirst(r) ==
    /\ Close(r, "purging")
    /\ Finish(Job(r, "purge"))
    /\ gate' = Unlocked
    /\ lastPurge' = gate'
    /\ UNCHANGED <<outcome, row, slotVars, workerVars, purges, recorded, late, clock>>

RowsDeleted(r) ==
    /\ Close(r, "purging")
    /\ Finish(Job(r, "purge"))
    /\ lastPurge' = gate
    /\ purges' = Append(purges, gate)
    /\ gate' = Unlocked
    /\ UNCHANGED <<outcome, row, slotVars, workerVars, recorded, late, clock>>

(* Mutant: a failed deletion is logged and counts as done. *)
DeleteFailsSilently(r) ==
    /\ Close(r, "purging")
    /\ Finish(Job(r, "purge"))
    /\ lastPurge' = gate
    /\ gate' = Unlocked
    /\ UNCHANGED <<outcome, row, slotVars, workerVars, purges, recorded, late, clock>>

(* The lock is released and the next run will try; this one has its row, and
   its caller an error. *)
DeleteFails(r) ==
    /\ Move(r, "purging", "done")
    /\ Answer(r, "error")
    /\ Finish(Job(r, "purge"))
    /\ gate' = Unlocked
    /\ UNCHANGED <<outcome, row, slotVars, workerVars, lastPurge, purges, recorded,
                   late, clock>>

-----------------------------------------------------------------------------
(* The deadline of a market run; nothing looks at it once the clean-up began. *)
DeadlinePasses(r) ==
    /\ stage[r] \in {"reading", "waiting", "receiving"}
    /\ late' = late \cup {r}
    /\ UNCHANGED <<poolVars, runVars, slotVars, workerVars, purgeVars, clock>>

Tick ==
    /\ clock < MaxClock
    /\ clock' = clock + 1
    /\ UNCHANGED <<poolVars, runVars, slotVars, workerVars, purgeVars, late>>

PoolBegins ==
    /\ BeginWork
    /\ UNCHANGED <<runVars, slotVars, workerVars, purgeVars, late, clock>>

MarketNext(r) ==
    \/ AskSlot(r) \/ WaitTimesOut(r) \/ PipeFails(r) \/ StartWorker(r) \/ StartFails(r)
    \/ WorkerAnswers(r) \/ WorkerExits(r) \/ DeadlinePasses(r)
    \/ ReceiveEnds(r) \/ ReceiveTimesOut(r) \/ AbandonedReceiveEnds(r)
    \/ JoinEnds(r) \/ RejoinEnds(r)

RunNext(r) ==
    \/ Begin(r) \/ Refuse(r) \/ BodyLost(r)
    \/ Analyze(r) \/ AnalysisEnds(r) \/ AnalysisTimesOut(r) \/ AbandonedAnalysisEnds(r)
    \/ RowInserted(r) \/ InsertFails(r) \/ EnterGate(r) \/ RowsDeleted(r) \/ DeleteFails(r)

Next ==
    \/ \E r \in Runs : RunNext(r) \/ MarketNext(r)
    \/ PoolBegins \/ SlotServed \/ Tick

Spec == Init /\ [][Next]_vars

(* Threads begin waiting work; statements, analyses and the second of join()
   end; the timers of asyncio fire and the event loop runs what is ready.  A
   process that was told to go goes: its worker does not handle SIGTERM.  A
   market analyzer need not end, nor a client ever send its body. *)
Fairness ==
    /\ WF_vars(PoolBegins) /\ WF_vars(SlotServed)
    /\ \A r \in Runs :
        /\ WF_vars(AnalysisEnds(r) \/ AnalysisTimesOut(r))
        /\ WF_vars(AbandonedAnalysisEnds(r))
        /\ WF_vars(RowInserted(r) \/ InsertFails(r))
        /\ WF_vars(EnterGate(r))
        /\ WF_vars(RowsDeleted(r) \/ DeleteFails(r))
        /\ WF_vars(DeadlinePasses(r))
        /\ WF_vars(WaitTimesOut(r))
        /\ WF_vars(PipeFails(r) \/ StartWorker(r) \/ StartFails(r))
        /\ WF_vars(worker[r] = "told" /\ WorkerExits(r))
        /\ WF_vars(ReceiveEnds(r)) /\ WF_vars(ReceiveTimesOut(r))
        /\ WF_vars(AbandonedReceiveEnds(r))
        /\ WF_vars(JoinEnds(r)) /\ WF_vars(RejoinEnds(r))

FairSpec == Spec /\ Fairness

-----------------------------------------------------------------------------
TypeOK ==
    /\ backlog \in Seq(Work)
    /\ running \in SUBSET Work
    /\ stage \in [Runs -> Stages]
    /\ outcome \in [Runs -> Statuses \cup {Pending}]
    /\ row \in [Runs -> Statuses \cup {Pending}]
    /\ reply \in [Runs -> Statuses \cup {Pending}]
    /\ late \in SUBSET Runs
    /\ owners \in SUBSET Runs
    /\ line \in Seq(Runs)
    /\ leaked \in SUBSET Runs
    /\ worker \in [Runs -> {"none", "unstarted", "alive", "told", "dead"}]
    /\ sent \in [Runs -> {"ok", "error", Pending}]
    /\ clock \in Nat
    /\ lastPurge \in Nat
    /\ gate \in Nat \cup {Unlocked}
    /\ purges \in Seq(Nat)
    /\ recorded \in [Runs -> Nat]

Processes == {r \in Runs : worker[r] \in {"alive", "told"}}

(* MARKET-APIS.md says how many market processes a gateway has at once.  The
   promise needs every process to be joined before its slot is released, on
   every way out of _run_in_killable_process(), and a process that outlives
   its kill() to keep the slot. *)
ProcessesBounded == Cardinality(Processes) <= MarketSlots

(* Every slot is held by a run inside the try of _run_in_killable_process(),
   or by one whose clean-up failed before release().  The second kind is
   gone for good: the code has no other way to give it back.  Without a
   failing start() and without a process that outlives its kill() there is
   none. *)
SlotsExplained ==
    \A r \in owners :
       \/ stage[r] \in {"waiting", "receiving", "joining", "rejoining"}
       \/ r \in leaked

(* A row of domain_runs says what the caller was told, unless an exception of
   the record or of the purge replaced the reply by an error; a caller that
   is told anything but an error has a row. *)
AuditTruthful ==
    \A r \in Runs : stage[r] = "done" => reply[r] \in {row[r], "error"}

(* Two purges are never closer than the interval, however many runs find the
   purge due at once and whatever deletions fail in between. *)
PurgesSpaced ==
    \A i \in 1..(Len(purges) - 1) : purges[i + 1] - purges[i] >= Interval

LatestPurge == IF purges = <<>> THEN 0 ELSE purges[Len(purges)]

(* A run that answers with what it recorded has seen to the purge: the last
   that succeeded is less than an interval older than its row.  (An error may
   be the failure of the purge, to be repeated by the next run.) *)
PurgeNotOverdue ==
    \A r \in Runs :
       stage[r] = "done" /\ reply[r] # "error" /\ reply[r] = row[r]
         => recorded[r] - LatestPurge < Interval

(* MARKET-APIS.md says that a deadline terminates the worker.  An analyzer
   that hangs is ended even when every thread of the pool is taken by those
   that wait for analyzers. *)
DeadlineEndsWorker ==
    \A r \in Runs : (r \in late /\ worker[r] = "alive") ~> worker[r] = "dead"

(* A run that has its input answers, whatever hangs, fails or times out, and
   although analyses left behind share the threads with the database. *)
EveryRunEnds ==
    \A r \in Runs : stage[r] \notin {"new", "reading", "done"} ~> stage[r] = "done"
=============================================================================
