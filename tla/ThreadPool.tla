---------------------------- MODULE ThreadPool ----------------------------
(***************************************************************************)
(* The executor behind asyncio.to_thread, from how the gateway uses it:    *)
(* database statements, analyses, the receiving and the joining of market  *)
(* processes all share its threads.  Work waits in order of submission.    *)
(* The coroutine that awaits a piece of work can give up: work that still  *)
(* waits is dropped, work that has begun goes on in its thread.            *)
(***************************************************************************)
EXTENDS Integers, Sequences, FiniteSets

CONSTANTS Runs,      (* the runs that submit work                          *)
          MaxThreads (* max_workers of the executor                        *)

ASSUME PoolAssumption == MaxThreads \in Nat \ {0}

VARIABLES backlog, (* work no thread has begun, in order                   *)
          running  (* work that occupies a thread                          *)

poolVars == <<backlog, running>>

Operations == {"analyze", "receive", "join", "insert", "purge"}
Work == [run : Runs, op : Operations]
Job(r, op) == [run |-> r, op |-> op]

PoolInit == backlog = <<>> /\ running = {}

Submit(job) ==
    /\ backlog' = Append(backlog, job)
    /\ UNCHANGED running

(* A thread that is free begins the oldest piece of work. *)
BeginWork ==
    /\ backlog # <<>>
    /\ Cardinality(running) < MaxThreads
    /\ running' = running \cup {Head(backlog)}
    /\ backlog' = Tail(backlog)

Finish(job) ==
    /\ job \in running
    /\ running' = running \ {job}
    /\ UNCHANGED backlog

(* Work is done, and the coroutine that awaited it submits the next. *)
FinishAndSubmit(job, next) ==
    /\ job \in running
    /\ running' = running \ {job}
    /\ backlog' = Append(backlog, next)

(* The coroutine gives up on work and submits other work. *)
AbandonAndSubmit(job, next) ==
    /\ \/ /\ job \in running
          /\ backlog' = Append(backlog, next)
       \/ \E i \in DOMAIN backlog :
             /\ backlog[i] = job
             /\ backlog' = SubSeq(backlog, 1, i - 1)
                              \o SubSeq(backlog, i + 1, Len(backlog)) \o <<next>>
    /\ UNCHANGED running
=============================================================================
