----------------------------- MODULE Inference -----------------------------
(***************************************************************************)
(* Requests for inference: forward() of src/gateway/upstream.py, for the   *)
(* JSON requests (the task of the handler) and for the streams (the        *)
(* generator relay(), run by Starlette's StreamingResponse), with the row  *)
(* of usage_log each of them writes and the slot it holds meanwhile.       *)
(*                                                                         *)
(* Only a stream is cancelled when its client goes away: in acquire(), in  *)
(* a read from the model, in record_usage, or while a chunk is being sent, *)
(* when the generator sits at its yield and is finalised only later.  A    *)
(* write to the database can fail, and the write of a task that is already *)
(* cancelled may or may not get through.                                   *)
(***************************************************************************)
EXTENDS RequestSlot

CONSTANTS Streams,      (* the requests with "stream": true                *)
          ModelCodes    (* status codes the model server answers with      *)

ASSUME InferenceAssumption ==
    /\ Streams \subseteq Requests
    /\ ModelCodes \subseteq Nat

VARIABLES stage,  (* where each request is in forward()                    *)
          status, (* its status_code, as far as it is known                *)
          rows,   (* its rows of usage_log: their status column            *)
          answer  (* what its client got; Silence when nothing             *)

vars == <<permits, waiters, granted, active, queued, stage, status, rows, answer>>

Silence == 0
StatusCodes == ModelCodes \cup {200, 500, 502, 504}

Waiting  == "waiting"   (* in _semaphore.acquire()                         *)
Asking   == "asking"    (* the model has not answered yet                  *)
Relaying == "relaying"  (* a stream waits for the next chunk               *)
Sending  == "sending"   (* a stream is at the yield of a chunk             *)
Failing  == "failing"   (* a stream is at the yield of its error frame     *)
Orphaned == "orphaned"  (* cancelled at a yield, not finalised yet         *)
Logging  == "logging"   (* in record_usage, holding the slot               *)
Replying == "replying"  (* a JSON request, in record_usage without a slot  *)

Stages == {"new", Waiting, Asking, Relaying, Sending, Failing, Orphaned,
           Logging, Replying, "done", "left"}

InSlot == {Asking, Relaying, Sending, Failing, Orphaned, Logging}

Init ==
    /\ SlotInit
    /\ stage = [r \in Requests |-> "new"]
    /\ status = [r \in Requests |-> 200]
    /\ rows = [r \in Requests |-> <<>>]
    /\ answer = [r \in Requests |-> Silence]

Move(r, from, to) ==
    /\ stage[r] = from
    /\ stage' = [stage EXCEPT ![r] = to]

-----------------------------------------------------------------------------
(* Waiting for a slot. *)

(* The client of a stream has its status line before the generator runs. *)
Enter(r) ==
    /\ \/ EnterFree(r) /\ Move(r, "new", Asking)
       \/ Enqueue(r) /\ Move(r, "new", Waiting)
    /\ answer' = [answer EXCEPT ![r] = IF r \in Streams THEN 200 ELSE Silence]
    /\ UNCHANGED <<status, rows>>

TakeSlot(r) ==
    /\ Resume(r)
    /\ Move(r, Waiting, Asking)
    /\ UNCHANGED <<status, rows, answer>>

-----------------------------------------------------------------------------
(* A JSON request. *)

(* The model answers: the slot is free again before the row is written. *)
PostReturns(r) ==
    /\ r \notin Streams
    /\ Move(r, Asking, Replying)
    /\ \E code \in ModelCodes : status' = [status EXCEPT ![r] = code]
    /\ Release
    /\ UNCHANGED <<rows, answer>>

(* httpx.TimeoutException or another httpx.HTTPError: the row is written
   while the slot is still held. *)
PostFails(r) ==
    /\ r \notin Streams
    /\ Move(r, Asking, Logging)
    /\ \E code \in {502, 504} : status' = [status EXCEPT ![r] = code]
    /\ UNCHANGED <<slotVars, rows, answer>>

(* record_usage of request r; `written` tells whether the row got there: the
   database can fail, and a cancelled task leaves before its thread is done. *)
RecordUsage(r, written) ==
    rows' = [rows EXCEPT ![r] = IF written THEN Append(@, status[r]) ELSE @]

(* A failed write turns the answer to a JSON request into an error. *)
Answer(r, written) ==
    answer' = [answer EXCEPT ![r] = IF written THEN status[r] ELSE 500]

(* After the row is written the model's answer can still be lost: it is no
   valid JSON for JSONResponse (500), or hosted privacy refuses the media in
   it (502, _protect_json_response). *)
AnswerSpoilt(r) ==
    \E code \in {500, 502} : answer' = [answer EXCEPT ![r] = code]

(* Mutant: a failed write goes unnoticed. *)
ReplyUnnoticed(r) ==
    /\ Move(r, Replying, "done")
    /\ \E written \in BOOLEAN : RecordUsage(r, written)
    /\ Answer(r, TRUE) \/ AnswerSpoilt(r)
    /\ UNCHANGED <<slotVars, status>>

Reply(r) ==
    /\ Move(r, Replying, "done")
    /\ \E written \in BOOLEAN :
         /\ RecordUsage(r, written)
         /\ Answer(r, written) \/ (written /\ AnswerSpoilt(r))
    /\ UNCHANGED <<slotVars, status>>

-----------------------------------------------------------------------------
(* A stream. *)

(* The status line of the model's answer, which the client never sees. *)
StreamOpens(r) ==
    /\ r \in Streams
    /\ Move(r, Asking, Relaying)
    /\ \E code \in ModelCodes : status' = [status EXCEPT ![r] = code]
    /\ UNCHANGED <<slotVars, rows, answer>>

YieldChunk(r) ==
    /\ Move(r, Relaying, Sending)
    /\ UNCHANGED <<slotVars, status, rows, answer>>

ChunkSent(r) ==
    /\ Move(r, Sending, Relaying)
    /\ UNCHANGED <<slotVars, status, rows, answer>>

StreamEnds(r) ==
    /\ Move(r, Relaying, Logging)
    /\ UNCHANGED <<slotVars, status, rows, answer>>

(* httpx.HTTPError, timeouts included, before or between chunks. *)
StreamBreaks(r) ==
    /\ r \in Streams
    /\ \/ Move(r, Asking, Failing)
       \/ Move(r, Relaying, Failing)
    /\ status' = [status EXCEPT ![r] = 502]
    /\ UNCHANGED <<slotVars, rows, answer>>

(* Mutant: the relay goes on after its error frame. *)
RelayAfterError(r) ==
    /\ Move(r, Failing, Relaying)
    /\ UNCHANGED <<slotVars, status, rows, answer>>

ErrorSent(r) ==
    /\ Move(r, Failing, Logging)
    /\ UNCHANGED <<slotVars, status, rows, answer>>

-----------------------------------------------------------------------------
(* The end of everything that writes its row while it holds the slot. *)

(* Mutant: the slot is released only when the row was written. *)
FinishIfLogged(r) ==
    /\ Move(r, Logging, "done")
    /\ \E written \in BOOLEAN :
         /\ RecordUsage(r, written)
         /\ IF r \in Streams THEN UNCHANGED answer ELSE Answer(r, written)
         /\ IF written THEN Release ELSE UNCHANGED slotVars
    /\ UNCHANGED status

Finish(r) ==
    /\ Move(r, Logging, "done")
    /\ \E written \in BOOLEAN :
         /\ RecordUsage(r, written)
         /\ IF r \in Streams THEN UNCHANGED answer ELSE Answer(r, written)
    /\ Release
    /\ UNCHANGED status

(* The client of a stream goes away. *)
DisconnectWaiting(r) ==
    /\ r \in Streams
    /\ Move(r, Waiting, "left")
    /\ LeaveQueue(r)
    /\ UNCHANGED <<status, rows, answer>>

(* CancelledError in a read from the model unwinds to the finally clause. *)
DisconnectReading(r) ==
    /\ r \in Streams
    /\ \E from \in {Asking, Relaying} : Move(r, from, Logging)
    /\ UNCHANGED <<slotVars, status, rows, answer>>

(* At a yield it ends the task that was sending, and the generator stays
   behind, suspended. *)
DisconnectSending(r) ==
    /\ \E from \in {Sending, Failing} : Move(r, from, Orphaned)
    /\ UNCHANGED <<slotVars, status, rows, answer>>

(* The event loop closes the orphaned generator, in a task of its own. *)
Finalise(r) ==
    /\ Move(r, Orphaned, Logging)
    /\ UNCHANGED <<slotVars, status, rows, answer>>

-----------------------------------------------------------------------------
ModelSteps(r) ==
    PostReturns(r) \/ PostFails(r) \/ StreamOpens(r) \/ StreamEnds(r) \/ StreamBreaks(r)

GatewaySteps(r) ==
    TakeSlot(r) \/ Reply(r) \/ Finish(r) \/ Finalise(r)

(* What the client of a stream that is being sent something can do. *)
ClientTakes(r) ==
    ChunkSent(r) \/ ErrorSent(r) \/ DisconnectSending(r)

ClientSteps(r) ==
    ClientTakes(r) \/ DisconnectWaiting(r) \/ DisconnectReading(r)

Finished == {"done", "left"}

Terminated ==
    /\ \A r \in Requests : stage[r] \in Finished
    /\ UNCHANGED vars

Next ==
    \/ \E r \in Requests :
         Enter(r) \/ YieldChunk(r) \/ ModelSteps(r) \/ GatewaySteps(r) \/ ClientSteps(r)
    \/ Terminated

Spec == Init /\ [][Next]_vars

(* A model answers or httpx times out; a stream may bring any number of
   chunks, but its generation ends; a client that is being sent something
   reads it or goes away, but no client has to leave; and the event loop runs
   what is ready. *)
Fairness ==
    \A r \in Requests :
      /\ WF_vars(PostReturns(r) \/ PostFails(r))
      /\ SF_vars(StreamOpens(r) \/ StreamEnds(r) \/ StreamBreaks(r))
      /\ WF_vars(ClientTakes(r))
      /\ WF_vars(GatewaySteps(r))

FairSpec == Spec /\ Fairness

-----------------------------------------------------------------------------
Holders == {r \in Requests : stage[r] \in InSlot}

TypeOK ==
    /\ permits \in 0..MaxConcurrent
    /\ waiters \in Seq(Requests)
    /\ granted \subseteq Requests
    /\ active \in Nat
    /\ queued \in Nat
    /\ stage \in [Requests -> Stages]
    /\ status \in [Requests -> StatusCodes]
    /\ rows \in [Requests -> Seq(StatusCodes)]
    /\ answer \in [Requests -> StatusCodes \cup {Silence}]

(* The permits are never lost and never invented: each is free, handed to a
   waiter that has not run yet, or held by one request, whichever way the
   requests before it ended (failure, broken stream, lost client, failed
   write of the usage row). *)
PermitsConserved ==
    permits + Cardinality(granted) + Cardinality(Holders) = MaxConcurrent

(* A permit is not left lying while a request sleeps in the queue, unless a
   waiter that is awake is about to pass it on. *)
NoIdlePermit ==
    permits > 0 /\ Asleep(waiters, granted) # {} => granted # {}

(* First come, first served, and never more at a time than the slots: with a
   slot taken to belong to a waiter from the moment it is woken, requests get
   their slots as from the abstract queue.  Those that are awake are the first
   of the waiters: a permit always goes to the first sleeper. *)
Queue == INSTANCE SlotQueue WITH
           owners <- Holders \cup granted,
           line   <- SubSeq(waiters, Cardinality(granted) + 1, Len(waiters))
ImplementsQueue == Queue!QueueSpec

(* What runtime_snapshot reports: the active counter is the number of slots
   in use; the queue counter also counts, for good, every request whose
   client went away while it waited. *)
CountersExplained ==
    /\ active = Cardinality(Holders)
    /\ queued = Len(waiters) + Cardinality({r \in Requests : stage[r] = "left"})

(* The queue the Monitoring page shows is the queue (README.md: "current
   inference requests and the gateway queue"). *)
QueuedIsQueueLength == queued = Len(waiters)

(* A JSON client that was told `told` beside the rows `logged`: no row only
   with a 500; with a row, what it says or an error of the gateway's own. *)
AgreesWithLog(logged, told) ==
    IF logged = <<>> THEN told = 500
    ELSE logged = <<told>> \/ told \in {500, 502}

(* A request is logged at most once, when it ends, and with the status the
   model or the failure to reach it gave it, whatever happens to the answer
   afterwards; no JSON client is told that all is well, or a failure of the
   model, without the row that says so. *)
UsageLogged ==
    \A r \in Requests :
      /\ rows[r] # <<>> => /\ rows[r] = <<status[r]>>
                          /\ stage[r] = "done"
      /\ stage[r] = "done" /\ r \notin Streams => AgreesWithLog(rows[r], answer[r])

(* Every request that has entered ends and gives its slot to the next. *)
EveryRequestEnds ==
    \A r \in Requests : (stage[r] # "new") ~> (stage[r] \in Finished)
=============================================================================
