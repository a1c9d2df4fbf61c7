---------------------------- MODULE RequestSlot ----------------------------
(***************************************************************************)
(* The inference slots of the gateway: request_slot() of                   *)
(* src/gateway/monitoring.py, its two counters, and the asyncio.Semaphore  *)
(* it awaits.  The module is a vocabulary of partial actions on the slots; *)
(* module Inference joins them with what a request does while it waits for *)
(* a slot or holds one.                                                    *)
(*                                                                         *)
(* The semaphore is first come first served.  A release hands the permit   *)
(* to the first sleeping waiter, which leaves the queue only when the      *)
(* event loop runs it: until then it is `granted` and still queued, and    *)
(* its presence makes a newcomer queue up even when a permit is free.      *)
(***************************************************************************)
EXTENDS Integers, Sequences, FiniteSets

CONSTANTS Requests,     (* the requests for inference                      *)
          MaxConcurrent (* settings.max_concurrent_requests                *)

ASSUME SlotAssumption == MaxConcurrent \in Nat \ {0}

VARIABLES permits, (* _semaphore._value                                    *)
          waiters, (* _semaphore._waiters, the request of each future      *)
          granted, (* the waiters whose future is done                     *)
          active,  (* monitoring._active_requests                          *)
          queued   (* monitoring._queued_requests                          *)

slotVars == <<permits, waiters, granted, active, queued>>

SlotInit ==
    /\ permits = MaxConcurrent
    /\ waiters = <<>>
    /\ granted = {}
    /\ active = 0
    /\ queued = 0

Locked == permits = 0 \/ waiters # <<>>

InQueue == {waiters[i] : i \in DOMAIN waiters}

Asleep(queue, awake) == {i \in DOMAIN queue : queue[i] \notin awake}

(* _wake_up_next with `value` permits to give. *)
WakeUpNext(value, queue, awake) ==
    LET asleep == Asleep(queue, awake)
    IN  \/ /\ asleep = {}
           /\ permits' = value
           /\ granted' = awake
        \/ \E i \in asleep :
             /\ \A j \in asleep : i <= j
             /\ permits' = value - 1
             /\ granted' = awake \cup {queue[i]}

(* self._waiters.remove(fut) *)
WithoutWaiter(r) ==
    LET place == CHOOSE i \in DOMAIN waiters : waiters[i] = r
    IN  SubSeq(waiters, 1, place - 1) \o SubSeq(waiters, place + 1, Len(waiters))

(* Mutant: acquire() is called and not awaited. *)
EnterUnawaited(r) ==
    /\ active' = active + 1
    /\ UNCHANGED <<permits, waiters, granted, queued>>

(* acquire() finds a permit and nobody ahead: it does not suspend, and the
   queue counter goes up and down again in the same step. *)
EnterFree(r) ==
    /\ ~Locked
    /\ permits' = permits - 1
    /\ active' = active + 1
    /\ UNCHANGED <<waiters, granted, queued>>

(* Mutant: a request that has to wait is not counted. *)
EnqueueUncounted(r) ==
    /\ Locked
    /\ waiters' = Append(waiters, r)
    /\ UNCHANGED <<permits, granted, active, queued>>

Enqueue(r) ==
    /\ Locked
    /\ waiters' = Append(waiters, r)
    /\ queued' = queued + 1
    /\ UNCHANGED <<permits, granted, active>>

(* Mutants: a woken waiter does not pass a spare permit on; one that was
   queued is not taken off the queue counter. *)
ResumeWithoutPassingOn(r) ==
    /\ r \in granted
    /\ waiters' = WithoutWaiter(r)
    /\ granted' = granted \ {r}
    /\ queued' = queued - 1
    /\ active' = active + 1
    /\ UNCHANGED permits

ResumeStillCounted(r) ==
    /\ r \in granted
    /\ waiters' = WithoutWaiter(r)
    /\ IF permits > 0
       THEN WakeUpNext(permits, WithoutWaiter(r), granted \ {r})
       ELSE granted' = granted \ {r} /\ UNCHANGED permits
    /\ active' = active + 1
    /\ UNCHANGED queued

(* The event loop runs a granted waiter: acquire() returns, having woken one
   more waiter if a permit is left, and request_slot moves the counters. *)
Resume(r) ==
    /\ r \in granted
    /\ waiters' = WithoutWaiter(r)
    /\ IF permits > 0
       THEN WakeUpNext(permits, WithoutWaiter(r), granted \ {r})
       ELSE granted' = granted \ {r} /\ UNCHANGED permits
    /\ queued' = queued - 1
    /\ active' = active + 1

(* CancelledError in acquire(): a permit already granted is passed on, and
   request_slot is left before it takes the request off its queue counter. *)
LeaveQueue(r) ==
    /\ r \in InQueue
    /\ waiters' = WithoutWaiter(r)
    /\ IF r \in granted
       THEN WakeUpNext(permits + 1, WithoutWaiter(r), granted \ {r})
       ELSE UNCHANGED <<permits, granted>>
    /\ UNCHANGED <<active, queued>>

(* The finally clause of request_slot. *)
Release ==
    /\ active' = active - 1
    /\ WakeUpNext(permits + 1, waiters, granted)
    /\ UNCHANGED <<waiters, queued>>
=============================================================================
