----------------------------- MODULE SlotQueue -----------------------------
(***************************************************************************)
(* What the inference slots of the gateway promise: MaxConcurrent requests *)
(* at most have a slot, the others stand in line, and only the first in    *)
(* line, or a newcomer that finds nobody in line, gets a free one.  A      *)
(* request that stands in line can give up.                                *)
(*                                                                         *)
(* Module Inference, with its semaphore, its woken waiters that have not   *)
(* run yet and its cancellations, is shown to implement this.              *)
(***************************************************************************)
EXTENDS Integers, Sequences, FiniteSets

CONSTANTS Requests,      (* the requests for inference                     *)
          MaxConcurrent  (* the number of slots                            *)

VARIABLES owners, (* the requests that have been given a slot              *)
          line    (* those that have not, in order of arrival              *)

queueVars == <<owners, line>>

QueueInit ==
    /\ owners = {}
    /\ line = <<>>

InLine == {line[i] : i \in DOMAIN line}

Arrive(r) ==
    /\ r \notin owners \cup InLine
    /\ \/ /\ line = <<>>
          /\ Cardinality(owners) < MaxConcurrent
          /\ owners' = owners \cup {r}
          /\ UNCHANGED line
       \/ /\ line' = Append(line, r)
          /\ UNCHANGED owners

ServeFirst ==
    /\ line # <<>>
    /\ Cardinality(owners) < MaxConcurrent
    /\ owners' = owners \cup {Head(line)}
    /\ line' = Tail(line)

(* A slot that is given back may go to the first in line at once. *)
Depart(r) ==
    /\ r \in owners
    /\ \/ /\ owners' = owners \ {r}
          /\ UNCHANGED line
       \/ /\ line # <<>>
          /\ owners' = (owners \ {r}) \cup {Head(line)}
          /\ line' = Tail(line)

GiveUp(r) ==
    /\ \E i \in DOMAIN line :
          /\ line[i] = r
          /\ line' = SubSeq(line, 1, i - 1) \o SubSeq(line, i + 1, Len(line))
    /\ UNCHANGED owners

QueueNext ==
    \/ \E r \in Requests : Arrive(r) \/ Depart(r) \/ GiveUp(r)
    \/ ServeFirst

QueueSpec == QueueInit /\ [][QueueNext]_queueVars
=============================================================================
