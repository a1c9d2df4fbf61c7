---------------------------- MODULE WindowQuota ----------------------------
(***************************************************************************)
(* What the gateway's request limiter promises, without saying how it      *)
(* keeps count.  A request is made with a key; it brings the limits in     *)
(* force at that moment for exactly the buckets the key is charged to.     *)
(* When it is decided, it is admitted if every one of these buckets has    *)
(* been charged fewer times than its limit within the last Window, and     *)
(* then charged to all of them; otherwise it is denied and charged to      *)
(* none.                                                                   *)
(*                                                                         *)
(* Nothing is ever forgotten here: admitted[b] is the whole history of     *)
(* bucket b.  Module RateLimit, the limiter of src/gateway/ratelimit.py,   *)
(* keeps only a pruned queue of timestamps and is shown to implement this. *)
(***************************************************************************)
EXTENDS Integers, Sequences, FiniteSets

CONSTANTS Keys,        (* what a request is made with                      *)
          Buckets,     (* what a request can be charged to                 *)
          BucketsOf,   (* per key, the buckets its requests are charged to *)
          Requests,    (* requests that can be in flight together          *)
          RpmLimits,   (* the limits a bucket can have                     *)
          Window       (* length of the window, in clock ticks             *)

VARIABLES clock,     (* the monotonic clock                                *)
          inForce,   (* per bucket, the limit a new request would bring    *)
          asked,     (* per request, the limit it brings for each bucket   *)
          admitted,  (* per bucket, the admissions charged to it, in order *)
          verdict    (* the answer to the request decided last             *)

quotaVars == <<clock, inForce, asked, admitted, verdict>>

(* A request that has not been made, or has been decided, brings nothing. *)
Nothing == [b \in {} |-> 0]

QuotaInit ==
    /\ clock = 0
    /\ inForce \in [Buckets -> RpmLimits]
    /\ asked = [r \in Requests |-> Nothing]
    /\ admitted = [b \in Buckets |-> <<>>]
    /\ verdict = "none"

(* Admissions of b that are at most Window old. *)
InWindow(b) ==
    {i \in DOMAIN admitted[b] : admitted[b][i].at >= clock - Window}

Used(b) == Cardinality(InWindow(b))

Advance ==
    /\ clock' \in Nat
    /\ clock' > clock
    /\ UNCHANGED <<inForce, asked, admitted, verdict>>

SetLimit(b, limit) ==
    /\ inForce' = [inForce EXCEPT ![b] = limit]
    /\ UNCHANGED <<clock, asked, admitted, verdict>>

(* Later changes of the limits do not reach the request. *)
Ask(r, k) ==
    /\ asked[r] = Nothing
    /\ asked' = [asked EXCEPT ![r] = [b \in BucketsOf[k] |-> inForce[b]]]
    /\ UNCHANGED <<clock, inForce, admitted, verdict>>

Admit(limits) ==
    /\ \A b \in DOMAIN limits : Used(b) < limits[b]
    /\ admitted' = [b \in Buckets |->
                      IF b \in DOMAIN limits
                      THEN Append(admitted[b], [at |-> clock, limit |-> limits[b]])
                      ELSE admitted[b]]
    /\ verdict' = "admitted"

Deny(limits) ==
    /\ \E b \in DOMAIN limits : Used(b) >= limits[b]
    /\ verdict' = "denied"
    /\ UNCHANGED admitted

Decide(r) ==
    /\ asked[r] # Nothing
    /\ Admit(asked[r]) \/ Deny(asked[r])
    /\ asked' = [asked EXCEPT ![r] = Nothing]
    /\ UNCHANGED <<clock, inForce>>

QuotaNext ==
    \/ Advance
    \/ \E b \in Buckets, limit \in RpmLimits : SetLimit(b, limit)
    \/ \E r \in Requests, k \in Keys : Ask(r, k)
    \/ \E r \in Requests : Decide(r)

QuotaSpec == QuotaInit /\ [][QuotaNext]_quotaVars
=============================================================================
