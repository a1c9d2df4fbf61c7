----------------------------- MODULE RateLimit -----------------------------
(***************************************************************************)
(* The hierarchical sliding-window limiter: src/gateway/ratelimit.py, the  *)
(* limits a request brings to it (_enforce_limit in routes/openai.py) and  *)
(* where those limits come from (the row require_api_key reads, and the    *)
(* administrator's PATCHes that change it in the meantime).                *)
(*                                                                         *)
(* Time is counted in ticks, Second ticks to the second, so that the       *)
(* truncation in `int(bucket[0] + WINDOW_SECONDS - now) + 1` is visible.   *)
(* All handlers run on the one event loop and check_many holds no await,   *)
(* so a whole call is one step; authentication is an earlier step, because *)
(* require_api_key awaits a write between reading the limits and returning.*)
(***************************************************************************)
EXTENDS Integers, Sequences, FiniteSets

CONSTANTS Keys,          (* API keys                                       *)
          Members,       (* members of organizations                       *)
          Orgs,          (* organizations                                  *)
          None,          (* SQL NULL                                       *)
          KeyMember,     (* the member a key belongs to, None when legacy  *)
          KeyOrg,        (* the organization of that member                *)
          RpmLimits,     (* limits an administrator can set                *)
          DefaultRpm,    (* settings.default_rpm_limit                     *)
          WindowSeconds, (* ratelimit.WINDOW_SECONDS                       *)
          Second,        (* clock ticks in a second                        *)
          Requests,      (* requests that can be in flight together        *)
          StartRpm,      (* the rpm_limit columns a run may start from     *)
          MaxPatches,    (* bound of the model: how often limits change    *)
          MaxClock       (* bound of the model: when the clock stops       *)

ASSUME RateLimitAssumption ==
    /\ None \notin Members \cup Orgs \cup RpmLimits
    /\ Keys \cap Members = {}
    /\ Keys \cap Orgs = {}
    /\ Members \cap Orgs = {}
    /\ KeyMember \in [Keys -> Members \cup {None}]
    /\ KeyOrg \in [Keys -> Orgs \cup {None}]
    /\ RpmLimits \subseteq Nat \ {0}
    /\ DefaultRpm \in RpmLimits
    /\ WindowSeconds \in Nat \ {0}
    /\ Second \in Nat \ {0}
    /\ MaxPatches \in Nat
    /\ MaxClock \in Nat

Buckets == Keys \cup Members \cup Orgs

(* Only a key may be without a limit (NOT NULL in the other two tables). *)
RpmColumns ==
    {columns \in [Buckets -> RpmLimits \cup {None}] :
        \A b \in Members \cup Orgs : columns[b] # None}

ASSUME StartRpmAssumption == StartRpm \subseteq RpmColumns

Window == WindowSeconds * Second

VARIABLES clock,     (* time.monotonic(), in ticks                         *)
          rpm,       (* rpm_limit columns of the three tables              *)
          patches,   (* how often an administrator changed one of them     *)
          hits,      (* ratelimit._hits: per bucket, a queue of timestamps *)
          request,   (* per request, the limits it was authenticated with  *)
          admitted,  (* history: everything ever charged to a bucket       *)
          reply      (* what the last check_many returned                  *)

vars == <<clock, rpm, patches, hits, request, admitted, reply>>

-----------------------------------------------------------------------------
(* One entry of the list _enforce_limit builds. *)
Limit == [bucket : Buckets, limit : RpmLimits]

Idle == <<>>

(* Mutant: a key without a limit of its own is left without one. *)
KeyLimitNoDefault(k) == [bucket |-> k, limit |-> rpm[k]]

KeyLimit(k) == [bucket |-> k, limit |-> IF rpm[k] = None THEN DefaultRpm ELSE rpm[k]]

(* Mutant: the organization's limit replaces the member's. *)
LimitsOfTwoLevels(k) ==
    <<KeyLimit(k)>>
    \o (IF KeyOrg[k] = None THEN <<>>
        ELSE <<[bucket |-> KeyOrg[k], limit |-> rpm[KeyOrg[k]]]>>)

(* The list of limits of key k: its own first, then its member's, then its
   organization's; a key without an own limit gets the configured default. *)
LimitsOf(k) ==
    <<KeyLimit(k)>>
    \o (IF KeyMember[k] = None THEN <<>>
        ELSE <<[bucket |-> KeyMember[k], limit |-> rpm[KeyMember[k]]]>>)
    \o (IF KeyOrg[k] = None THEN <<>>
        ELSE <<[bucket |-> KeyOrg[k], limit |-> rpm[KeyOrg[k]]]>>)

Charged(limits) == {limits[i].bucket : i \in DOMAIN limits}

LimitFor(limits, b) == limits[CHOOSE i \in DOMAIN limits : limits[i].bucket = b].limit

(* Mutant: an entry exactly one window old is dropped too. *)
PruneAtCutoff(bucket, cutoff) ==
    SelectSeq(bucket, LAMBDA at : at > cutoff)

(* `while bucket and bucket[0] < cutoff: bucket.popleft()` *)
Prune(bucket, cutoff) ==
    LET stale == {i \in DOMAIN bucket : \A j \in 1..i : bucket[j] < cutoff}
    IN  SubSeq(bucket, Cardinality(stale) + 1, Len(bucket))

Pruned(limits) ==
    [b \in Buckets |->
        IF b \in Charged(limits) THEN Prune(hits[b], clock - Window) ELSE hits[b]]

(* Mutant: one request too many. *)
ExhaustedOffByOne(limits) ==
    {i \in DOMAIN limits : Len(Pruned(limits)[limits[i].bucket]) > limits[i].limit}

(* The positions of the limits that are used up, once the buckets are pruned. *)
Exhausted(limits) ==
    {i \in DOMAIN limits : Len(Pruned(limits)[limits[i].bucket]) >= limits[i].limit}

(* Mutant: the truncated wait is not rounded up. *)
RetryAfterTruncated(oldest) ==
    LET whole == (oldest + Window - clock) \div Second
    IN  IF whole < 1 THEN 1 ELSE whole

(* `max(1, int(bucket[0] + WINDOW_SECONDS - now) + 1)`, in whole seconds. *)
RetryAfter(oldest) ==
    LET whole == (oldest + Window - clock) \div Second + 1
    IN  IF whole < 1 THEN 1 ELSE whole

-----------------------------------------------------------------------------

NoReply == [verdict |-> "none"]
Admitted == [verdict |-> "admitted"]
Denied(l, retryAfter) ==
    [verdict |-> "denied", bucket |-> l.bucket, limit |-> l.limit,
     retryAfter |-> retryAfter]

Init ==
    /\ clock = 0
    /\ rpm \in StartRpm
    /\ patches = 0
    /\ hits = [b \in Buckets |-> <<>>]
    /\ request = [r \in Requests |-> Idle]
    /\ admitted = [b \in Buckets |-> <<>>]
    /\ reply = NoReply

(* require_api_key: the limits are read now and enforced by a later step. *)
Authenticate(r, k) ==
    /\ request[r] = Idle
    /\ request' = [request EXCEPT ![r] = LimitsOf(k)]
    /\ UNCHANGED <<clock, rpm, patches, hits, admitted, reply>>

(* The successful end of check_many: every bucket of the list is charged. *)
Admit(r) ==
    LET limits == request[r]
    IN  /\ Exhausted(limits) = {}
        /\ hits' = [b \in Buckets |->
                      IF b \in Charged(limits)
                      THEN Append(Pruned(limits)[b], clock)
                      ELSE hits[b]]
        /\ admitted' = [b \in Buckets |->
                          IF b \in Charged(limits)
                          THEN Append(admitted[b],
                                      [at |-> clock, limit |-> LimitFor(limits, b)])
                          ELSE admitted[b]]
        /\ reply' = Admitted

(* Mutant: the scopes before the exhausted one have been charged already. *)
DenyAfterCharging(r) ==
    LET limits == request[r]
    IN  \E i \in Exhausted(limits) :
          /\ \A j \in Exhausted(limits) : i <= j
          /\ hits' = [b \in Buckets |->
                        IF \E j \in 1..(i - 1) : limits[j].bucket = b
                        THEN Append(Pruned(limits)[b], clock)
                        ELSE Pruned(limits)[b]]
          /\ reply' = Denied(limits[i],
                             RetryAfter(Pruned(limits)[limits[i].bucket][1]))
          /\ UNCHANGED admitted

(* The refusal: the first exhausted limit is reported.  The buckets stay
   pruned, but nothing is charged. *)
Deny(r) ==
    LET limits == request[r]
    IN  \E i \in Exhausted(limits) :
          /\ \A j \in Exhausted(limits) : i <= j
          /\ hits' = Pruned(limits)
          /\ reply' = Denied(limits[i],
                             RetryAfter(Pruned(limits)[limits[i].bucket][1]))
          /\ UNCHANGED admitted

(* _enforce_limit on the limits the request was authenticated with. *)
CheckMany(r) ==
    /\ request[r] # Idle
    /\ Admit(r) \/ Deny(r)
    /\ request' = [request EXCEPT ![r] = Idle]
    /\ UNCHANGED <<clock, rpm, patches>>

(* PATCH /admin/keys, /admin/members, /admin/organizations.  Only a key's
   limit can be cleared: the two others drop null fields. *)
UpdateRpm(b, limit) ==
    /\ patches < MaxPatches
    /\ patches' = patches + 1
    /\ limit = None => b \in Keys
    /\ rpm' = [rpm EXCEPT ![b] = limit]
    /\ UNCHANGED <<clock, hits, request, admitted, reply>>

Tick ==
    /\ clock < MaxClock
    /\ clock' = clock + 1
    /\ UNCHANGED <<rpm, patches, hits, request, admitted, reply>>

Next ==
    \/ \E r \in Requests, k \in Keys : Authenticate(r, k)
    \/ \E r \in Requests : CheckMany(r)
    \/ \E b \in Buckets, limit \in RpmLimits \cup {None} : UpdateRpm(b, limit)
    \/ Tick

Spec == Init /\ [][Next]_vars

-----------------------------------------------------------------------------
Admission == [at : Nat, limit : RpmLimits]

TypeOK ==
    /\ clock \in Nat
    /\ rpm \in RpmColumns
    /\ patches \in 0..MaxPatches
    /\ hits \in [Buckets -> Seq(Nat)]
    /\ request \in [Requests -> Seq(Limit)]
    /\ admitted \in [Buckets -> Seq(Admission)]
    /\ reply.verdict \in {"none", "admitted", "denied"}

(* Queue q is the end of history h, which is in order of time, and what was
   dropped from the history is older than the window at time `now`. *)
IsRecentHistory(q, h, now) ==
    LET gone == Len(h) - Len(q)
    IN  /\ gone >= 0
        /\ \A i \in 1..Len(q) : q[i] = h[gone + i].at
        /\ \A i \in 1..gone : h[i].at < now - Window
        /\ \A i, j \in 1..Len(h) : i <= j => h[i].at <= h[j].at
        /\ \A i \in 1..Len(h) : h[i].at <= now

(* Pruning loses nothing that counts: each of the queues in ratelimit._hits
   holds every admission of its bucket that is still inside the window. *)
QueueIsRecentHistory ==
    \A b \in Buckets : IsRecentHistory(hits[b], admitted[b], clock)

(* In history h an admission and the one `limit` places before it, where
   limit is the one it was admitted under, are more than Window apart. *)
IsSpaced(h) ==
    \A i \in 1..Len(h) :
        i > h[i].limit => h[i].at - h[i - h[i].limit].at > Window

(* No window of time ever holds more admissions of a bucket than the limit
   the last of them was admitted under, however an administrator changed the
   limits in between, and whichever of a member's keys the requests used. *)
WindowRespected == \A b \in Buckets : IsSpaced(admitted[b])

(* The admissions of bucket b the queues still hold inside the window. *)
Live(b) == {i \in 1..Len(hits[b]) : hits[b][i] >= clock - Window}

KeysUnder(b) == {k \in Keys : KeyMember[k] = b \/ KeyOrg[k] = b}

(* The three levels count the same requests: inside the window, a member's or
   an organization's queue has one entry for each entry of the keys under it,
   so a request refused at one level was charged at none. *)
ScopesAgree ==
    \A b \in Members \cup Orgs :
      Cardinality(Live(b)) =
        Cardinality(UNION {{k} \X Live(k) : k \in KeysUnder(b)})

(* A step that refuses request r. *)
Refuses(r) == /\ request[r] # Idle
              /\ request'[r] = Idle
              /\ reply'.verdict = "denied"

(* Whether bucket b will have room for one more under `limit` when `seconds`
   have passed without a new admission. *)
RoomAfter(b, limit, seconds) ==
    Cardinality({i \in 1..Len(hits'[b]) :
                   hits'[b][i] >= clock + seconds * Second - Window}) < limit

(* The Retry-After of a refusal is the right whole number of seconds for the
   bucket it names: with the limit unchanged, waiting that long makes room in
   it, and waiting a second less (or a shorter wait than a second) does not. *)
RetryAfterExact ==
    [][(\E r \in Requests : Refuses(r))
          /\ Len(hits'[reply'.bucket]) = reply'.limit =>
         /\ RoomAfter(reply'.bucket, reply'.limit, reply'.retryAfter)
         /\ ~RoomAfter(reply'.bucket, reply'.limit, reply'.retryAfter - 1)]_vars

(* The buckets requests of key k are charged to, and the limits new ones bring. *)
BucketsOf == [k \in Keys |-> {k} \cup ({KeyMember[k], KeyOrg[k]} \ {None})]

InForce == [b \in Buckets |-> IF rpm[b] = None THEN DefaultRpm ELSE rpm[b]]

(* The limits the requests were authenticated with, per bucket. *)
AsQuota(limits) == [b \in Charged(limits) |-> LimitFor(limits, b)]

Asked == [r \in Requests |-> AsQuota(request[r])]

(* Every request is charged to its key, the key's member and the member's
   organization or to none of them, and which of the two depends on the whole
   history of these buckets and the limits in force when it was authenticated:
   the pruned queues, the list of limits and the order of the checks make no
   difference (auth.require_api_key, _enforce_limit, check_many). *)
Quota == INSTANCE WindowQuota WITH inForce <- InForce,
                                   asked <- Asked,
                                   verdict <- reply.verdict
ImplementsQuota == Quota!QuotaSpec
=============================================================================
