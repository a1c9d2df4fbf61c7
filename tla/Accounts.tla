------------------------------ MODULE Accounts ------------------------------
(***************************************************************************)
(* Organizations, their members and their API keys: the handlers of        *)
(* src/gateway/routes/admin.py that change the three tables, create_key    *)
(* and require_api_key of src/gateway/auth.py, and the tables of db.py.    *)
(*                                                                         *)
(* Every statement is a transaction of its own in a worker thread, and a   *)
(* handler awaits each of them, so handlers interleave between statements; *)
(* what one has read may be out of date when it writes.  A statement can   *)
(* fail, which ends its handler; a restart of the gateway drops all the    *)
(* handlers in flight.  Both keep what the tables hold.  Rows are never    *)
(* deleted: an id is a position in its table.  Names, roles, tiers, rpm    *)
(* limits (module RateLimit) and time stamps are left out.                 *)
(***************************************************************************)
EXTENDS Integers, Sequences, FiniteSets

CONSTANTS Handlers,     (* administrative requests handled concurrently    *)
          Callers,      (* inference requests being authenticated          *)
          Slugs,        (* organizations' unique names                     *)
          Emails,       (* unique among the members of an organization     *)
          Models,       (* models a key can be restricted to               *)
          AskedModels,  (* values of allowed_models in the requests        *)
          MemberLimits, (* values of member_limit                          *)
          MaxKeys,      (* bound of the model: rows in api_keys            *)
          None,         (* SQL NULL                                        *)
          Unrestricted  (* allowed_models omitted, or stored as NULL       *)

ASSUME AccountsAssumption ==
    /\ MemberLimits \subseteq Nat \ {0}
    /\ IsFiniteSet(Handlers)
    /\ AskedModels \subseteq {Unrestricted} \cup SUBSET Models
    /\ None \notin Nat

VARIABLES orgs, members, keys, (* the tables                               *)
          handler,    (* what each handler has read and does next          *)
          caller,     (* what require_api_key has read, per caller         *)
          peak,       (* history: largest member_limit an organization had *)
          origin,     (* history: per key, the first key of its rotations  *)
          disturbed   (* history: first keys of rotations that overlapped  *)
                      (* or did not get to revoke the old key              *)

tables == <<orgs, members, keys>>
history == <<peak, origin, disturbed>>
vars == <<orgs, members, keys, handler, caller, peak, origin, disturbed>>

Status == {"active", "suspended"}
Restrictions == {Unrestricted} \cup SUBSET Models

Idle == [op |-> "idle"]

OrgRow    == [slug : Slugs, status : Status, limit : MemberLimits]
MemberRow == [org : Nat, email : Emails, status : Status]
KeyRow    == [org : Nat \cup {None}, member : Nat \cup {None},
              models : Restrictions, revoked : BOOLEAN]

Init ==
    /\ orgs = <<>>
    /\ members = <<>>
    /\ keys = <<>>
    /\ handler = [h \in Handlers |-> Idle]
    /\ caller = [c \in Callers |-> None]
    /\ peak = <<>>
    /\ origin = <<>>
    /\ disturbed = {}

MembersOf(o) == {m \in DOMAIN members : members[m].org = o}

Becomes(h, task) == handler' = [handler EXCEPT ![h] = task]

(* `json.dumps(models) if models else None`: the empty list is stored, like
   no list, as NULL, and NULL allows every model (ApiKey.may_use). *)
Stored(models) == IF models = {} THEN Unrestricted ELSE models

-----------------------------------------------------------------------------
(* Handlers of one statement, or whose first statement only looks for a row
   that cannot go away. *)

(* POST /admin/organizations; the slug is UNIQUE. *)
CreateOrganization(slug, limit) ==
    /\ \A o \in DOMAIN orgs : orgs[o].slug # slug
    /\ orgs' = Append(orgs, [slug |-> slug, status |-> "active", limit |-> limit])
    /\ peak' = Append(peak, limit)
    /\ UNCHANGED <<members, keys, handler, caller, origin, disturbed>>

(* PATCH /admin/organizations/{id} *)
UpdateOrganization(o, status, limit) ==
    /\ orgs' = [orgs EXCEPT ![o].status = status, ![o].limit = limit]
    /\ peak' = [peak EXCEPT ![o] = IF limit > @ THEN limit ELSE @]
    /\ UNCHANGED <<members, keys, handler, caller, origin, disturbed>>

(* PATCH /admin/members/{id}; the new address is checked by the table. *)
UpdateMember(m, status, email) ==
    /\ \A other \in MembersOf(members[m].org) \ {m} : members[other].email # email
    /\ members' = [members EXCEPT ![m].status = status, ![m].email = email]
    /\ UNCHANGED <<orgs, keys, handler, caller, history>>

(* PATCH /admin/keys/{id} *)
UpdateKey(k, models) ==
    /\ keys' = [keys EXCEPT ![k].models = Stored(models)]
    /\ UNCHANGED <<orgs, members, handler, caller, history>>

(* DELETE /admin/keys/{id} *)
RevokeKey(k) ==
    /\ keys' = [keys EXCEPT ![k].revoked = TRUE]
    /\ UNCHANGED <<orgs, members, handler, caller, history>>

-----------------------------------------------------------------------------
(* POST /admin/organizations/{id}/members: read the organization, count its
   members, insert. *)

MemberReadOrg(h, o, email) ==
    /\ handler[h] = Idle
    /\ orgs[o].status = "active"
    /\ Becomes(h, [op |-> "count", org |-> o, email |-> email, limit |-> orgs[o].limit])
    /\ UNCHANGED <<tables, caller, history>>

(* Mutant: the last seat is given away twice. *)
MemberCountOffByOne(h) ==
    /\ handler[h].op = "count"
    /\ IF Cardinality(MembersOf(handler[h].org)) > handler[h].limit
       THEN Becomes(h, Idle)
       ELSE Becomes(h, [op |-> "addMember", org |-> handler[h].org,
                        email |-> handler[h].email])
    /\ UNCHANGED <<tables, caller, history>>

MemberCount(h) ==
    /\ handler[h].op = "count"
    /\ IF Cardinality(MembersOf(handler[h].org)) >= handler[h].limit
       THEN Becomes(h, Idle)
       ELSE Becomes(h, [op |-> "addMember", org |-> handler[h].org,
                        email |-> handler[h].email])
    /\ UNCHANGED <<tables, caller, history>>

MemberInsert(h) ==
    /\ handler[h].op = "addMember"
    /\ members' =
         IF \E m \in MembersOf(handler[h].org) : members[m].email = handler[h].email
         THEN members
         ELSE Append(members, [org |-> handler[h].org, email |-> handler[h].email,
                               status |-> "active"])
    /\ Becomes(h, Idle)
    /\ UNCHANGED <<orgs, keys, caller, history>>

-----------------------------------------------------------------------------
(* auth.create_key: the insertion that POST /admin/keys and a rotation share. *)

NewKey(org, member, models) ==
    /\ Len(keys) < MaxKeys
    /\ keys' = Append(keys, [org |-> org, member |-> member, models |-> Stored(models),
                             revoked |-> FALSE])

(* POST /admin/keys without a member. *)
CreateLegacyKey(models) ==
    /\ NewKey(None, None, models)
    /\ origin' = Append(origin, Len(keys) + 1)
    /\ UNCHANGED <<orgs, members, handler, caller, peak, disturbed>>

(* POST /admin/keys: read the member and its organization, then insert. *)
KeyReadMember(h, m, models) ==
    /\ handler[h] = Idle
    /\ members[m].status = "active"
    /\ orgs[members[m].org].status = "active"
    /\ Becomes(h, [op |-> "addKey", org |-> members[m].org, member |-> m,
                   models |-> models])
    /\ UNCHANGED <<tables, caller, history>>

KeyInsert(h) ==
    /\ handler[h].op = "addKey"
    /\ NewKey(handler[h].org, handler[h].member, handler[h].models)
    /\ origin' = Append(origin, Len(keys) + 1)
    /\ Becomes(h, Idle)
    /\ UNCHANGED <<orgs, members, caller, peak, disturbed>>

(* POST /admin/keys/{id}/rotate: read the key, insert its successor, revoke. *)

(* Mutant: not all of the row is read. *)
RotateReadPartly(h, k) ==
    /\ handler[h] = Idle
    /\ ~keys[k].revoked
    /\ Becomes(h, [op |-> "successor", key |-> k,
                   row |-> [org |-> keys[k].org, member |-> keys[k].member,
                            models |-> keys[k].models]])
    /\ UNCHANGED <<tables, caller, history>>

RotateRead(h, k) ==
    /\ handler[h] = Idle
    /\ ~keys[k].revoked
    /\ Becomes(h, [op |-> "successor", key |-> k, row |-> keys[k]])
    /\ UNCHANGED <<tables, caller, history>>

(* Whether key k already has, or is about to lose its life to, a successor. *)
Replaced(k) ==
    \/ keys[k].revoked
    \/ \E h \in Handlers : handler[h].op = "retire" /\ handler[h].key = k

(* Mutants: the successor is nobody's key, or nobody's in its organization. *)
RotateInsertUnassigned(h) ==
    /\ handler[h].op = "successor"
    /\ NewKey(None, None, handler[h].row.models)
    /\ origin' = Append(origin, origin[handler[h].key])
    /\ disturbed' = IF Replaced(handler[h].key)
                     THEN disturbed \cup {origin[handler[h].key]} ELSE disturbed
    /\ Becomes(h, [op |-> "retire", key |-> handler[h].key])
    /\ UNCHANGED <<orgs, members, caller, peak>>

RotateInsertOrgOnly(h) ==
    /\ handler[h].op = "successor"
    /\ NewKey(handler[h].row.org, None, handler[h].row.models)
    /\ origin' = Append(origin, origin[handler[h].key])
    /\ disturbed' = IF Replaced(handler[h].key)
                     THEN disturbed \cup {origin[handler[h].key]} ELSE disturbed
    /\ Becomes(h, [op |-> "retire", key |-> handler[h].key])
    /\ UNCHANGED <<orgs, members, caller, peak>>

RotateInsert(h) ==
    /\ handler[h].op = "successor"
    /\ NewKey(handler[h].row.org, handler[h].row.member, handler[h].row.models)
    /\ origin' = Append(origin, origin[handler[h].key])
    /\ disturbed' = IF Replaced(handler[h].key)
                     THEN disturbed \cup {origin[handler[h].key]} ELSE disturbed
    /\ Becomes(h, [op |-> "retire", key |-> handler[h].key])
    /\ UNCHANGED <<orgs, members, caller, peak>>

(* Mutant: the old key is left alive. *)
RotateRetireNothing(h) ==
    /\ handler[h].op = "retire"
    /\ Becomes(h, Idle)
    /\ UNCHANGED <<tables, caller, history>>

RotateRetire(h) ==
    /\ handler[h].op = "retire"
    /\ keys' = [keys EXCEPT ![handler[h].key].revoked = TRUE]
    /\ Becomes(h, Idle)
    /\ UNCHANGED <<orgs, members, caller, history>>

-----------------------------------------------------------------------------
(* require_api_key: the lookup, with the LEFT JOINs on the key's own columns
   and the checks that follow it, then the write of last_used_at. *)
Lookup(c, k) ==
    /\ caller[c] = None
    /\ ~keys[k].revoked
    /\ keys[k].org # None => orgs[keys[k].org].status = "active"
    /\ keys[k].member # None => members[keys[k].member].status = "active"
    /\ caller' = [caller EXCEPT ![c] = k]
    /\ UNCHANGED <<tables, handler, history>>

MarkUsed(c) ==
    /\ caller[c] # None
    /\ caller' = [caller EXCEPT ![c] = None]
    /\ UNCHANGED <<tables, handler, history>>

(* The rotations of these handlers that have not revoked the old key yet. *)
Unretired(hs) == {origin[handler[h].key] : h \in {g \in hs : handler[g].op = "retire"}}

(* The next statement of a handler raises, the database being locked or the
   disk full: the request ends with a 500, and what it has already committed
   stays. *)
StatementFails(h) ==
    /\ handler[h] # Idle
    /\ Becomes(h, Idle)
    /\ disturbed' = disturbed \cup Unretired({h})
    /\ UNCHANGED <<tables, caller, peak, origin>>

(* The gateway stops and starts again. *)
Restart ==
    /\ handler' = [h \in Handlers |-> Idle]
    /\ caller' = [c \in Callers |-> None]
    /\ disturbed' = disturbed \cup Unretired(Handlers)
    /\ UNCHANGED <<tables, peak, origin>>

-----------------------------------------------------------------------------
AdminSteps ==
    \/ \E slug \in Slugs, limit \in MemberLimits : CreateOrganization(slug, limit)
    \/ \E o \in DOMAIN orgs, status \in Status, limit \in MemberLimits :
         UpdateOrganization(o, status, limit)
    \/ \E m \in DOMAIN members, status \in Status, email \in Emails :
         UpdateMember(m, status, email)
    \/ \E k \in DOMAIN keys : RevokeKey(k) \/ \E models \in AskedModels : UpdateKey(k, models)
    \/ \E models \in AskedModels : CreateLegacyKey(models)

HandlerSteps(h) ==
    \/ \E o \in DOMAIN orgs, email \in Emails : MemberReadOrg(h, o, email)
    \/ MemberCount(h)
    \/ MemberInsert(h)
    \/ \E m \in DOMAIN members, models \in AskedModels : KeyReadMember(h, m, models)
    \/ KeyInsert(h)
    \/ \E k \in DOMAIN keys : RotateRead(h, k)
    \/ RotateInsert(h)
    \/ RotateRetire(h)
    \/ StatementFails(h)

Next ==
    \/ AdminSteps
    \/ \E h \in Handlers : HandlerSteps(h)
    \/ \E c \in Callers : MarkUsed(c) \/ \E k \in DOMAIN keys : Lookup(c, k)
    \/ Restart

Spec == Init /\ [][Next]_vars

-----------------------------------------------------------------------------
Task ==
    {Idle}
    \cup [op : {"count"}, org : Nat, email : Emails, limit : MemberLimits]
    \cup [op : {"addMember"}, org : Nat, email : Emails]
    \cup [op : {"addKey"}, org : Nat, member : Nat, models : Restrictions]
    \cup [op : {"successor"}, key : Nat, row : KeyRow]
    \cup [op : {"retire"}, key : Nat]

TypeOK ==
    /\ orgs \in Seq(OrgRow)
    /\ members \in Seq(MemberRow)
    /\ keys \in Seq(KeyRow)
    /\ handler \in [Handlers -> Task]
    /\ caller \in [Callers -> Nat \cup {None}]

(* The organization a key is charged to and blocked with is its member's,
   through every rotation: the two columns never come apart. *)
KeysFollowMembers ==
    \A k \in DOMAIN keys :
      IF keys[k].member = None THEN keys[k].org = None
      ELSE /\ keys[k].member \in DOMAIN members
           /\ keys[k].org = members[keys[k].member].org

(* The account the first key of k's rotations was created for is active. *)
AccountActive(k) ==
    LET m == keys[origin[k]].member
    IN  m # None => /\ members[m].status = "active"
                    /\ orgs[members[m].org].status = "active"

(* README.md: "Suspending an organization or member immediately blocks all
   keys beneath it", those created by a rotation or a creation that was under
   way at the time, too: no lookup succeeds from then on. *)
SuspensionReachesEveryKey ==
    [][\A c \in Callers :
         caller[c] = None /\ caller'[c] # None => AccountActive(caller'[c])]_vars

(* The handlers that have found a seat free and are about to take it. *)
Seating(o) == {h \in Handlers : handler[h].op = "addMember" /\ handler[h].org = o}

(* What the count does guarantee without a transaction around it: the
   members and those about to be added never outnumber the largest limit the
   organization ever had by more than the other handlers. *)
OverrunBounded ==
    \A o \in DOMAIN orgs :
      Cardinality(MembersOf(o)) + Cardinality(Seating(o))
        <= peak[o] + Cardinality(Handlers) - 1

(* The member allowance itself (README.md: "A free client account defaults to
   five members"), for an organization whose limit was never lowered. *)
AllowanceRespected ==
    \A o \in DOMAIN orgs : Cardinality(MembersOf(o)) <= peak[o]

(* The keys of one line of rotations that still open the door. *)
LiveKeys(first) == {k \in DOMAIN keys : origin[k] = first /\ ~keys[k].revoked}

Retiring(first) ==
    {h \in Handlers : handler[h].op = "retire" /\ origin[handler[h].key] = first}

(* A rotation replaces: but for the ones not finished yet, a line of
   rotations has one live key at most.  Two rotations of one key at a time,
   one that is overtaken by the key's revocation, and one whose last statement
   fails or is cut off by a restart are the only ways to end with more. *)
OneLiveKey ==
    \A k \in DOMAIN keys : origin[k] = k /\ k \notin disturbed =>
      Cardinality(LiveKeys(k)) <= 1 + Cardinality(Retiring(k))
=============================================================================
