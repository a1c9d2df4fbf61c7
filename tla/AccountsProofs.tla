--------------------------- MODULE AccountsProofs ---------------------------
(***************************************************************************)
(* Proofs about the accounts and keys of module Accounts, for any number   *)
(* of handlers, callers, rows and restarts.                                *)
(***************************************************************************)
EXTENDS Accounts, TLAPS, FiniteSetTheorems, SequenceTheorems

-----------------------------------------------------------------------------
(* Tables *)

LEMMA InsertedRow ==
    ASSUME NEW S, NEW table \in Seq(S), NEW row \in S
    PROVE  /\ Append(table, row) \in Seq(S)
           /\ Len(table) \in Nat
           /\ DOMAIN table = 1..Len(table)
           /\ Len(Append(table, row)) = Len(table) + 1
           /\ DOMAIN Append(table, row) = 1..(Len(table) + 1)
           /\ \A n \in DOMAIN table : Append(table, row)[n] = table[n]
           /\ Append(table, row)[Len(table) + 1] = row
<1>1. Len(table) \in Nat /\ DOMAIN table = 1..Len(table)
  BY LenProperties
<1>2. /\ Append(table, row) \in Seq(S)
      /\ Len(Append(table, row)) = Len(table) + 1
      /\ \A n \in 1..Len(table) : Append(table, row)[n] = table[n]
      /\ Append(table, row)[Len(table) + 1] = row
  BY AppendProperties
<1>3. DOMAIN Append(table, row) = 1..(Len(table) + 1)
  BY <1>2, LenProperties
<1>4. QED
  BY <1>1, <1>2, <1>3

LEMMA UpdatedRow ==
    ASSUME NEW S, NEW table \in Seq(S), NEW n \in DOMAIN table, NEW row \in S
    PROVE  /\ [table EXCEPT ![n] = row] \in Seq(S)
           /\ Len([table EXCEPT ![n] = row]) = Len(table)
           /\ DOMAIN [table EXCEPT ![n] = row] = DOMAIN table
           /\ \A m \in DOMAIN table :
                [table EXCEPT ![n] = row][m] = IF m = n THEN row ELSE table[m]
<1>1. DOMAIN table = 1..Len(table)
  BY LenProperties
<1>2. QED
  BY <1>1, ExceptSeq

-----------------------------------------------------------------------------
(* Types *)

LEMMA RowTypes ==
    ASSUME TypeOK
    PROVE  /\ \A o \in DOMAIN orgs : orgs[o] \in OrgRow
           /\ \A m \in DOMAIN members : members[m] \in MemberRow
           /\ \A k \in DOMAIN keys : keys[k] \in KeyRow
           /\ DOMAIN orgs \subseteq Nat
           /\ DOMAIN members \subseteq Nat
           /\ DOMAIN keys \subseteq Nat
<1>1. /\ orgs \in Seq(OrgRow) /\ members \in Seq(MemberRow)
      /\ keys \in Seq(KeyRow)
  BY DEF TypeOK
<1>2. /\ DOMAIN orgs = 1..Len(orgs) /\ Len(orgs) \in Nat
      /\ DOMAIN members = 1..Len(members) /\ Len(members) \in Nat
      /\ DOMAIN keys = 1..Len(keys) /\ Len(keys) \in Nat
  BY <1>1, LenProperties
<1>3. QED
  BY <1>1, <1>2, ElementOfSeq

\* A task is known by its op.
LEMMA TaskTypes ==
    ASSUME NEW t \in Task
    PROVE  /\ t.op = "count" => /\ t.org \in Nat /\ t.email \in Emails
                                /\ t.limit \in MemberLimits
           /\ t.op = "addMember" => t.org \in Nat /\ t.email \in Emails
           /\ t.op = "addKey" => /\ t.org \in Nat /\ t.member \in Nat
                                 /\ t.models \in Restrictions
           /\ t.op = "successor" => t.key \in Nat /\ t.row \in KeyRow
           /\ t.op = "retire" => t.key \in Nat
BY DEF Task, Idle

LEMMA StoredTyped == \A models \in Restrictions : Stored(models) \in Restrictions
BY DEF Stored, Restrictions

LEMMA NewKeyTyped ==
    ASSUME TypeOK, NEW org \in Nat \cup {None}, NEW member \in Nat \cup {None},
           NEW models \in Restrictions, NewKey(org, member, models)
    PROVE  keys' \in Seq(KeyRow)
<1>1. [org |-> org, member |-> member, models |-> Stored(models),
       revoked |-> FALSE] \in KeyRow
  BY StoredTyped DEF KeyRow
<1>2. QED
  BY <1>1, InsertedRow DEF NewKey, TypeOK

\* What a handler does next.
LEMMA BecomesTyped ==
    ASSUME handler \in [Handlers -> Task], NEW h \in Handlers, NEW t \in Task,
           Becomes(h, t)
    PROVE  /\ handler' \in [Handlers -> Task]
           /\ handler'[h] = t
           /\ \A g \in Handlers : g # h => handler'[g] = handler[g]
BY DEF Becomes

LEMMA IdleTyped == Idle \in Task
BY DEF Task

LEMMA InitTyped == Init => TypeOK
<1> SUFFICES ASSUME Init PROVE TypeOK
  OBVIOUS
<1>1. /\ orgs \in Seq(OrgRow) /\ members \in Seq(MemberRow)
      /\ keys \in Seq(KeyRow)
  BY EmptySeq DEF Init
<1>2. QED
  BY <1>1, IdleTyped DEF Init, TypeOK

\* The tables after a change by the administrator.
LEMMA AdminTyped == TypeOK /\ AdminSteps => TypeOK'
<1> SUFFICES ASSUME TypeOK, AdminSteps PROVE TypeOK'
  OBVIOUS
<1>1. CASE \E slug \in Slugs, limit \in MemberLimits :
             CreateOrganization(slug, limit)
  <2> PICK slug \in Slugs, limit \in MemberLimits :
        CreateOrganization(slug, limit)
    BY <1>1
  <2>1. [slug |-> slug, status |-> "active", limit |-> limit] \in OrgRow
    BY DEF OrgRow, Status
  <2>2. orgs' \in Seq(OrgRow)
    BY <2>1, InsertedRow DEF CreateOrganization, TypeOK
  <2>3. QED
    BY <2>2 DEF CreateOrganization, TypeOK
<1>2. CASE \E o \in DOMAIN orgs, status \in Status, limit \in MemberLimits :
             UpdateOrganization(o, status, limit)
  <2> PICK o \in DOMAIN orgs, status \in Status, limit \in MemberLimits :
        UpdateOrganization(o, status, limit)
    BY <1>2
  <2> DEFINE row == [orgs[o] EXCEPT !.status = status, !.limit = limit]
  <2>1. row \in OrgRow
    BY RowTypes DEF OrgRow
  <2>2. orgs' = [orgs EXCEPT ![o] = row]
    BY RowTypes DEF UpdateOrganization, OrgRow
  <2>3. orgs' \in Seq(OrgRow)
    BY <2>1, <2>2, UpdatedRow DEF TypeOK
  <2>4. QED
    BY <2>3 DEF UpdateOrganization, TypeOK
<1>3. CASE \E m \in DOMAIN members, status \in Status, email \in Emails :
             UpdateMember(m, status, email)
  <2> PICK m \in DOMAIN members, status \in Status, email \in Emails :
        UpdateMember(m, status, email)
    BY <1>3
  <2> DEFINE row == [members[m] EXCEPT !.status = status, !.email = email]
  <2>1. row \in MemberRow
    BY RowTypes DEF MemberRow
  <2>2. members' = [members EXCEPT ![m] = row]
    BY RowTypes DEF UpdateMember, MemberRow
  <2>3. members' \in Seq(MemberRow)
    BY <2>1, <2>2, UpdatedRow DEF TypeOK
  <2>4. QED
    BY <2>3 DEF UpdateMember, TypeOK, history
<1>4. CASE \E k \in DOMAIN keys : RevokeKey(k)
  <2> PICK k \in DOMAIN keys : RevokeKey(k)
    BY <1>4
  <2> DEFINE row == [keys[k] EXCEPT !.revoked = TRUE]
  <2>1. row \in KeyRow
    BY RowTypes DEF KeyRow
  <2>2. keys' \in Seq(KeyRow)
    BY <2>1, UpdatedRow DEF RevokeKey, TypeOK
  <2>3. QED
    BY <2>2 DEF RevokeKey, TypeOK, history
<1>5. CASE \E k \in DOMAIN keys, models \in AskedModels : UpdateKey(k, models)
  <2> PICK k \in DOMAIN keys, models \in AskedModels : UpdateKey(k, models)
    BY <1>5
  <2> DEFINE row == [keys[k] EXCEPT !.models = Stored(models)]
  <2>1. Stored(models) \in Restrictions
    BY StoredTyped, AccountsAssumption DEF Restrictions
  <2>2. row \in KeyRow
    BY <2>1, RowTypes DEF KeyRow
  <2>3. keys' \in Seq(KeyRow)
    BY <2>2, UpdatedRow DEF UpdateKey, TypeOK
  <2>4. QED
    BY <2>3 DEF UpdateKey, TypeOK, history
<1>6. CASE \E models \in AskedModels : CreateLegacyKey(models)
  <2> PICK models \in AskedModels : CreateLegacyKey(models)
    BY <1>6
  <2>1. models \in Restrictions
    BY AccountsAssumption DEF Restrictions
  <2>2. keys' \in Seq(KeyRow)
    BY <2>1, NewKeyTyped DEF CreateLegacyKey
  <2>3. QED
    BY <2>2 DEF CreateLegacyKey, TypeOK
<1>7. QED
  BY <1>1, <1>2, <1>3, <1>4, <1>5, <1>6 DEF AdminSteps

\* The tables and the tasks after a statement of a handler.
LEMMA HandlerTyped ==
    ASSUME TypeOK, NEW h \in Handlers, HandlerSteps(h)
    PROVE  TypeOK'
<1> USE DEF TypeOK
<1>1. CASE \E o \in DOMAIN orgs, email \in Emails : MemberReadOrg(h, o, email)
  <2> PICK o \in DOMAIN orgs, email \in Emails : MemberReadOrg(h, o, email)
    BY <1>1
  <2>1. [op |-> "count", org |-> o, email |-> email, limit |-> orgs[o].limit]
          \in Task
    BY RowTypes DEF Task, OrgRow
  <2>2. QED
    BY <2>1, BecomesTyped DEF MemberReadOrg, tables, history
<1>2. CASE MemberCount(h)
  <2>1. [op |-> "addMember", org |-> handler[h].org, email |-> handler[h].email]
          \in Task
    BY <1>2, TaskTypes DEF MemberCount, Task
  <2>2. QED
    BY <1>2, <2>1, IdleTyped, BecomesTyped DEF MemberCount, tables, history
<1>3. CASE MemberInsert(h)
  <2>1. [org |-> handler[h].org, email |-> handler[h].email,
         status |-> "active"] \in MemberRow
    BY <1>3, TaskTypes DEF MemberInsert, MemberRow, Status
  <2>2. members' \in Seq(MemberRow)
    BY <1>3, <2>1, InsertedRow DEF MemberInsert
  <2>3. QED
    BY <1>3, <2>2, IdleTyped, BecomesTyped DEF MemberInsert, history
<1>4. CASE \E m \in DOMAIN members, models \in AskedModels :
             KeyReadMember(h, m, models)
  <2> PICK m \in DOMAIN members, models \in AskedModels :
        KeyReadMember(h, m, models)
    BY <1>4
  <2>1. /\ members[m] \in MemberRow /\ m \in Nat
        /\ models \in Restrictions
    BY RowTypes, AccountsAssumption DEF Restrictions
  <2>2. [op |-> "addKey", org |-> members[m].org, member |-> m,
         models |-> models] \in Task
    BY <2>1 DEF Task, MemberRow
  <2>3. QED
    BY <2>2, BecomesTyped DEF KeyReadMember, tables, history
<1>5. CASE KeyInsert(h)
  <2>1. /\ handler[h].org \in Nat /\ handler[h].member \in Nat
        /\ handler[h].models \in Restrictions
    BY <1>5, TaskTypes DEF KeyInsert
  <2>2. keys' \in Seq(KeyRow)
    BY <1>5, <2>1, NewKeyTyped DEF KeyInsert
  <2>3. QED
    BY <1>5, <2>2, IdleTyped, BecomesTyped DEF KeyInsert
<1>6. CASE \E k \in DOMAIN keys : RotateRead(h, k)
  <2> PICK k \in DOMAIN keys : RotateRead(h, k)
    BY <1>6
  <2>1. [op |-> "successor", key |-> k, row |-> keys[k]] \in Task
    BY RowTypes DEF Task
  <2>2. QED
    BY <2>1, BecomesTyped DEF RotateRead, tables, history
<1>7. CASE RotateInsert(h)
  <2>1. handler[h].key \in Nat /\ handler[h].row \in KeyRow
    BY <1>7, TaskTypes DEF RotateInsert
  <2>2. keys' \in Seq(KeyRow)
    BY <1>7, <2>1, NewKeyTyped DEF RotateInsert, KeyRow
  <2>3. [op |-> "retire", key |-> handler[h].key] \in Task
    BY <2>1 DEF Task
  <2>4. QED
    BY <1>7, <2>2, <2>3, BecomesTyped DEF RotateInsert
<1>8. CASE RotateRetire(h)
  <2> DEFINE k == handler[h].key
             row == [keys[k] EXCEPT !.revoked = TRUE]
  <2>1. CASE k \in DOMAIN keys
    <3>1. row \in KeyRow
      BY <2>1, RowTypes DEF KeyRow
    <3>2. keys' \in Seq(KeyRow)
      BY <1>8, <2>1, <3>1, UpdatedRow DEF RotateRetire
    <3>3. QED
      BY <1>8, <3>2, IdleTyped, BecomesTyped DEF RotateRetire, history
  <2>2. CASE k \notin DOMAIN keys
    <3>1. keys' = keys
      BY <1>8, <2>2 DEF RotateRetire
    <3>2. QED
      BY <1>8, <3>1, IdleTyped, BecomesTyped DEF RotateRetire, history
  <2>3. QED
    BY <2>1, <2>2
<1>9. CASE StatementFails(h)
  BY <1>9, IdleTyped, BecomesTyped DEF StatementFails, tables
<1>10. QED
  BY <1>1, <1>2, <1>3, <1>4, <1>5, <1>6, <1>7, <1>8, <1>9 DEF HandlerSteps

LEMMA NextTyped == TypeOK /\ [Next]_vars => TypeOK'
<1> SUFFICES ASSUME TypeOK, [Next]_vars PROVE TypeOK'
  OBVIOUS
<1>1. CASE \E h \in Handlers : HandlerSteps(h)
  BY <1>1, HandlerTyped
<1>2. CASE \E c \in Callers : MarkUsed(c) \/ \E k \in DOMAIN keys : Lookup(c, k)
  BY <1>2, RowTypes DEF TypeOK, MarkUsed, Lookup, tables, history
<1>3. CASE Restart
  BY <1>3, IdleTyped DEF TypeOK, Restart, tables
<1>4. CASE UNCHANGED vars
  BY <1>4 DEF TypeOK, vars
<1>5. QED
  BY <1>1, <1>2, <1>3, <1>4, AdminTyped DEF Next

\* The tables, what the handlers have read and what the callers carry keep
\* their types through every interleaving (admin.py, auth.py).
THEOREM TypeCorrect == Spec => []TypeOK
<1>1. QED
  BY InitTyped, NextTyped, PTL DEF Spec

-----------------------------------------------------------------------------
(* What the tables keep: rows stay, and some of their columns never change. *)

HistoryOK ==
    /\ peak \in Seq(MemberLimits) /\ Len(peak) = Len(orgs)
    /\ origin \in Seq(Nat) /\ Len(origin) = Len(keys)

SameAccount(row, other) == row.org = other.org /\ row.member = other.member

OfMember(row) ==
    IF row.member = None THEN row.org = None
    ELSE row.member \in DOMAIN members /\ row.org = members[row.member].org

TaskOK(t) ==
    /\ t.op \in {"count", "addMember"} => t.org \in DOMAIN orgs
    /\ t.op = "count" => t.limit <= peak[t.org]
    /\ t.op = "addKey" => t.member \in DOMAIN members /\ OfMember(t)
    /\ t.op \in {"successor", "retire"} => t.key \in DOMAIN keys
    /\ t.op = "successor" => SameAccount(t.row, keys[t.key])

OrgsOK == \A o \in DOMAIN orgs : orgs[o].limit <= peak[o]
TasksOK == \A h \in Handlers : TaskOK(handler[h])
MembersOK == \A m \in DOMAIN members : members[m].org \in DOMAIN orgs
KeysOK ==
    \A k \in DOMAIN keys :
        /\ OfMember(keys[k])
        /\ origin[k] \in DOMAIN keys
        /\ keys[origin[k]].member = keys[k].member

RowInv == TypeOK /\ HistoryOK /\ OrgsOK /\ TasksOK /\ MembersOK /\ KeysOK

OrgsGrow ==
    \A o \in DOMAIN orgs : o \in DOMAIN orgs' /\ peak[o] <= peak'[o]

MembersGrow ==
    /\ \A m \in DOMAIN members :
          m \in DOMAIN members' /\ members'[m].org = members[m].org
    /\ \A m \in DOMAIN members' \ DOMAIN members : members'[m].org \in DOMAIN orgs

KeysGrow ==
    /\ \A k \in DOMAIN keys :
          /\ k \in DOMAIN keys'
          /\ SameAccount(keys'[k], keys[k])
          /\ origin'[k] = origin[k]
          /\ keys[k].revoked => keys'[k].revoked
    /\ \A k \in DOMAIN keys' \ DOMAIN keys :
          \/ origin'[k] = k /\ OfMember(keys'[k])
          \/ \E j \in DOMAIN keys :
                SameAccount(keys'[k], keys[j]) /\ origin'[k] = origin[j]

\* The domains of the tables and of the histories that go with them.
LEMMA Domains ==
    ASSUME TypeOK, HistoryOK
    PROVE  /\ Len(orgs) \in Nat /\ DOMAIN orgs = 1..Len(orgs)
           /\ DOMAIN peak = DOMAIN orgs
           /\ Len(members) \in Nat /\ DOMAIN members = 1..Len(members)
           /\ Len(keys) \in Nat /\ DOMAIN keys = 1..Len(keys)
           /\ DOMAIN origin = DOMAIN keys
           /\ \A o \in DOMAIN orgs : peak[o] \in MemberLimits /\ peak[o] \in Nat \ {0}
           /\ \A k \in DOMAIN keys : origin[k] \in Nat
<1>1. /\ orgs \in Seq(OrgRow) /\ members \in Seq(MemberRow)
      /\ keys \in Seq(KeyRow)
  BY DEF TypeOK
<1>2. /\ peak \in Seq(MemberLimits) /\ Len(peak) = Len(orgs)
      /\ origin \in Seq(Nat) /\ Len(origin) = Len(keys)
  BY DEF HistoryOK
<1>3. /\ DOMAIN orgs = 1..Len(orgs) /\ DOMAIN peak = 1..Len(peak)
      /\ DOMAIN members = 1..Len(members) /\ DOMAIN keys = 1..Len(keys)
      /\ DOMAIN origin = 1..Len(origin)
      /\ Len(orgs) \in Nat /\ Len(members) \in Nat /\ Len(keys) \in Nat
  BY <1>1, <1>2, LenProperties
<1>4. /\ \A o \in DOMAIN peak : peak[o] \in MemberLimits
      /\ \A k \in DOMAIN origin : origin[k] \in Nat
  BY <1>2, <1>3, ElementOfSeq
<1>5. QED
  BY <1>2, <1>3, <1>4, AccountsAssumption

LEMMA PeaksNext ==
    ASSUME TypeOK', HistoryOK'
    PROVE  \A o \in DOMAIN orgs' : peak'[o] \in Nat
<1>1. DOMAIN orgs' = 1..Len(orgs') /\ DOMAIN peak' = 1..Len(peak')
  BY LenProperties DEF HistoryOK, TypeOK
<1>2. \A o \in DOMAIN peak' : peak'[o] \in MemberLimits
  BY <1>1, ElementOfSeq DEF HistoryOK
<1>3. QED
  BY <1>1, <1>2, AccountsAssumption DEF HistoryOK

\* A new row of keys comes with its place in the history of rotations.
LEMMA NewKeyGrows ==
    ASSUME TypeOK, HistoryOK,
           NEW org \in Nat \cup {None}, NEW member \in Nat \cup {None},
           NEW models \in Restrictions, NewKey(org, member, models),
           NEW first \in Nat, origin' = Append(origin, first),
           UNCHANGED <<orgs, members, peak>>,
           LET row == [org |-> org, member |-> member]
           IN  \/ first = Len(keys) + 1 /\ OfMember(row)
               \/ \E j \in DOMAIN keys :
                    SameAccount(row, keys[j]) /\ first = origin[j]
    PROVE  OrgsGrow /\ MembersGrow /\ KeysGrow /\ HistoryOK'
<1> DEFINE new == [org |-> org, member |-> member, models |-> Stored(models),
                   revoked |-> FALSE]
           last == Len(keys) + 1
<1>1. new \in KeyRow /\ keys' = Append(keys, new)
  BY StoredTyped DEF KeyRow, NewKey
<1>2. /\ DOMAIN keys' = 1..last /\ Len(keys') = last
      /\ \A k \in DOMAIN keys : keys'[k] = keys[k]
      /\ keys'[last] = new
      /\ DOMAIN keys = 1..Len(keys) /\ Len(keys) \in Nat
  BY <1>1, InsertedRow DEF TypeOK
<1>3. /\ origin' \in Seq(Nat) /\ Len(origin') = Len(keys')
      /\ \A k \in DOMAIN keys : origin'[k] = origin[k]
      /\ origin'[last] = first
  BY <1>2, Domains, InsertedRow DEF HistoryOK
<1>4. HistoryOK'
  BY <1>3 DEF HistoryOK
<1>5. OrgsGrow
  BY Domains DEF OrgsGrow
<1>6. MembersGrow
  BY DEF MembersGrow
<1>7. \A k \in DOMAIN keys' \ DOMAIN keys : k = last
  BY <1>2
<1>8. \/ first = last /\ OfMember(new)
      \/ \E j \in DOMAIN keys : SameAccount(new, keys[j]) /\ first = origin[j]
  BY DEF OfMember, SameAccount
<1> HIDE DEF new
<1>9. \A k \in DOMAIN keys' \ DOMAIN keys :
          \/ origin'[k] = k /\ OfMember(keys'[k])
          \/ \E j \in DOMAIN keys :
                SameAccount(keys'[k], keys[j]) /\ origin'[k] = origin[j]
  BY <1>2, <1>3, <1>7, <1>8
<1>10. \A k \in DOMAIN keys :
          /\ k \in DOMAIN keys'
          /\ SameAccount(keys'[k], keys[k])
          /\ origin'[k] = origin[k]
          /\ keys[k].revoked => keys'[k].revoked
  BY <1>2, <1>3 DEF SameAccount
<1>11. QED
  BY <1>4, <1>5, <1>6, <1>9, <1>10 DEF KeysGrow

\* A step that leaves the tables alone.
LEMMA TablesStay ==
    ASSUME TypeOK, HistoryOK, UNCHANGED <<tables, peak, origin>>
    PROVE  OrgsGrow /\ MembersGrow /\ KeysGrow /\ HistoryOK'
BY Domains DEF tables, OrgsGrow, MembersGrow, KeysGrow, SameAccount, HistoryOK

\* A step that changes what may change in one key.
LEMMA KeyChanges ==
    ASSUME TypeOK, HistoryOK, NEW k \in DOMAIN keys, NEW row \in KeyRow,
           keys' = [keys EXCEPT ![k] = row],
           SameAccount(row, keys[k]), keys[k].revoked => row.revoked,
           UNCHANGED <<orgs, members, peak, origin>>
    PROVE  OrgsGrow /\ MembersGrow /\ KeysGrow /\ HistoryOK'
<1>1. /\ DOMAIN keys' = DOMAIN keys /\ Len(keys') = Len(keys)
      /\ \A j \in DOMAIN keys : keys'[j] = IF j = k THEN row ELSE keys[j]
  BY UpdatedRow DEF TypeOK
<1>2. QED
  BY <1>1, Domains DEF OrgsGrow, MembersGrow, KeysGrow, SameAccount, HistoryOK

LEMMA AdminGrows ==
    ASSUME TypeOK, HistoryOK, AdminSteps
    PROVE  OrgsGrow /\ MembersGrow /\ KeysGrow /\ HistoryOK'
<1>1. CASE \E slug \in Slugs, limit \in MemberLimits :
             CreateOrganization(slug, limit)
  <2> PICK slug \in Slugs, limit \in MemberLimits :
        CreateOrganization(slug, limit)
    BY <1>1
  <2>1. [slug |-> slug, status |-> "active", limit |-> limit] \in OrgRow
    BY DEF OrgRow, Status
  <2>2. /\ DOMAIN orgs' = 1..(Len(orgs) + 1) /\ Len(orgs') = Len(orgs) + 1
        /\ DOMAIN orgs = 1..Len(orgs) /\ Len(orgs) \in Nat
    BY <2>1, InsertedRow DEF CreateOrganization, TypeOK
  <2>3. /\ peak' \in Seq(MemberLimits) /\ Len(peak') = Len(orgs')
        /\ \A o \in DOMAIN orgs : peak'[o] = peak[o]
    BY <2>2, Domains, InsertedRow DEF CreateOrganization, HistoryOK
  <2>4. OrgsGrow
    BY <2>2, <2>3, Domains DEF OrgsGrow
  <2>5. MembersGrow /\ KeysGrow
    BY DEF CreateOrganization, MembersGrow, KeysGrow, SameAccount
  <2>6. QED
    BY <2>3, <2>4, <2>5 DEF HistoryOK, CreateOrganization
<1>2. CASE \E o \in DOMAIN orgs, status \in Status, limit \in MemberLimits :
             UpdateOrganization(o, status, limit)
  <2> PICK o \in DOMAIN orgs, status \in Status, limit \in MemberLimits :
        UpdateOrganization(o, status, limit)
    BY <1>2
  <2> DEFINE row == [orgs[o] EXCEPT !.status = status, !.limit = limit]
             high == IF limit > peak[o] THEN limit ELSE peak[o]
  <2>1. row \in OrgRow
    BY RowTypes DEF OrgRow
  <2>2. orgs' = [orgs EXCEPT ![o] = row]
    BY RowTypes DEF UpdateOrganization, OrgRow
  <2>3. DOMAIN orgs' = DOMAIN orgs /\ Len(orgs') = Len(orgs)
    BY <2>1, <2>2, UpdatedRow DEF TypeOK
  <2>4. high \in MemberLimits /\ high >= peak[o]
    BY Domains, AccountsAssumption
  <2>5. peak' = [peak EXCEPT ![o] = high]
    BY DEF UpdateOrganization
  <2>6. /\ peak' \in Seq(MemberLimits) /\ Len(peak') = Len(peak)
        /\ \A n \in DOMAIN peak : peak'[n] = IF n = o THEN high ELSE peak[n]
    BY <2>4, <2>5, Domains, UpdatedRow DEF HistoryOK
  <2>7. OrgsGrow
    BY <2>3, <2>4, <2>6, Domains DEF OrgsGrow
  <2>8. MembersGrow /\ KeysGrow
    BY DEF UpdateOrganization, MembersGrow, KeysGrow, SameAccount
  <2>9. QED
    BY <2>3, <2>6, <2>7, <2>8 DEF HistoryOK, UpdateOrganization
<1>3. CASE \E m \in DOMAIN members, status \in Status, email \in Emails :
             UpdateMember(m, status, email)
  <2> PICK m \in DOMAIN members, status \in Status, email \in Emails :
        UpdateMember(m, status, email)
    BY <1>3
  <2> DEFINE row == [members[m] EXCEPT !.status = status, !.email = email]
  <2>1. row \in MemberRow /\ row.org = members[m].org
    BY RowTypes DEF MemberRow
  <2>2. members' = [members EXCEPT ![m] = row]
    BY RowTypes DEF UpdateMember, MemberRow
  <2>3. /\ DOMAIN members' = DOMAIN members
        /\ \A n \in DOMAIN members : members'[n] = IF n = m THEN row ELSE members[n]
    BY <2>1, <2>2, UpdatedRow DEF TypeOK
  <2>4. MembersGrow
    BY <2>1, <2>3 DEF MembersGrow
  <2>5. OrgsGrow /\ KeysGrow /\ HistoryOK'
    BY Domains DEF UpdateMember, OrgsGrow, KeysGrow, SameAccount, HistoryOK, history
  <2>6. QED
    BY <2>4, <2>5
<1>4. CASE \E k \in DOMAIN keys : RevokeKey(k)
  <2> PICK k \in DOMAIN keys : RevokeKey(k)
    BY <1>4
  <2> DEFINE row == [keys[k] EXCEPT !.revoked = TRUE]
  <2>1. row \in KeyRow /\ SameAccount(row, keys[k]) /\ row.revoked
    BY RowTypes DEF KeyRow, SameAccount
  <2>2. keys' = [keys EXCEPT ![k] = row] /\ UNCHANGED <<orgs, members, peak, origin>>
    BY DEF RevokeKey, history
  <2>3. QED
    BY <2>1, <2>2, KeyChanges
<1>5. CASE \E k \in DOMAIN keys, models \in AskedModels : UpdateKey(k, models)
  <2> PICK k \in DOMAIN keys, models \in AskedModels : UpdateKey(k, models)
    BY <1>5
  <2> DEFINE row == [keys[k] EXCEPT !.models = Stored(models)]
  <2>1. Stored(models) \in Restrictions
    BY StoredTyped, AccountsAssumption DEF Restrictions
  <2>2. row \in KeyRow /\ SameAccount(row, keys[k]) /\ row.revoked = keys[k].revoked
    BY <2>1, RowTypes DEF KeyRow, SameAccount
  <2>3. keys' = [keys EXCEPT ![k] = row] /\ UNCHANGED <<orgs, members, peak, origin>>
    BY DEF UpdateKey, history
  <2>4. QED
    BY <2>2, <2>3, KeyChanges
<1>6. CASE \E models \in AskedModels : CreateLegacyKey(models)
  <2> PICK models \in AskedModels : CreateLegacyKey(models)
    BY <1>6
  <2>1. models \in Restrictions /\ Len(keys) + 1 \in Nat
    BY AccountsAssumption, Domains DEF Restrictions
  <2>2. OfMember([org |-> None, member |-> None])
    BY DEF OfMember
  <2>3. QED
    BY <2>1, <2>2, NewKeyGrows DEF CreateLegacyKey
<1>7. QED
  BY <1>1, <1>2, <1>3, <1>4, <1>5, <1>6 DEF AdminSteps

LEMMA HandlerGrows ==
    ASSUME RowInv, NEW h \in Handlers, HandlerSteps(h)
    PROVE  OrgsGrow /\ MembersGrow /\ KeysGrow /\ HistoryOK'
<1>1. TypeOK /\ HistoryOK /\ TaskOK(handler[h]) /\ KeysOK /\ handler[h] \in Task
  BY DEF RowInv, TasksOK, TypeOK
<1>2. CASE UNCHANGED <<tables, peak, origin>>
  BY <1>1, <1>2, TablesStay
<1>3. CASE MemberInsert(h)
  <2> DEFINE row == [org |-> handler[h].org, email |-> handler[h].email,
                     status |-> "active"]
  <2>1. row \in MemberRow /\ handler[h].org \in DOMAIN orgs
    BY <1>1, <1>3, TaskTypes DEF MemberInsert, MemberRow, Status, TaskOK
  <2>2. CASE members' = members
    BY <1>1, <1>3, <2>2, TablesStay DEF MemberInsert, tables, history
  <2>3. CASE members' = Append(members, row)
    <3>1. /\ DOMAIN members' = 1..(Len(members) + 1) /\ Len(members) \in Nat
          /\ DOMAIN members = 1..Len(members)
          /\ \A m \in DOMAIN members : members'[m] = members[m]
          /\ members'[Len(members) + 1] = row
      BY <1>1, <2>1, <2>3, InsertedRow DEF TypeOK
    <3>2. MembersGrow
      BY <2>1, <3>1 DEF MembersGrow
    <3>3. OrgsGrow /\ KeysGrow /\ HistoryOK'
      BY <1>1, <1>3, Domains DEF MemberInsert, OrgsGrow, KeysGrow, SameAccount,
                                 HistoryOK, history
    <3>4. QED
      BY <3>2, <3>3
  <2>4. QED
    BY <1>3, <2>2, <2>3 DEF MemberInsert
<1>4. CASE KeyInsert(h)
  <2>1. /\ handler[h].org \in Nat /\ handler[h].member \in Nat
        /\ handler[h].models \in Restrictions
        /\ OfMember(handler[h])
    BY <1>1, <1>4, TaskTypes DEF KeyInsert, TaskOK
  <2>2. OfMember([org |-> handler[h].org, member |-> handler[h].member])
    BY <2>1 DEF OfMember
  <2>3. Len(keys) + 1 \in Nat
    BY <1>1, Domains
  <2>4. QED
    BY <1>1, <1>4, <2>1, <2>2, <2>3, NewKeyGrows DEF KeyInsert
<1>5. CASE RotateInsert(h)
  <2> DEFINE old == handler[h].key
             row == handler[h].row
  <2>1. /\ old \in DOMAIN keys /\ row \in KeyRow
        /\ SameAccount(row, keys[old])
    BY <1>1, <1>5, TaskTypes DEF RotateInsert, TaskOK
  <2>2. /\ SameAccount([org |-> row.org, member |-> row.member], keys[old])
        /\ origin[old] \in Nat
    BY <1>1, <2>1, Domains DEF SameAccount
  <2>3. QED
    BY <1>1, <1>5, <2>1, <2>2, NewKeyGrows DEF RotateInsert, KeyRow
<1>6. CASE RotateRetire(h)
  <2> DEFINE k == handler[h].key
             row == [keys[k] EXCEPT !.revoked = TRUE]
  <2>1. k \in DOMAIN keys
    BY <1>1, <1>6 DEF RotateRetire, TaskOK
  <2>2. row \in KeyRow /\ SameAccount(row, keys[k]) /\ row.revoked
    BY <1>1, <2>1, RowTypes DEF KeyRow, SameAccount
  <2>3. keys' = [keys EXCEPT ![k] = row] /\ UNCHANGED <<orgs, members, peak, origin>>
    BY <1>6 DEF RotateRetire, history
  <2>4. QED
    BY <1>1, <2>1, <2>2, <2>3, KeyChanges
<1>7. QED
  BY <1>2, <1>3, <1>4, <1>5, <1>6
  DEF HandlerSteps, StatementFails, MemberReadOrg, MemberCount, KeyReadMember, RotateRead, history

LEMMA NextGrows ==
    ASSUME RowInv, [Next]_vars
    PROVE  OrgsGrow /\ MembersGrow /\ KeysGrow /\ HistoryOK'
<1>1. TypeOK /\ HistoryOK
  BY DEF RowInv
<1>2. CASE UNCHANGED <<tables, peak, origin>>
  BY <1>1, <1>2, TablesStay
<1>3. QED
  BY <1>1, <1>2, AdminGrows, HandlerGrows
  DEF Next, MarkUsed, Lookup, Restart, vars, tables, history

LEMMA OrgsNext ==
    ASSUME RowInv, [Next]_vars
    PROVE  OrgsOK'
<1> USE DEF RowInv
<1>1. CASE UNCHANGED <<orgs, peak>>
  BY <1>1 DEF OrgsOK
<1>2. CASE \E slug \in Slugs, limit \in MemberLimits :
             CreateOrganization(slug, limit)
  <2> PICK slug \in Slugs, limit \in MemberLimits :
        CreateOrganization(slug, limit)
    BY <1>2
  <2> DEFINE row == [slug |-> slug, status |-> "active", limit |-> limit]
  <2>1. row \in OrgRow /\ row.limit = limit /\ limit \in Nat
    BY AccountsAssumption DEF OrgRow, Status
  <2>2. /\ DOMAIN orgs' = 1..(Len(orgs) + 1)
        /\ DOMAIN orgs = 1..Len(orgs) /\ Len(orgs) \in Nat
        /\ \A o \in DOMAIN orgs : orgs'[o] = orgs[o]
        /\ orgs'[Len(orgs) + 1] = row
    BY <2>1, InsertedRow DEF CreateOrganization, TypeOK
  <2>3. /\ \A o \in DOMAIN orgs : peak'[o] = peak[o]
        /\ peak'[Len(orgs) + 1] = limit
    BY Domains, InsertedRow DEF CreateOrganization, HistoryOK
  <2>4. QED
    BY <2>1, <2>2, <2>3 DEF OrgsOK
<1>3. CASE \E o \in DOMAIN orgs, status \in Status, limit \in MemberLimits :
             UpdateOrganization(o, status, limit)
  <2> PICK o \in DOMAIN orgs, status \in Status, limit \in MemberLimits :
        UpdateOrganization(o, status, limit)
    BY <1>3
  <2> DEFINE row == [orgs[o] EXCEPT !.status = status, !.limit = limit]
  <2>1. row \in OrgRow /\ row.limit = limit /\ limit \in Nat
    BY RowTypes, AccountsAssumption DEF OrgRow
  <2>2. orgs' = [orgs EXCEPT ![o] = row]
    BY RowTypes DEF UpdateOrganization, OrgRow
  <2>3. /\ DOMAIN orgs' = DOMAIN orgs
        /\ \A n \in DOMAIN orgs : orgs'[n] = IF n = o THEN row ELSE orgs[n]
    BY <2>1, <2>2, UpdatedRow DEF TypeOK
  <2>4. \A n \in DOMAIN orgs :
          peak'[n] = IF n = o /\ limit > peak[o] THEN limit ELSE peak[n]
    BY Domains DEF UpdateOrganization
  <2>5. peak[o] \in Nat /\ \A n \in DOMAIN orgs : orgs[n].limit <= peak[n]
    BY Domains DEF OrgsOK
  <2> HIDE DEF row
  <2>6. orgs'[o].limit <= peak'[o]
    BY <2>1, <2>3, <2>4, <2>5
  <2>7. \A n \in DOMAIN orgs' : orgs'[n].limit <= peak'[n]
    BY <2>3, <2>4, <2>5, <2>6
  <2>8. QED
    BY <2>7 DEF OrgsOK
<1>4. QED
  BY <1>1, <1>2, <1>3
  DEF Next, AdminSteps, HandlerSteps, StatementFails, UpdateMember, RevokeKey, UpdateKey,
      CreateLegacyKey, MemberReadOrg, MemberCount, MemberInsert, KeyReadMember,
      KeyInsert, RotateRead, RotateInsert, RotateRetire, MarkUsed, Lookup,
      Restart, vars, tables, history

LEMMA OfMemberStays ==
    ASSUME MembersGrow, NEW row, OfMember(row)
    PROVE  OfMember(row)'
BY DEF MembersGrow, OfMember

\* A task that was right stays right in tables that grow.
LEMMA TaskStays ==
    ASSUME RowInv, OrgsGrow, MembersGrow, KeysGrow, HistoryOK', TypeOK',
           NEW t \in Task, TaskOK(t)
    PROVE  TaskOK(t)'
<1>1. t.op \in {"count", "addMember"} => t.org \in DOMAIN orgs'
  BY DEF TaskOK, OrgsGrow
<1>2. ASSUME t.op = "count" PROVE t.limit <= peak'[t.org]
  <2>1. /\ t.org \in DOMAIN orgs /\ t.limit <= peak[t.org] /\ t.limit \in Nat
        /\ peak[t.org] <= peak'[t.org] /\ t.org \in DOMAIN orgs'
    BY <1>2, TaskTypes, AccountsAssumption DEF TaskOK, OrgsGrow
  <2>2. peak[t.org] \in Nat /\ peak'[t.org] \in Nat
    BY <2>1, Domains, PeaksNext DEF RowInv
  <2>3. QED
    BY <2>1, <2>2
<1>3. t.op = "addKey" => t.member \in DOMAIN members' /\ OfMember(t)'
  BY OfMemberStays DEF TaskOK, MembersGrow
<1>4. t.op \in {"successor", "retire"} => t.key \in DOMAIN keys'
  BY DEF TaskOK, KeysGrow
<1>5. t.op = "successor" => SameAccount(t.row, keys'[t.key])
  BY DEF TaskOK, KeysGrow, SameAccount
<1>6. QED
  BY <1>1, <1>2, <1>3, <1>4, <1>5 DEF TaskOK

\* What a handler turns to is right in the tables it has read.
LEMMA NewTask ==
    ASSUME RowInv, [Next]_vars, NEW g \in Handlers
    PROVE  \E t \in Task : handler'[g] = t /\ TaskOK(t)
<1>1. /\ TypeOK /\ HistoryOK /\ OrgsOK /\ MembersOK /\ KeysOK
      /\ handler \in [Handlers -> Task] /\ handler[g] \in Task
      /\ \A h \in Handlers : TaskOK(handler[h]) /\ handler[h] \in Task
  BY DEF RowInv, TasksOK, TypeOK
<1>2. TaskOK(Idle) /\ Idle \in Task
  BY IdleTyped DEF TaskOK, Idle
<1>3. CASE handler'[g] = handler[g] \/ handler'[g] = Idle
  BY <1>1, <1>2, <1>3
<1>4. ASSUME NEW h \in Handlers, HandlerSteps(h)
      PROVE  \E t \in Task : handler'[g] = t /\ TaskOK(t)
  <2>1. CASE g # h
    BY <1>1, <1>3, <1>4, <2>1
    DEF HandlerSteps, StatementFails, MemberReadOrg, MemberCount, MemberInsert, KeyReadMember,
        KeyInsert, RotateRead, RotateInsert, RotateRetire, Becomes
  <2>2. CASE g = h
    <3>1. CASE \E o \in DOMAIN orgs, email \in Emails : MemberReadOrg(h, o, email)
      <4> PICK o \in DOMAIN orgs, email \in Emails : MemberReadOrg(h, o, email)
        BY <3>1
      <4> DEFINE t == [op |-> "count", org |-> o, email |-> email,
                       limit |-> orgs[o].limit]
      <4>1. t \in Task
        BY <1>1, RowTypes DEF Task, OrgRow
      <4>2. TaskOK(t)
        BY <1>1 DEF TaskOK, OrgsOK
      <4>3. handler'[g] = t
        BY <1>1, <2>2 DEF MemberReadOrg, Becomes
      <4>4. QED
        BY <4>1, <4>2, <4>3
    <3>2. CASE MemberCount(h)
      <4> DEFINE t == [op |-> "addMember", org |-> handler[h].org,
                       email |-> handler[h].email]
      <4>1. t \in Task
        BY <1>1, <3>2, TaskTypes DEF MemberCount, Task
      <4>2. TaskOK(t)
        BY <1>1, <3>2 DEF TaskOK, MemberCount
      <4>3. handler'[g] \in {Idle, t}
        BY <1>1, <2>2, <3>2 DEF MemberCount, Becomes
      <4>4. QED
        BY <1>3, <4>1, <4>2, <4>3
    <3>3. CASE \E m \in DOMAIN members, models \in AskedModels :
                 KeyReadMember(h, m, models)
      <4> PICK m \in DOMAIN members, models \in AskedModels :
            KeyReadMember(h, m, models)
        BY <3>3
      <4> DEFINE t == [op |-> "addKey", org |-> members[m].org, member |-> m,
                       models |-> models]
      <4>1. members[m] \in MemberRow /\ m \in Nat /\ models \in Restrictions
        BY <1>1, RowTypes, AccountsAssumption DEF Restrictions
      <4>2. t \in Task
        BY <4>1 DEF Task, MemberRow
      <4>3. TaskOK(t)
        BY <4>1, AccountsAssumption DEF TaskOK, OfMember
      <4>4. handler'[g] = t
        BY <1>1, <2>2 DEF KeyReadMember, Becomes
      <4>5. QED
        BY <4>2, <4>3, <4>4
    <3>4. CASE \E k \in DOMAIN keys : RotateRead(h, k)
      <4> PICK k \in DOMAIN keys : RotateRead(h, k)
        BY <3>4
      <4> DEFINE t == [op |-> "successor", key |-> k, row |-> keys[k]]
      <4>1. t \in Task
        BY <1>1, RowTypes DEF Task
      <4>2. TaskOK(t)
        BY DEF TaskOK, SameAccount
      <4>3. handler'[g] = t
        BY <1>1, <2>2 DEF RotateRead, Becomes
      <4>4. QED
        BY <4>1, <4>2, <4>3
    <3>5. CASE RotateInsert(h)
      <4> DEFINE t == [op |-> "retire", key |-> handler[h].key]
      <4>1. t \in Task
        BY <1>1, <3>5, TaskTypes DEF RotateInsert, Task
      <4>2. TaskOK(t)
        BY <1>1, <3>5 DEF TaskOK, RotateInsert
      <4>3. handler'[g] = t
        BY <1>1, <2>2, <3>5 DEF RotateInsert, Becomes
      <4>4. QED
        BY <4>1, <4>2, <4>3
    <3>6. CASE MemberInsert(h) \/ KeyInsert(h) \/ RotateRetire(h) \/ StatementFails(h)
      BY <1>1, <1>3, <2>2, <3>6
      DEF MemberInsert, KeyInsert, RotateRetire, StatementFails, Becomes
    <3>7. QED
      BY <1>4, <3>1, <3>2, <3>3, <3>4, <3>5, <3>6 DEF HandlerSteps
  <2>3. QED
    BY <2>1, <2>2
<1>5. QED
  BY <1>3, <1>4
  DEF Next, AdminSteps, CreateOrganization, UpdateOrganization, UpdateMember,
      RevokeKey, UpdateKey, CreateLegacyKey, MarkUsed, Lookup, Restart, vars

LEMMA TasksNext ==
    ASSUME RowInv, [Next]_vars
    PROVE  TasksOK'
<1> SUFFICES ASSUME NEW h \in Handlers PROVE TaskOK(handler[h])'
  BY DEF TasksOK
<1>1. PICK t \in Task : handler'[h] = t /\ TaskOK(t)
  BY NewTask
<1>2. TaskOK(t)'
  BY <1>1, NextGrows, NextTyped, TaskStays DEF RowInv
<1>3. QED
  BY <1>1, <1>2 DEF TaskOK, OfMember

LEMMA KeysNext ==
    ASSUME RowInv, MembersGrow, KeysGrow
    PROVE  KeysOK'
<1> SUFFICES ASSUME NEW k \in DOMAIN keys'
             PROVE  /\ OfMember(keys[k])'
                    /\ origin'[k] \in DOMAIN keys'
                    /\ keys'[origin'[k]].member = keys'[k].member
  BY DEF KeysOK
<1>1. \A j \in DOMAIN keys :
        /\ j \in DOMAIN keys' /\ origin[j] \in DOMAIN keys
        /\ origin[j] \in DOMAIN keys'
        /\ keys'[origin[j]].member = keys[j].member
        /\ OfMember(keys[j])
  BY DEF RowInv, KeysOK, KeysGrow, SameAccount
<1>2. CASE OfMember(keys'[k]) /\ origin'[k] = k
  BY <1>2, OfMemberStays DEF OfMember, MembersGrow
<1>3. CASE \E j \in DOMAIN keys : SameAccount(keys'[k], keys[j]) /\ origin'[k] = origin[j]
  <2> PICK j \in DOMAIN keys : SameAccount(keys'[k], keys[j]) /\ origin'[k] = origin[j]
    BY <1>3
  <2>1. OfMember(keys'[k])
    BY <1>1 DEF SameAccount, OfMember
  <2>2. OfMember(keys[k])'
    BY <2>1 DEF OfMember, MembersGrow
  <2>3. QED
    BY <1>1, <2>2 DEF SameAccount
<1>4. QED
  BY <1>2, <1>3 DEF KeysGrow

LEMMA RowInvInit == Init => RowInv
BY InitTyped, EmptySeq, IdleTyped
DEF Init, RowInv, HistoryOK, OrgsOK, TasksOK, TaskOK, Idle, MembersOK, KeysOK

LEMMA RowInvNext == RowInv /\ [Next]_vars => RowInv'
<1> SUFFICES ASSUME RowInv, [Next]_vars PROVE RowInv'
  OBVIOUS
<1>1. OrgsGrow /\ MembersGrow /\ KeysGrow /\ HistoryOK'
  BY NextGrows
<1>2. TypeOK'
  BY NextTyped DEF RowInv
<1>3. MembersOK'
  BY <1>1 DEF RowInv, MembersOK, MembersGrow, OrgsGrow
<1>4. QED
  BY <1>1, <1>2, <1>3, OrgsNext, TasksNext, KeysNext DEF RowInv

\* A key stays with its member and that member's organization, whichever
\* handlers created it or rotated it (auth.create_key, rotate_key).
THEOREM KeysFollowTheirMembers == Spec => []KeysFollowMembers
<1>1. RowInv => KeysFollowMembers
  BY DEF RowInv, KeysOK, OfMember, KeysFollowMembers
<1>2. QED
  BY <1>1, RowInvInit, RowInvNext, PTL DEF Spec

\* Whoever is let in has an active account, and it is the account that the
\* first key of the line was created for (require_api_key, README.md).
THEOREM SuspensionReaches == Spec => SuspensionReachesEveryKey
<1>1. ASSUME RowInv, [Next]_vars
      PROVE  [\A c \in Callers :
                caller[c] = None /\ caller'[c] # None =>
                    AccountActive(caller'[c])]_vars
  <2> SUFFICES ASSUME NEW c \in Callers, caller[c] = None, caller'[c] # None
               PROVE  AccountActive(caller'[c])
    OBVIOUS
  <2>1. PICK k \in DOMAIN keys : Lookup(c, k)
    <3>1. \E d \in Callers : \E k \in DOMAIN keys : Lookup(d, k)
      BY <1>1
      DEF Next, AdminSteps, HandlerSteps, StatementFails, CreateOrganization, UpdateOrganization,
          UpdateMember, RevokeKey, UpdateKey, CreateLegacyKey, MemberReadOrg,
          MemberCount, MemberInsert, KeyReadMember, KeyInsert, RotateRead,
          RotateInsert, RotateRetire, MarkUsed, Restart, vars, RowInv, TypeOK
    <3>2. QED
      BY <1>1, <3>1 DEF Lookup, RowInv, TypeOK
  <2>2. caller'[c] = k
    BY <1>1, <2>1 DEF Lookup, RowInv, TypeOK
  <2>3. /\ keys[origin[k]].member = keys[k].member
        /\ OfMember(keys[k])
    BY <1>1 DEF RowInv, KeysOK
  <2>4. ASSUME keys[k].member # None
        PROVE  /\ members[keys[k].member].status = "active"
               /\ orgs[members[keys[k].member].org].status = "active"
    <3>1. /\ keys[k].member \in DOMAIN members
          /\ keys[k].org = members[keys[k].member].org
      BY <2>3, <2>4 DEF OfMember
    <3>2. members[keys[k].member].org \in Nat
      BY <1>1, <3>1, RowTypes DEF RowInv, MemberRow
    <3>3. keys[k].org # None
      BY <3>1, <3>2, AccountsAssumption
    <3>4. QED
      BY <2>1, <2>4, <3>1, <3>3 DEF Lookup
  <2>5. QED
    BY <2>2, <2>3, <2>4 DEF AccountActive
<1>2. QED
  BY <1>1, RowInvInit, RowInvNext, PTL DEF Spec, SuspensionReachesEveryKey

-----------------------------------------------------------------------------
(* Lines of rotations *)

\* Two keys of a line that are neither revoked nor about to be are one key.
LineInv ==
    \A j, k \in DOMAIN keys :
        /\ origin[j] = origin[k]
        /\ origin[j] \notin disturbed
        /\ ~Replaced(j)
        /\ ~Replaced(k)
        => j = k

\* What is replaced stays so, except that a restart or a failing statement
\* forgets the rotations under way and marks their lines.
LEMMA ReplacedStays ==
    ASSUME RowInv, [Next]_vars, NEW k \in DOMAIN keys, Replaced(k)
    PROVE  Replaced(k)' \/ origin[k] \in disturbed'
<1>1. /\ keys[k].revoked => keys'[k].revoked
      /\ handler \in [Handlers -> Task]
      /\ TypeOK /\ TasksOK
  BY NextGrows DEF KeysGrow, RowInv, TypeOK
<1>2. CASE keys[k].revoked
  BY <1>1, <1>2 DEF Replaced
<1>3. ASSUME NEW h \in Handlers, handler[h].op = "retire", handler[h].key = k
      PROVE  Replaced(k)' \/ origin[k] \in disturbed'
  <2>1. CASE handler'[h] = handler[h]
    BY <1>3, <2>1 DEF Replaced
  <2>2. CASE RotateRetire(h)
    <3>1. keys[k] \in KeyRow /\ k \in DOMAIN keys
      BY <1>1, RowTypes
    <3>2. keys'[k].revoked
      BY <1>3, <2>2, <3>1 DEF RotateRetire, KeyRow
    <3>3. QED
      BY <3>2 DEF Replaced
  <2>3. CASE Restart \/ StatementFails(h)
    BY <1>3, <2>3 DEF Restart, StatementFails, Unretired
  <2>4. CASE \E g \in Handlers : HandlerSteps(g)
    <3> PICK g \in Handlers : HandlerSteps(g)
      BY <2>4
    <3>1. CASE g # h
      BY <1>1, <2>1, <3>1
      DEF HandlerSteps, StatementFails, MemberReadOrg, MemberCount, MemberInsert, KeyReadMember,
          KeyInsert, RotateRead, RotateInsert, RotateRetire, Becomes
    <3>2. CASE g = h
      <4>1. HandlerSteps(h) /\ handler[h] # Idle
        BY <1>3, <3>2 DEF Idle
      <4>2. RotateRetire(h) \/ StatementFails(h)
        BY <1>3, <4>1
        DEF HandlerSteps, MemberReadOrg, MemberCount, MemberInsert, KeyReadMember,
            KeyInsert, RotateRead, RotateInsert
      <4>3. QED
        BY <2>2, <2>3, <4>2
    <3>3. QED
      BY <3>1, <3>2
  <2>5. QED
    BY <2>1, <2>3, <2>4
    DEF Next, AdminSteps, CreateOrganization, UpdateOrganization, UpdateMember,
        RevokeKey, UpdateKey, CreateLegacyKey, MarkUsed, Lookup, vars
<1>4. QED
  BY <1>2, <1>3 DEF Replaced

LEMMA DisturbedGrows ==
    ASSUME [Next]_vars
    PROVE  disturbed \subseteq disturbed'
BY DEF Next, AdminSteps, HandlerSteps, StatementFails, CreateOrganization, UpdateOrganization,
       UpdateMember, RevokeKey, UpdateKey, CreateLegacyKey, MemberReadOrg,
       MemberCount, MemberInsert, KeyReadMember, KeyInsert, RotateRead,
       RotateInsert, RotateRetire, MarkUsed, Lookup, Restart, vars, tables,
       history

\* A new key begins a line, or takes over from one that is about to go.
NewInLine(k) ==
    /\ k = Len(keys) + 1
    /\ \/ origin'[k] = k
       \/ \E j \in DOMAIN keys :
             /\ origin'[k] = origin[j]
             /\ Replaced(j)'
             /\ Replaced(j) => origin[j] \in disturbed'

LEMMA AppendedKey ==
    ASSUME TypeOK, HistoryOK, NEW org, NEW member, NEW models,
           NewKey(org, member, models), NEW first \in Nat,
           origin' = Append(origin, first)
    PROVE  \A k \in DOMAIN keys' \ DOMAIN keys :
               k = Len(keys) + 1 /\ origin'[k] = first
<1>1. /\ DOMAIN keys' = 1..Len(keys') /\ Len(keys') = Len(keys) + 1
      /\ DOMAIN keys = 1..Len(keys) /\ Len(keys) \in Nat
  BY Domains DEF NewKey, TypeOK
<1>2. origin'[Len(keys) + 1] = first
  <2>1. origin \in Seq(Nat) /\ Len(origin) = Len(keys)
    BY DEF HistoryOK
  <2>2. Append(origin, first)[Len(origin) + 1] = first
    BY <2>1, InsertedRow
  <2>3. QED
    BY <2>1, <2>2
<1>3. \A k \in DOMAIN keys' \ DOMAIN keys : k = Len(keys) + 1
  BY <1>1
<1>4. QED
  BY <1>2, <1>3

LEMMA LineOfNewKey ==
    ASSUME RowInv, [Next]_vars, NEW k \in DOMAIN keys' \ DOMAIN keys
    PROVE  NewInLine(k)
<1>1. /\ TypeOK /\ HistoryOK /\ handler \in [Handlers -> Task]
      /\ Len(keys) + 1 \in Nat /\ \A j \in DOMAIN keys : origin[j] \in Nat
  BY Domains DEF RowInv, TypeOK
<1>2. CASE \E models \in AskedModels : CreateLegacyKey(models)
  BY <1>1, <1>2, AppendedKey DEF CreateLegacyKey, NewInLine
<1>3. CASE \E h \in Handlers : KeyInsert(h)
  BY <1>1, <1>3, AppendedKey DEF KeyInsert, NewInLine
<1>4. ASSUME NEW h \in Handlers, RotateInsert(h)
      PROVE  NewInLine(k)
  <2>1. PICK j \in DOMAIN keys : j = handler[h].key
    BY <1>4 DEF RotateInsert, RowInv, TasksOK, TaskOK
  <2>2. k = Len(keys) + 1 /\ origin'[k] = origin[j]
    BY <1>1, <1>4, <2>1, AppendedKey DEF RotateInsert
  <2>3. handler'[h].op = "retire" /\ handler'[h].key = j
    BY <1>1, <1>4, <2>1 DEF RotateInsert, Becomes
  <2>4. Replaced(j)'
    BY <2>3 DEF Replaced
  <2>5. Replaced(j) => origin[j] \in disturbed'
    BY <1>4, <2>1 DEF RotateInsert
  <2>6. QED
    BY <2>1, <2>2, <2>4, <2>5 DEF NewInLine
<1>5. ASSUME NEW j \in DOMAIN keys, NEW row, keys' = [keys EXCEPT ![j] = row]
      PROVE  FALSE
  BY <1>5
<1>6. CASE \E j \in DOMAIN keys :
             RevokeKey(j) \/ \E models \in AskedModels : UpdateKey(j, models)
  BY <1>6 DEF RevokeKey, UpdateKey
<1>7. CASE \E h \in Handlers : RotateRetire(h)
  BY <1>7 DEF RotateRetire
<1>8. CASE UNCHANGED keys
  BY <1>8
<1>9. QED
  BY <1>2, <1>3, <1>4, <1>6, <1>7, <1>8
  DEF Next, AdminSteps, HandlerSteps, StatementFails, CreateOrganization, UpdateOrganization,
      UpdateMember, MemberReadOrg, MemberCount, MemberInsert, KeyReadMember,
      RotateRead, MarkUsed, Lookup, Restart, vars, tables

LEMMA LineNext ==
    ASSUME RowInv, LineInv, [Next]_vars
    PROVE  LineInv'
<1> SUFFICES ASSUME NEW j \in DOMAIN keys', NEW k \in DOMAIN keys',
                    origin'[j] = origin'[k], origin'[j] \notin disturbed',
                    ~Replaced(j)', ~Replaced(k)'
             PROVE  j = k
  BY DEF LineInv
<1>1. /\ \A i \in DOMAIN keys : origin'[i] = origin[i] /\ origin[i] \in DOMAIN keys
      /\ disturbed \subseteq disturbed'
  BY NextGrows, DisturbedGrows DEF KeysGrow, RowInv, KeysOK
<1>2. \A i \in DOMAIN keys : Replaced(i) => Replaced(i)' \/ origin[i] \in disturbed'
  BY ReplacedStays
<1>3. \A i \in DOMAIN keys' \ DOMAIN keys : NewInLine(i)
  BY LineOfNewKey
<1>4. CASE j \in DOMAIN keys /\ k \in DOMAIN keys
  BY <1>1, <1>2, <1>4 DEF LineInv
<1>5. ASSUME NEW old \in DOMAIN keys, NEW new \in DOMAIN keys' \ DOMAIN keys,
             origin'[old] = origin'[new], origin'[old] \notin disturbed',
             ~Replaced(old)', ~Replaced(new)'
      PROVE  FALSE
  <2>1. origin'[new] # new
    BY <1>1, <1>5
  <2>2. PICK i \in DOMAIN keys :
          /\ origin'[new] = origin[i]
          /\ Replaced(i)'
          /\ Replaced(i) => origin[i] \in disturbed'
    BY <1>3, <2>1 DEF NewInLine
  <2>3. ~Replaced(i) /\ ~Replaced(old) /\ origin[i] = origin[old]
        /\ origin[i] \notin disturbed
    BY <1>1, <1>2, <1>5, <2>2
  <2>4. i = old
    BY <2>3 DEF LineInv
  <2>5. QED
    BY <1>5, <2>2, <2>4
<1>6. CASE j \notin DOMAIN keys /\ k \notin DOMAIN keys
  BY <1>3, <1>6 DEF NewInLine
<1>7. QED
  BY <1>4, <1>5, <1>6

\* The live keys of a line: one that is current at most, and those that are
\* about to be retired.
LEMMA LiveKeysCounted == RowInv /\ LineInv => OneLiveKey
<1> SUFFICES ASSUME RowInv, LineInv, NEW k \in DOMAIN keys, origin[k] = k,
                    k \notin disturbed
             PROVE  Cardinality(LiveKeys(k)) <= 1 + Cardinality(Retiring(k))
  BY DEF OneLiveKey
<1> DEFINE current == {j \in LiveKeys(k) : ~Replaced(j)}
           f == [h \in Retiring(k) |-> handler[h].key]
           leaving == {f[h] : h \in Retiring(k)}
<1>1. IsFiniteSet(Retiring(k)) /\ Cardinality(Retiring(k)) \in Nat
  <2>1. Retiring(k) \in SUBSET Handlers
    BY DEF Retiring
  <2>2. QED
    BY <2>1, FS_Subset, FS_CardinalityType, AccountsAssumption
<1>2. IsFiniteSet(leaving) /\ Cardinality(leaving) <= Cardinality(Retiring(k))
  <2>1. f \in Surjection(Retiring(k), leaving)
    BY DEF Surjection
  <2>2. QED
    BY <1>1, <2>1, FS_Surjection
<1>3. IsFiniteSet(current) /\ Cardinality(current) <= 1
  <2>1. \A i, j \in current : i = j
    BY DEF LiveKeys, LineInv
  <2>2. CASE current = {}
    BY <2>2, FS_EmptySet
  <2>3. CASE current # {}
    <3> PICK j \in current : TRUE
      BY <2>3
    <3>1. current = {j}
      BY <2>1
    <3>2. IsFiniteSet({j}) /\ Cardinality({j}) = 1
      BY FS_Singleton
    <3>3. QED
      BY <3>1, <3>2
  <2>4. QED
    BY <2>2, <2>3
<1>4. LiveKeys(k) \subseteq current \cup leaving
  <2> SUFFICES ASSUME NEW j \in LiveKeys(k), Replaced(j) PROVE j \in leaving
    OBVIOUS
  <2>1. PICK h \in Handlers : handler[h].op = "retire" /\ handler[h].key = j
    BY DEF Replaced, LiveKeys
  <2>2. h \in Retiring(k)
    BY <2>1 DEF Retiring, LiveKeys
  <2>3. QED
    BY <2>1, <2>2
<1> HIDE DEF current, leaving
<1>5. /\ IsFiniteSet(current \cup leaving)
      /\ Cardinality(current \cup leaving) =
           Cardinality(current) + Cardinality(leaving)
             - Cardinality(current \cap leaving)
      /\ Cardinality(current \cap leaving) \in Nat
      /\ Cardinality(current) \in Nat /\ Cardinality(leaving) \in Nat
  <2>1. current \cap leaving \in SUBSET current
    OBVIOUS
  <2>2. QED
    BY <1>2, <1>3, <2>1, FS_Union, FS_Subset, FS_CardinalityType
<1>6. Cardinality(LiveKeys(k)) <= Cardinality(current \cup leaving)
      /\ Cardinality(LiveKeys(k)) \in Nat
  BY <1>4, <1>5, FS_Subset, FS_CardinalityType
<1>7. QED
  BY <1>1, <1>2, <1>3, <1>5, <1>6

\* A rotation replaces a key: only rotations that overlap, are overtaken by the
\* key's revocation, or end by a failing statement or a restart before the old
\* key is revoked, leave a line with two keys that live on (rotate_key).
THEOREM RotationReplaces == Spec => []OneLiveKey
<1>1. Init => LineInv
  BY DEF Init, LineInv
<1>2. RowInv /\ LineInv /\ [Next]_vars => LineInv'
  BY LineNext
<1>3. QED
  BY <1>1, <1>2, RowInvInit, RowInvNext, LiveKeysCounted, PTL DEF Spec

-----------------------------------------------------------------------------
(* The member allowance *)

LEMMA SeatsFinite ==
    ASSUME TypeOK, NEW o
    PROVE  /\ IsFiniteSet(MembersOf(o)) /\ Cardinality(MembersOf(o)) \in Nat
           /\ IsFiniteSet(Seating(o)) /\ Cardinality(Seating(o)) \in Nat
           /\ Cardinality(Seating(o)) <= Cardinality(Handlers)
           /\ Cardinality(Handlers) \in Nat
<1>1. DOMAIN members = 1..Len(members) /\ Len(members) \in Nat
  BY LenProperties DEF TypeOK
<1>2. IsFiniteSet(DOMAIN members)
  BY <1>1, FS_Interval
<1>3. MembersOf(o) \in SUBSET DOMAIN members /\ Seating(o) \in SUBSET Handlers
  BY DEF MembersOf, Seating
<1>4. QED
  BY <1>2, <1>3, FS_Subset, FS_CardinalityType, AccountsAssumption

\* A step that seats nobody and shows nobody to a seat.
LEMMA SeatsKept ==
    ASSUME RowInv, RowInv', OrgsGrow, OverrunBounded,
           NEW o \in DOMAIN orgs,
           MembersOf(o)' = MembersOf(o), Seating(o)' \subseteq Seating(o)
    PROVE  Cardinality(MembersOf(o))' + Cardinality(Seating(o))'
             <= peak'[o] + Cardinality(Handlers) - 1
<1>1. /\ Cardinality(MembersOf(o)) \in Nat
      /\ IsFiniteSet(Seating(o)) /\ Cardinality(Seating(o)) \in Nat
      /\ Cardinality(Handlers) \in Nat
  BY SeatsFinite DEF RowInv
<1>2. Cardinality(Seating(o)') <= Cardinality(Seating(o))
      /\ Cardinality(Seating(o)') \in Nat
  BY <1>1, FS_Subset, FS_CardinalityType
<1>3. /\ peak[o] <= peak'[o] /\ peak[o] \in Nat /\ peak'[o] \in Nat
  <2>1. o \in DOMAIN orgs' /\ peak[o] <= peak'[o]
    BY DEF OrgsGrow
  <2>2. \A n \in DOMAIN orgs : peak[n] \in Nat
    BY Domains DEF RowInv
  <2>3. \A n \in DOMAIN orgs' : peak'[n] \in Nat
    BY PeaksNext DEF RowInv
  <2>4. QED
    BY <2>1, <2>2, <2>3
<1>4. Cardinality(MembersOf(o)) + Cardinality(Seating(o))
        <= peak[o] + Cardinality(Handlers) - 1
  BY DEF OverrunBounded
<1>5. QED
  BY <1>1, <1>2, <1>3, <1>4

\* A handler that has found a seat free: the count was below a limit that the
\* organization has had.
LEMMA SeatFound ==
    ASSUME RowInv, OverrunBounded, NEW h \in Handlers, MemberCount(h),
           NEW o \in DOMAIN orgs
    PROVE  Cardinality(MembersOf(o))' + Cardinality(Seating(o))'
             <= peak'[o] + Cardinality(Handlers) - 1
<1>1. TypeOK /\ HistoryOK /\ handler \in [Handlers -> Task]
  BY DEF RowInv, TypeOK
<1>2. /\ MembersOf(o)' = MembersOf(o) /\ peak' = peak
      /\ Seating(o)' \subseteq Handlers
      /\ peak[o] \in Nat
  BY <1>1, Domains DEF MemberCount, MembersOf, Seating, tables, history
<1>3. /\ Cardinality(MembersOf(o)) \in Nat /\ Cardinality(Handlers) \in Nat
      /\ IsFiniteSet(Seating(o)) /\ Cardinality(Seating(o)) \in Nat
  BY <1>1, SeatsFinite
<1>4. /\ Cardinality(Seating(o)') \in Nat
      /\ Cardinality(Seating(o)') <= Cardinality(Handlers)
  BY <1>2, FS_Subset, FS_CardinalityType, AccountsAssumption
<1>5. CASE /\ handler[h].org = o
           /\ ~(Cardinality(MembersOf(handler[h].org)) >= handler[h].limit)
  <2>1. handler[h].limit <= peak[o] /\ handler[h].limit \in Nat
    BY <1>1, <1>5, TaskTypes, AccountsAssumption
    DEF MemberCount, RowInv, TasksOK, TaskOK
  <2>2. Cardinality(MembersOf(o)) < handler[h].limit
    BY <1>3, <1>5, <2>1
  <2>3. QED
    BY <1>2, <1>3, <1>4, <2>1, <2>2
<1>6. CASE \/ handler[h].org # o
           \/ Cardinality(MembersOf(handler[h].org)) >= handler[h].limit
  <2>1. \/ handler'[h].op # "addMember"
        \/ handler'[h].org # o
    BY <1>1, <1>6 DEF MemberCount, Becomes, Idle
  <2>2. \A g \in Handlers : g # h => handler'[g] = handler[g]
    BY <1>1 DEF MemberCount, Becomes
  <2>3. Seating(o)' \subseteq Seating(o)
    BY <2>1, <2>2 DEF Seating
  <2>4. Cardinality(Seating(o)') <= Cardinality(Seating(o))
    BY <1>3, <2>3, FS_Subset
  <2>5. Cardinality(MembersOf(o)) + Cardinality(Seating(o))
          <= peak[o] + Cardinality(Handlers) - 1
    BY DEF OverrunBounded
  <2>6. QED
    BY <1>2, <1>3, <1>4, <2>4, <2>5
<1>7. QED
  BY <1>5, <1>6

\* The new member takes the seat of its handler.
LEMMA SeatTaken ==
    ASSUME RowInv, OverrunBounded, NEW h \in Handlers, MemberInsert(h),
           NEW o \in DOMAIN orgs
    PROVE  Cardinality(MembersOf(o))' + Cardinality(Seating(o))'
             <= peak'[o] + Cardinality(Handlers) - 1
<1> DEFINE row == [org |-> handler[h].org, email |-> handler[h].email,
                   status |-> "active"]
           last == Len(members) + 1
<1>1. TypeOK /\ HistoryOK /\ handler \in [Handlers -> Task] /\ handler[h] \in Task
  BY DEF RowInv, TypeOK
<1>2. row \in MemberRow /\ row.org = handler[h].org
  BY <1>1, TaskTypes DEF MemberInsert, MemberRow, Status
<1>3. /\ Cardinality(MembersOf(o)) \in Nat /\ IsFiniteSet(MembersOf(o))
      /\ IsFiniteSet(Seating(o)) /\ Cardinality(Seating(o)) \in Nat
      /\ Cardinality(Handlers) \in Nat
      /\ peak[o] \in Nat /\ peak' = peak
  BY <1>1, SeatsFinite, Domains DEF MemberInsert, history
<1>4. Seating(o)' = Seating(o) \ {h}
  BY <1>1 DEF MemberInsert, Becomes, Seating, Idle
<1>5. Cardinality(Seating(o)') =
        IF handler[h].org = o THEN Cardinality(Seating(o)) - 1
        ELSE Cardinality(Seating(o))
  <2>1. h \in Seating(o) <=> handler[h].org = o
    BY DEF Seating, MemberInsert
  <2>2. Cardinality(Seating(o) \ {h}) =
          IF h \in Seating(o) THEN Cardinality(Seating(o)) - 1
          ELSE Cardinality(Seating(o))
    BY <1>3, FS_RemoveElement
  <2>3. QED
    BY <1>4, <2>1, <2>2
<1>6. Cardinality(MembersOf(o)') <=
        IF handler[h].org = o THEN Cardinality(MembersOf(o)) + 1
        ELSE Cardinality(MembersOf(o))
  <2>1. CASE members' = members
    BY <1>3, <2>1 DEF MembersOf
  <2>2. CASE members' = Append(members, row)
    <3>1. /\ DOMAIN members' = 1..last /\ DOMAIN members = 1..Len(members)
          /\ Len(members) \in Nat
          /\ \A m \in DOMAIN members : members'[m] = members[m]
          /\ members'[last] = row
      BY <1>1, <1>2, <2>2, InsertedRow DEF TypeOK
    <3>2. \A m : m \in DOMAIN members' <=> m \in DOMAIN members \/ m = last
      BY <3>1
    <3> HIDE DEF row, last
    <3>3. MembersOf(o)' = IF handler[h].org = o THEN MembersOf(o) \cup {last}
                          ELSE MembersOf(o)
      BY <1>2, <3>1, <3>2 DEF MembersOf
    <3>4. Cardinality(MembersOf(o) \cup {last}) <= Cardinality(MembersOf(o)) + 1
      <4>1. Cardinality(MembersOf(o) \cup {last}) =
              IF last \in MembersOf(o) THEN Cardinality(MembersOf(o))
              ELSE Cardinality(MembersOf(o)) + 1
        BY <1>3, FS_AddElement
      <4>2. QED
        BY <1>3, <4>1
    <3>5. QED
      BY <1>3, <3>3, <3>4
  <2>3. QED
    BY <2>1, <2>2 DEF MemberInsert
<1>7. Cardinality(MembersOf(o)') \in Nat
  <2>1. RowInv'
    BY RowInvNext DEF Next, HandlerSteps
  <2>2. DOMAIN members' = 1..Len(members') /\ Len(members') \in Nat
    BY <2>1, LenProperties DEF RowInv, TypeOK
  <2>3. MembersOf(o)' \in SUBSET (1..Len(members'))
    BY <2>2 DEF MembersOf
  <2>4. IsFiniteSet(1..Len(members'))
    BY <2>2, FS_Interval
  <2>5. QED
    BY <2>3, <2>4, FS_Subset, FS_CardinalityType
<1>8. Cardinality(MembersOf(o)) + Cardinality(Seating(o))
        <= peak[o] + Cardinality(Handlers) - 1
  BY DEF OverrunBounded
<1>9. QED
  BY <1>3, <1>5, <1>6, <1>7, <1>8

LEMMA OverrunNext ==
    ASSUME RowInv, OverrunBounded, [Next]_vars
    PROVE  OverrunBounded'
<1> SUFFICES ASSUME NEW o \in DOMAIN orgs'
             PROVE  Cardinality(MembersOf(o))' + Cardinality(Seating(o))'
                      <= peak'[o] + Cardinality(Handlers) - 1
  BY DEF OverrunBounded
<1>1. RowInv' /\ OrgsGrow /\ MembersGrow
  BY RowInvNext, NextGrows
<1>2. CASE o \notin DOMAIN orgs
  <2>1. PICK slug \in Slugs, limit \in MemberLimits : CreateOrganization(slug, limit)
    BY <1>2
    DEF Next, AdminSteps, HandlerSteps, StatementFails, UpdateOrganization, UpdateMember,
        RevokeKey, UpdateKey, CreateLegacyKey, MemberReadOrg, MemberCount,
        MemberInsert, KeyReadMember, KeyInsert, RotateRead, RotateInsert,
        RotateRetire, MarkUsed, Lookup, Restart, vars, tables, history
  <2>2. members' = members /\ handler' = handler
    BY <2>1 DEF CreateOrganization
  <2>3. MembersOf(o)' = {}
    BY <1>2, <2>2 DEF MembersOf, RowInv, MembersOK
  <2>4. Seating(o)' = {}
    BY <1>2, <2>2 DEF Seating, RowInv, TasksOK, TaskOK
  <2>5. peak'[o] \in Nat \ {0}
    <3>1. DOMAIN orgs' = 1..Len(orgs') /\ DOMAIN peak' = 1..Len(peak')
      BY <1>1, LenProperties DEF RowInv, HistoryOK, TypeOK
    <3>2. \A n \in DOMAIN peak' : peak'[n] \in MemberLimits
      BY <1>1, <3>1, ElementOfSeq DEF RowInv, HistoryOK
    <3>3. QED
      BY <1>1, <3>1, <3>2, AccountsAssumption DEF RowInv, HistoryOK
  <2>6. Cardinality(Handlers) \in Nat
    BY FS_CardinalityType, AccountsAssumption
  <2>7. QED
    BY <2>3, <2>4, <2>5, <2>6, FS_EmptySet
<1>3. CASE o \in DOMAIN orgs
  <2>1. CASE \E h \in Handlers : MemberCount(h) \/ MemberInsert(h)
    BY <1>3, <2>1, SeatFound, SeatTaken
  <2>2. CASE /\ DOMAIN members' = DOMAIN members
             /\ \A g \in Handlers :
                   \/ handler'[g] = handler[g]
                   \/ handler'[g].op # "addMember"
    <3>1. MembersOf(o)' = MembersOf(o)
      BY <1>1, <2>2 DEF MembersOf, MembersGrow
    <3>2. Seating(o)' \subseteq Seating(o)
      BY <2>2 DEF Seating
    <3>3. QED
      BY <1>1, <1>3, <3>1, <3>2, SeatsKept
  <2>3. handler \in [Handlers -> Task]
    BY DEF RowInv, TypeOK
  <2>4. ASSUME NEW h \in Handlers, HandlerSteps(h),
               ~MemberCount(h), ~MemberInsert(h)
        PROVE  /\ DOMAIN members' = DOMAIN members
               /\ \A g \in Handlers :
                     \/ handler'[g] = handler[g]
                     \/ handler'[g].op # "addMember"
    BY <2>3, <2>4
    DEF HandlerSteps, StatementFails, MemberReadOrg, KeyReadMember, KeyInsert, RotateRead,
        RotateInsert, RotateRetire, Becomes, Idle, tables, history
  <2>5. CASE AdminSteps
    BY <2>2, <2>5
    DEF AdminSteps, CreateOrganization, UpdateOrganization, UpdateMember,
        RevokeKey, UpdateKey, CreateLegacyKey, history
  <2>6. CASE Restart
    BY <2>2, <2>6 DEF Restart, Idle, tables
  <2>7. QED
    BY <2>1, <2>2, <2>4, <2>5, <2>6 DEF Next, MarkUsed, Lookup, vars, tables, history
<1>4. QED
  BY <1>2, <1>3

\* An organization never has more members, with those about to be added, than
\* the largest limit it had and one for each other handler (create_member).
THEOREM OverrunIsBounded == Spec => []OverrunBounded
<1>1. Init => OverrunBounded
  BY DEF Init, OverrunBounded
<1>2. RowInv /\ OverrunBounded /\ [Next]_vars => OverrunBounded'
  BY OverrunNext
<1>3. QED
  BY <1>1, <1>2, RowInvInit, RowInvNext, PTL DEF Spec
=============================================================================
