----------------------------- MODULE Retention ------------------------------
(***************************************************************************)
(* Which backups retention keeps: _retention_keep_set of                   *)
(* src/gateway/backup.py, for a directory or a bucket.                     *)
(*                                                                         *)
(* A backup is known by its place in the order of the names, which is the  *)
(* order of the times in them: two jobs never start in the same second.    *)
(* Retention sees names only; it does not look into a file.                *)
(***************************************************************************)
EXTENDS Integers

CONSTANTS DailyWindow,  (* backup_local_retention_days, in ticks            *)
          WeeklyWindow, (* backup_weekly_retention_weeks, in ticks          *)
          WeekLength    (* the ticks in a calendar week                     *)

ASSUME RetentionAssumption ==
    /\ DailyWindow \in Nat
    /\ WeeklyWindow \in Nat
    /\ WeekLength \in Nat \ {0}

Week(t) == t \div WeekLength

Daily(t, now) == t >= now - DailyWindow

Weekly(t, now) == ~Daily(t, now) /\ t >= now - WeeklyWindow

(* Mutant: the names are sorted without reverse=True. *)
KeepSetOldest(names, at, now) ==
    {n \in names :
        \/ Daily(at[n], now)
        \/ /\ Weekly(at[n], now)
           /\ \A m \in names :
                Weekly(at[m], now) /\ Week(at[m]) = Week(at[n]) => n <= m}

(* at[n] is the time in the name of backup n. *)
KeepSet(names, at, now) ==
    {n \in names :
        \/ Daily(at[n], now)
        \/ /\ Weekly(at[n], now)
           /\ \A m \in names :
                Weekly(at[m], now) /\ Week(at[m]) = Week(at[n]) => m <= n}
=============================================================================
