----------------------------- MODULE MCBackups ------------------------------
(* Instances of Backups: one gateway with R2 over several weeks, and a
   gateway beside a command line.  All constants are given in the .cfg. *)
EXTENDS Backups

(* Without R2, once two backups were made: the state that Init reaches
   when the gateway backs up twice and nothing fails.  What is left of
   MaxBackups is for jobs that find something to delete. *)
InitWithTwo ==
    /\ r2_enabled = FALSE
    /\ lock = [p \in Processes |-> FALSE]
    /\ status = [state |-> "success", last_backup |-> 2]
    /\ stuck = {}
    /\ overlapping = {}
    /\ backups = [n \in 1..2 |->
                    [at |-> 0, local |-> "whole", copy |-> 0,
                     metadata |-> {}, remote |-> "none",
                     remote_metadata |-> NoMetadata]]
    /\ job = [p \in Processes |-> NoJob("none")]
    /\ clock = 0
    /\ gateway = "up"
    /\ live = 0
    /\ newest = 0
    /\ script = NoScript
    /\ faults = 0

SpecWithTwo == InitWithTwo /\ [][Next]_vars
=============================================================================
