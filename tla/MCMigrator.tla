----------------------------- MODULE MCMigrator -----------------------------
(***************************************************************************)
(* Two binaries, the older with one migration and the newer with two.      *)
(***************************************************************************)
EXTENDS Migrator, TLC

CONSTANTS old, new

TwoRevisions == (old :> 1) @@ (new :> 2)

Boot == {[op |-> "up", n |-> 0]}
AllCommands == Boot \cup {[op |-> "down", n |-> 1], [op |-> "down", n |-> 2], [op |-> "down all", n |-> 0]}
=============================================================================
