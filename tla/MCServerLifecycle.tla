-------------------------- MODULE MCServerLifecycle --------------------------
(***************************************************************************)
(* The roles an environment can lead to, taken from Config: the accepted   *)
(* ones among those that set the database, the ingest service and what it  *)
(* requires, and the migration, or leave them out.                         *)
(***************************************************************************)
EXTENDS ServerLifecycle, TLC

Settings == INSTANCE Config WITH Atoi <- ("5000" :> 5000)

Needs == {"PUBSUB_AUDIENCE", "PUBSUB_PUSH_SERVICE_ACCOUNT", "BQ_DATASET", "QUARANTINE_BUCKET"}
Environments ==
    {[v \in Settings!Var |-> IF v \in given THEN "true" ELSE ""] :
        given \in SUBSET ({"DATABASE_URL", "ENABLE_INGEST_ENDPOINT", "MIGRATE_ON_START"} \cup Needs)}

MCRoles == {Settings!RoleOf(Settings!Load(e)) : e \in {f \in Environments : Settings!Valid(Settings!Load(f))}}

(* Every role of ServerLifecycle comes from some environment, and no other.*)
ASSUME AcceptedRoles == MCRoles = Role
=============================================================================
