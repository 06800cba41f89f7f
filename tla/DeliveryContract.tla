-------------------------- MODULE DeliveryContract --------------------------
(***************************************************************************)
(* What the ingest path promises the source of the messages, with nothing  *)
(* said about how: a published message stays owed until it is acknowledged *)
(* or given up to the dead-letter topic; the batches of a document become  *)
(* durable front to back and never past a batch that fails validation; and *)
(* an acknowledgement is only ever given for a message that is durable in  *)
(* full or for which evidence is left behind (its payload in quarantine,   *)
(* or the log line that says quarantining failed).                         *)
(*                                                                         *)
(* Ingest.tla implements this specification (IngestProofs.tla, Contract).  *)
(***************************************************************************)
EXTENDS Naturals

CONSTANTS
    Message,    \* what may be published
    Portions,   \* Portions[m]: indexes of the batches of m that may be stored
    Sound       \* the messages whose document is free of defects

VARIABLES
    fate,       \* "absent" | "owed" | "acked" | "dead", of every message
    durable,    \* the pairs <<m, p>> of batches that are in the table
    evidence    \* the messages somebody can find in quarantine or in the log

vars == <<fate, durable, evidence>>

Whole(m) == m \in Sound /\ \A p \in Portions[m] : <<m, p>> \in durable

TypeOK ==
    /\ fate \in [Message -> {"absent", "owed", "acked", "dead"}]
    /\ durable \subseteq Message \X Nat
    /\ evidence \subseteq Message

Init ==
    /\ fate = [m \in Message |-> "absent"]
    /\ durable = {}
    /\ evidence = {}

Accept(m) ==
    /\ fate[m] = "absent"
    /\ fate' = [fate EXCEPT ![m] = "owed"]
    /\ UNCHANGED <<durable, evidence>>

(* Batches become durable in document order; a batch may land after its    *)
(* message was settled, because delivery is at least once.                 *)
Store(m, p) ==
    /\ fate[m] # "absent"
    /\ \A q \in Portions[m] : q < p => <<m, q>> \in durable
    /\ durable' = durable \cup {<<m, p>>}
    /\ UNCHANGED <<fate, evidence>>

Keep(m) ==
    /\ fate[m] # "absent"
    /\ evidence' = evidence \cup {m}
    /\ UNCHANGED <<fate, durable>>

Ack(m) ==
    /\ fate[m] = "owed"
    /\ Whole(m) \/ m \in evidence
    /\ fate' = [fate EXCEPT ![m] = "acked"]
    /\ UNCHANGED <<durable, evidence>>

Bury(m) ==
    /\ fate[m] = "owed"
    /\ fate' = [fate EXCEPT ![m] = "dead"]
    /\ UNCHANGED <<durable, evidence>>

Next == \E m \in Message :
            \/ Accept(m)
            \/ \E p \in Portions[m] : Store(m, p)
            \/ Keep(m)
            \/ Ack(m)
            \/ Bury(m)

Spec == Init /\ [][Next]_vars
=============================================================================
