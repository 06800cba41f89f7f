------------------------------ MODULE MCTasks ------------------------------
(***************************************************************************)
(* A small instance of Tasks for TLC.                                      *)
(***************************************************************************)
EXTENDS Tasks, Sequences

MCRequest == 1..3

MCRaw == [text |-> "a", padded |-> TRUE]

(* Every operation on the first id, and some that are refused.             *)
Numbered == <<
    [op |-> "create", title |-> MCRaw],
    [op |-> "create", title |-> [text |-> "", padded |-> TRUE]],
    [op |-> "update", id |-> 1, title |-> [text |-> "b", padded |-> FALSE], done |-> TRUE],
    [op |-> "get", id |-> 1],
    [op |-> "delete", id |-> 1],
    [op |-> "delete", id |-> 0],
    [op |-> "list", limit |-> 1, offset |-> 1],
    [op |-> "ready"]>>

MCCall == {Numbered[i] : i \in DOMAIN Numbered}

Number(c) == CHOOSE i \in DOMAIN Numbered : Numbered[i] = c

(* Nothing tells requests apart but their names: in any behaviour they may *)
(* be named in the order of the numbers of their calls.                    *)
Named ==
    \A q, r \in Request :
        q < r /\ step[q] # "none" /\ step[r] # "none" => Number(call[q]) <= Number(call[r])
=============================================================================
