----------------------------- MODULE TaskPaging -----------------------------
(***************************************************************************)
(* A client walks through the list page by page (GET /api/v1/tasks with    *)
(* limit and offset) while other clients create, change and delete tasks.  *)
(* An insert draws its id before its row becomes visible, so a row may     *)
(* appear between older and newer ones.                                    *)
(***************************************************************************)
EXTENDS TaskTable

CONSTANTS
    MaxId,      \* the last value of the sequence of ids
    Limit       \* the limit the client asks for

ASSUME PagingAssumption == MaxId \in Nat /\ Limit \in 1 .. 100

VARIABLES
    table, serial,
    drawn,      \* ids drawn by inserts that have not committed
    walking,    \* "no" | "yes" | "done"
    offset,     \* of the next page
    seen,       \* how often the walk was shown a row, by id
    throughout, \* the ids of the rows that were there all through the walk
    inserted, deleted   \* how many rows came and went during the walk

tableVars == <<table, serial, drawn>>
walkVars == <<walking, offset, seen, throughout, inserted, deleted>>
vars == <<tableVars, walkVars>>

Id == 1 .. MaxId

Init ==
    /\ table = {} /\ serial = 0 /\ drawn = {}
    /\ walking = "no" /\ offset = 0
    /\ seen = [id \in Id |-> 0] /\ throughout = {}
    /\ inserted = 0 /\ deleted = 0

During(counter) == IF walking = "yes" THEN counter + 1 ELSE counter

Draw ==
    /\ serial < MaxId
    /\ serial' = serial + 1
    /\ drawn' = drawn \cup {serial + 1}
    /\ UNCHANGED <<table, walkVars>>

Commit(id) ==
    /\ id \in drawn
    /\ drawn' = drawn \ {id}
    /\ \E title \in Title :
        table' = table \cup {[id |-> id, title |-> title, done |-> FALSE]}
    /\ inserted' = During(inserted)
    /\ UNCHANGED <<serial, walking, offset, seen, throughout, deleted>>

Abort(id) ==
    /\ id \in drawn
    /\ drawn' = drawn \ {id}
    /\ UNCHANGED <<table, serial, walkVars>>

Update(id) ==
    /\ id \in Ids(table)
    /\ \E title \in Title, done \in BOOLEAN : table' = Updated(table, id, title, done)
    /\ UNCHANGED <<serial, drawn, walkVars>>

Delete(id) ==
    /\ id \in Ids(table)
    /\ table' = table \ Selected(table, id)
    /\ throughout' = throughout \ {id}
    /\ deleted' = During(deleted)
    /\ UNCHANGED <<serial, drawn, walking, offset, seen, inserted>>

StartWalk ==
    /\ walking = "no"
    /\ walking' = "yes"
    /\ throughout' = Ids(table)
    /\ UNCHANGED <<tableVars, offset, seen, inserted, deleted>>

(* The client stops at the first page that is not full.                    *)
NextPage ==
    /\ walking = "yes"
    /\ LET page == Page(table, Limit, offset) IN
        /\ seen' = [id \in Id |-> IF id \in Ids(page) THEN seen[id] + 1 ELSE seen[id]]
        /\ walking' = IF Cardinality(page) < Limit THEN "done" ELSE "yes"
    /\ offset' = offset + Limit
    /\ UNCHANGED <<tableVars, throughout, inserted, deleted>>

Next ==
    \/ Draw
    \/ \E id \in Id : Commit(id) \/ Abort(id) \/ Update(id) \/ Delete(id)
    \/ StartWalk \/ NextPage

Spec == Init /\ [][Next]_vars

-----------------------------------------------------------------------------
(* A row that was there all through the walk is missed only because a row  *)
(* was deleted: no more rows are missed than were deleted                  *)
(* (internal/task/postgres.go:36-38).                                      *)
Missed == {id \in throughout : seen[id] = 0}
MissesOnlyForDeletes == walking = "done" => Cardinality(Missed) <= deleted

(* A row is shown again only because a row was inserted before it: no more *)
(* repetitions than insertions.                                            *)
Repetitions == UNION {{id} \X (1 .. seen[id] - 1) : id \in Id}
RepeatsOnlyForInserts == Cardinality(Repetitions) <= inserted
=============================================================================
