----------------------------- MODULE TaskTable -----------------------------
(***************************************************************************)
(* The table tasks as its statements see it (internal/task/postgres.go,    *)
(* migrations/000001_create_tasks_table.up.sql): a set of rows, which the  *)
(* statements select from, update and delete from. A statement answers     *)
(* with the set of rows it touched.                                        *)
(***************************************************************************)
EXTENDS Integers, FiniteSets

CONSTANT Title      \* the titles that may be stored: trimmed and not blank

(* The timestamps are left out: no statement reads them.                   *)
Row == [id : Nat \ {0}, title : Title, done : BOOLEAN]

Ids(table) == {row.id : row \in table}

Selected(table, id) == {row \in table : row.id = id}

Changed(table, id, title, done) ==
    {[id |-> row.id, title |-> title, done |-> done] : row \in Selected(table, id)}

Updated(table, id, title, done) ==
    (table \ Selected(table, id)) \cup Changed(table, id, title, done)

(* The limit is taken only from 1 to 100.                                  *)
PageSize(limit) == IF limit <= 0 \/ limit > 100 THEN 20 ELSE limit

(* ORDER BY id DESC LIMIT OFFSET: a row is on the page when the number of  *)
(* rows with a larger id, the primary key, puts it there.                  *)
Rank(table, row) == Cardinality({i \in Ids(table) : i > row.id})

Page_OpenFirst(table, limit, offset) ==
    {row \in table : Cardinality({other \in table :
                        IF other.done = row.done THEN other.id > row.id ELSE row.done})
                        \in offset .. offset + PageSize(limit) - 1}

Page_OneMore(table, limit, offset) ==
    {row \in table : Rank(table, row) \in offset .. offset + PageSize(limit)}

Page(table, limit, offset) ==
    {row \in table : Rank(table, row) \in offset .. offset + PageSize(limit) - 1}
=============================================================================
