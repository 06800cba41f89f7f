------------------------------- MODULE Tasks -------------------------------
(***************************************************************************)
(* The tasks resource: requests that run at the same time through the      *)
(* handlers (internal/httpapi/tasks.go), the service and the repository    *)
(* (internal/task), one statement each on a connection of the pool         *)
(* (internal/database/postgres.go), next to the readiness probe that       *)
(* borrows a connection too (internal/httpapi/health.go). Postgres may go  *)
(* down and come back, a connection may break before or after a statement  *)
(* took effect, and a client may leave while its statement is running.     *)
(***************************************************************************)
EXTENDS TaskTable

CONSTANTS
    Request,    \* what clients send, each at most once
    Call,       \* the calls a request may make
    MaxConns,   \* DB_MAX_CONNS
    MaxId       \* the last value of the sequence of ids

Id == 1 .. MaxId

Raw == [text : Title \cup {"", "too long"}, padded : BOOLEAN]

Calls ==
    [op : {"create"}, title : Raw]
        \cup [op : {"update"}, id : Int, title : Raw, done : BOOLEAN]
        \cup [op : {"get", "delete"}, id : Int]
        \cup [op : {"list"}, limit : Int, offset : Int]
        \cup [op : {"ready"}]

ASSUME TasksAssumption ==
    /\ Call \subseteq Calls
    /\ MaxConns \in Nat \ {0}
    /\ MaxId \in Nat
    /\ Title \subseteq STRING \ {"", "too long"}

VARIABLES
    db,         \* "up" | "down"
    table,      \* the rows of tasks
    serial,     \* the last id drawn from the sequence
    conns,      \* the requests that hold a connection of the pool
    call,       \* what a request asks for
    step,       \* where it is
    result,     \* what Postgres answered its statement, once it took effect
    answer      \* what the client is answered

vars == <<db, table, serial, conns, call, step, result, answer>>

NoCall == [op |-> "none"]
Reply(status, rows) == [status |-> status, rows |-> rows]
NoReply == Reply(0, {})
Replies == [status : {0, 200, 201, 204, 400, 404, 500, 503}, rows : SUBSET Row]

TypeOK ==
    /\ db \in {"up", "down"}
    /\ table \in SUBSET Row
    /\ serial \in 0 .. MaxId
    /\ conns \in SUBSET Request
    /\ call \in [Request -> Call \cup {NoCall}]
    /\ step \in [Request -> {"none", "asked", "running", "served", "answered", "orphan", "gone"}]
    /\ result \in [Request -> Replies]
    /\ answer \in [Request -> Replies]

Init ==
    /\ db = "up" /\ table = {} /\ serial = 0 /\ conns = {}
    /\ call = [r \in Request |-> NoCall]
    /\ step = [r \in Request |-> "none"]
    /\ result = [r \in Request |-> NoReply]
    /\ answer = [r \in Request |-> NoReply]

-----------------------------------------------------------------------------
(* The handlers, before the database is asked.                             *)

(* TrimSpace takes the white space around the title.                       *)
Trimmed(title) == title.text

Bound(title) == (title.text # "" \/ title.padded) /\ title.text # "too long"

TitleOK_NoTrim(title) == Bound(title)

TitleOK(title) == Bound(title) /\ Trimmed(title) # ""

Valid(c) ==
    /\ c.op \in {"get", "update", "delete"} => c.id >= 1
    /\ c.op \in {"create", "update"} => TitleOK(c.title)
    /\ c.op = "list" => c.limit \in 0 .. 100 /\ c.offset >= 0

(* A request leaves the server with an answer, and its connection returns. *)
Answer(r, reply) ==
    /\ answer' = [answer EXCEPT ![r] = reply]
    /\ step' = [step EXCEPT ![r] = "answered"]
    /\ conns' = conns \ {r}

Ask(r, c) ==
    /\ step[r] = "none"
    /\ call' = [call EXCEPT ![r] = c]
    /\ step' = [step EXCEPT ![r] = "asked"]
    /\ UNCHANGED <<db, table, serial, conns, result, answer>>

Refuse(r) ==
    /\ step[r] = "asked" /\ ~Valid(call[r])
    /\ Answer(r, Reply(400, {}))
    /\ UNCHANGED <<db, table, serial, call, result>>

-----------------------------------------------------------------------------
(* The repository: a connection, one statement, the connection back.       *)

Acquire(r) ==
    /\ step[r] = "asked" /\ Valid(call[r])
    /\ Cardinality(conns) < MaxConns
    /\ conns' = conns \cup {r}
    /\ step' = [step EXCEPT ![r] = "running"]
    /\ UNCHANGED <<db, table, serial, call, result, answer>>

Failure(c) == Reply(IF c.op = "ready" THEN 503 ELSE 500, {})

(* A new connection cannot be opened.                                      *)
AcquireFails(r) ==
    /\ step[r] = "asked" /\ Valid(call[r])
    /\ db = "down"
    /\ Answer(r, Failure(call[r]))
    /\ UNCHANGED <<db, table, serial, call, result>>

(* What the rows a statement touched are answered as: ErrNoRows, or        *)
(* RowsAffected, tell that there were none.                                *)
Found(rows) == IF rows = {} THEN Reply(404, {}) ELSE Reply(200, rows)

Removed_Always(rows) == Reply(204, {})

Removed(rows) == IF rows = {} THEN Reply(404, {}) ELSE Reply(204, {})

Took(r, reply) == result' = [result EXCEPT ![r] = reply]

Insert_NextFree(r) ==
    LET id == Cardinality(table) + 1
        row == [id |-> id, title |-> Trimmed(call[r].title), done |-> FALSE] IN
    /\ call[r].op = "create"
    /\ id <= MaxId
    /\ serial' = id
    /\ table' = table \cup {row}
    /\ Took(r, Reply(201, {row}))

Insert(r) ==
    LET row == [id |-> serial + 1, title |-> Trimmed(call[r].title), done |-> FALSE] IN
    /\ call[r].op = "create"
    /\ serial < MaxId
    /\ serial' = serial + 1
    /\ table' = table \cup {row}
    /\ Took(r, Reply(201, {row}))

Update_Upserts(r) == LET c == call[r] IN
    /\ c.op = "update"
    /\ LET row == [id |-> c.id, title |-> Trimmed(c.title), done |-> c.done] IN
        /\ table' = (table \ Selected(table, c.id)) \cup {row}
        /\ Took(r, Reply(200, {row}))
    /\ UNCHANGED serial

Update(r) == LET c == call[r] IN
    /\ c.op = "update"
    /\ table' = Updated(table, c.id, Trimmed(c.title), c.done)
    /\ Took(r, Found(Changed(table, c.id, Trimmed(c.title), c.done)))
    /\ UNCHANGED serial

Delete(r) ==
    /\ call[r].op = "delete"
    /\ table' = table \ Selected(table, call[r].id)
    /\ Took(r, Removed(Selected(table, call[r].id)))
    /\ UNCHANGED serial

Get(r) ==
    /\ call[r].op = "get"
    /\ Took(r, Found(Selected(table, call[r].id)))
    /\ UNCHANGED <<table, serial>>

List(r) ==
    /\ call[r].op = "list"
    /\ Took(r, Reply(200, Page(table, call[r].limit, call[r].offset)))
    /\ UNCHANGED <<table, serial>>

Ping(r) ==
    /\ call[r].op = "ready"
    /\ Took(r, Reply(200, {}))
    /\ UNCHANGED <<table, serial>>

Statement(r) == Insert(r) \/ Update(r) \/ Delete(r) \/ Get(r) \/ List(r) \/ Ping(r)

Run(r) ==
    /\ step[r] = "running" /\ db = "up"
    /\ Statement(r)
    /\ step' = [step EXCEPT ![r] = "served"]
    /\ UNCHANGED <<db, conns, call, answer>>

(* A statement fails when Postgres is down, and for reasons of its own     *)
(* while it is up; the empty statement of the probe has none of those.     *)
Fails(r) == db = "down" \/ call[r].op # "ready"

(* A failed insert may have drawn its id all the same.                     *)
RolledBack(r) ==
    /\ \/ UNCHANGED serial
       \/ call[r].op = "create" /\ serial < MaxId /\ serial' = serial + 1
    /\ UNCHANGED <<table, result>>

RunFails(r) ==
    /\ step[r] = "running" /\ Fails(r)
    /\ RolledBack(r)
    /\ Answer(r, Failure(call[r]))
    /\ UNCHANGED <<db, call>>

Respond_KeepsConnection(r) ==
    /\ step[r] = "served"
    /\ answer' = [answer EXCEPT ![r] = result[r]]
    /\ step' = [step EXCEPT ![r] = "answered"]
    /\ conns' = IF result[r].rows = {} THEN conns \ {r} ELSE conns
    /\ UNCHANGED <<db, table, serial, call, result>>

Respond(r) ==
    /\ step[r] = "served"
    /\ Answer(r, result[r])
    /\ UNCHANGED <<db, table, serial, call, result>>

ResponseLost_Retries(r) ==
    /\ step[r] = "served" /\ Fails(r)
    /\ step' = [step EXCEPT ![r] = "asked"]
    /\ conns' = conns \ {r}
    /\ UNCHANGED <<db, table, serial, call, result, answer>>

(* The statement took effect and the connection broke: the rows cannot be  *)
(* scanned.                                                                *)
ResponseLost(r) ==
    /\ step[r] = "served" /\ Fails(r)
    /\ Answer(r, Failure(call[r]))
    /\ UNCHANGED <<db, table, serial, call, result>>

(* The probe waits for two seconds: for a connection, or for an answer of  *)
(* a database that is down.                                                *)
ProbeTimeout(r) ==
    /\ step[r] = "asked" /\ call[r].op = "ready"
    /\ db = "down" \/ Cardinality(conns) >= MaxConns
    /\ Answer(r, Failure(call[r]))
    /\ UNCHANGED <<db, table, serial, call, result>>

-----------------------------------------------------------------------------
(* The world around.                                                       *)

(* The client leaves: the request's context is cancelled and its           *)
(* connection is closed, but Postgres may run the statement to its end.    *)
Leave(r) ==
    /\ step[r] \in {"asked", "running", "served"}
    /\ step' = [step EXCEPT ![r] = IF step[r] = "running" THEN "orphan" ELSE "gone"]
    /\ conns' = conns \ {r}
    /\ UNCHANGED <<db, table, serial, call, result, answer>>

OrphanRuns(r) ==
    /\ step[r] = "orphan" /\ db = "up"
    /\ Statement(r)
    /\ step' = [step EXCEPT ![r] = "gone"]
    /\ UNCHANGED <<db, conns, call, answer>>

OrphanDies(r) ==
    /\ step[r] = "orphan"
    /\ RolledBack(r)
    /\ step' = [step EXCEPT ![r] = "gone"]
    /\ UNCHANGED <<db, conns, call, answer>>

Outage ==
    /\ db' = IF db = "up" THEN "down" ELSE "up"
    /\ UNCHANGED <<table, serial, conns, call, step, result, answer>>

Handle(r) ==
    \/ Refuse(r) \/ Acquire(r) \/ AcquireFails(r) \/ Run(r) \/ RunFails(r)
    \/ Respond(r) \/ ResponseLost(r)

Next ==
    \/ \E r \in Request :
        \/ \E c \in Call : Ask(r, c)
        \/ Handle(r) \/ ProbeTimeout(r)
        \/ Leave(r) \/ OrphanRuns(r) \/ OrphanDies(r)
    \/ Outage

(* Handlers run, the pool serves who waits, and every statement ends.      *)
Fairness == \A r \in Request : WF_vars(Handle(r))

Safety == Init /\ [][Next]_vars

Spec == Safety /\ Fairness

-----------------------------------------------------------------------------
(* No two rows have one id, and no row has an id that was not drawn.       *)
KeysUnique ==
    /\ \A row \in table, other \in table : row.id = other.id => row = other
    /\ Ids(table) \subseteq 1 .. serial

(* A connection is out of the pool exactly while its request is at the     *)
(* database.                                                               *)
ConnsAccounted == conns = {r \in Request : step[r] \in {"running", "served"}}

(* Only a valid call reaches the database, and it takes effect once.       *)
OnlyValidRun ==
    \A r \in Request :
        /\ step[r] = "none" <=> call[r] = NoCall
        /\ step[r] \in {"running", "served", "orphan"} => Valid(call[r])
        /\ step[r] \in {"none", "asked", "running", "orphan"} => result[r] = NoReply
        /\ step[r] = "served" => result[r] # NoReply
        /\ step[r] # "answered" <=> answer[r] = NoReply

IInv == TypeOK /\ KeysUnique /\ ConnsAccounted /\ OnlyValidRun

(* To the clients, the resource is a map on which every call takes effect  *)
(* at most once, between the request and its answer or after a failure,    *)
(* and ids are never given twice (internal/task/postgres.go).              *)
TheRow(id) == CHOOSE row \in table : row.id = id
store == [id \in Ids(table) |-> [title |-> TheRow(id).title, done |-> TheRow(id).done]]
used  == 1 .. serial
asked == [r \in {q \in Request : step[q] # "none"} |-> call[r]]
took  == [r \in {q \in Request : result[q] # NoReply} |-> result[r]]
told  == [r \in {q \in Request : step[q] = "answered"} |-> answer[r]]

Map == INSTANCE TaskContract

Contract == Map!Spec

(* Every request is answered, unless its client leaves: a connection comes *)
(* back whatever became of its statement (internal/task/postgres.go:43).   *)
EveryoneAnswered ==
    \A r \in Request :
        step[r] = "asked" ~> step[r] \in {"answered", "orphan", "gone"}
=============================================================================
