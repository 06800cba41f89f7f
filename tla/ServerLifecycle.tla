--------------------------- MODULE ServerLifecycle ---------------------------
(***************************************************************************)
(* One process from boot to exit: serve and wireIngest                     *)
(* (src/cmd/api/main.go), Server.Run (src/internal/httpapi/server.go), the *)
(* deferred closes, and the requests that run meanwhile. net/http, the     *)
(* pool and the cloud clients are modelled from how the code uses them.    *)
(*                                                                         *)
(* SIGTERM may come at any moment; it only cancels the context made in     *)
(* run. Time is abstracted: the drain times out whenever a request is      *)
(* still running.                                                          *)
(***************************************************************************)
EXTENDS Naturals, FiniteSets

CONSTANTS
    Request,    \* requests clients may send
    Roles       \* the configurations to start with

(* validate: only the ingest role may run without a database.              *)
Role == {r \in [db : BOOLEAN, ingest : BOOLEAN, migrate : BOOLEAN] : r.ingest \/ r.db}

ASSUME RolesAssumption == Roles \subseteq Role

VARIABLES
    role,       \* DATABASE_URL set, ingest enabled, MIGRATE_ON_START
    main,       \* where the main goroutine is
    result,     \* what serve returned, "none" before
    exit,       \* exit code, "none" before
    signalled,  \* the context of run is cancelled
    listener,   \* the goroutine of Run: "off", "starting", "listening", "failed", "closed"
    open,       \* the clients that are open
    req,        \* each request: "none", "pool", "sink", "park" (what it needs next),
                \* "answered", or "cut" by the exit
    holds,      \* requests that hold a connection of the pool
    misused     \* requests that called a client already closed (history)

procVars == <<main, result, exit>>
reqVars  == <<req, holds, misused>>
vars     == <<role, procVars, signalled, listener, open, reqVars>>

Boot    == {"migrate", "pool", "sink", "gcs"}
Closing == {"close sink", "close gcs", "close pool", "await pool"}
Active(r) == req[r] \in {"pool", "sink", "park"}
Idle == \A r \in Request : ~Active(r)

Goto(step) == main' = step /\ UNCHANGED <<result, exit>>

(* serve returns: the deferred calls run in reverse order, the ingest      *)
(* clients first, each only if it was deferred.                            *)
Return(outcome, opened) ==
    /\ result' = outcome
    /\ main' = IF {"sink", "gcs"} \subseteq opened THEN "close sink"
               ELSE IF "pool" \in opened THEN "close pool" ELSE "end"
    /\ UNCHANGED exit

-----------------------------------------------------------------------------
(* serve, before the server runs.                                          *)

(* The migrator does not look at the context; without a database it fails. *)
MigrateOnStart ==
    /\ main = "migrate"
    /\ \/ (role.migrate => role.db) /\ Goto("pool")
       \/ role.migrate /\ Return("start failed", {})
    /\ UNCHANGED <<role, signalled, listener, open, reqVars>>

(* NewPool pings with the context of run, and closes the pool if that      *)
(* fails.                                                                  *)
OpenPool ==
    /\ main = "pool"
    /\ \/ ~role.db /\ Goto("sink") /\ UNCHANGED open
       \/ role.db /\ ~signalled /\ Goto("sink") /\ open' = open \cup {"pool"}
       \/ role.db /\ Return("start failed", {}) /\ UNCHANGED open
    /\ UNCHANGED <<role, signalled, listener, reqVars>>

(* wireIngest: bqsink.New closes its client if it fails.                   *)
OpenSink ==
    /\ main = "sink"
    /\ \/ ~role.ingest /\ Goto("listen") /\ UNCHANGED open
       \/ role.ingest /\ Goto("gcs") /\ open' = open \cup {"sink"}
       \/ role.ingest /\ Return("start failed", open) /\ UNCHANGED open
    /\ UNCHANGED <<role, signalled, listener, reqVars>>

OpenGCS_LeakSink ==
    /\ main = "gcs"
    /\ \/ Goto("listen") /\ open' = open \cup {"gcs"}
       \/ Return("start failed", open) /\ UNCHANGED open
    /\ UNCHANGED <<role, signalled, listener, reqVars>>

(* If the quarantine client cannot be made, wireIngest closes the sink     *)
(* itself: its caller gets no function to do so.                           *)
OpenGCS ==
    /\ main = "gcs"
    /\ \/ Goto("listen") /\ open' = open \cup {"gcs"}
       \/ Return("start failed", open \ {"sink"}) /\ open' = open \ {"sink"}
    /\ UNCHANGED <<role, signalled, listener, reqVars>>

-----------------------------------------------------------------------------
(* Server.Run and the goroutine it starts.                                 *)

StartListening ==
    /\ main = "listen"
    /\ listener' = "starting"
    /\ Goto("select")
    /\ UNCHANGED <<role, signalled, open, reqVars>>

(* ListenAndServe: it binds, or fails, or finds the server shut down.      *)
Bind ==
    /\ listener = "starting"
    /\ listener' \in IF main = "select" THEN {"listening", "failed"} ELSE {"closed", "failed"}
    /\ UNCHANGED <<role, procVars, signalled, open, reqVars>>

(* Accept fails for good: Serve returns, the requests go on.               *)
ListenerFails ==
    /\ listener = "listening"
    /\ listener' = "failed"
    /\ UNCHANGED <<role, procVars, signalled, open, reqVars>>

SelectError_Swallowed ==
    /\ main = "select"
    /\ listener = "failed"
    /\ Return("ok", open)
    /\ UNCHANGED <<role, signalled, listener, open, reqVars>>

(* The select takes either case when both are ready. An error of the       *)
(* listener returns at once, without draining.                             *)
SelectError ==
    /\ main = "select"
    /\ listener = "failed"
    /\ Return("listen failed", open)
    /\ UNCHANGED <<role, signalled, listener, open, reqVars>>

SelectDone_NoShutdown ==
    /\ main = "select"
    /\ signalled
    /\ Return("ok", open)
    /\ UNCHANGED <<role, signalled, listener, open, reqVars>>

SelectDone ==
    /\ main = "select"
    /\ signalled
    /\ Goto("drain")
    /\ listener' = IF listener = "listening" THEN "closed" ELSE listener
    /\ UNCHANGED <<role, signalled, open, reqVars>>

(* Shutdown: the server is idle, or the timeout passes first.              *)
DrainDone ==
    /\ main = "drain"
    /\ Idle
    /\ Return("ok", open)
    /\ UNCHANGED <<role, signalled, listener, open, reqVars>>

DrainTimeout_NoDeadline == main = "drain" /\ FALSE

DrainTimeout ==
    /\ main = "drain"
    /\ ~Idle
    /\ Return("drain timeout", open)
    /\ UNCHANGED <<role, signalled, listener, open, reqVars>>

-----------------------------------------------------------------------------
(* The deferred closes. Pool.Close refuses new acquires at once and waits  *)
(* for the connections that are out.                                       *)

CloseSink ==
    /\ main = "close sink"
    /\ open' = open \ {"sink"}
    /\ Goto("close gcs")
    /\ UNCHANGED <<role, signalled, listener, reqVars>>

CloseGCS ==
    /\ main = "close gcs"
    /\ open' = open \ {"gcs"}
    /\ Goto(IF "pool" \in open THEN "close pool" ELSE "end")
    /\ UNCHANGED <<role, signalled, listener, reqVars>>

ClosePool ==
    /\ main = "close pool"
    /\ open' = open \ {"pool"}
    /\ Goto("await pool")
    /\ UNCHANGED <<role, signalled, listener, reqVars>>

PoolClosed ==
    /\ main = "await pool"
    /\ holds = {}
    /\ Goto("end")
    /\ UNCHANGED <<role, signalled, listener, open, reqVars>>

Cut(exited) == [r \in Request |-> IF exited /\ Active(r) THEN "cut" ELSE req[r]]

Exit ==
    /\ main = "end"
    /\ main' = "exited"
    /\ exit' = IF result = "ok" THEN "0" ELSE "1"
    /\ req' = Cut(TRUE)
    /\ listener' = "off"
    /\ holds' = {}
    /\ UNCHANGED <<role, result, signalled, open, misused>>

-----------------------------------------------------------------------------
(* Requests. Handlers do not see the context of run; only the stream of    *)
(* the sink does.                                                          *)

(* A connection that was kept alive outlives the listener, but not         *)
(* Shutdown.                                                               *)
ShutDown == main = "drain" \/ result \in {"ok", "drain timeout"}
KeptAlive == ~ShutDown /\ \E r \in Request : req[r] # "none"

Accept(r) ==
    /\ listener = "listening" \/ (listener = "failed" /\ KeptAlive)
    /\ req[r] = "none"
    /\ \/ role.db /\ req' = [req EXCEPT ![r] = "pool"]
       \/ role.ingest /\ req' = [req EXCEPT ![r] = "sink"]
       \/ req' = [req EXCEPT ![r] = "answered"]
    /\ UNCHANGED <<role, procVars, signalled, listener, open, holds, misused>>

Misuse(r, client) == misused' = IF client \in open THEN misused ELSE misused \cup {r}

Answer(r) == req' = [req EXCEPT ![r] = "answered"]

(* A task handler takes a connection for its one statement, or is refused  *)
(* by a closed pool.                                                       *)
Acquire(r) ==
    /\ req[r] = "pool" /\ r \notin holds
    /\ \/ "pool" \in open /\ holds' = holds \cup {r} /\ UNCHANGED req
       \/ "pool" \notin open /\ Answer(r) /\ UNCHANGED holds
    /\ Misuse(r, "pool")
    /\ UNCHANGED <<role, procVars, signalled, listener, open>>

Release_Leaks(r) ==
    /\ r \in holds
    /\ Answer(r)
    /\ UNCHANGED <<role, procVars, signalled, listener, open, holds, misused>>

Release(r) ==
    /\ r \in holds
    /\ holds' = holds \ {r}
    /\ Answer(r)
    /\ UNCHANGED <<role, procVars, signalled, listener, open, misused>>

(* An ingest handler writes a batch, and goes on, or answers, or parks; a  *)
(* write to a stream that has ended is never accepted.                     *)
Write(r) ==
    /\ req[r] = "sink"
    /\ \/ "sink" \in open /\ ~signalled /\ UNCHANGED req
       \/ Answer(r)
       \/ req' = [req EXCEPT ![r] = "park"]
    /\ Misuse(r, "sink")
    /\ UNCHANGED <<role, procVars, signalled, listener, open, holds>>

Park(r) ==
    /\ req[r] = "park"
    /\ Answer(r)
    /\ Misuse(r, "gcs")
    /\ UNCHANGED <<role, procVars, signalled, listener, open, holds>>

-----------------------------------------------------------------------------
Signal ==
    /\ main # "exited"
    /\ ~signalled
    /\ signalled' = TRUE
    /\ UNCHANGED <<role, procVars, listener, open, reqVars>>

Exited == main = "exited" /\ UNCHANGED vars

Serve ==
    \/ MigrateOnStart \/ OpenPool \/ OpenSink \/ OpenGCS
    \/ StartListening \/ SelectError \/ SelectDone \/ DrainDone \/ DrainTimeout
    \/ CloseSink \/ CloseGCS \/ ClosePool \/ PoolClosed \/ Exit

Init ==
    /\ role \in Roles
    /\ main = "migrate" /\ result = "none" /\ exit = "none"
    /\ signalled = FALSE
    /\ listener = "off"
    /\ open = {}
    /\ req = [r \in Request |-> "none"]
    /\ holds = {}
    /\ misused = {}

Next ==
    \/ Serve
    \/ Bind \/ ListenerFails
    \/ \E r \in Request : Accept(r) \/ Acquire(r) \/ Release(r) \/ Write(r) \/ Park(r)
    \/ Signal
    \/ Exited

Spec == Init /\ [][Next]_vars

(* The main goroutine runs, and Postgres ends every statement. Nothing is  *)
(* assumed of the ingest handlers, nor that a signal ever comes.           *)
LiveSpec == Spec /\ WF_vars(Serve) /\ \A r \in Request : WF_vars(Release(r))

-----------------------------------------------------------------------------
ServerType ==
    /\ role \in Role
    /\ main \in Boot \cup Closing \cup {"listen", "select", "drain", "end", "exited"}
    /\ result \in {"none", "ok", "start failed", "listen failed", "drain timeout"}
    /\ exit \in {"none", "0", "1"}
    /\ signalled \in BOOLEAN
    /\ listener \in {"off", "starting", "listening", "failed", "closed"}
    /\ open \subseteq {"pool", "sink", "gcs"}

RequestType ==
    /\ req \in [Request -> {"none", "pool", "sink", "park", "answered", "cut"}]
    /\ holds \subseteq Request /\ \A r \in holds : req[r] = "pool"
    /\ misused \subseteq Request

TypeOK == ServerType /\ RequestType

(* Every way out of serve closes every client it opened, also when only    *)
(* some of them could be opened (main.go:87-105, 127-132).                 *)
NothingLeaks == main = "exited" => open = {}

(* A handler finds a client closed under it only when the drain timed out, *)
(* or when the listener failed and nothing was drained at all              *)
(* (server.go:51-63, main.go:92, 104).                                     *)
ClosedUnderHandler ==
    misused # {} => result \in {"drain timeout", "listen failed"}

(* The process reports success only when it was asked to stop and every    *)
(* request it had accepted was answered.                                   *)
CleanExit ==
    exit = "0" => signalled /\ \A r \in Request : req[r] \in {"none", "answered"}

-----------------------------------------------------------------------------
(* The inductive invariant.                                                *)

Serving == {"listen", "select", "drain"}
Returned == Closing \cup {"end", "exited"}

(* What is open is what the position of the main goroutine says.           *)
OpenMatchesMain ==
    /\ main \in {"migrate", "pool"} => open = {}
    /\ main = "sink" => open = (IF role.db THEN {"pool"} ELSE {})
    /\ main = "gcs" => role.ingest /\ open = (IF role.db THEN {"pool", "sink"} ELSE {"sink"})
    /\ main \in Serving =>
           /\ "pool" \in open <=> role.db
           /\ "sink" \in open <=> role.ingest
           /\ "gcs" \in open <=> role.ingest
    /\ main = "close gcs" => "sink" \notin open
    /\ main = "close pool" => open \subseteq {"pool"}
    /\ main \in {"await pool", "end", "exited"} => open = {}

(* Nothing is asked of a server that never listened.                       *)
QuietBeforeListen ==
    main \in Boot \cup {"listen"} \/ result = "start failed" =>
        listener = "off" /\ \A r \in Request : req[r] = "none"

(* Only a running server listens, and requests need what their role has.   *)
RequestsNeedRole ==
    /\ listener = "listening" => main = "select"
    /\ \A r \in Request : /\ req[r] = "pool" => role.db
                          /\ req[r] \in {"sink", "park"} => role.ingest

(* serve has a result once it returns; "ok" was asked for and drained.     *)
ResultMatchesMain ==
    /\ result = "none" <=> main \notin Returned
    /\ exit = (IF main # "exited" THEN "none" ELSE IF result = "ok" THEN "0" ELSE "1")
    /\ main = "drain" \/ result = "ok" => signalled
    /\ result = "ok" => \A r \in Request : req[r] \in {"none", "answered"}
    /\ main # "exited" => \A r \in Request : req[r] # "cut"

IInv ==
    /\ TypeOK
    /\ OpenMatchesMain
    /\ QuietBeforeListen
    /\ RequestsNeedRole
    /\ ResultMatchesMain
    /\ ClosedUnderHandler

-----------------------------------------------------------------------------
(* Once told to stop, the process ends, however long its ingest handlers   *)
(* would run.                                                              *)
StopsWhenTold == signalled ~> main = "exited"
=============================================================================
