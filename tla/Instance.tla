------------------------------ MODULE Instance ------------------------------
(***************************************************************************)
(* One instance from its environment to its answers: run and serve         *)
(* (src/cmd/api/main.go) decide by the configuration what is wired, the    *)
(* router registers what is wired, and a request passes requestID, the     *)
(* logger, recovery and its handler (src/internal/httpapi). The handlers   *)
(* of /api/v1/tasks and the ingest service are modules of their own        *)
(* (Tasks, Ingest) and only answer here; the push handler is followed      *)
(* through its token (oidc.go) to the object it parks a payload in         *)
(* (quarantine/gcs.go).                                                    *)
(*                                                                         *)
(* The words of the machine are scaled: an int32 reaches to WordHalf - 1,  *)
(* an int64 to LongHalf - 1.                                               *)
(***************************************************************************)
EXTENDS Config, ObjectNames

CONSTANTS
    Environment,    \* the environments to start in
    Request,        \* what clients send, each at most once
    Ask,            \* what a request may ask
    MaxInstant,     \* bound: the readings of the clock
    WordHalf,       \* 2^31
    LongHalf,       \* 2^63
    NsPerMs,        \* time.Millisecond
    MaxBurn         \* maxBurnDuration

(* A path, asked for as it is registered, with a slash behind it, or with  *)
(* a method it is not registered for; X-Request-ID; ?ms=, which is "50"    *)
(* when it is left out; the bearer token's claims (email_verified may be   *)
(* absent); and what Pub/Sub pushes: an id, empty when the envelope is     *)
(* broken or names none.                                                   *)
Token == [audience : STRING, email : STRING, verified : {"yes", "no", "absent"}, signed : BOOLEAN]
Asks ==
    [target : {"live", "ready", "tasks", "burn", "push", "elsewhere"},
     form   : {"exact", "slash", "method"},
     header : STRING, ms : STRING, token : Token, broken : BOOLEAN, id : DOMAIN Digest]

ASSUME InstanceAssumption ==
    /\ Environment \subseteq [Var -> STRING]
    /\ Ask \subseteq Asks
    /\ DOMAIN Digest \subseteq Seq(STRING) /\ <<>> \in DOMAIN Digest
    /\ MaxInstant \in Nat /\ MaxBurn \in Nat
    /\ WordHalf \in Nat \ {0} /\ LongHalf \in Nat \ {0} /\ NsPerMs \in Nat \ {0}
    /\ MaxBurn < LongHalf
    (* Half a word of SHA-256 tells the ids of one run apart.              *)
    /\ \A i, j \in DOMAIN Digest : Digest[i] = Digest[j] => i = j

VARIABLES
    env,        \* the environment
    phase,      \* "load", "boot", "serving" or "exited"
    deps,       \* what the router is given
    ask,        \* what each request asks
    step,       \* where each request is
    id,         \* its request id
    status,     \* its answer, 0 before
    spent,      \* how long it has burnt the CPU
    name,       \* the object its payload is parked in
    clock,      \* the last instant read
    bucket,     \* the objects of the quarantine bucket
    log,        \* the lines of the request logger
    (* history, read by no action *)
    admitted,   \* pushes that reached the ingest service
    kept,       \* payloads Quarantine reported as stored
    nil         \* requests whose handler lacked what it calls

bootVars    == <<env, phase, deps>>
requestVars == <<ask, step, id, status, spent, name>>
traceVars   == <<clock, bucket, log, admitted, kept, nil>>
vars        == <<bootVars, requestVars, traceVars>>

NoPool == [max |-> 0, min |-> 0]
NoDeps == [pool |-> NoPool, pinger |-> FALSE, tasks |-> FALSE, burn |-> FALSE, ingest |-> FALSE]
NoAsk  == <<>>
NoName == <<>>

(* Two's complement: what is left of a number in a word of twice the half. *)
Wrap(n, half) == ((n + half) % (2 * half)) - half

-----------------------------------------------------------------------------
(* run and serve, up to the server.                                        *)

LoadConfig ==
    /\ phase = "load"
    /\ phase' = IF Valid(Load(env)) THEN "boot" ELSE "exited"
    /\ UNCHANGED <<env, deps, requestVars, traceVars>>

(* NewPool narrows the sizes to int32.                                     *)
Pool_Crossed(cfg) == [max |-> Wrap(cfg.minConns, WordHalf), min |-> Wrap(cfg.maxConns, WordHalf)]
Pool(cfg) == [max |-> Wrap(cfg.maxConns, WordHalf), min |-> Wrap(cfg.minConns, WordHalf)]

(* The pool is only handed on when there is one: a nil pool in the Pinger  *)
(* interface would not compare equal to nil.                               *)
Wired_NilPinger(cfg) ==
    [pool   |-> IF cfg.dsn = "" THEN NoPool ELSE Pool(cfg),
     pinger |-> TRUE,
     tasks  |-> cfg.dsn # "",
     burn   |-> cfg.burn,
     ingest |-> cfg.ingest]
Wired(cfg) ==
    [pool   |-> IF cfg.dsn = "" THEN NoPool ELSE Pool(cfg),
     pinger |-> cfg.dsn # "",
     tasks  |-> cfg.dsn # "",
     burn   |-> cfg.burn,
     ingest |-> cfg.ingest]

(* Migrating needs a database, and a pool at least one connection. Anything*)
(* else may fail as well (ServerLifecycle).                                *)
CanBoot(cfg) ==
    /\ cfg.migrate => cfg.dsn # ""
    /\ cfg.dsn # "" => Pool(cfg).max >= 1

Boot ==
    /\ phase = "boot"
    /\ \/ CanBoot(Load(env)) /\ phase' = "serving" /\ deps' = Wired(Load(env))
       \/ phase' = "exited" /\ UNCHANGED deps
    /\ UNCHANGED <<env, requestVars, traceVars>>

-----------------------------------------------------------------------------
(* The router and the middleware around every handler.                     *)

Registered ==
    {"live", "ready"} \cup {t \in {"tasks"} : deps.tasks}
        \cup {t \in {"burn"} : deps.burn} \cup {t \in {"push"} : deps.ingest}

Route(q) ==
    IF q.target \notin Registered THEN "no route"
    ELSE IF q.form = "method" THEN "no method"
    ELSE IF q.form = "slash" THEN "redirect" ELSE q.target

RequestID_Shared(r, q) == IF q.header = "" THEN <<"made", "once">> ELSE <<"sent", q.header>>
RequestID(r, q) == IF q.header = "" THEN <<"made", r>> ELSE <<"sent", q.header>>

(* gin redirects to the registered path before any middleware runs, a POST *)
(* with another code.                                                      *)
Redirect(r, q) ==
    /\ step' = [step EXCEPT ![r] = "done"]
    /\ status' = [status EXCEPT ![r] = IF q.target = "push" THEN 307 ELSE 301]
    /\ UNCHANGED id

Arrive(r, q) ==
    /\ phase = "serving"
    /\ step[r] = "none"
    /\ ask' = [ask EXCEPT ![r] = q]
    /\ IF Route(q) = "redirect" THEN Redirect(r, q)
       ELSE /\ step' = [step EXCEPT ![r] = "routed"]
            /\ id' = [id EXCEPT ![r] = RequestID(r, q)]
            /\ UNCHANGED status
    /\ UNCHANGED <<bootVars, spent, name, traceVars>>

(* A handler has written its answer; what is left is the logger's line.    *)
Answer(r, codes) ==
    /\ \E c \in codes : status' = [status EXCEPT ![r] = c]
    /\ step' = [step EXCEPT ![r] = "answered"]

(* What a route calls is nil.                                              *)
Lacks(route) ==
    \/ route = "tasks" /\ deps.pool = NoPool
    \/ route = "ready" /\ deps.pinger /\ deps.pool = NoPool

Panic(r) ==
    /\ step[r] \in {"routed", "ingest"}
    /\ Route(ask[r]) \notin {"no route", "no method"}
    /\ step' = [step EXCEPT ![r] = "panicked"]
    /\ nil' = IF Lacks(Route(ask[r])) THEN nil \cup {r} ELSE nil
    /\ UNCHANGED <<bootVars, ask, id, status, spent, name, clock, bucket, log, admitted, kept>>

(* recovery runs inside the logger, which gets to see the 500.             *)
Recover_Outside(r) ==
    /\ step[r] = "panicked"
    /\ status' = [status EXCEPT ![r] = 500]
    /\ step' = [step EXCEPT ![r] = "done"]
    /\ UNCHANGED <<bootVars, ask, id, spent, name, traceVars>>
Recover(r) ==
    /\ step[r] = "panicked"
    /\ Answer(r, {500})
    /\ UNCHANGED <<bootVars, ask, id, spent, name, traceVars>>

LogLine(r) ==
    /\ step[r] = "answered"
    /\ step' = [step EXCEPT ![r] = "done"]
    /\ log' = log \cup {[of |-> r, id |-> id[r], status |-> status[r]]}
    /\ UNCHANGED <<bootVars, ask, id, status, spent, name, clock, bucket, admitted, kept, nil>>

-----------------------------------------------------------------------------
(* The handlers.                                                           *)

(* Without a database readiness only speaks of the process.                *)
Handle(r) ==
    LET route == Route(ask[r]) IN
    /\ step[r] = "routed"
    /\ ~Lacks(route)
    /\ \/ route = "live" /\ Answer(r, {200})
       \/ route = "ready" /\ Answer(r, {200} \cup {c \in {503} : deps.pinger})
       \/ route = "tasks" /\ Answer(r, {200, 201, 204, 400, 404, 500})
       \/ route = "no route" /\ Answer(r, {404})
       \/ route = "no method" /\ Answer(r, {405})
    /\ UNCHANGED <<bootVars, ask, id, spent, name, traceVars>>

(* The milliseconds are multiplied to nanoseconds in an int64, then capped;*)
(* spin returns the first time it looks when the deadline has passed.      *)
BurnTime_CapFirst(ms) == Wrap((IF ms > MaxBurn THEN MaxBurn ELSE ms) * NsPerMs, LongHalf)
BurnTime(ms) ==
    LET d == Wrap(ms * NsPerMs, LongHalf)
    IN  IF d > MaxBurn THEN MaxBurn ELSE d

Spun(d) == IF d > 0 THEN d ELSE 0

Burn(r) ==
    /\ step[r] = "routed"
    /\ Route(ask[r]) = "burn"
    /\ LET text == ask[r].ms IN
       IF text \in DOMAIN Atoi /\ Atoi[text] >= 0
       THEN /\ Answer(r, {200})
            /\ spent' = [spent EXCEPT ![r] = Spun(BurnTime(Atoi[text]))]
       ELSE Answer(r, {400}) /\ UNCHANGED spent
    /\ UNCHANGED <<bootVars, ask, id, name, traceVars>>

(* Verify: idtoken.Validate compares the audience unless it is asked for   *)
(* none; a token without an email has the email "".                        *)
Verifies(token) ==
    LET cfg == Load(env) IN
    /\ token.signed
    /\ cfg.audience # "" => token.audience = cfg.audience
    /\ token.email = cfg.account
    /\ token.verified # "no"

(* The keys a token is checked with may be out of reach.                   *)
Push(r) ==
    /\ step[r] = "routed"
    /\ Route(ask[r]) = "push"
    /\ \/ Answer(r, {401}) /\ UNCHANGED admitted
       \/ /\ Verifies(ask[r].token)
          /\ step' = [step EXCEPT ![r] = "ingest"]
          /\ admitted' = admitted \cup {r}
          /\ UNCHANGED status
    /\ UNCHANGED <<bootVars, ask, id, spent, name, clock, bucket, log, kept, nil>>

(* Too large, cut short, stored, or to be retried; or to be parked under a *)
(* name that holds the instant.                                            *)
Consume(r) ==
    /\ step[r] = "ingest"
    /\ \/ /\ Answer(r, IF ask[r].broken THEN {413, 503} ELSE {204, 413, 503})
          /\ UNCHANGED <<name, clock>>
       \/ /\ clock' \in {clock, clock + 1} /\ clock' <= MaxInstant
          /\ name' = [name EXCEPT ![r] = ObjectName(clock', ask[r].id)]
          /\ step' = [step EXCEPT ![r] = "parking"]
          /\ UNCHANGED status
    /\ UNCHANGED <<bootVars, ask, id, spent, bucket, log, admitted, kept, nil>>

(* A payload is known by its message, or else only by the push it came in. *)
Payload(r) == IF ask[r].id = <<>> THEN <<"of", r>> ELSE <<"message", ask[r].id>>

(* An object of the same name is replaced.                                 *)
Written(r) == {o \in bucket : o.name # name[r]} \cup {[name |-> name[r], payload |-> Payload(r)]}

(* Quarantine may fail with or without the object, and the answer is the   *)
(* same.                                                                   *)
Park(r) ==
    /\ step[r] = "parking"
    /\ \/ bucket' = Written(r) /\ kept' = kept \cup {r}
       \/ bucket' \in {bucket, Written(r)} /\ UNCHANGED kept
    /\ Answer(r, {200})
    /\ UNCHANGED <<bootVars, ask, id, spent, name, clock, log, admitted, nil>>

-----------------------------------------------------------------------------
Init ==
    /\ env \in Environment
    /\ phase = "load"
    /\ deps = NoDeps
    /\ ask = [r \in Request |-> NoAsk]
    /\ step = [r \in Request |-> "none"]
    /\ id = [r \in Request |-> <<>>]
    /\ status = [r \in Request |-> 0]
    /\ spent = [r \in Request |-> 0]
    /\ name = [r \in Request |-> NoName]
    /\ clock = 0
    /\ bucket = {}
    /\ log = {}
    /\ admitted = {}
    /\ kept = {}
    /\ nil = {}

Serve(r) ==
    \/ \E q \in Ask : Arrive(r, q)
    \/ Handle(r) \/ Burn(r) \/ Push(r) \/ Consume(r) \/ Park(r)
    \/ Panic(r) \/ Recover(r) \/ LogLine(r)

Rest ==
    /\ phase = "exited" \/ \A r \in Request : step[r] = "done"
    /\ UNCHANGED vars

Next == LoadConfig \/ Boot \/ (\E r \in Request : Serve(r)) \/ Rest

Spec == Init /\ [][Next]_vars

-----------------------------------------------------------------------------
Names == {ObjectName(t, i) : t \in 0 .. MaxInstant, i \in DOMAIN Digest}
IDs == {<<"made", r>> : r \in Request} \cup {<<"sent", q.header>> : q \in Ask}

(* Every variable has its type.                                            *)
TypeOK ==
    /\ env \in Environment
    /\ phase \in {"load", "boot", "serving", "exited"}
    /\ deps \in [pool : [max : Int, min : Int], pinger : BOOLEAN, tasks : BOOLEAN,
                 burn : BOOLEAN, ingest : BOOLEAN]
    /\ ask \in [Request -> Ask \cup {NoAsk}]
    /\ step \in [Request -> {"none", "routed", "ingest", "parking", "panicked", "answered", "done"}]
    /\ id \in [Request -> IDs \cup {<<>>}]
    /\ status \in [Request -> {0, 200, 201, 204, 301, 307, 400, 401, 404, 405, 413, 500, 503}]
    /\ spent \in [Request -> 0 .. MaxBurn]
    /\ name \in [Request -> Names \cup {NoName}]
    /\ clock \in 0 .. MaxInstant
    /\ \A o \in bucket : o.name \in Names
    /\ \A l \in log : l.of \in Request
    /\ admitted \subseteq Request /\ kept \subseteq admitted /\ nil \subseteq Request

(* Whatever the environment, a push gets to the ingest service only with a *)
(* signed token of the one service account, made out to this service: the  *)
(* validation of the configuration has to make up for a verifier that      *)
(* compares with whatever it was given, an empty text included             *)
(* (config.go, validate; oidc.go, Verify).                                 *)
AuthenticPush ==
    \A r \in admitted :
        LET token == ask[r].token IN
        /\ token.signed /\ token.verified # "no"
        /\ token.audience = env["PUBSUB_AUDIENCE"] /\ token.audience # ""
        /\ token.email = env["PUBSUB_PUSH_SERVICE_ACCOUNT"] /\ token.email # ""

(* No request ever reaches a handler that lacks the service or the pool it *)
(* calls, in any role: an instance without a database has no task routes   *)
(* and no pinger (main.go, serve; router.go; health.go, ready).            *)
NothingMissing == nil = {}

(* Every request the middleware saw, a panicked one included, leaves one   *)
(* line in the log, with the status the client got and the id it can ask   *)
(* for; only a client can make two requests share an id (middleware.go).   *)
Traceable ==
    /\ \A r \in Request : step[r] = "done" /\ status[r] \notin {301, 307} =>
           {l \in log : l.of = r} = {[of |-> r, id |-> id[r], status |-> status[r]]}
    /\ \A r, s \in Request : id[r] # <<>> /\ id[r] = id[s] /\ r # s =>
           ask[r].header # "" /\ ask[r].header = ask[s].header

(* A payload reported as parked stays in the bucket under its name for an  *)
(* operator to replay; another may only replace it when both came without  *)
(* an id at one instant (gcs.go, ObjectName and Quarantine).               *)
ParkedIsFound ==
    \A r \in kept : \E o \in bucket :
        /\ o.name = name[r]
        /\ o.payload = Payload(r) \/ (ask[r].id = <<>> /\ o.payload \in {<<"of", s>> : s \in Request})

(* Whatever the id, the object stays under the prefix of its date and its  *)
(* name within the length a bucket takes (gcs.go, sanitizeID).             *)
NamesStayInPrefix ==
    \A o \in bucket :
        LET safe == o.name.safe IN
        /\ Len(safe) \in 1 .. MaxLen
        /\ safe[1] \notin {".", "_"}
        /\ \A i \in DOMAIN safe : safe[i] \in Kept /\ safe[i] # "/"

(* The pool an instance serves from can hold a connection, and sizes that  *)
(* fit an int32 arrive as they were configured and in order: validation    *)
(* does not bound them (postgres.go:22).                                   *)
PoolAsConfigured ==
    LET cfg == Load(env)
        Fits(n) == n \in -WordHalf .. WordHalf - 1
    IN  phase = "serving" /\ deps.tasks =>
            /\ deps.pool.max >= 1
            /\ Fits(cfg.maxConns) /\ Fits(cfg.minConns) =>
                   deps.pool = [max |-> cfg.maxConns, min |-> cfg.minConns] /\ deps.pool.min <= deps.pool.max

(* However large the number a client sends, it burns no more than the cap  *)
(* and no more than it asked for, and just that much as long as the        *)
(* product fits the word (burn.go, burn).                                  *)
BurnsAsAsked ==
    \A r \in Request : step[r] \in {"answered", "done"} /\ status[r] = 200 /\ Route(ask[r]) = "burn" =>
        LET asked == Atoi[ask[r].ms] * NsPerMs IN
        /\ spent[r] <= MaxBurn /\ spent[r] <= asked
        /\ asked < LongHalf => spent[r] = IF asked > MaxBurn THEN MaxBurn ELSE asked

(* An instance that serves has tasks or pushes to serve, pushes only when  *)
(* the environment says so in so many words: settings that are misspelt    *)
(* fall back to defaults, and validation must still refuse an empty shell  *)
(* (config.go, envBool and validate; main.go, serve; router.go).           *)
ServesAsTold ==
    phase = "serving" =>
        /\ Registered \cap {"tasks", "push"} # {}
        /\ "push" \in Registered <=> env["ENABLE_INGEST_ENDPOINT"] \in Truths
        /\ "tasks" \in Registered => env["DATABASE_URL"] # "" \/ env["POSTGRES_HOST"] # ""
=============================================================================
