------------------------------- MODULE Config -------------------------------
(***************************************************************************)
(* Load and validate (src/internal/config/config.go): from the variables   *)
(* of the environment, with their silent fallbacks, to a configuration     *)
(* that may be refused. "" is a variable that is empty or not set, which   *)
(* the code does not tell apart.                                           *)
(*                                                                         *)
(* The timeouts, the log level and BQ_PROJECT are left out: every value is *)
(* accepted and none decides what the process does. Texts that differ only *)
(* in the case of LOG_FORMAT are one text here.                            *)
(***************************************************************************)
EXTENDS Integers

CONSTANT Atoi   \* the texts strconv.Atoi reads, and the numbers they mean

ASSUME AtoiAssumption ==
    /\ "" \notin DOMAIN Atoi
    /\ \A t \in DOMAIN Atoi : Atoi[t] \in Int

Var == {"HTTP_PORT", "DATABASE_URL", "POSTGRES_HOST", "DB_MAX_CONNS", "DB_MIN_CONNS",
        "LOG_FORMAT", "MIGRATE_ON_START", "ENABLE_BURN_ENDPOINT", "ENABLE_INGEST_ENDPOINT",
        "PUBSUB_AUDIENCE", "PUBSUB_PUSH_SERVICE_ACCOUNT", "BQ_DATASET", "BQ_TABLE",
        "QUARANTINE_BUCKET", "INGEST_BATCH_ROWS"}

Default(text, fallback) == IF text = "" THEN fallback ELSE text

(* A text that is no number is taken for one that was not set; likewise a  *)
(* text that is no truth value.                                            *)
EnvInt(text, fallback) == IF text \in DOMAIN Atoi THEN Atoi[text] ELSE fallback

Truths == {"1", "t", "T", "TRUE", "true", "True"}
EnvBool(text) == text \in Truths

(* An explicit DATABASE_URL wins over one composed from the host.          *)
DSN(env) == IF env["DATABASE_URL"] # "" THEN env["DATABASE_URL"]
            ELSE IF env["POSTGRES_HOST"] = "" THEN "" ELSE "postgres://host"

Load(env) ==
    [port     |-> EnvInt(env["HTTP_PORT"], 8080),
     dsn      |-> DSN(env),
     maxConns |-> EnvInt(env["DB_MAX_CONNS"], 10),
     minConns |-> EnvInt(env["DB_MIN_CONNS"], 1),
     format   |-> Default(env["LOG_FORMAT"], "json"),
     migrate  |-> EnvBool(env["MIGRATE_ON_START"]),
     burn     |-> EnvBool(env["ENABLE_BURN_ENDPOINT"]),
     ingest   |-> EnvBool(env["ENABLE_INGEST_ENDPOINT"]),
     audience |-> env["PUBSUB_AUDIENCE"],
     account  |-> env["PUBSUB_PUSH_SERVICE_ACCOUNT"],
     dataset  |-> env["BQ_DATASET"],
     table    |-> Default(env["BQ_TABLE"], "readings"),
     bucket   |-> env["QUARANTINE_BUCKET"],
     batch    |-> EnvInt(env["INGEST_BATCH_ROWS"], 5000)]

(* Ingest.validate: nothing is required of a service that does not ingest. *)
Required_NoAccount == {"audience", "dataset", "table", "bucket"}
Required == {"audience", "account", "dataset", "table", "bucket"}

ValidIngest(cfg) == cfg.ingest => (\A key \in Required : cfg[key] # "") /\ cfg.batch >= 1

(* Only the ingest service may do without a database.                      *)
HasDatabase_Always(cfg) == TRUE
HasDatabase(cfg) == cfg.ingest \/ cfg.dsn # ""

PortInRange(cfg) == cfg.port \in 1 .. 65535
PoolOrdered(cfg) == cfg.minConns <= cfg.maxConns

Valid(cfg) ==
    /\ PortInRange(cfg)
    /\ HasDatabase(cfg)
    /\ PoolOrdered(cfg)
    /\ cfg.format \in {"json", "text"}
    /\ ValidIngest(cfg)

(* What serve makes of a configuration.                                    *)
RoleOf(cfg) == [db |-> cfg.dsn # "", ingest |-> cfg.ingest, migrate |-> cfg.migrate]
=============================================================================
