----------------------------- MODULE MCInstance -----------------------------
(***************************************************************************)
(* A small instance of Instance: three good environments and every way to  *)
(* get one or two of their variables wrong that makes a difference, and    *)
(* requests that differ in what the handlers tell apart.                   *)
(***************************************************************************)
EXTENDS Instance, TLC

(* An int32 reaches to 15 here: 20 wraps to -12 and 33 to 1. Two           *)
(* milliseconds are 8 ns, MaxBurn; 20 of them overflow to 16 of 128, 33 to *)
(* 4 when LongHalf is 64.                                                  *)
MCAtoi == ("-1" :> -1) @@ ("0" :> 0) @@ ("1" :> 1) @@ ("5" :> 5) @@ ("20" :> 20) @@ ("33" :> 33)
              @@ ("70000" :> 70000)

Blank == [v \in Var |-> ""]
Api   == [Blank EXCEPT !["DATABASE_URL"] = "dsn", !["ENABLE_BURN_ENDPOINT"] = "true"]
Push_ == [Blank EXCEPT !["ENABLE_INGEST_ENDPOINT"] = "true", !["PUBSUB_AUDIENCE"] = "us",
              !["PUBSUB_PUSH_SERVICE_ACCOUNT"] = "pubsub", !["BQ_DATASET"] = "data",
              !["QUARANTINE_BUCKET"] = "bucket"]
Both  == [Push_ EXCEPT !["POSTGRES_HOST"] = "host"]

Set(e, v, text) == [e EXCEPT ![v] = text]

MCEnvironment ==
    {Blank, Api, Push_, Both,
     Set(Api, "DATABASE_URL", ""), Set(Api, "HTTP_PORT", "0"), Set(Api, "HTTP_PORT", "70000"),
     Set(Api, "LOG_FORMAT", "xml"), Set(Api, "MIGRATE_ON_START", "t"), Set(Push_, "MIGRATE_ON_START", "1"),
     Set(Api, "ENABLE_BURN_ENDPOINT", "yes"), Set(Push_, "ENABLE_INGEST_ENDPOINT", "yes"),
     Set(Both, "ENABLE_INGEST_ENDPOINT", "on"), Set(Push_, "INGEST_BATCH_ROWS", "0"),
     Set(Push_, "INGEST_BATCH_ROWS", "many"), Set(Push_, "BQ_TABLE", "t")}
        \cup {Set(Push_, v, "") : v \in {"PUBSUB_AUDIENCE", "PUBSUB_PUSH_SERVICE_ACCOUNT", "BQ_DATASET",
                                          "QUARANTINE_BUCKET"}}
        \cup {Set(Set(Api, "DB_MAX_CONNS", max), "DB_MIN_CONNS", min) :
                  max \in {"few", "0", "5", "20", "33"}, min \in {"", "-1", "0", "5", "20"}}

MCPlain == {"m", "n", "unknown"}
Ids == <<<<>>, <<"m">>, <<"/", "m">>, <<".", ".", "/", "n">>, <<"m", "/", "n">>, <<"/", ".">>>>
MCDigest == [i \in {Ids[k] : k \in DOMAIN Ids} |-> CHOOSE k \in DOMAIN Ids : Ids[k] = i]

NoToken == [audience |-> "", email |-> "", verified |-> "absent", signed |-> FALSE]
Good    == [audience |-> "us", email |-> "pubsub", verified |-> "yes", signed |-> TRUE]
Get     == [target |-> "live", form |-> "exact", header |-> "", ms |-> "5", token |-> NoToken,
            broken |-> FALSE, id |-> <<>>]
Sent    == [Get EXCEPT !.target = "push", !.token = Good]

MCAsk ==
    {Get, [Get EXCEPT !.header = "x"], [Get EXCEPT !.target = "ready", !.header = "x"],
     [Get EXCEPT !.target = "tasks"], [Get EXCEPT !.target = "elsewhere"],
     [Get EXCEPT !.target = "tasks", !.form = "slash"], [Get EXCEPT !.target = "push", !.form = "method"]}
        \cup {[Get EXCEPT !.target = "burn", !.ms = ms] : ms \in {"x", "-1", "0", "1", "5", "20", "33"}}
        \cup {[Sent EXCEPT !.id = i] : i \in DOMAIN MCDigest}
        \cup {[Sent EXCEPT !.broken = TRUE], [Sent EXCEPT !.form = "slash"]}
        \cup {[Sent EXCEPT !.token = t] : t \in
                  {NoToken, [Good EXCEPT !.signed = FALSE], [Good EXCEPT !.verified = "no"],
                   [Good EXCEPT !.verified = "absent"], [Good EXCEPT !.audience = "them"],
                   [Good EXCEPT !.email = "them"], [Good EXCEPT !.email = "", !.audience = ""],
                   [Good EXCEPT !.email = ""]}}

Requests == Permutations(Request)
=============================================================================
