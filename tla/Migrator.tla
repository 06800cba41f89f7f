------------------------------- MODULE Migrator -------------------------------
(***************************************************************************)
(* Schema migrations: instances that migrate at boot, operators' commands  *)
(* (src/cmd/api/migrate.go, src/internal/migrator/migrator.go) and the     *)
(* database they share. golang-migrate and Postgres are modelled from how  *)
(* the code uses them: a session-level advisory lock, and for every        *)
(* migration three statements: mark the version dirty, run the file, mark  *)
(* it clean. The file is one transaction. A process may die between any    *)
(* two statements.                                                         *)
(***************************************************************************)
EXTENDS Integers, FiniteSets

CONSTANTS
    Proc,           \* processes; one runs a command at a time
    NoProc,         \* the lock is free
    Newest,         \* the newest migration embedded in a process's binary
    Commands,       \* what processes are asked to do, apart from force
    ForceVersions,  \* versions operators may force
    MaxCommands     \* bound on the commands started

Command == [op : {"up", "down", "down all"}, n : Nat]

ASSUME ProcAssumption == NoProc \notin Proc
ASSUME VersionAssumption ==
    /\ Newest \in [Proc -> Nat \ {0}]
    /\ ForceVersions \subseteq Nat
    /\ MaxCommands \in Nat
ASSUME CommandAssumption == Commands \subseteq Command

VARIABLES
    version,    \* recorded version
    dirty,      \* recorded flag
    schema,     \* migrations whose effect the database really has
    lock,       \* the session that holds the advisory lock
    pc,         \* where a process is, "idle" between commands
    cmd,        \* its command
    at,         \* the version it works from
    moved,      \* migrations it has run
    err,        \* what golang-migrate returned, "none" for success
    result,     \* what the command reported
    started,    \* commands started, for the bound
    found,      \* schema when it got the lock (history)
    met         \* whether its aim was met when it released the lock (history)

dbVars   == <<version, dirty, schema>>
workVars == <<at, moved, err>>
history  == <<found, met>>
vars     == <<dbVars, lock, pc, cmd, workVars, result, started, history>>

Nil == -1                       \* no migration applied
Above(v) == IF v = Nil THEN 1 ELSE v + 1
Below(v) == IF v = 1 THEN Nil ELSE v - 1
Applied(v) == 1 .. v            \* the schema a version stands for

Goto(p, step) == pc' = [pc EXCEPT ![p] = step]
Returns(p, e) == err' = [err EXCEPT ![p] = e] /\ Goto(p, "unlock")

-----------------------------------------------------------------------------
(* runMigrate and migrateUp: the command, and how often Down may step.     *)

Start(p) ==
    /\ pc[p] = "idle"
    /\ started < MaxCommands
    /\ started' = started + 1
    /\ \E c \in Commands : cmd' = [cmd EXCEPT ![p] = c]
    /\ Goto(p, "lock")
    /\ err' = [err EXCEPT ![p] = "none"]
    /\ result' = [result EXCEPT ![p] = "none"]
    /\ UNCHANGED <<dbVars, lock, at, moved, history>>

(* Operators force only after repairing a failed migration by hand, to the *)
(* version they repaired the schema to, one of them at a time.             *)
StartForce(p) ==
    /\ pc[p] = "idle"
    /\ started < MaxCommands
    /\ dirty /\ lock = NoProc
    /\ \A q \in Proc : pc[q] # "idle" => cmd[q].op # "force"
    /\ started' = started + 1
    /\ \E v \in ForceVersions :
           /\ schema' = Applied(v)
           /\ cmd' = [cmd EXCEPT ![p] = [op |-> "force", n |-> v]]
    /\ Goto(p, "lock")
    /\ err' = [err EXCEPT ![p] = "none"]
    /\ result' = [result EXCEPT ![p] = "none"]
    /\ UNCHANGED <<version, dirty, lock, at, moved, history>>

Limited_OneIsAll(p) == cmd[p].op = "down" /\ cmd[p].n # 1

(* "down n" goes to Steps(-n), which stops after n; "down all" and "up"    *)
(* go on to the end.                                                       *)
Limited(p) == cmd[p].op = "down"

-----------------------------------------------------------------------------
(* golang-migrate, from the lock to the unlock.                            *)

Acquire(p) ==
    /\ pc[p] = "lock"
    /\ lock = NoProc
    /\ lock' = p
    /\ Goto(p, IF cmd[p].op = "force" THEN "force" ELSE "check")
    /\ found' = [found EXCEPT ![p] = schema]
    /\ UNCHANGED <<dbVars, cmd, workVars, result, started, met>>

(* The lock is waited for 15 seconds, the library's default.               *)
LockTimeout(p) ==
    /\ pc[p] = "lock"
    /\ lock # NoProc
    /\ err' = [err EXCEPT ![p] = "lock timeout"]
    /\ Goto(p, "report")
    /\ UNCHANGED <<dbVars, lock, cmd, at, moved, result, started, history>>

Known(p, v) == v = Nil \/ v \in 1 .. Newest[p]

More_PastNil(p, v, n) ==
    IF cmd[p].op = "up" THEN Above(v) \in 1 .. Newest[p]
    ELSE Limited(p) => n < cmd[p].n

More(p, v, n) ==
    IF cmd[p].op = "up" THEN Above(v) \in 1 .. Newest[p]
    ELSE v # Nil /\ (Limited(p) => n < cmd[p].n)

(* What stops a command before its first migration.                        *)
Refusal_OverDirty(p) ==
    IF ~Known(p, version) THEN "unknown version"
    ELSE IF More(p, version, 0) THEN "none"
    ELSE IF Limited(p) THEN "nothing to roll back"
    ELSE "no change"

Refusal(p) ==
    IF dirty THEN "dirty"
    ELSE IF ~Known(p, version) THEN "unknown version"
    ELSE IF More(p, version, 0) THEN "none"
    ELSE IF Limited(p) THEN "nothing to roll back"
    ELSE "no change"

Check(p) ==
    /\ pc[p] = "check"
    /\ at' = [at EXCEPT ![p] = version]
    /\ moved' = [moved EXCEPT ![p] = 0]
    /\ err' = [err EXCEPT ![p] = Refusal(p)]
    /\ Goto(p, IF Refusal(p) = "none" THEN "next" ELSE "unlock")
    /\ UNCHANGED <<dbVars, lock, cmd, result, started, history>>

Target(p) == IF cmd[p].op = "up" THEN Above(at[p]) ELSE Below(at[p])

Mark(p) ==
    /\ pc[p] = "next"
    /\ More(p, at[p], moved[p])
    /\ version' = Target(p)
    /\ dirty' = TRUE
    /\ Goto(p, "marked")
    /\ UNCHANGED <<schema, lock, cmd, workVars, result, started, history>>

Run(p) ==
    /\ pc[p] = "marked"
    /\ schema' = IF cmd[p].op = "up" THEN schema \cup {Target(p)} ELSE schema \ {at[p]}
    /\ Goto(p, "ran")
    /\ UNCHANGED <<version, dirty, lock, cmd, workVars, result, started, history>>

RunFails(p) ==
    /\ pc[p] = "marked"
    /\ Returns(p, "sql")
    /\ UNCHANGED <<dbVars, lock, cmd, at, moved, result, started, history>>

Clean(p) ==
    /\ pc[p] = "ran"
    /\ version' = Target(p)
    /\ dirty' = FALSE
    /\ at' = [at EXCEPT ![p] = Target(p)]
    /\ moved' = [moved EXCEPT ![p] = @ + 1]
    /\ Goto(p, "next")
    /\ UNCHANGED <<schema, lock, cmd, err, result, started, history>>

(* A "down n" that runs out of migrations has rolled them all back, and    *)
(* returns an error.                                                       *)
Finish(p) ==
    /\ pc[p] = "next"
    /\ ~More(p, at[p], moved[p])
    /\ Returns(p, IF Limited(p) /\ moved[p] < cmd[p].n THEN "short" ELSE "none")
    /\ UNCHANGED <<dbVars, lock, cmd, at, moved, result, started, history>>

ForceVersion_ClearsOnly(p) ==
    /\ pc[p] = "force"
    /\ dirty' = FALSE
    /\ Goto(p, "unlock")
    /\ UNCHANGED <<version, schema, lock, cmd, workVars, result, started, history>>

(* Force pins the version and clears the flag.                             *)
ForceVersion(p) ==
    /\ pc[p] = "force"
    /\ version' = cmd[p].n
    /\ dirty' = FALSE
    /\ Goto(p, "unlock")
    /\ UNCHANGED <<schema, lock, cmd, workVars, result, started, history>>

(* What the command was asked for, as far as the database shows it.        *)
AimMet(p) ==
    /\ ~dirty
    /\ CASE cmd[p].op = "up"       -> schema = Applied(Newest[p])
         [] cmd[p].op = "down"     -> /\ schema \subseteq found[p]
                                      /\ Cardinality(found[p] \ schema) = cmd[p].n
         [] cmd[p].op = "down all" -> schema = {}
         [] cmd[p].op = "force"    -> version = cmd[p].n

Unlock(p) ==
    /\ pc[p] = "unlock"
    /\ lock' = NoProc
    /\ met' = [met EXCEPT ![p] = AimMet(p)]
    /\ Goto(p, IF cmd[p].op = "up" /\ err[p] = "none" THEN "read version" ELSE "report")
    /\ UNCHANGED <<dbVars, cmd, workVars, result, started, found>>

-----------------------------------------------------------------------------
(* Migrator.Up, Down and Force after the library returns.                  *)

(* Up reads the version again, without the lock: it fails if everything    *)
(* was rolled back meanwhile.                                              *)
ReadVersion(p) ==
    /\ pc[p] = "read version"
    /\ err' = [err EXCEPT ![p] = IF version = Nil THEN "nil version" ELSE "none"]
    /\ Goto(p, "report")
    /\ UNCHANGED <<dbVars, lock, cmd, at, moved, result, started, history>>

Succeeded_IgnoresDirty(e) == e \in {"none", "no change", "dirty"}
Succeeded(e) == e \in {"none", "no change"}

Report(p) ==
    /\ pc[p] = "report"
    /\ result' = [result EXCEPT ![p] = IF Succeeded(err[p]) THEN "ok" ELSE "failed"]
    /\ Goto(p, "idle")
    /\ UNCHANGED <<dbVars, lock, cmd, workVars, started, history>>

Crash_KeepsLock(p) ==
    /\ pc[p] # "idle"
    /\ Goto(p, "idle")
    /\ result' = [result EXCEPT ![p] = "crashed"]
    /\ UNCHANGED <<dbVars, lock, cmd, workVars, started, history>>

(* The process dies, and its session and the lock with it.                 *)
Crash(p) ==
    /\ pc[p] # "idle"
    /\ Goto(p, "idle")
    /\ lock' = IF lock = p THEN NoProc ELSE lock
    /\ result' = [result EXCEPT ![p] = "crashed"]
    /\ UNCHANGED <<dbVars, cmd, workVars, started, history>>

AllDone == (\A p \in Proc : pc[p] = "idle") /\ UNCHANGED vars

Init ==
    /\ version = Nil /\ dirty = FALSE /\ schema = {}
    /\ lock = NoProc
    /\ pc = [p \in Proc |-> "idle"]
    /\ cmd = [p \in Proc |-> [op |-> "up", n |-> 0]]
    /\ at = [p \in Proc |-> Nil]
    /\ moved = [p \in Proc |-> 0]
    /\ err = [p \in Proc |-> "none"]
    /\ result = [p \in Proc |-> "none"]
    /\ started = 0
    /\ found = [p \in Proc |-> {}]
    /\ met = [p \in Proc |-> FALSE]

Library(p) ==
    \/ Acquire(p) \/ LockTimeout(p) \/ Check(p)
    \/ Mark(p) \/ Run(p) \/ RunFails(p) \/ Clean(p) \/ Finish(p)
    \/ ForceVersion(p) \/ Unlock(p)

Next ==
    \/ \E p \in Proc : \/ Start(p) \/ StartForce(p) \/ Library(p)
                       \/ ReadVersion(p) \/ Report(p) \/ Crash(p)
    \/ AllDone

Spec == Init /\ [][Next]_vars

(* Postgres ends every statement and gives a free lock to one who waits.   *)
(* Nothing is assumed of the 15 seconds a process waits for it.            *)
Work(p) ==
    \/ Check(p) \/ Mark(p) \/ Run(p) \/ RunFails(p) \/ Clean(p) \/ Finish(p)
    \/ ForceVersion(p) \/ Unlock(p) \/ ReadVersion(p) \/ Report(p)

Fairness == \A p \in Proc : WF_vars(Acquire(p)) /\ WF_vars(Work(p))

LiveSpec == Spec /\ Fairness

-----------------------------------------------------------------------------
Steps == {"idle", "lock", "check", "next", "marked", "ran", "force", "unlock",
          "read version", "report"}
Errors == {"none", "no change", "dirty", "unknown version", "nothing to roll back",
           "short", "sql", "lock timeout", "nil version"}

VersionType ==
    /\ version \in Nat \cup {Nil} /\ schema \subseteq Nat
    /\ at \in [Proc -> Nat \cup {Nil}]
    /\ moved \in [Proc -> Nat]
    /\ started \in Nat /\ started <= MaxCommands

CommandType ==
    /\ cmd \in [Proc -> [op : {"up", "down", "down all", "force"}, n : Nat]]
    /\ pc \in [Proc -> Steps]
    /\ err \in [Proc -> Errors]
    /\ result \in [Proc -> {"none", "ok", "failed", "crashed"}]

TypeOK ==
    /\ VersionType
    /\ CommandType
    /\ dirty \in BOOLEAN
    /\ lock \in Proc \cup {NoProc}
    /\ found \in [Proc -> SUBSET Nat]
    /\ met \in [Proc -> BOOLEAN]

-----------------------------------------------------------------------------
(* Unless it says dirty, the recorded version is the truth: exactly the    *)
(* migrations up to it are in effect, whatever mix of boots, roll backs,   *)
(* crashes, failed files and forced versions came before                   *)
(* (migrator.go:57-127).                                                   *)
SchemaMatchesVersion == ~dirty => schema = Applied(version)

(* A command that reports success did what it was asked, no more and no    *)
(* less, before it let the next one in (migrator.go:60-127).               *)
OkMeansDone == \A p \in Proc : result[p] = "ok" => met[p]

(* What the database does in one step. A migration is announced before its *)
(* file runs: the version moves by one and is dirty over an unchanged      *)
(* schema. It is settled, by the migration or by force, only when the      *)
(* schema is the one of the version it is settled to. In between the file, *)
(* or a repair nobody else can be in the way of, changes the schema.       *)
Announced == /\ ~dirty /\ dirty' /\ schema = Applied(version) /\ UNCHANGED schema
             /\ version' \in {Above(version), Below(version)}
Settled == dirty /\ ~dirty' /\ schema = Applied(version') /\ UNCHANGED schema
Changed == dirty /\ UNCHANGED <<version, dirty>> /\ (schema' = Applied(version) \/ lock = NoProc)

(* However boots, roll backs, crashes and repairs meet, the database moves *)
(* by one announced migration at a time: none is skipped, none starts over *)
(* a dirty version, and no file runs that the version does not announce,   *)
(* so a crash between two statements leaves a version that says where to   *)
(* look (migrator.go:57-127).                                              *)
OneMigrationAtATime ==
    [][UNCHANGED dbVars \/ Announced \/ Settled \/ Changed]_vars

(* Whoever waits for the lock comes to the end of its command even if it   *)
(* could wait for ever: the lock comes back whatever became of its holder, *)
(* a crash and a failed file included (migrator.go:57-102).                *)
NobodyWaitsForever == \A p \in Proc : pc[p] = "lock" ~> pc[p] = "idle"

(* "golang-migrate's advisory lock makes concurrent revision starts safe"  *)
(* (deploy/README.md:150-151): a boot over a clean schema only fails when  *)
(* the lock or a statement does.                                           *)
RevisionStartsAreSafe ==
    \A p \in Proc : result[p] = "failed" /\ cmd[p].op = "up" => err[p] # "unknown version"

-----------------------------------------------------------------------------
(* The inductive invariant: who holds the lock, what a process in the      *)
(* middle of a migration knows of the database, and what an operator's     *)
(* repair is worth until the version is forced.                            *)

Critical == {"check", "next", "marked", "ran", "force", "unlock"}

LockHolder == \A p \in Proc : pc[p] \in Critical <=> lock = p

BetweenMigrations ==
    \A p \in Proc : pc[p] = "next" => ~dirty /\ version = at[p] /\ Known(p, at[p])

InMigration ==
    \A p \in Proc : pc[p] \in {"marked", "ran"} =>
        /\ dirty
        /\ Known(p, at[p]) /\ More(p, at[p], moved[p])
        /\ schema = Applied(IF pc[p] = "marked" THEN at[p] ELSE Target(p))

Forcing(p) == cmd[p].op = "force" /\ pc[p] \in {"lock", "force"}

ForcePending ==
    /\ \A p \in Proc : pc[p] = "force" => cmd[p].op = "force"
    /\ \A p \in Proc : Forcing(p) =>
           /\ dirty /\ schema = Applied(cmd[p].n)
           /\ \A q \in Proc : pc[q] \notin {"next", "marked", "ran"}
    /\ \A p, q \in Proc : Forcing(p) /\ Forcing(q) => p = q

IInv ==
    /\ TypeOK
    /\ LockHolder
    /\ BetweenMigrations
    /\ InMigration
    /\ ForcePending
    /\ SchemaMatchesVersion
=============================================================================
