---------------------------- MODULE MigratorProofs ----------------------------
(***************************************************************************)
(* Proofs about Migrator, for any number of processes, revisions, commands *)
(* and migrations.                                                         *)
(***************************************************************************)
EXTENDS Migrator, FiniteSetTheorems, TLAPS

(* Applying the next migration, or rolling back the last, gives the schema *)
(* of the version above or below.                                          *)
LEMMA AppliedAbove == ASSUME NEW v \in Nat \cup {Nil}, v # 0
                      PROVE  /\ Above(v) \in Nat
                             /\ Applied(v) \cup {Above(v)} = Applied(Above(v))
BY DEF Nil, Above, Applied

LEMMA AppliedBelow == ASSUME NEW v \in Nat, v # 0
                      PROVE  /\ Below(v) \in Nat \cup {Nil}
                             /\ Applied(v) \ {v} = Applied(Below(v))
BY DEF Nil, Below, Applied

(* The version a migration leads to is one the binary knows.               *)
LEMMA TargetKnown == ASSUME NEW p \in Proc,
                            Known(p, at[p]), More(p, at[p], moved[p])
                     PROVE  Known(p, Target(p)) /\ Target(p) \in Nat \cup {Nil}
<1>1. Newest[p] \in Nat
  BY VersionAssumption
<1>2. at[p] \in 1 .. Newest[p] \/ at[p] = Nil
  BY DEF Known
<1>3. CASE cmd[p].op = "up"
  <2>1. Target(p) = Above(at[p]) /\ Above(at[p]) \in 1 .. Newest[p]
    BY <1>3 DEF More, Target
  <2> QED
    BY <1>1, <2>1 DEF Known
<1>4. CASE cmd[p].op # "up"
  <2>1. Target(p) = Below(at[p]) /\ at[p] # Nil
    BY <1>4 DEF More, Target
  <2> QED
    BY <1>1, <1>2, <2>1 DEF Known, Below, Nil
<1> QED
  BY <1>3, <1>4

(* Before the first command nothing is applied, and nobody holds the lock. *)
LEMMA InitIInv == Init => IInv
<1> SUFFICES ASSUME Init PROVE IInv
  OBVIOUS
<1>1. VersionType
  BY VersionAssumption DEF Init, VersionType, Nil
<1>2. TypeOK
  BY <1>1 DEF Init, TypeOK, CommandType, Steps, Errors
<1>3. LockHolder /\ BetweenMigrations /\ InMigration /\ ForcePending
  BY ProcAssumption DEF Init, LockHolder, BetweenMigrations, InMigration, ForcePending, Forcing, Critical
<1>4. SchemaMatchesVersion
  BY DEF Init, SchemaMatchesVersion, Applied, Nil
<1> QED
  BY <1>2, <1>3, <1>4 DEF IInv

(* Every action preserves the invariant.                                   *)
LEMMA Step == IInv /\ [Next]_vars => IInv'
<1> SUFFICES ASSUME IInv, [Next]_vars PROVE IInv'
  OBVIOUS
<1> USE ProcAssumption DEF IInv, dbVars, workVars, history, vars, Goto, Returns
<1>1. ASSUME NEW p \in Proc, Start(p) PROVE IInv'
  <2>1. TypeOK'
    <3>1. \E c \in Command : cmd' = [cmd EXCEPT ![p] = c]
      BY <1>1, CommandAssumption DEF Start
    <3>2. cmd' \in [Proc -> [op : {"up", "down", "down all", "force"}, n : Nat]]
      BY <3>1 DEF TypeOK, CommandType, Command
    <3>3. VersionType'
      BY <1>1, VersionAssumption DEF Start, TypeOK, VersionType
    <3> QED
      BY <1>1, <3>2, <3>3 DEF Start, TypeOK, CommandType, Steps, Errors
  <2>2. LockHolder'
    BY <1>1 DEF Start, TypeOK, CommandType, LockHolder, Critical, Steps
  <2>3. BetweenMigrations'
    BY <1>1 DEF Start, TypeOK, CommandType, LockHolder, BetweenMigrations, Critical, Known
  <2>4. InMigration'
    <3>1. \A q \in Proc : pc'[q] \in {"marked", "ran"} => pc[q] = pc'[q] /\ cmd'[q] = cmd[q]
      BY <1>1 DEF Start, TypeOK, CommandType
    <3> QED
      BY <1>1, <3>1 DEF Start, InMigration, Known, More, Limited, Target
  <2>5. ForcePending'
    <3>1. cmd'[p].op # "force" /\ pc'[p] = "lock"
      BY <1>1, CommandAssumption DEF Start, TypeOK, CommandType, Command
    <3>2. \A q \in Proc \ {p} : pc'[q] = pc[q] /\ cmd'[q] = cmd[q]
      BY <1>1 DEF Start, TypeOK, CommandType
    <3>3. \A q \in Proc : Forcing(q)' => q # p /\ Forcing(q)
      BY <3>1, <3>2 DEF Forcing
    <3>4. \A q \in Proc : pc'[q] \in {"force", "next", "marked", "ran"} => pc[q] = pc'[q] /\ cmd[q] = cmd'[q]
      BY <3>1, <3>2
    <3> QED
      BY <1>1, <3>3, <3>4 DEF Start, ForcePending
  <2>6. SchemaMatchesVersion'
    BY <1>1 DEF Start, TypeOK, SchemaMatchesVersion
  <2> QED
    BY <2>1, <2>2, <2>3, <2>4, <2>5, <2>6
<1>2. ASSUME NEW p \in Proc, StartForce(p) PROVE IInv'
  <2>1. TypeOK'
    <3>1. PICK v \in ForceVersions : schema' = Applied(v) /\ cmd' = [cmd EXCEPT ![p] = [op |-> "force", n |-> v]]
      BY <1>2 DEF StartForce
    <3>2. v \in Nat
      BY VersionAssumption
    <3>3. cmd' \in [Proc -> [op : {"up", "down", "down all", "force"}, n : Nat]]
      BY <3>1, <3>2 DEF TypeOK, CommandType
    <3>4. VersionType'
      BY <1>2, <3>1, <3>2, VersionAssumption DEF StartForce, TypeOK, VersionType, Applied
    <3> QED
      BY <1>2, <3>3, <3>4 DEF StartForce, TypeOK, CommandType, Steps, Errors
  <2>2. LockHolder'
    BY <1>2 DEF StartForce, TypeOK, CommandType, LockHolder, Critical, Steps
  <2>3. BetweenMigrations'
    BY <1>2 DEF StartForce, TypeOK, CommandType, LockHolder, BetweenMigrations, Critical, Known
  <2>4. InMigration'
    <3>1. \A q \in Proc : pc'[q] \notin {"marked", "ran"}
      BY <1>2 DEF StartForce, TypeOK, CommandType, LockHolder, Critical
    <3> QED
      BY <3>1 DEF InMigration
  <2>5. ForcePending'
    <3>1. /\ cmd'[p].op = "force" /\ pc'[p] = "lock"
          /\ dirty' /\ schema' = Applied(cmd'[p].n)
      <4>1. PICK v \in ForceVersions : schema' = Applied(v) /\ cmd' = [cmd EXCEPT ![p] = [op |-> "force", n |-> v]]
        BY <1>2 DEF StartForce
      <4> QED
        BY <1>2, <4>1 DEF StartForce, TypeOK, CommandType
    <3>2. \A q \in Proc \ {p} : pc'[q] = pc[q] /\ cmd'[q] = cmd[q]
      BY <1>2 DEF StartForce, TypeOK, CommandType
    <3>3. \A q \in Proc : Forcing(q)' => q = p
      BY <1>2, <3>2 DEF StartForce, Forcing
    <3>4. \A q \in Proc : pc'[q] \notin {"force", "next", "marked", "ran"}
      BY <1>2, <3>1, <3>2 DEF StartForce, LockHolder, Critical
    <3> QED
      BY <3>1, <3>3, <3>4 DEF ForcePending
  <2>6. SchemaMatchesVersion'
    BY <1>2 DEF StartForce, TypeOK, SchemaMatchesVersion
  <2> QED
    BY <2>1, <2>2, <2>3, <2>4, <2>5, <2>6
<1>3. ASSUME NEW p \in Proc, Acquire(p) PROVE IInv'
  <2>1. TypeOK'
    BY <1>3 DEF Acquire, TypeOK, VersionType, CommandType, Steps, Errors
  <2>2. LockHolder'
    BY <1>3 DEF Acquire, TypeOK, CommandType, LockHolder, Critical, Steps
  <2>3. BetweenMigrations'
    BY <1>3 DEF Acquire, TypeOK, CommandType, LockHolder, BetweenMigrations, Critical, Known
  <2>4. InMigration'
    BY <1>3 DEF Acquire, TypeOK, CommandType, LockHolder, InMigration, Critical, Known, More, Limited, Target
  <2>5. ForcePending'
    <3>1. \A q \in Proc \ {p} : pc'[q] = pc[q]
      BY <1>3 DEF Acquire, TypeOK, CommandType
    <3>2. pc'[p] \in {"check", "force"} /\ (pc'[p] = "force" => cmd[p].op = "force")
      BY <1>3 DEF Acquire, TypeOK, CommandType
    <3>3. \A q \in Proc : Forcing(q)' => Forcing(q)
      BY <1>3, <3>1, <3>2 DEF Acquire, Forcing
    <3>4. \A q \in Proc : pc'[q] = "force" => cmd'[q].op = "force"
      BY <1>3, <3>1, <3>2 DEF Acquire, ForcePending
    <3>5. \A q \in Proc : pc'[q] \in {"next", "marked", "ran"} => pc[q] = pc'[q]
      BY <3>1, <3>2
    <3> QED
      BY <1>3, <3>3, <3>4, <3>5 DEF Acquire, ForcePending
  <2>6. SchemaMatchesVersion'
    BY <1>3 DEF Acquire, TypeOK, SchemaMatchesVersion
  <2> QED
    BY <2>1, <2>2, <2>3, <2>4, <2>5, <2>6
<1>4. ASSUME NEW p \in Proc, LockTimeout(p) PROVE IInv'
  <2>1. TypeOK'
    BY <1>4 DEF LockTimeout, TypeOK, VersionType, CommandType, Steps, Errors
  <2>2. LockHolder'
    BY <1>4 DEF LockTimeout, TypeOK, CommandType, LockHolder, Critical, Steps
  <2>3. BetweenMigrations'
    BY <1>4 DEF LockTimeout, TypeOK, CommandType, LockHolder, BetweenMigrations, Critical, Known
  <2>4. InMigration'
    BY <1>4 DEF LockTimeout, TypeOK, CommandType, LockHolder, InMigration, Critical, Known, More, Limited, Target
  <2>5. ForcePending'
    <3>1. \A q \in Proc \ {p} : pc'[q] = pc[q]
      BY <1>4 DEF LockTimeout, TypeOK, CommandType
    <3>2. pc'[p] \notin {"lock", "force", "next", "marked", "ran"}
      BY <1>4 DEF LockTimeout, TypeOK, CommandType
    <3>3. \A q \in Proc : Forcing(q)' => Forcing(q)
      BY <1>4, <3>1, <3>2 DEF LockTimeout, Forcing
    <3>4. \A q \in Proc : pc'[q] \in {"force", "next", "marked", "ran"} => pc[q] = pc'[q]
      BY <3>1, <3>2
    <3> QED
      BY <1>4, <3>3, <3>4 DEF LockTimeout, ForcePending
  <2>6. SchemaMatchesVersion'
    BY <1>4 DEF LockTimeout, TypeOK, SchemaMatchesVersion
  <2> QED
    BY <2>1, <2>2, <2>3, <2>4, <2>5, <2>6
<1>5. ASSUME NEW p \in Proc, Check(p) PROVE IInv'
  <2>1. TypeOK'
    <3>1. Refusal(p) \in Errors
      BY DEF Refusal, Errors
    <3> QED
      BY <1>5, <3>1 DEF Check, TypeOK, VersionType, CommandType, Steps
  <2>2. LockHolder'
    BY <1>5 DEF Check, TypeOK, CommandType, LockHolder, Critical, Steps
  <2>3. BetweenMigrations'
    <3>1. Refusal(p) = "none" => ~dirty /\ Known(p, version)
      BY DEF Refusal
    <3> QED
      BY <1>5, <3>1 DEF Check, TypeOK, VersionType, CommandType, BetweenMigrations, Known
  <2>4. InMigration'
    BY <1>5 DEF Check, TypeOK, CommandType, LockHolder, InMigration, Critical, Known, More, Limited, Target
  <2>5. ForcePending'
    <3>1. dirty => Refusal(p) # "none"
      BY DEF Refusal
    <3>2. \A q \in Proc \ {p} : pc'[q] = pc[q]
      BY <1>5 DEF Check, TypeOK, CommandType
    <3>3. pc'[p] \in {"next", "unlock"} /\ (dirty => pc'[p] = "unlock")
      BY <1>5, <3>1 DEF Check, TypeOK, CommandType
    <3> QED
      BY <1>5, <3>2, <3>3 DEF Check, ForcePending, Forcing
  <2>6. SchemaMatchesVersion'
    BY <1>5 DEF Check, TypeOK, SchemaMatchesVersion
  <2> QED
    BY <2>1, <2>2, <2>3, <2>4, <2>5, <2>6
<1>6. ASSUME NEW p \in Proc, Mark(p) PROVE IInv'
  <2>1. TypeOK'
    <3>1. Target(p) \in Nat \cup {Nil}
      BY <1>6, TargetKnown DEF Mark, BetweenMigrations, InMigration
    <3> QED
      BY <1>6, <3>1 DEF Mark, TypeOK, VersionType, CommandType, Steps, Errors
  <2>2. LockHolder'
    BY <1>6 DEF Mark, TypeOK, CommandType, LockHolder, Critical, Steps
  <2>3. BetweenMigrations'
    BY <1>6 DEF Mark, TypeOK, CommandType, LockHolder, BetweenMigrations, Critical, Known
  <2>4. InMigration'
    <3>1. \A q \in Proc \ {p} : pc'[q] \notin {"marked", "ran"}
      BY <1>6 DEF Mark, TypeOK, CommandType, LockHolder, Critical
    <3>2. /\ ~dirty /\ version = at[p] /\ Known(p, at[p])
          /\ schema = Applied(at[p])
      BY <1>6 DEF Mark, BetweenMigrations, SchemaMatchesVersion
    <3>3. pc'[p] = "marked" /\ dirty' /\ More(p, at[p], moved[p])
      BY <1>6 DEF Mark, TypeOK, CommandType
    <3> QED
      BY <1>6, <3>1, <3>2, <3>3 DEF Mark, InMigration, Known, More, Limited
  <2>5. ForcePending'
    <3>1. \A q \in Proc : ~Forcing(q)
      BY <1>6 DEF Mark, ForcePending
    <3>2. \A q \in Proc \ {p} : pc'[q] = pc[q]
      BY <1>6 DEF Mark, TypeOK, CommandType
    <3>3. pc'[p] \notin {"lock", "force"}
      BY <1>6 DEF Mark, TypeOK, CommandType
    <3>4. \A q \in Proc : ~Forcing(q)'
      BY <1>6, <3>1, <3>2, <3>3 DEF Mark, Forcing
    <3>5. \A q \in Proc : pc'[q] = "force" => cmd'[q].op = "force"
      BY <1>6, <3>2, <3>3 DEF Mark, ForcePending
    <3> QED
      BY <3>4, <3>5 DEF ForcePending
  <2>6. SchemaMatchesVersion'
    BY <1>6 DEF Mark, TypeOK, SchemaMatchesVersion
  <2> QED
    BY <2>1, <2>2, <2>3, <2>4, <2>5, <2>6
<1>7. ASSUME NEW p \in Proc, Run(p) PROVE IInv'
  <2>1. TypeOK'
    <3>1. schema' \subseteq Nat
      <4>1. cmd[p].op = "up" => Target(p) \in Nat
        BY <1>7, VersionAssumption DEF Run, InMigration, More, Target
      <4> QED
        BY <1>7, <4>1 DEF Run, TypeOK, VersionType
    <3> QED
      BY <1>7, <3>1 DEF Run, TypeOK, VersionType, CommandType, Steps
  <2>2. LockHolder'
    BY <1>7 DEF Run, TypeOK, CommandType, LockHolder, Critical, Steps
  <2>3. BetweenMigrations'
    BY <1>7 DEF Run, TypeOK, CommandType, LockHolder, BetweenMigrations, Critical, Known
  <2>4. InMigration'
    <3>1. \A q \in Proc \ {p} : pc'[q] \notin {"marked", "ran"}
      BY <1>7 DEF Run, TypeOK, CommandType, LockHolder, Critical
    <3>2. dirty /\ Known(p, at[p]) /\ More(p, at[p], moved[p]) /\ schema = Applied(at[p])
      BY <1>7 DEF Run, InMigration
    <3>3. pc'[p] = "ran"
      BY <1>7 DEF Run, TypeOK, CommandType
    <3>4. CASE cmd[p].op = "up"
      <4>1. at[p] \in Nat \cup {Nil} /\ at[p] # 0
        BY <3>2, VersionAssumption DEF TypeOK, VersionType, Known, Nil
      <4>2. schema' = Applied(Target(p))
        BY <1>7, <3>2, <3>4, <4>1, AppliedAbove DEF Run, Target
      <4> QED
        BY <1>7, <3>1, <3>2, <3>3, <4>2 DEF Run, InMigration, Known, More, Limited, Target
    <3>5. CASE cmd[p].op # "up"
      <4>1. at[p] \in Nat /\ at[p] # 0
        BY <3>2, <3>5, VersionAssumption DEF TypeOK, VersionType, Known, More, Nil
      <4>2. schema' = Applied(Target(p))
        BY <1>7, <3>2, <3>5, <4>1, AppliedBelow DEF Run, Target
      <4> QED
        BY <1>7, <3>1, <3>2, <3>3, <4>2 DEF Run, InMigration, Known, More, Limited, Target
    <3> QED
      BY <3>4, <3>5
  <2>5. ForcePending'
    <3>1. \A q \in Proc : ~Forcing(q)
      BY <1>7 DEF Run, ForcePending
    <3>2. \A q \in Proc \ {p} : pc'[q] = pc[q]
      BY <1>7 DEF Run, TypeOK, CommandType
    <3>3. pc'[p] \notin {"lock", "force"}
      BY <1>7 DEF Run, TypeOK, CommandType
    <3>4. \A q \in Proc : ~Forcing(q)'
      BY <1>7, <3>1, <3>2, <3>3 DEF Run, Forcing
    <3>5. \A q \in Proc : pc'[q] = "force" => cmd'[q].op = "force"
      BY <1>7, <3>2, <3>3 DEF Run, ForcePending
    <3> QED
      BY <3>4, <3>5 DEF ForcePending
  <2>6. SchemaMatchesVersion'
    BY <1>7 DEF Run, InMigration, SchemaMatchesVersion
  <2> QED
    BY <2>1, <2>2, <2>3, <2>4, <2>5, <2>6
<1>8. ASSUME NEW p \in Proc, RunFails(p) PROVE IInv'
  <2>1. TypeOK'
    BY <1>8 DEF RunFails, TypeOK, VersionType, CommandType, Steps, Errors
  <2>2. LockHolder'
    BY <1>8 DEF RunFails, TypeOK, CommandType, LockHolder, Critical, Steps
  <2>3. BetweenMigrations'
    BY <1>8 DEF RunFails, TypeOK, CommandType, LockHolder, BetweenMigrations, Critical, Known
  <2>4. InMigration'
    BY <1>8 DEF RunFails, TypeOK, CommandType, LockHolder, InMigration, Critical, Known, More, Limited, Target
  <2>5. ForcePending'
    <3>1. \A q \in Proc \ {p} : pc'[q] = pc[q]
      BY <1>8 DEF RunFails, TypeOK, CommandType
    <3>2. pc'[p] \notin {"lock", "force", "next", "marked", "ran"}
      BY <1>8 DEF RunFails, TypeOK, CommandType
    <3>3. \A q \in Proc : Forcing(q)' => Forcing(q)
      BY <1>8, <3>1, <3>2 DEF RunFails, Forcing
    <3>4. \A q \in Proc : pc'[q] \in {"force", "next", "marked", "ran"} => pc[q] = pc'[q]
      BY <3>1, <3>2
    <3> QED
      BY <1>8, <3>3, <3>4 DEF RunFails, ForcePending
  <2>6. SchemaMatchesVersion'
    BY <1>8 DEF RunFails, TypeOK, SchemaMatchesVersion
  <2> QED
    BY <2>1, <2>2, <2>3, <2>4, <2>5, <2>6
<1>9. ASSUME NEW p \in Proc, Clean(p) PROVE IInv'
  <2>1. TypeOK'
    <3>1. Target(p) \in Nat \cup {Nil}
      BY <1>9, TargetKnown DEF Clean, InMigration
    <3>2. VersionType'
      BY <1>9, <3>1 DEF Clean, TypeOK, VersionType
    <3> QED
      BY <1>9, <3>2 DEF Clean, TypeOK, CommandType, Steps
  <2>2. LockHolder'
    BY <1>9 DEF Clean, TypeOK, CommandType, LockHolder, Critical, Steps
  <2>3. BetweenMigrations'
    <3>1. \A q \in Proc \ {p} : pc'[q] # "next"
      BY <1>9 DEF Clean, TypeOK, CommandType, LockHolder, Critical
    <3>2. Known(p, Target(p))
      BY <1>9, TargetKnown DEF Clean, InMigration
    <3> QED
      BY <1>9, <3>1, <3>2 DEF Clean, TypeOK, VersionType, CommandType, BetweenMigrations, Known
  <2>4. InMigration'
    BY <1>9 DEF Clean, TypeOK, CommandType, LockHolder, InMigration, Critical, Known, More, Limited, Target
  <2>5. ForcePending'
    <3>1. \A q \in Proc : ~Forcing(q)
      BY <1>9 DEF Clean, ForcePending
    <3>2. \A q \in Proc \ {p} : pc'[q] = pc[q]
      BY <1>9 DEF Clean, TypeOK, CommandType
    <3>3. pc'[p] \notin {"lock", "force"}
      BY <1>9 DEF Clean, TypeOK, CommandType
    <3>4. \A q \in Proc : ~Forcing(q)'
      BY <1>9, <3>1, <3>2, <3>3 DEF Clean, Forcing
    <3>5. \A q \in Proc : pc'[q] = "force" => cmd'[q].op = "force"
      BY <1>9, <3>2, <3>3 DEF Clean, ForcePending
    <3> QED
      BY <3>4, <3>5 DEF ForcePending
  <2>6. SchemaMatchesVersion'
    BY <1>9 DEF Clean, InMigration, SchemaMatchesVersion
  <2> QED
    BY <2>1, <2>2, <2>3, <2>4, <2>5, <2>6
<1>10. ASSUME NEW p \in Proc, Finish(p) PROVE IInv'
  <2>1. TypeOK'
    BY <1>10 DEF Finish, TypeOK, VersionType, CommandType, Steps, Errors
  <2>2. LockHolder'
    BY <1>10 DEF Finish, TypeOK, CommandType, LockHolder, Critical, Steps
  <2>3. BetweenMigrations'
    BY <1>10 DEF Finish, TypeOK, CommandType, LockHolder, BetweenMigrations, Critical, Known
  <2>4. InMigration'
    BY <1>10 DEF Finish, TypeOK, CommandType, LockHolder, InMigration, Critical, Known, More, Limited, Target
  <2>5. ForcePending'
    <3>1. \A q \in Proc \ {p} : pc'[q] = pc[q]
      BY <1>10 DEF Finish, TypeOK, CommandType
    <3>2. pc'[p] \notin {"lock", "force", "next", "marked", "ran"}
      BY <1>10 DEF Finish, TypeOK, CommandType
    <3>3. \A q \in Proc : Forcing(q)' => Forcing(q)
      BY <1>10, <3>1, <3>2 DEF Finish, Forcing
    <3>4. \A q \in Proc : pc'[q] \in {"force", "next", "marked", "ran"} => pc[q] = pc'[q]
      BY <3>1, <3>2
    <3> QED
      BY <1>10, <3>3, <3>4 DEF Finish, ForcePending
  <2>6. SchemaMatchesVersion'
    BY <1>10 DEF Finish, TypeOK, SchemaMatchesVersion
  <2> QED
    BY <2>1, <2>2, <2>3, <2>4, <2>5, <2>6
<1>11. ASSUME NEW p \in Proc, ForceVersion(p) PROVE IInv'
  <2>1. TypeOK'
    BY <1>11 DEF ForceVersion, TypeOK, VersionType, CommandType, Steps, Errors
  <2>2. LockHolder'
    BY <1>11 DEF ForceVersion, TypeOK, CommandType, LockHolder, Critical, Steps
  <2>3. BetweenMigrations'
    BY <1>11 DEF ForceVersion, TypeOK, CommandType, LockHolder, BetweenMigrations, Critical, Known
  <2>4. InMigration'
    BY <1>11 DEF ForceVersion, TypeOK, CommandType, LockHolder, InMigration, Critical, Known, More, Limited, Target
  <2>5. ForcePending'
    <3>1. \A q \in Proc \ {p} : pc'[q] = pc[q] /\ pc[q] # "force"
      <4>1. \A q \in Proc \ {p} : pc[q] # "force"
        BY <1>11 DEF ForceVersion, LockHolder, Critical
      <4> QED
        BY <1>11, <4>1 DEF ForceVersion, TypeOK, CommandType
    <3>2. Forcing(p)
      BY <1>11 DEF ForceVersion, ForcePending, Forcing
    <3>3. \A q \in Proc : ~Forcing(q)'
      BY <1>11, <3>1, <3>2 DEF ForceVersion, TypeOK, CommandType, ForcePending, Forcing
    <3>4. \A q \in Proc : pc'[q] # "force"
      BY <1>11, <3>1 DEF ForceVersion, TypeOK, CommandType
    <3> QED
      BY <3>3, <3>4 DEF ForcePending
  <2>6. SchemaMatchesVersion'
    BY <1>11 DEF ForceVersion, ForcePending, Forcing, SchemaMatchesVersion
  <2> QED
    BY <2>1, <2>2, <2>3, <2>4, <2>5, <2>6
<1>12. ASSUME NEW p \in Proc, Unlock(p) PROVE IInv'
  <2>1. TypeOK'
    <3>1. AimMet(p) \in BOOLEAN
      BY DEF AimMet
    <3> QED
      BY <1>12, <3>1 DEF Unlock, TypeOK, VersionType, CommandType, Steps
  <2>2. LockHolder'
    BY <1>12 DEF Unlock, TypeOK, CommandType, LockHolder, Critical, Steps
  <2>3. BetweenMigrations'
    BY <1>12 DEF Unlock, TypeOK, CommandType, LockHolder, BetweenMigrations, Critical, Known
  <2>4. InMigration'
    BY <1>12 DEF Unlock, TypeOK, CommandType, LockHolder, InMigration, Critical, Known, More, Limited, Target
  <2>5. ForcePending'
    <3>1. \A q \in Proc \ {p} : pc'[q] = pc[q]
      BY <1>12 DEF Unlock, TypeOK, CommandType
    <3>2. pc'[p] \notin {"lock", "force", "next", "marked", "ran"}
      BY <1>12 DEF Unlock, TypeOK, CommandType
    <3>3. \A q \in Proc : Forcing(q)' => Forcing(q)
      BY <1>12, <3>1, <3>2 DEF Unlock, Forcing
    <3>4. \A q \in Proc : pc'[q] \in {"force", "next", "marked", "ran"} => pc[q] = pc'[q]
      BY <3>1, <3>2
    <3> QED
      BY <1>12, <3>3, <3>4 DEF Unlock, ForcePending
  <2>6. SchemaMatchesVersion'
    BY <1>12 DEF Unlock, TypeOK, SchemaMatchesVersion
  <2> QED
    BY <2>1, <2>2, <2>3, <2>4, <2>5, <2>6
<1>13. ASSUME NEW p \in Proc, ReadVersion(p) PROVE IInv'
  <2>1. TypeOK'
    BY <1>13 DEF ReadVersion, TypeOK, VersionType, CommandType, Steps, Errors
  <2>2. LockHolder'
    BY <1>13 DEF ReadVersion, TypeOK, CommandType, LockHolder, Critical, Steps
  <2>3. BetweenMigrations'
    BY <1>13 DEF ReadVersion, TypeOK, CommandType, LockHolder, BetweenMigrations, Critical, Known
  <2>4. InMigration'
    BY <1>13 DEF ReadVersion, TypeOK, CommandType, LockHolder, InMigration, Critical, Known, More, Limited, Target
  <2>5. ForcePending'
    <3>1. \A q \in Proc \ {p} : pc'[q] = pc[q]
      BY <1>13 DEF ReadVersion, TypeOK, CommandType
    <3>2. pc'[p] \notin {"lock", "force", "next", "marked", "ran"}
      BY <1>13 DEF ReadVersion, TypeOK, CommandType
    <3>3. \A q \in Proc : Forcing(q)' => Forcing(q)
      BY <1>13, <3>1, <3>2 DEF ReadVersion, Forcing
    <3>4. \A q \in Proc : pc'[q] \in {"force", "next", "marked", "ran"} => pc[q] = pc'[q]
      BY <3>1, <3>2
    <3> QED
      BY <1>13, <3>3, <3>4 DEF ReadVersion, ForcePending
  <2>6. SchemaMatchesVersion'
    BY <1>13 DEF ReadVersion, TypeOK, SchemaMatchesVersion
  <2> QED
    BY <2>1, <2>2, <2>3, <2>4, <2>5, <2>6
<1>14. ASSUME NEW p \in Proc, Report(p) PROVE IInv'
  <2>1. TypeOK'
    BY <1>14 DEF Report, TypeOK, VersionType, CommandType, Steps, Errors
  <2>2. LockHolder'
    BY <1>14 DEF Report, TypeOK, CommandType, LockHolder, Critical, Steps
  <2>3. BetweenMigrations'
    BY <1>14 DEF Report, TypeOK, CommandType, LockHolder, BetweenMigrations, Critical, Known
  <2>4. InMigration'
    BY <1>14 DEF Report, TypeOK, CommandType, LockHolder, InMigration, Critical, Known, More, Limited, Target
  <2>5. ForcePending'
    <3>1. \A q \in Proc \ {p} : pc'[q] = pc[q]
      BY <1>14 DEF Report, TypeOK, CommandType
    <3>2. pc'[p] \notin {"lock", "force", "next", "marked", "ran"}
      BY <1>14 DEF Report, TypeOK, CommandType
    <3>3. \A q \in Proc : Forcing(q)' => Forcing(q)
      BY <1>14, <3>1, <3>2 DEF Report, Forcing
    <3>4. \A q \in Proc : pc'[q] \in {"force", "next", "marked", "ran"} => pc[q] = pc'[q]
      BY <3>1, <3>2
    <3> QED
      BY <1>14, <3>3, <3>4 DEF Report, ForcePending
  <2>6. SchemaMatchesVersion'
    BY <1>14 DEF Report, TypeOK, SchemaMatchesVersion
  <2> QED
    BY <2>1, <2>2, <2>3, <2>4, <2>5, <2>6
<1>15. ASSUME NEW p \in Proc, Crash(p) PROVE IInv'
  <2>1. TypeOK'
    BY <1>15 DEF Crash, TypeOK, VersionType, CommandType, Steps, Errors
  <2>2. LockHolder'
    BY <1>15 DEF Crash, TypeOK, CommandType, LockHolder, Critical, Steps
  <2>3. BetweenMigrations'
    BY <1>15 DEF Crash, TypeOK, CommandType, LockHolder, BetweenMigrations, Critical, Known
  <2>4. InMigration'
    BY <1>15 DEF Crash, TypeOK, CommandType, LockHolder, InMigration, Critical, Known, More, Limited, Target
  <2>5. ForcePending'
    <3>1. \A q \in Proc \ {p} : pc'[q] = pc[q]
      BY <1>15 DEF Crash, TypeOK, CommandType
    <3>2. pc'[p] \notin {"lock", "force", "next", "marked", "ran"}
      BY <1>15 DEF Crash, TypeOK, CommandType
    <3>3. \A q \in Proc : Forcing(q)' => Forcing(q)
      BY <1>15, <3>1, <3>2 DEF Crash, Forcing
    <3>4. \A q \in Proc : pc'[q] \in {"force", "next", "marked", "ran"} => pc[q] = pc'[q]
      BY <3>1, <3>2
    <3> QED
      BY <1>15, <3>3, <3>4 DEF Crash, ForcePending
  <2>6. SchemaMatchesVersion'
    BY <1>15 DEF Crash, TypeOK, SchemaMatchesVersion
  <2> QED
    BY <2>1, <2>2, <2>3, <2>4, <2>5, <2>6
<1>16. CASE UNCHANGED vars
  BY <1>16 DEF TypeOK, CommandType, LockHolder, BetweenMigrations, InMigration,
      ForcePending, SchemaMatchesVersion, VersionType, CommandType, Forcing,
      Critical, Known, More, Limited, Target, Steps, Errors
<1> QED
  BY <1>1, <1>2, <1>3, <1>4, <1>5, <1>6, <1>7, <1>8, <1>9,
     <1>10, <1>11, <1>12, <1>13, <1>14, <1>15, <1>16
  DEF Next, Library, AllDone

(* The inductive invariant holds in every reachable state.                 *)
THEOREM Invariance == Spec => []IInv
<1>1. Init => IInv
  BY InitIInv
<1>2. IInv /\ [Next]_vars => IInv'
  BY Step
<1> QED
  BY <1>1, <1>2, PTL DEF Spec

(* The recorded version, the processes and the commands keep their types.  *)
THEOREM TypeCorrect == Spec => []TypeOK
<1>1. IInv => TypeOK
  BY DEF IInv
<1> QED
  BY <1>1, Invariance, PTL

(* A version that is not dirty tells exactly what is applied, for any      *)
(* interleaving of boots, roll backs, crashes and repairs                  *)
(* (migrator.go:57-127).                                                   *)
THEOREM VersionIsTruth == Spec => []SchemaMatchesVersion
<1>1. IInv => SchemaMatchesVersion
  BY DEF IInv
<1> QED
  BY <1>1, Invariance, PTL

-----------------------------------------------------------------------------
(* What a success is worth.                                                *)

(* A roll back has undone as many migrations as it counts, the one under   *)
(* way included, and never more than it was asked for.                     *)
RolledBackBy(p) == cmd[p].op = "down" =>
    /\ pc[p] = "check" => schema = found[p]
    /\ pc[p] \in {"next", "marked", "ran"} =>
           /\ schema \subseteq found[p] /\ IsFiniteSet(found[p] \ schema)
           /\ Cardinality(found[p] \ schema) = IF pc[p] = "ran" THEN moved[p] + 1 ELSE moved[p]
           /\ moved[p] <= cmd[p].n

(* Force never migrates, and only a success reads the version again.       *)
RoutedBy(p) ==
    /\ pc[p] \in {"check", "next", "marked", "ran"} => cmd[p].op # "force"
    /\ pc[p] = "read version" => err[p] = "none"

(* A success is decided under the lock, and remembered once it is given    *)
(* back.                                                                   *)
DecidedBy(p) == Succeeded(err[p]) =>
    /\ pc[p] = "unlock" => AimMet(p)
    /\ pc[p] \in {"read version", "report"} => met[p]

ReportedBy(p) == (pc[p] # "idle" => result[p] # "ok") /\ (result[p] = "ok" => met[p])

DoneBy(p) == RolledBackBy(p) /\ RoutedBy(p) /\ DecidedBy(p) /\ ReportedBy(p)
DoneInv == \A p \in Proc : DoneBy(p)

LEMMA InitDoneInv == Init => DoneInv
BY DEF Init, DoneInv, DoneBy, RolledBackBy, RoutedBy, DecidedBy, ReportedBy

Does(p) == Start(p) \/ StartForce(p) \/ Library(p) \/ ReadVersion(p) \/ Report(p) \/ Crash(p)

(* Nobody touches what another process keeps, and only who holds the lock  *)
(* changes what it relies on.                                              *)
LEMMA OthersKeep ==
    ASSUME IInv, NEW p \in Proc, Does(p), NEW q \in Proc, p # q
    PROVE  /\ pc[q] \in Critical => UNCHANGED dbVars
           /\ pc'[q] = pc[q] /\ cmd'[q] = cmd[q] /\ at'[q] = at[q] /\ moved'[q] = moved[q]
           /\ err'[q] = err[q] /\ result'[q] = result[q] /\ found'[q] = found[q] /\ met'[q] = met[q]
<1> USE DEF Does, Library, Goto, Returns, IInv, TypeOK, VersionType, CommandType, dbVars, workVars, history
<1>1. ASSUME pc[q] \in Critical PROVE UNCHANGED dbVars
  <2>1. lock = q /\ pc[p] \notin Critical /\ lock # NoProc
    BY <1>1, ProcAssumption DEF LockHolder
  <2>2. ~ Acquire(p) /\ ~ StartForce(p)
    BY <2>1 DEF Acquire, StartForce
  <2>3. /\ ~ Check(p) /\ ~ Mark(p) /\ ~ Run(p) /\ ~ RunFails(p) /\ ~ Clean(p)
        /\ ~ Finish(p) /\ ~ ForceVersion(p) /\ ~ Unlock(p)
    BY <2>1 DEF Critical, Check, Mark, Run, RunFails, Clean, Finish, ForceVersion, Unlock
  <2> QED
    BY <2>2, <2>3 DEF Start, LockTimeout, ReadVersion, Report, Crash
<1>2. /\ pc'[q] = pc[q] /\ cmd'[q] = cmd[q] /\ at'[q] = at[q] /\ moved'[q] = moved[q]
      /\ err'[q] = err[q] /\ result'[q] = result[q] /\ found'[q] = found[q] /\ met'[q] = met[q]
  <2>1. CASE Start(p) \/ StartForce(p)
    BY <2>1 DEF Start, StartForce
  <2>2. CASE Acquire(p) \/ LockTimeout(p) \/ Check(p) \/ Mark(p)
    BY <2>2 DEF Acquire, LockTimeout, Check, Mark
  <2>3. CASE Run(p) \/ RunFails(p) \/ Clean(p) \/ Finish(p) \/ ForceVersion(p)
    BY <2>3 DEF Run, RunFails, Clean, Finish, ForceVersion
  <2>4. CASE Unlock(p) \/ ReadVersion(p) \/ Report(p) \/ Crash(p)
    BY <2>4 DEF Unlock, ReadVersion, Report, Crash
  <2> QED
    BY <2>1, <2>2, <2>3, <2>4
<1> QED
  BY <1>1, <1>2

LEMMA OthersDone ==
    ASSUME IInv, NEW p \in Proc, Does(p), NEW q \in Proc, p # q, DoneBy(q)
    PROVE  DoneBy(q)'
<1>1. /\ pc[q] \in Critical => schema' = schema /\ dirty' = dirty /\ version' = version
      /\ pc'[q] = pc[q] /\ cmd'[q] = cmd[q] /\ at'[q] = at[q] /\ moved'[q] = moved[q]
      /\ err'[q] = err[q] /\ result'[q] = result[q] /\ found'[q] = found[q] /\ met'[q] = met[q]
  BY OthersKeep DEF dbVars
<1>2. RolledBackBy(q)'
  BY <1>1 DEF DoneBy, RolledBackBy, Critical
<1>3. DecidedBy(q)'
  <2>1. ASSUME pc[q] = "unlock" PROVE AimMet(q)' = AimMet(q)
    <3>1. pc[q] \in Critical
      BY <2>1 DEF Critical
    <3>2. dirty' = dirty /\ schema' = schema /\ version' = version /\ cmd'[q] = cmd[q] /\ found'[q] = found[q]
      BY <1>1, <3>1
    <3> QED
      BY Zenon, <3>2 DEF AimMet
  <2> QED
    BY <1>1, <2>1 DEF DoneBy, DecidedBy
<1>4. ReportedBy(q)' /\ RoutedBy(q)'
  BY <1>1 DEF DoneBy, ReportedBy, RoutedBy
<1> QED
  BY <1>2, <1>3, <1>4 DEF DoneBy

(* What ends a command without an error has met its aim.                   *)
LEMMA EndOfTheLine ==
    ASSUME IInv, NEW p \in Proc, ~dirty, NEW v \in Nat \cup {Nil}, schema = Applied(v), Known(p, v), NEW n \in Nat,
           ~ More(p, v, n)
    PROVE  /\ cmd[p].op = "up" => schema = Applied(Newest[p])
           /\ cmd[p].op = "down all" => schema = {}
<1>1. Newest[p] \in Nat \ {0}
  BY VersionAssumption
<1>2. ASSUME cmd[p].op = "up" PROVE v = Newest[p]
  <2>1. Above(v) \notin 1 .. Newest[p]
    BY <1>2 DEF More
  <2>2. v = Nil \/ v \in 1 .. Newest[p]
    BY DEF Known
  <2> QED
    BY <1>1, <2>1, <2>2 DEF Above, Nil
<1>3. ASSUME cmd[p].op = "down all" PROVE v = Nil
  BY <1>3 DEF More, Limited
<1>4. Applied(Nil) = {}
  BY DEF Applied, Nil
<1> QED
  BY <1>2, <1>3, <1>4

LEMMA OwnRolledBack ==
    ASSUME IInv, NEW p \in Proc, Does(p), DoneBy(p)
    PROVE  RolledBackBy(p)'
<1> USE DEF DoneBy, Goto, Returns, IInv, TypeOK, VersionType, CommandType, dbVars, workVars, history
<1>1. CASE pc'[p] \notin {"check", "next", "marked", "ran"}
  BY <1>1 DEF RolledBackBy
<1>2. CASE Acquire(p)
  BY <1>2 DEF Acquire, RolledBackBy
<1>3. CASE Check(p)
  <2>1. /\ schema' = schema /\ found' = found /\ cmd' = cmd /\ moved'[p] = 0
        /\ pc'[p] \in {"next", "unlock"}
    BY <1>3 DEF Check
  <2>2. IsFiniteSet({}) /\ Cardinality({}) = 0
    BY FS_EmptySet
  <2>3. cmd[p].op = "down" => schema = found[p] /\ found[p] \ schema = {} /\ cmd[p].n \in Nat
    BY <1>3 DEF Check, RolledBackBy
  <2> HIDE DEF IInv, DoneBy
  <2>4. cmd[p].op = "down" => 0 <= cmd[p].n /\ schema \subseteq found[p]
    BY <2>3
  <2> QED
    BY <2>1, <2>2, <2>3, <2>4 DEF RolledBackBy
<1>4. CASE Mark(p)
  BY <1>4 DEF Mark, RolledBackBy
<1>5. CASE Run(p)
  <2> SUFFICES ASSUME cmd[p].op = "down" PROVE RolledBackBy(p)'
    BY <1>5 DEF Run, RolledBackBy
  <2>1. /\ schema \subseteq found[p] /\ IsFiniteSet(found[p] \ schema)
        /\ Cardinality(found[p] \ schema) = moved[p] /\ moved[p] <= cmd[p].n
    BY <1>5 DEF Run, RolledBackBy
  <2>2. schema' = schema \ {at[p]} /\ pc'[p] = "ran"
    BY <1>5 DEF Run
  <2>3. at[p] \in schema
    <3>1. schema = Applied(at[p]) /\ Known(p, at[p]) /\ at[p] # Nil
      BY <1>5 DEF Run, InMigration, More
    <3> QED
      <4>1. Newest[p] \in Nat /\ at[p] \in 1 .. Newest[p]
        BY <3>1, VersionAssumption DEF Known
      <4>2. at[p] \in 1 .. at[p]
        <5> HIDE DEF IInv, DoneBy
        <5> QED
          BY <4>1
      <4> QED
        BY <3>1, <4>2 DEF Applied
  <2>4. found[p] \ schema' = (found[p] \ schema) \cup {at[p]} /\ at[p] \notin found[p] \ schema
    BY <2>1, <2>2, <2>3
  <2>5. IsFiniteSet(found[p] \ schema') /\ Cardinality(found[p] \ schema') = moved[p] + 1
    <3> DEFINE undone == found[p] \ schema
    <3>1. IsFiniteSet(undone) /\ Cardinality(undone) = moved[p] /\ at[p] \notin undone
      BY <2>1, <2>4
    <3> HIDE DEF undone
    <3>2. IsFiniteSet(undone \cup {at[p]}) /\ Cardinality(undone \cup {at[p]}) = moved[p] + 1
      BY <3>1, FS_AddElement
    <3> QED
      BY <2>4, <3>2 DEF undone
  <2> QED
    BY <1>5, <2>1, <2>2, <2>5 DEF Run, RolledBackBy
<1>6. CASE Clean(p)
  <2>1. cmd[p].op = "down" => moved[p] + 1 <= cmd[p].n
    <3>1. cmd[p].op = "down" => moved[p] < cmd[p].n
      BY <1>6 DEF Clean, InMigration, More, Limited
    <3>2. moved[p] \in Nat /\ cmd[p].n \in Nat
      OBVIOUS
    <3> HIDE DEF IInv, DoneBy
    <3> QED
      BY <3>1, <3>2
  <2>2. /\ schema' = schema /\ found' = found /\ cmd' = cmd /\ moved'[p] = moved[p] + 1
        /\ pc[p] = "ran" /\ pc'[p] = "next"
    BY <1>6 DEF Clean
  <2>3. cmd[p].op = "down" => /\ schema \subseteq found[p] /\ IsFiniteSet(found[p] \ schema)
                              /\ Cardinality(found[p] \ schema) = moved[p] + 1
    BY <2>2 DEF RolledBackBy
  <2> QED
    BY <2>1, <2>2, <2>3 DEF RolledBackBy
<1> QED
  BY <1>1, <1>2, <1>3, <1>4, <1>5, <1>6 DEF Does, Start, StartForce, Library, LockTimeout, RunFails, Finish,
     ForceVersion, Unlock, ReadVersion, Report, Crash

LEMMA OwnDecided ==
    ASSUME IInv, NEW p \in Proc, Does(p), DoneBy(p)
    PROVE  DecidedBy(p)'
<1> USE DEF DoneBy, Goto, Returns, IInv, TypeOK, VersionType, CommandType, dbVars, workVars, history
<1>1. CASE pc'[p] \notin {"unlock", "read version", "report"}
  BY <1>1 DEF DecidedBy
<1>2. CASE LockTimeout(p) \/ RunFails(p)
  BY <1>2 DEF LockTimeout, RunFails, DecidedBy, Succeeded
<1>3. CASE Check(p)
  <2> SUFFICES ASSUME pc'[p] = "unlock", Succeeded(err'[p]) PROVE AimMet(p)'
    BY <1>3 DEF Check, DecidedBy
  <2>1. Refusal(p) = "no change"
    BY <1>3 DEF Check, Succeeded
  <2>2. ~dirty /\ Known(p, version) /\ ~More(p, version, 0) /\ cmd[p].op # "down"
    BY <2>1 DEF Refusal, Limited
  <2>3. schema = Applied(version) /\ version \in Nat \cup {Nil}
    BY <2>2 DEF SchemaMatchesVersion
  <2>4. cmd[p].op # "force"
    BY <1>3 DEF Check, RoutedBy
  <2> QED
    BY <1>3, <2>2, <2>3, <2>4, EndOfTheLine DEF Check, AimMet
<1>4. CASE Finish(p)
  <2> SUFFICES ASSUME Succeeded(err'[p]) PROVE AimMet(p)'
    BY <1>4 DEF Finish, DecidedBy
  <2>1. ~(Limited(p) /\ moved[p] < cmd[p].n)
    BY <1>4 DEF Finish, Succeeded
  <2>2. ~dirty /\ Known(p, at[p]) /\ ~More(p, at[p], moved[p]) /\ schema = Applied(at[p])
    BY <1>4 DEF Finish, BetweenMigrations, SchemaMatchesVersion
  <2>3. cmd[p].op = "down" => schema \subseteq found[p] /\ Cardinality(found[p] \ schema) = cmd[p].n
    <3> SUFFICES ASSUME cmd[p].op = "down" PROVE schema \subseteq found[p] /\ Cardinality(found[p] \ schema) = cmd[p].n
      OBVIOUS
    <3>1. /\ schema \subseteq found[p] /\ Cardinality(found[p] \ schema) = moved[p]
          /\ moved[p] <= cmd[p].n
      BY <1>4 DEF Finish, RolledBackBy
    <3>2. ~(moved[p] < cmd[p].n) /\ moved[p] \in Nat /\ cmd[p].n \in Nat
      BY <2>1 DEF Limited
    <3> HIDE DEF IInv, DoneBy
    <3> QED
      BY <3>1, <3>2
  <2>4. cmd[p].op # "force"
    BY <1>4 DEF Finish, RoutedBy
  <2>5. /\ cmd[p].op = "up" => schema = Applied(Newest[p])
        /\ cmd[p].op = "down all" => schema = {}
    BY <2>2, EndOfTheLine
  <2> QED
    BY <1>4, <2>2, <2>3, <2>4, <2>5 DEF Finish, AimMet
<1>5. CASE ForceVersion(p)
  BY <1>5 DEF ForceVersion, ForcePending, AimMet, DecidedBy
<1>6. CASE Unlock(p)
  BY <1>6 DEF Unlock, DecidedBy
<1>7. CASE ReadVersion(p)
  <2>1. Succeeded(err'[p]) => Succeeded(err[p])
    BY <1>7 DEF ReadVersion, RoutedBy, Succeeded
  <2> QED
    BY <1>7, <2>1 DEF ReadVersion, DecidedBy
<1> QED
  BY <1>1, <1>2, <1>3, <1>4, <1>5, <1>6, <1>7 DEF Does, Start, StartForce, Library, Acquire, Mark, Run, Clean,
     Report, Crash

LEMMA OwnReported ==
    ASSUME IInv, NEW p \in Proc, Does(p), DoneBy(p)
    PROVE  ReportedBy(p)' /\ RoutedBy(p)'
<1> USE DEF DoneBy, ReportedBy, RoutedBy, Goto, Returns, IInv, TypeOK, CommandType, workVars, history
<1>1. CASE Start(p) \/ StartForce(p)
  BY <1>1 DEF Start, StartForce
<1>2. CASE Acquire(p) \/ LockTimeout(p) \/ Check(p) \/ Mark(p)
  BY <1>2 DEF Acquire, LockTimeout, Check, Mark
<1>3. CASE Run(p) \/ RunFails(p) \/ Clean(p) \/ Finish(p) \/ ForceVersion(p)
  BY <1>3 DEF Run, RunFails, Clean, Finish, ForceVersion
<1>4. CASE Unlock(p) \/ ReadVersion(p) \/ Report(p) \/ Crash(p)
  BY <1>4 DEF Unlock, ReadVersion, Report, Crash, DecidedBy
<1> QED
  BY <1>1, <1>2, <1>3, <1>4 DEF Does, Library

LEMMA DoneStep == IInv /\ DoneInv /\ [Next]_vars => DoneInv'
<1> SUFFICES ASSUME IInv, DoneInv, [Next]_vars PROVE DoneInv'
  OBVIOUS
<1>1. ASSUME NEW p \in Proc, Does(p) PROVE DoneInv'
  <2>1. DoneBy(p)'
    BY <1>1, OwnRolledBack, OwnDecided, OwnReported DEF DoneInv, DoneBy
  <2>2. \A q \in Proc \ {p} : DoneBy(q)'
    BY <1>1, OthersDone DEF DoneInv
  <2> QED
    BY <2>1, <2>2 DEF DoneInv
<1>2. CASE UNCHANGED vars
  BY <1>2 DEF DoneInv, DoneBy, RolledBackBy, RoutedBy, DecidedBy, ReportedBy, AimMet, vars, dbVars, workVars, history
<1> QED
  BY <1>1, <1>2 DEF Next, Does, AllDone

(* A command that reports success did what it was asked, no more and no    *)
(* less, before it gave the lock back, for any number of migrations it was *)
(* to roll back (migrator.go:60-127).                                      *)
THEOREM SuccessMeansDone == Spec => []OkMeansDone
<1>1. Init => DoneInv
  BY InitDoneInv
<1>2. IInv /\ IInv' /\ DoneInv /\ [Next]_vars => DoneInv'
  BY DoneStep
<1>3. DoneInv => OkMeansDone
  BY DEF DoneInv, DoneBy, ReportedBy, OkMeansDone
<1> QED
  BY <1>1, <1>2, <1>3, Invariance, PTL DEF Spec

-----------------------------------------------------------------------------
(* One migration at a time. In the middle of a migration the recorded      *)
(* version is the one it leads to.                                         *)

MarkedVersion == \A p \in Proc : pc[p] \in {"marked", "ran"} => version = Target(p)

LEMMA MarkedStep == IInv /\ MarkedVersion /\ [Next]_vars => MarkedVersion'
<1> SUFFICES ASSUME IInv, MarkedVersion, [Next]_vars PROVE MarkedVersion'
  OBVIOUS
<1>1. ASSUME NEW p \in Proc, Does(p) PROVE MarkedVersion'
  <2> SUFFICES ASSUME NEW q \in Proc, pc'[q] \in {"marked", "ran"} PROVE version' = Target(q)'
    BY DEF MarkedVersion
  <2>1. CASE q = p
    <3> USE DEF IInv, TypeOK, CommandType, Goto, Returns, workVars
    <3>1. Mark(p) \/ Run(p)
      BY <1>1, <2>1 DEF Does, Start, StartForce, Library, Acquire, LockTimeout, Check, Mark, Run, RunFails, Clean,
         Finish, ForceVersion, Unlock, ReadVersion, Report, Crash
    <3>2. cmd' = cmd /\ at' = at /\ version' = Target(p)
      BY <3>1 DEF Mark, Run, MarkedVersion
    <3> QED
      BY <2>1, <3>2 DEF Target
  <2>2. CASE q # p
    <3>1. pc[q] = pc'[q] /\ cmd'[q] = cmd[q] /\ at'[q] = at[q]
      BY <1>1, <2>2, OthersKeep
    <3>2. pc[q] \in Critical
      BY <3>1 DEF Critical
    <3>3. version' = version
      BY <1>1, <2>2, <3>2, OthersKeep DEF dbVars
    <3> QED
      BY <3>1, <3>3 DEF MarkedVersion, Target
  <2> QED
    BY <2>1, <2>2
<1>2. CASE UNCHANGED vars
  BY <1>2 DEF MarkedVersion, Target, vars, dbVars, workVars
<1> QED
  BY <1>1, <1>2 DEF Next, Does, AllDone

(* A migration leads to the version next to the one it starts from, and    *)
(* its file turns the schema of the one into the schema of the other.      *)
LEMMA NextDoor ==
    ASSUME IInv, NEW p \in Proc, Known(p, at[p]), More(p, at[p], moved[p])
    PROVE  /\ Target(p) \in {Above(at[p]), Below(at[p])}
           /\ (IF cmd[p].op = "up" THEN Applied(at[p]) \cup {Target(p)} ELSE Applied(at[p]) \ {at[p]})
              = Applied(Target(p))
<1>1. Newest[p] \in Nat
  BY VersionAssumption
<1>2. at[p] \in 1 .. Newest[p] \/ at[p] = Nil
  BY DEF Known
<1>3. at[p] \in Nat \cup {Nil} /\ at[p] # 0
  BY <1>1, <1>2 DEF Nil
<1>4. CASE cmd[p].op = "up"
  BY <1>3, <1>4, AppliedAbove DEF Target
<1>5. CASE cmd[p].op # "up"
  <2>1. at[p] # Nil
    BY <1>5 DEF More
  <2> QED
    BY <1>3, <1>5, <2>1, AppliedBelow DEF Target
<1> QED
  BY <1>4, <1>5

LEMMA OneStep == IInv /\ MarkedVersion /\ [Next]_vars => UNCHANGED dbVars \/ Announced \/ Settled \/ Changed
<1> SUFFICES ASSUME IInv, MarkedVersion, [Next]_vars PROVE UNCHANGED dbVars \/ Announced \/ Settled \/ Changed
  OBVIOUS
<1>1. ASSUME NEW p \in Proc, Mark(p) PROVE Announced
  <2>1. /\ ~dirty /\ version = at[p] /\ Known(p, at[p]) /\ More(p, at[p], moved[p])
        /\ version' = Target(p) /\ dirty' /\ schema' = schema
    BY <1>1 DEF Mark, IInv, BetweenMigrations
  <2>2. schema = Applied(version)
    BY <2>1 DEF IInv, SchemaMatchesVersion
  <2> QED
    BY <2>1, <2>2, NextDoor DEF Announced
<1>2. ASSUME NEW p \in Proc, Run(p) PROVE Changed
  <2>1. /\ dirty /\ Known(p, at[p]) /\ More(p, at[p], moved[p]) /\ schema = Applied(at[p])
        /\ version' = version /\ dirty' = dirty /\ version = Target(p)
    BY <1>2 DEF Run, IInv, InMigration, MarkedVersion
  <2>2. schema' = IF cmd[p].op = "up" THEN schema \cup {Target(p)} ELSE schema \ {at[p]}
    BY <1>2 DEF Run
  <2>3. schema' = Applied(version)
    BY <2>1, <2>2, NextDoor
  <2> QED
    BY <2>1, <2>3 DEF Changed
<1>3. ASSUME NEW p \in Proc, Clean(p) PROVE Settled
  BY <1>3 DEF Clean, IInv, InMigration, Settled
<1>4. ASSUME NEW p \in Proc, ForceVersion(p) PROVE Settled
  <2>1. Forcing(p)
    BY <1>4 DEF ForceVersion, Forcing, IInv, ForcePending
  <2> QED
    BY <1>4, <2>1 DEF ForceVersion, IInv, ForcePending, Settled
<1>5. ASSUME NEW p \in Proc, StartForce(p) PROVE Changed
  BY <1>5 DEF StartForce, Changed
<1>6. ASSUME NEW p \in Proc,
             \/ Start(p) \/ Acquire(p) \/ LockTimeout(p) \/ Check(p) \/ RunFails(p) \/ Finish(p)
             \/ Unlock(p) \/ ReadVersion(p) \/ Report(p) \/ Crash(p)
      PROVE  UNCHANGED dbVars
  BY <1>6 DEF Start, Acquire, LockTimeout, Check, RunFails, Finish, Unlock, ReadVersion, Report, Crash
<1>7. CASE UNCHANGED vars
  BY <1>7 DEF vars
<1> QED
  BY <1>1, <1>2, <1>3, <1>4, <1>5, <1>6, <1>7 DEF Next, Library, AllDone

(* The database moves by one announced migration at a time, for any number *)
(* of processes, revisions and commands, and wherever one dies             *)
(* (migrator.go:57-127).                                                   *)
THEOREM MovesOneAtATime == Spec => OneMigrationAtATime
<1>1. Init => MarkedVersion
  BY DEF Init, MarkedVersion
<1>2. IInv /\ MarkedVersion /\ [Next]_vars => MarkedVersion'
  BY MarkedStep
<1>3. IInv /\ MarkedVersion /\ [Next]_vars => [UNCHANGED dbVars \/ Announced \/ Settled \/ Changed]_vars
  BY OneStep
<1> QED
  BY <1>1, <1>2, <1>3, Invariance, PTL DEF Spec, OneMigrationAtATime
=============================================================================
