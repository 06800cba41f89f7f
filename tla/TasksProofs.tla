---------------------------- MODULE TasksProofs ----------------------------
(***************************************************************************)
(* Proofs about Tasks, for any number of requests, any calls, and any size *)
(* of the pool and of the sequence of ids.                                 *)
(***************************************************************************)
EXTENDS Tasks, TLAPS

-----------------------------------------------------------------------------
(* The calls.                                                              *)

LEMMA CallParts ==
    ASSUME NEW c \in Call
    PROVE  /\ c.op \in {"create", "update"} => c.title \in Raw
           /\ c.op = "update" => c.done \in BOOLEAN
           /\ c.op \in {"update", "get", "delete"} => c.id \in Int
           /\ c.op = "list" => c.limit \in Int /\ c.offset \in Int
           /\ c.op \in {"create", "update", "get", "delete", "list", "ready"}
           /\ c # NoCall
<1>1. c \in Calls
  BY TasksAssumption
<1> QED
  BY <1>1 DEF Calls, NoCall

(* A title that passes is stored without its white space.                  *)
LEMMA StorableTitle ==
    ASSUME NEW c \in Call, Valid(c), c.op \in {"create", "update"}
    PROVE  Trimmed(c.title) \in Title
BY CallParts DEF Valid, TitleOK, Bound, Trimmed, Raw

-----------------------------------------------------------------------------
(* The table.                                                              *)

Unique(T) == \A row \in T, other \in T : row.id = other.id => row = other

LEMMA OneRow ==
    ASSUME NEW T, Unique(T), NEW row \in T
    PROVE  /\ (CHOOSE x \in T : x.id = row.id) = row
           /\ Selected(T, row.id) = {row}
BY DEF Unique, Selected

LEMMA UpdateKeepsKeys ==
    ASSUME NEW T \in SUBSET Row, Unique(T), NEW id, NEW title \in Title, NEW done \in BOOLEAN
    PROVE  /\ Updated(T, id, title, done) \in SUBSET Row
           /\ Changed(T, id, title, done) \in SUBSET Row
           /\ Unique(Updated(T, id, title, done))
           /\ Ids(Updated(T, id, title, done)) = Ids(T)
<1> DEFINE new(row) == [id |-> row.id, title |-> title, done |-> done]
           U == Updated(T, id, title, done)
<1>1. \A row \in T : new(row) \in Row /\ new(row).id = row.id
  BY DEF Row
<1>2. Changed(T, id, title, done) \in SUBSET Row
  BY <1>1 DEF Changed, Selected
<1>3. U \in SUBSET Row
  BY <1>2 DEF Updated
<1>4. \A x \in U : \E row \in T : x.id = row.id /\ x = IF row.id = id THEN new(row) ELSE row
  BY <1>1 DEF Updated, Changed, Selected
<1>5. \A row \in T : (IF row.id = id THEN new(row) ELSE row) \in U
  BY DEF Updated, Changed, Selected
<1> HIDE DEF U, new
<1>6. Unique(U)
  BY <1>4 DEF Unique
<1>7. Ids(U) = Ids(T)
  <2>1. \A row \in T : \E x \in U : x.id = row.id
    BY <1>5, <1>1
  <2> QED
    BY <1>4, <2>1 DEF Ids
<1> QED
  BY <1>2, <1>3, <1>6, <1>7 DEF U

(* Nothing about the keys is lost when rows go.                            *)
LEMMA FewerKeys ==
    ASSUME KeysUnique, table' \subseteq table, serial' = serial
    PROVE  KeysUnique'
BY DEF KeysUnique, Ids

-----------------------------------------------------------------------------
(* What a statement does to the state.                                     *)
Noted(r) == /\ result' = [result EXCEPT ![r] = result'[r]]
            /\ result'[r] \in Replies \ {NoReply}

LEMMA TookNotes ==
    ASSUME TypeOK, NEW r \in Request, NEW reply \in Replies \ {NoReply}, Took(r, reply)
    PROVE  Noted(r)
BY DEF TypeOK, Took, Noted

LEMMA SequenceBounds == MaxId \in Nat
BY TasksAssumption

LEMMA StatementKeeps ==
    ASSUME TypeOK, KeysUnique, NEW r \in Request, call[r] \in Call, Valid(call[r]),
           Statement(r)
    PROVE  /\ table' \in SUBSET Row /\ serial' \in 0 .. MaxId
           /\ KeysUnique'
           /\ Noted(r)
<1> DEFINE c == call[r]
<1>0. /\ table \in SUBSET Row /\ serial \in 0 .. MaxId /\ result \in [Request -> Replies]
      /\ Unique(table) /\ Ids(table) \subseteq 1 .. serial
  BY DEF TypeOK, KeysUnique, Unique
<1>1. CASE Insert(r)
  <2> DEFINE row == [id |-> serial + 1, title |-> Trimmed(c.title), done |-> FALSE]
  <2>1. Trimmed(c.title) \in Title
    BY <1>1, StorableTitle DEF Insert
  <2>2. serial < MaxId /\ serial' = serial + 1 /\ table' = table \cup {row}
    BY <1>1 DEF Insert
  <2>3. row \in Row /\ row.id = serial + 1 /\ serial' \in 0 .. MaxId
    BY <1>0, <2>1, <2>2, SequenceBounds DEF Row
  <2>4. KeysUnique'
    <3>1. \A x \in table : x.id \in 1 .. serial
      BY <1>0 DEF Ids
    <3> HIDE DEF row
    <3>2. \A x \in table' : x.id \in 1 .. serial'
      BY <1>0, <2>2, <2>3, <3>1
    <3>3. \A x \in table', y \in table' : x.id = y.id => x = y
      BY <1>0, <2>2, <2>3, <3>1 DEF Unique
    <3> QED
      BY <3>2, <3>3 DEF KeysUnique, Ids
  <2>5. Reply(201, {row}) \in Replies \ {NoReply}
    BY <2>3 DEF Reply, NoReply, Replies
  <2>6. Noted(r)
    BY <1>1, <2>5, TookNotes DEF Insert
  <2> QED
    BY <1>0, <2>2, <2>3, <2>4, <2>6
<1>2. CASE Update(r)
  <2> DEFINE t == Trimmed(c.title)
  <2>1. t \in Title /\ c.done \in BOOLEAN
    BY <1>2, StorableTitle, CallParts DEF Update
  <2>2. /\ table' = Updated(table, c.id, t, c.done) /\ serial' = serial
        /\ Took(r, Found(Changed(table, c.id, t, c.done)))
    BY <1>2 DEF Update
  <2>3. /\ Changed(table, c.id, t, c.done) \in SUBSET Row
        /\ table' \in SUBSET Row /\ Unique(table') /\ Ids(table') = Ids(table)
    BY <1>0, <2>1, <2>2, UpdateKeepsKeys
  <2>4. KeysUnique'
    BY <1>0, <2>2, <2>3 DEF KeysUnique, Unique
  <2>5. Found(Changed(table, c.id, t, c.done)) \in Replies \ {NoReply}
    BY <2>3 DEF Found, Reply, NoReply, Replies
  <2>6. Noted(r)
    BY <2>2, <2>5, TookNotes
  <2> QED
    BY <1>0, <2>2, <2>3, <2>4, <2>6
<1>3. CASE Delete(r)
  <2>1. table' \subseteq table /\ serial' = serial
    BY <1>3 DEF Delete
  <2>2. KeysUnique'
    BY <2>1, FewerKeys
  <2>3. Removed(Selected(table, c.id)) \in Replies \ {NoReply}
    BY DEF Removed, Reply, NoReply, Replies
  <2>4. Noted(r)
    BY <1>3, <2>3, TookNotes DEF Delete
  <2> QED
    BY <1>0, <2>1, <2>2, <2>4
<1>4. CASE Get(r)
  <2>1. Found(Selected(table, c.id)) \in Replies \ {NoReply}
    BY <1>0 DEF Found, Selected, Reply, NoReply, Replies
  <2>2. Noted(r) /\ table' = table /\ serial' = serial
    BY <1>4, <2>1, TookNotes DEF Get
  <2> QED
    BY <1>0, <2>2, FewerKeys
<1>5. CASE List(r)
  <2>1. Reply(200, Page(table, c.limit, c.offset)) \in Replies \ {NoReply}
    BY <1>0 DEF Page, Reply, NoReply, Replies
  <2>2. Noted(r) /\ table' = table /\ serial' = serial
    BY <1>5, <2>1, TookNotes DEF List
  <2> QED
    BY <1>0, <2>2, FewerKeys
<1>6. CASE Ping(r)
  <2>1. Reply(200, {}) \in Replies \ {NoReply}
    BY DEF Reply, NoReply, Replies
  <2>2. Noted(r) /\ table' = table /\ serial' = serial
    BY <1>6, <2>1, TookNotes DEF Ping
  <2> QED
    BY <1>0, <2>2, FewerKeys
<1> QED
  BY <1>1, <1>2, <1>3, <1>4, <1>5, <1>6 DEF Statement

LEMMA ReplyKinds ==
    /\ Reply(400, {}) \in Replies \ {NoReply}
    /\ \A c : Failure(c) \in Replies \ {NoReply}
BY DEF Failure, Reply, NoReply, Replies

-----------------------------------------------------------------------------
(* The inductive invariant.                                                *)

LEMMA InitIInv == Init => IInv
<1> SUFFICES ASSUME Init PROVE IInv
  OBVIOUS
<1>1. TypeOK
  BY SequenceBounds DEF Init, TypeOK, NoReply, Reply, Replies
<1>2. KeysUnique /\ ConnsAccounted
  BY DEF Init, KeysUnique, ConnsAccounted, Ids
<1>3. OnlyValidRun
  BY DEF Init, OnlyValidRun
<1> QED
  BY <1>1, <1>2, <1>3 DEF IInv

(* A request that is answered before its statement took effect.            *)
LEMMA AnswerKeeps ==
    ASSUME IInv, NEW r \in Request, NEW reply \in Replies \ {NoReply}, Answer(r, reply),
           step[r] \in {"asked", "running", "served"},
           UNCHANGED <<db, table, call, result>>, serial' \in serial .. MaxId
    PROVE  IInv'
<1>1. TypeOK'
  BY SequenceBounds DEF IInv, TypeOK, Answer
<1>2. KeysUnique'
  BY DEF IInv, TypeOK, KeysUnique
<1>3. ConnsAccounted'
  BY DEF IInv, TypeOK, ConnsAccounted, Answer
<1>4. OnlyValidRun'
  BY DEF IInv, TypeOK, OnlyValidRun, Answer
<1> QED
  BY <1>1, <1>2, <1>3, <1>4 DEF IInv

LEMMA Step == IInv /\ [Next]_vars => IInv'
<1> SUFFICES ASSUME IInv, [Next]_vars PROVE IInv'
  OBVIOUS
<1>0. \A r \in Request : step[r] # "none" => call[r] \in Call
  BY DEF IInv, TypeOK, OnlyValidRun
<1>1. ASSUME NEW r \in Request, NEW c \in Call, Ask(r, c) PROVE IInv'
  <2>1. TypeOK'
    BY <1>1 DEF Ask, IInv, TypeOK
  <2>2. KeysUnique'
    BY <1>1 DEF Ask, IInv, KeysUnique
  <2>3. ConnsAccounted'
    BY <1>1 DEF Ask, IInv, TypeOK, ConnsAccounted
  <2>4. OnlyValidRun'
    BY <1>1, CallParts DEF Ask, IInv, TypeOK, OnlyValidRun
  <2> QED
    BY <2>1, <2>2, <2>3, <2>4 DEF IInv
<1>2. ASSUME NEW r \in Request, Refuse(r) PROVE IInv'
  <2>1. /\ step[r] \in {"asked", "running", "served"} /\ Answer(r, Reply(400, {}))
        /\ UNCHANGED <<db, table, call, result>> /\ serial' \in serial .. MaxId
    BY <1>2, SequenceBounds DEF Refuse, IInv, TypeOK
  <2> QED
    BY <2>1, ReplyKinds, AnswerKeeps
<1>3. ASSUME NEW r \in Request, AcquireFails(r) PROVE IInv'
  <2>1. /\ step[r] \in {"asked", "running", "served"} /\ Answer(r, Failure(call[r]))
        /\ UNCHANGED <<db, table, call, result>> /\ serial' \in serial .. MaxId
    BY <1>3, SequenceBounds DEF AcquireFails, IInv, TypeOK
  <2> QED
    BY <2>1, ReplyKinds, AnswerKeeps
<1>4. ASSUME NEW r \in Request, ProbeTimeout(r) PROVE IInv'
  <2>1. /\ step[r] \in {"asked", "running", "served"} /\ Answer(r, Failure(call[r]))
        /\ UNCHANGED <<db, table, call, result>> /\ serial' \in serial .. MaxId
    BY <1>4, SequenceBounds DEF ProbeTimeout, IInv, TypeOK
  <2> QED
    BY <2>1, ReplyKinds, AnswerKeeps
<1>5. ASSUME NEW r \in Request, ResponseLost(r) PROVE IInv'
  <2>1. /\ step[r] \in {"asked", "running", "served"} /\ Answer(r, Failure(call[r]))
        /\ UNCHANGED <<db, table, call, result>> /\ serial' \in serial .. MaxId
    BY <1>5, SequenceBounds DEF ResponseLost, IInv, TypeOK
  <2> QED
    BY <2>1, ReplyKinds, AnswerKeeps
<1>6. ASSUME NEW r \in Request, RunFails(r) PROVE IInv'
  <2>1. /\ step[r] \in {"asked", "running", "served"} /\ Answer(r, Failure(call[r]))
        /\ UNCHANGED <<db, table, call, result>> /\ serial' \in serial .. MaxId
    BY <1>6, SequenceBounds DEF RunFails, IInv, TypeOK, RolledBack
  <2> QED
    BY <2>1, ReplyKinds, AnswerKeeps
<1>7. ASSUME NEW r \in Request, Respond(r) PROVE IInv'
  <2>1. /\ step[r] \in {"asked", "running", "served"} /\ Answer(r, result[r])
        /\ UNCHANGED <<db, table, call, result>> /\ serial' \in serial .. MaxId
    BY <1>7, SequenceBounds DEF Respond, IInv, TypeOK
  <2>2. result[r] \in Replies \ {NoReply}
    BY <1>7 DEF Respond, IInv, TypeOK, OnlyValidRun
  <2> QED
    BY <2>1, <2>2, AnswerKeeps
<1>8. ASSUME NEW r \in Request, Acquire(r) PROVE IInv'
  <2>1. TypeOK'
    BY <1>8 DEF Acquire, IInv, TypeOK
  <2>2. KeysUnique'
    BY <1>8 DEF Acquire, IInv, TypeOK, KeysUnique
  <2>3. ConnsAccounted'
    BY <1>8 DEF Acquire, IInv, TypeOK, ConnsAccounted
  <2>4. OnlyValidRun'
    BY <1>8 DEF Acquire, IInv, TypeOK, OnlyValidRun
  <2> QED
    BY <2>1, <2>2, <2>3, <2>4 DEF IInv
<1>9. ASSUME NEW r \in Request, Leave(r) PROVE IInv'
  <2>1. TypeOK'
    BY <1>9 DEF Leave, IInv, TypeOK
  <2>2. KeysUnique'
    BY <1>9 DEF Leave, IInv, TypeOK, KeysUnique
  <2>3. ConnsAccounted'
    BY <1>9 DEF Leave, IInv, TypeOK, ConnsAccounted
  <2>4. OnlyValidRun'
    BY <1>9 DEF Leave, IInv, TypeOK, OnlyValidRun
  <2> QED
    BY <2>1, <2>2, <2>3, <2>4 DEF IInv
<1>10. ASSUME NEW r \in Request, OrphanDies(r) PROVE IInv'
  <2>1. TypeOK'
    BY <1>10, SequenceBounds DEF OrphanDies, IInv, TypeOK, RolledBack
  <2>2. KeysUnique'
    BY <1>10, SequenceBounds DEF OrphanDies, IInv, TypeOK, KeysUnique, RolledBack
  <2>3. ConnsAccounted'
    BY <1>10 DEF OrphanDies, IInv, TypeOK, ConnsAccounted
  <2>4. OnlyValidRun'
    BY <1>10 DEF OrphanDies, IInv, TypeOK, OnlyValidRun, RolledBack
  <2> QED
    BY <2>1, <2>2, <2>3, <2>4 DEF IInv
<1>11. ASSUME NEW r \in Request, Run(r) PROVE IInv'
  <2>1. call[r] \in Call /\ Valid(call[r]) /\ Statement(r)
    BY <1>11, <1>0 DEF Run, IInv, OnlyValidRun
  <2>2. /\ table' \in SUBSET Row /\ serial' \in 0 .. MaxId /\ KeysUnique' /\ Noted(r)
    BY <2>1, StatementKeeps DEF IInv
  <2>3. TypeOK'
    BY <1>11, <2>2 DEF Run, Noted, IInv, TypeOK
  <2>4. ConnsAccounted'
    BY <1>11 DEF Run, IInv, TypeOK, ConnsAccounted
  <2>5. OnlyValidRun'
    BY <1>11, <2>2 DEF Run, Noted, IInv, TypeOK, OnlyValidRun
  <2> QED
    BY <2>2, <2>3, <2>4, <2>5 DEF IInv
<1>12. ASSUME NEW r \in Request, OrphanRuns(r) PROVE IInv'
  <2>1. call[r] \in Call /\ Valid(call[r]) /\ Statement(r)
    BY <1>12, <1>0 DEF OrphanRuns, IInv, OnlyValidRun
  <2>2. /\ table' \in SUBSET Row /\ serial' \in 0 .. MaxId /\ KeysUnique' /\ Noted(r)
    BY <2>1, StatementKeeps DEF IInv
  <2>3. TypeOK'
    BY <1>12, <2>2 DEF OrphanRuns, Noted, IInv, TypeOK
  <2>4. ConnsAccounted'
    BY <1>12 DEF OrphanRuns, IInv, TypeOK, ConnsAccounted
  <2>5. OnlyValidRun'
    BY <1>12, <2>2 DEF OrphanRuns, Noted, IInv, TypeOK, OnlyValidRun
  <2> QED
    BY <2>2, <2>3, <2>4, <2>5 DEF IInv
<1>13. CASE Outage
  BY <1>13 DEF Outage, IInv, TypeOK, KeysUnique, ConnsAccounted, OnlyValidRun
<1>14. CASE UNCHANGED vars
  BY <1>14 DEF vars, IInv, TypeOK, KeysUnique, ConnsAccounted, OnlyValidRun
<1> QED
  BY <1>1, <1>2, <1>3, <1>4, <1>5, <1>6, <1>7, <1>8, <1>9,
     <1>10, <1>11, <1>12, <1>13, <1>14 DEF Next, Handle

(* The inductive invariant holds in every reachable state.                 *)
THEOREM Invariance == Spec => []IInv
<1>1. Init => IInv
  BY InitIInv
<1>2. IInv /\ [Next]_vars => IInv'
  BY Step
<1> QED
  BY <1>1, <1>2, PTL DEF Spec, Safety

(* The state of the requests, the pool and the table has its types; in     *)
(* particular only trimmed titles that are not blank are stored            *)
(* (service.go:79-91).                                                     *)
THEOREM TypeCorrect == Spec => []TypeOK
<1>1. IInv => TypeOK
  BY DEF IInv
<1> QED
  BY <1>1, Invariance, PTL

-----------------------------------------------------------------------------
(* The map the clients see, as a function of the table.                    *)

Held(row) == [title |-> row.title, done |-> row.done]
MapOf(T) == [id \in Ids(T) |-> Held(CHOOSE x \in T : x.id = id)]

LEMMA StoreIsMapOf == store = MapOf(table) /\ store' = MapOf(table')
BY DEF store, TheRow, MapOf, Held

LEMMA MapRow ==
    ASSUME NEW T, Unique(T), NEW row \in T
    PROVE  row.id \in DOMAIN MapOf(T) /\ MapOf(T)[row.id] = Held(row)
<1>1. (CHOOSE x \in T : x.id = row.id) = row
  BY OneRow
<1> QED
  BY <1>1 DEF MapOf, Ids

LEMMA WithIs ==
    ASSUME NEW S, NEW x, NEW f, f = [z \in S |-> f[z]],
           NEW g, g = [z \in S \cup {x} |-> g[z]], \A z \in S \ {x} : g[z] = f[z]
    PROVE  g = Map!With(f, x, g[x])
BY DEF Map!With

LEMMA MapInsert ==
    ASSUME NEW T, NEW row, Unique(T \cup {row}), NEW id, row.id = id, id \notin Ids(T)
    PROVE  MapOf(T \cup {row}) = Map!With(MapOf(T), id, Held(row))
<1> DEFINE f == MapOf(T)
           g == MapOf(T \cup {row})
<1>1. f = [z \in Ids(T) |-> f[z]] /\ g = [z \in Ids(T) \cup {id} |-> g[z]]
  BY DEF MapOf, Ids
<1>2. Unique(T)
  BY DEF Unique
<1>3. \A z \in Ids(T) \ {id} : g[z] = f[z]
  <2> SUFFICES ASSUME NEW x \in T PROVE g[x.id] = f[x.id]
    BY DEF Ids
  <2> QED
    BY <1>2, MapRow
<1>4. g[id] = Held(row)
  BY MapRow
<1> HIDE DEF f, g
<1>5. g = Map!With(f, id, g[id])
  BY ONLY <1>1, <1>3, WithIs
<1> QED
  BY <1>4, <1>5 DEF f, g

LEMMA MapUpdate ==
    ASSUME NEW T \in SUBSET Row, Unique(T), NEW id \in Ids(T),
           NEW title \in Title, NEW done \in BOOLEAN
    PROVE  /\ MapOf(Updated(T, id, title, done))
                  = Map!With(MapOf(T), id, [title |-> title, done |-> done])
           /\ Changed(T, id, title, done) = {[id |-> id, title |-> title, done |-> done]}
<1> DEFINE U == Updated(T, id, title, done)
           row == [id |-> id, title |-> title, done |-> done]
           f == MapOf(T)
           g == MapOf(U)
<1>1. Changed(T, id, title, done) = {row}
  BY DEF Changed, Selected, Ids
<1>2. Unique(U) /\ Ids(U) = Ids(T)
  BY UpdateKeepsKeys
<1>3. row \in U /\ \A x \in T : x.id # id => x \in U
  BY <1>1 DEF Updated, Selected
<1> HIDE DEF U
<1>4. f = [z \in Ids(T) |-> f[z]] /\ g = [z \in Ids(T) \cup {id} |-> g[z]]
  BY <1>2 DEF MapOf
<1>5. \A z \in Ids(T) \ {id} : g[z] = f[z]
  <2> SUFFICES ASSUME NEW x \in T, x.id # id PROVE g[x.id] = f[x.id]
    BY DEF Ids
  <2> QED
    BY <1>2, <1>3, MapRow
<1>6. g[id] = Held(row)
  BY <1>2, <1>3, MapRow
<1> HIDE DEF f, g
<1>7. g = Map!With(f, id, g[id])
  BY <1>4, <1>5, WithIs
<1> QED
  BY <1>1, <1>6, <1>7 DEF f, g, U, Held

LEMMA MapDelete ==
    ASSUME NEW T, Unique(T), NEW id
    PROVE  MapOf(T \ Selected(T, id)) = [i \in DOMAIN MapOf(T) \ {id} |-> MapOf(T)[i]]
<1> DEFINE D == T \ Selected(T, id)
<1>1. Unique(D) /\ D \subseteq T /\ \A x \in T : x.id # id => x \in D
  BY DEF Unique, Selected
<1>2. Ids(D) = Ids(T) \ {id}
  BY DEF Ids, Selected
<1> HIDE DEF D
<1>3. \A i \in Ids(D) : MapOf(D)[i] = MapOf(T)[i]
  <2> SUFFICES ASSUME NEW x \in D PROVE MapOf(D)[x.id] = MapOf(T)[x.id]
    BY DEF Ids
  <2> QED
    BY <1>1, MapRow
<1>4. MapOf(D) = [i \in Ids(D) |-> MapOf(D)[i]] /\ DOMAIN MapOf(T) = Ids(T)
  BY DEF MapOf
<1> QED
  BY <1>2, <1>3, <1>4 DEF D

(* The rows with an id, and what a client is shown of them.                *)
LEMMA MapSelect ==
    ASSUME NEW T \in SUBSET Row, Unique(T), NEW id
    PROVE  /\ id \notin Ids(T) => Selected(T, id) = {}
           /\ id \in Ids(T) => Selected(T, id) = {Map!Named(id, MapOf(T)[id])}
<1>1. id \notin Ids(T) => Selected(T, id) = {}
  BY DEF Ids, Selected
<1>2. ASSUME id \in Ids(T) PROVE Selected(T, id) = {Map!Named(id, MapOf(T)[id])}
  <2>1. PICK row \in T : row.id = id
    BY <1>2 DEF Ids
  <2>2. Selected(T, id) = {row} /\ MapOf(T)[id] = Held(row)
    BY <2>1, OneRow, MapRow
  <2>3. row = [id |-> row.id, title |-> row.title, done |-> row.done]
    BY DEF Row
  <2> QED
    BY <2>1, <2>2, <2>3 DEF Map!Named, Held
<1> QED
  BY <1>1, <1>2

LEMMA NamedRow ==
    ASSUME NEW T \in SUBSET Row, Unique(T), NEW row \in T
    PROVE  Map!Named(row.id, MapOf(T)[row.id]) = row
<1>1. row = [id |-> row.id, title |-> row.title, done |-> row.done]
  BY DEF Row
<1>2. MapOf(T)[row.id] = Held(row)
  BY MapRow
<1> QED
  BY <1>1, <1>2 DEF Map!Named, Held

LEMMA MapPage ==
    ASSUME NEW T \in SUBSET Row, Unique(T), NEW limit, NEW offset
    PROVE  Page(T, limit, offset) =
             {Map!Named(i, MapOf(T)[i]) : i \in {j \in Ids(T) :
                Cardinality({k \in Ids(T) : k > j})
                    \in offset .. offset + PageSize(limit) - 1}}
<1> DEFINE In(j) == Cardinality({k \in Ids(T) : k > j})
                        \in offset .. offset + PageSize(limit) - 1
<1>1. Page(T, limit, offset) = {row \in T : In(row.id)}
  BY DEF Page, Rank
<1> HIDE DEF In
<1>2. \A row \in T : row.id \in Ids(T) /\ Map!Named(row.id, MapOf(T)[row.id]) = row
  BY NamedRow DEF Ids
<1>3. \A i \in Ids(T) : \E row \in T : row.id = i
  BY DEF Ids
<1>4. {row \in T : In(row.id)} = {Map!Named(i, MapOf(T)[i]) : i \in {j \in Ids(T) : In(j)}}
  BY <1>2, <1>3
<1> QED
  BY <1>1, <1>4 DEF In

-----------------------------------------------------------------------------
(* What the clients see of a step.                                         *)

LEMMA Shapes ==
    /\ asked = [q \in {p \in Request : step[p] # "none"} |-> asked[q]]
    /\ took = [q \in {p \in Request : result[p] # NoReply} |-> took[q]]
    /\ told = [q \in {p \in Request : step[p] = "answered"} |-> told[q]]
    /\ \A q \in Request :
        /\ q \in DOMAIN asked <=> step[q] # "none"
        /\ q \in DOMAIN took <=> result[q] # NoReply
        /\ q \in DOMAIN told <=> step[q] = "answered"
        /\ step[q] # "none" => asked[q] = call[q]
        /\ result[q] # NoReply => took[q] = result[q]
        /\ step[q] = "answered" => told[q] = answer[q]
BY DEF asked, took, told

LEMMA ToldWith ==
    ASSUME TypeOK, NEW r \in Request, NEW reply, step[r] # "answered", Answer(r, reply)
    PROVE  told' = Map!With(told, r, reply)
<1> DEFINE S == {p \in Request : step[p] = "answered"}
           f == told
           g == told'
<1>1. {p \in Request : step'[p] = "answered"} = S \cup {r}
  BY DEF TypeOK, Answer
<1>2. f = [q \in S |-> f[q]] /\ g = [q \in S \cup {r} |-> g[q]]
  BY <1>1 DEF told
<1>3. (\A q \in S \ {r} : g[q] = f[q]) /\ g[r] = reply
  BY <1>1 DEF told, Answer, TypeOK
<1> HIDE DEF S, f, g
<1>4. g = Map!With(f, r, g[r])
  BY ONLY <1>2, <1>3 DEF Map!With
<1> QED
  BY <1>3, <1>4 DEF f, g

LEMMA TookWith ==
    ASSUME TypeOK, NEW r \in Request, Noted(r), result[r] = NoReply
    PROVE  took' = Map!With(took, r, result'[r])
<1> DEFINE S == {p \in Request : result[p] # NoReply}
           f == took
           g == took'
<1>1. {p \in Request : result'[p] # NoReply} = S \cup {r}
  BY DEF TypeOK, Noted
<1>2. f = [q \in S |-> f[q]] /\ g = [q \in S \cup {r} |-> g[q]]
  BY <1>1 DEF took
<1>3. (\A q \in S \ {r} : g[q] = f[q]) /\ g[r] = result'[r]
  BY <1>1 DEF took, Noted, TypeOK
<1> HIDE DEF S, f, g
<1>4. g = Map!With(f, r, g[r])
  BY ONLY <1>2, <1>3 DEF Map!With
<1> QED
  BY <1>3, <1>4 DEF f, g

LEMMA AskedWith ==
    ASSUME TypeOK, NEW r \in Request, NEW c, Ask(r, c)
    PROVE  asked' = Map!With(asked, r, c)
<1> DEFINE S == {p \in Request : step[p] # "none"}
           f == asked
           g == asked'
<1>1. {p \in Request : step'[p] # "none"} = S \cup {r}
  BY DEF TypeOK, Ask
<1>2. f = [q \in S |-> f[q]] /\ g = [q \in S \cup {r} |-> g[q]]
  BY <1>1 DEF asked
<1>3. (\A q \in S \ {r} : g[q] = f[q]) /\ g[r] = c
  BY <1>1 DEF asked, Ask, TypeOK
<1> HIDE DEF S, f, g
<1>4. g = Map!With(f, r, g[r])
  BY ONLY <1>2, <1>3 DEF Map!With
<1> QED
  BY <1>3, <1>4 DEF f, g

(* Moving on inside the server shows nothing.                              *)
LEMMA Unseen ==
    ASSUME TypeOK, NEW r \in Request, step[r] \notin {"none", "answered"},
           \A q \in Request \ {r} : step'[q] = step[q],
           step'[r] # "none", call' = call
    PROVE  /\ asked' = asked
           /\ step'[r] # "answered" /\ answer' = answer => told' = told
<1>1. asked' = asked
  <2>1. {p \in Request : step'[p] # "none"} = {p \in Request : step[p] # "none"}
    OBVIOUS
  <2> QED
    BY <2>1 DEF asked
<1>2. ASSUME step'[r] # "answered", answer' = answer PROVE told' = told
  <2>1. {p \in Request : step'[p] = "answered"} = {p \in Request : step[p] = "answered"}
    BY <1>2
  <2> QED
    BY <1>2, <2>1 DEF told
<1> QED
  BY <1>1, <1>2

LEMMA StoreKept == table' = table => store' = store
BY StoreIsMapOf

LEMMA TookKept == result' = result => took' = took
BY DEF took

(* The contract refuses what the handlers refuse.                          *)
LEMMA RefusalsAgree ==
    ASSUME NEW c \in Call
    PROVE  Map!Refused(c) <=> ~Valid(c)
<1>1. c.op \in {"create", "update"} => (TitleOK(c.title) <=> c.title.text \notin {"", "too long"})
  BY DEF TitleOK, Bound, Trimmed
<1>2. c.op \in {"update", "get", "delete"} => (c.id >= 1 <=> ~(c.id < 1))
  BY CallParts
<1>3. c.op = "list" => (c.offset >= 0 <=> ~(c.offset < 0))
  BY CallParts
<1> QED
  BY <1>1, <1>2, <1>3 DEF Map!Refused, Valid

LEMMA RolledBackWastes ==
    ASSUME TypeOK, NEW r \in Request, RolledBack(r)
    PROVE  Map!Waste
<1>1. CASE serial' = serial
  BY <1>1 DEF Map!Waste, used
<1>2. CASE serial < MaxId /\ serial' = serial + 1
  <2>1. used' = used \cup {serial + 1} /\ serial + 1 \in Id
    BY <1>2, SequenceBounds DEF used, Id, TypeOK
  <2> QED
    BY <2>1 DEF Map!Waste
<1> QED
  BY <1>1, <1>2 DEF RolledBack

-----------------------------------------------------------------------------
(* The refinement, action by action.                                       *)

(* A statement takes effect as the map would answer it.                    *)
LEMMA StatementRefines ==
    ASSUME IInv, NEW r \in Request, Statement(r), call[r] \in Call, Valid(call[r]),
           step[r] # "none", result[r] = NoReply,
           asked' = asked, told' = told
    PROVE  Map!Effect(r)
<1> DEFINE c == call[r]
<1>0. /\ table \in SUBSET Row /\ Unique(table) /\ Ids(table) \subseteq 1 .. serial
      /\ serial \in 0 .. MaxId /\ result \in [Request -> Replies]
  BY DEF IInv, TypeOK, KeysUnique, Unique
<1>1. r \in DOMAIN asked /\ asked[r] = c /\ Map!May(r)
  BY Shapes, RefusalsAgree DEF Map!May
<1>2. Noted(r) /\ Unique(table')
  BY StatementKeeps DEF IInv, KeysUnique, Unique
<1>3. took' = Map!With(took, r, result'[r])
  BY <1>2, TookWith DEF IInv
<1>4. \A reply : Took(r, reply) => Map!Took(r, reply)
  BY <1>0, <1>3 DEF Took, Map!Took
<1>5. DOMAIN store = Ids(table) /\ store = MapOf(table) /\ store' = MapOf(table')
  BY StoreIsMapOf DEF MapOf
<1>6. CASE Insert(r)
  <2> DEFINE row == [id |-> serial + 1, title |-> Trimmed(c.title), done |-> FALSE]
             task == Map!Task(c.title.text, FALSE)
  <2>1. /\ c.op = "create" /\ serial < MaxId /\ serial' = serial + 1
        /\ table' = table \cup {row} /\ Took(r, Reply(201, {row}))
    BY <1>6 DEF Insert
  <2>2. serial + 1 \in Id \ used /\ used' = used \cup {serial + 1}
    BY <1>0, <2>1, SequenceBounds DEF used, Id
  <2>3. Held(row) = task /\ row = Map!Named(serial + 1, task)
    BY DEF Held, Trimmed, Map!Task, Map!Named
  <2>4. store' = Map!With(store, serial + 1, task)
    <3>1. serial + 1 \notin Ids(table) /\ row.id = serial + 1
      BY <1>0
    <3>2. MapOf(table \cup {row}) = Map!With(MapOf(table), serial + 1, Held(row))
      <4> HIDE DEF row
      <4> QED
        BY <1>2, <2>1, <3>1, MapInsert
    <3> QED
      BY <1>5, <2>1, <2>3, <3>2
  <2>5. Map!Took(r, Map!Reply(201, {Map!Named(serial + 1, task)}))
    BY <1>4, <2>1, <2>3 DEF Reply, Map!Reply
  <2>6. Map!Create(r)
    BY <1>1, <2>1, <2>2, <2>4, <2>5 DEF Map!Create
  <2> QED
    BY <2>6 DEF Map!Effect
<1>7. CASE Update(r)
  <2> DEFINE t == Trimmed(c.title)
             task == Map!Task(c.title.text, c.done)
  <2>1. /\ c.op = "update" /\ table' = Updated(table, c.id, t, c.done) /\ used' = used
        /\ Took(r, Found(Changed(table, c.id, t, c.done)))
    BY <1>7 DEF Update, used
  <2>2. t \in Title /\ c.done \in BOOLEAN
    BY <2>1, StorableTitle, CallParts
  <2>3. CASE c.id \in Ids(table)
    <3>1. /\ MapOf(Updated(table, c.id, t, c.done))
                  = Map!With(MapOf(table), c.id, [title |-> t, done |-> c.done])
          /\ Changed(table, c.id, t, c.done) = {[id |-> c.id, title |-> t, done |-> c.done]}
      BY <1>0, <2>2, <2>3, MapUpdate
    <3>2. [title |-> t, done |-> c.done] = task
          /\ [id |-> c.id, title |-> t, done |-> c.done] = Map!Named(c.id, task)
      BY DEF Trimmed, Map!Task, Map!Named
    <3>3. store' = Map!With(store, c.id, task)
      BY <1>5, <2>1, <3>1, <3>2
    <3>4. Map!Took(r, Map!Reply(200, {Map!Named(c.id, task)}))
      BY <1>4, <2>1, <3>1, <3>2 DEF Found, Reply, Map!Reply
    <3>5. Map!Update(r)
      BY <1>1, <1>5, <2>1, <2>3, <3>3, <3>4 DEF Map!Update
    <3> QED
      BY <3>5 DEF Map!Effect
  <2>4. CASE c.id \notin Ids(table)
    <3>1. Changed(table, c.id, t, c.done) = {} /\ table' = table
      BY <1>0, <2>1, <2>4, MapSelect DEF Updated, Changed
    <3>2. Map!Took(r, Map!Reply(404, {}))
      BY <1>4, <2>1, <3>1 DEF Found, Reply, Map!Reply
    <3>3. Map!Miss(r)
      BY <1>1, <1>5, <2>1, <2>4, <3>1, <3>2, StoreKept DEF Map!Miss
    <3> QED
      BY <3>3 DEF Map!Effect
  <2> QED
    BY <2>3, <2>4
<1>8. CASE Delete(r)
  <2>1. /\ c.op = "delete" /\ table' = table \ Selected(table, c.id) /\ used' = used
        /\ Took(r, Removed(Selected(table, c.id)))
    BY <1>8 DEF Delete, used
  <2>2. CASE c.id \in Ids(table)
    <3>1. store' = [i \in DOMAIN store \ {c.id} |-> store[i]]
      <4>1. MapOf(table \ Selected(table, c.id))
                = [i \in DOMAIN MapOf(table) \ {c.id} |-> MapOf(table)[i]]
        BY ONLY <1>0, MapDelete
      <4> QED
        BY <1>5, <2>1, <4>1
    <3>2. Selected(table, c.id) # {}
      BY <2>2 DEF Ids, Selected
    <3>3. Map!Took(r, Map!Reply(204, {}))
      BY <1>4, <2>1, <3>2 DEF Removed, Reply, Map!Reply
    <3>4. Map!Delete(r)
      BY <1>1, <1>5, <2>1, <2>2, <3>1, <3>3 DEF Map!Delete
    <3> QED
      BY <3>4 DEF Map!Effect
  <2>3. CASE c.id \notin Ids(table)
    <3>1. Selected(table, c.id) = {} /\ table' = table
      BY <1>0, <2>1, <2>3, MapSelect
    <3>2. Map!Took(r, Map!Reply(404, {}))
      BY <1>4, <2>1, <3>1 DEF Removed, Reply, Map!Reply
    <3>3. Map!Miss(r)
      BY <1>1, <1>5, <2>1, <2>3, <3>1, <3>2, StoreKept DEF Map!Miss
    <3> QED
      BY <3>3 DEF Map!Effect
  <2> QED
    BY <2>2, <2>3
<1>9. CASE Get(r)
  <2>1. /\ c.op = "get" /\ store' = store /\ used' = used
        /\ Took(r, Found(Selected(table, c.id)))
    BY <1>9, StoreKept DEF Get, used
  <2>2. CASE c.id \in Ids(table)
    <3>1. Selected(table, c.id) = {Map!Named(c.id, store[c.id])}
      BY <1>0, <1>5, <2>2, MapSelect
    <3>2. Map!Took(r, Map!Reply(200, {Map!Named(c.id, store[c.id])}))
      BY <1>4, <2>1, <3>1 DEF Found, Reply, Map!Reply
    <3>3. Map!Get(r)
      BY <1>1, <1>5, <2>1, <2>2, <3>2 DEF Map!Get
    <3> QED
      BY <3>3 DEF Map!Effect
  <2>3. CASE c.id \notin Ids(table)
    <3>1. Selected(table, c.id) = {}
      BY <1>0, <2>3, MapSelect
    <3>2. Map!Took(r, Map!Reply(404, {}))
      BY <1>4, <2>1, <3>1 DEF Found, Reply, Map!Reply
    <3>3. Map!Miss(r)
      BY <1>1, <1>5, <2>1, <2>3, <3>2 DEF Map!Miss
    <3> QED
      BY <3>3 DEF Map!Effect
  <2> QED
    BY <2>2, <2>3
<1>10. CASE List(r)
  <2> DEFINE limit == IF c.limit = 0 THEN 20 ELSE c.limit
             page == {Map!Named(i, store[i]) :
                i \in {j \in DOMAIN store : Map!Newer(j) \in c.offset .. c.offset + limit - 1}}
  <2>1. /\ c.op = "list" /\ store' = store /\ used' = used
        /\ Took(r, Reply(200, Page(table, c.limit, c.offset)))
    BY <1>10, StoreKept DEF List, used
  <2>2. PageSize(c.limit) = limit
    BY <2>1, CallParts DEF Valid, PageSize
  <2>3. Page(table, c.limit, c.offset) = page
    <3>1. Page(table, c.limit, c.offset) =
             {Map!Named(i, MapOf(table)[i]) : i \in {j \in Ids(table) :
                Cardinality({k \in Ids(table) : k > j})
                    \in c.offset .. c.offset + PageSize(c.limit) - 1}}
      BY ONLY <1>0, MapPage
    <3>2. \A j : Map!Newer(j) = Cardinality({k \in Ids(table) : k > j})
      <4> TAKE j
      <4>1. {k \in DOMAIN store : k > j} = {k \in Ids(table) : k > j}
        BY ONLY <1>5
      <4> QED
        BY ONLY <4>1 DEF Map!Newer, Map!Cardinality, Cardinality
    <3>3. {j \in Ids(table) : Cardinality({k \in Ids(table) : k > j})
                \in c.offset .. c.offset + PageSize(c.limit) - 1}
            = {j \in DOMAIN store : Map!Newer(j) \in c.offset .. c.offset + limit - 1}
      BY <1>5, <2>2, <3>2
    <3> QED
      BY <1>5, <3>1, <3>3
  <2>4. Map!Took(r, Map!Reply(200, page))
    BY <1>4, <2>1, <2>3 DEF Reply, Map!Reply
  <2>5. Map!List(r)
    BY <1>1, <2>1, <2>4 DEF Map!List
  <2> QED
    BY <2>5 DEF Map!Effect
<1>11. CASE Ping(r)
  <2>1. c.op = "ready" /\ store' = store /\ used' = used /\ Took(r, Reply(200, {}))
    BY <1>11, StoreKept DEF Ping, used
  <2>2. Map!Took(r, Map!Reply(200, {}))
    BY <1>4, <2>1 DEF Reply, Map!Reply
  <2>3. Map!Probe(r)
    BY <1>1, <2>1, <2>2 DEF Map!Probe
  <2> QED
    BY <2>3 DEF Map!Effect
<1> QED
  BY <1>6, <1>7, <1>8, <1>9, <1>10, <1>11 DEF Statement

LEMMA AnswerShown ==
    ASSUME TypeOK, NEW r \in Request, NEW reply, Answer(r, reply),
           step[r] \notin {"none", "answered"}, call' = call
    PROVE  /\ r \in DOMAIN asked /\ r \notin DOMAIN told /\ asked[r] = call[r]
           /\ asked' = asked /\ told' = Map!With(told, r, reply)
<1>1. asked' = asked
  <2>1. (\A q \in Request \ {r} : step'[q] = step[q]) /\ step'[r] = "answered"
    BY DEF TypeOK, Answer
  <2> QED
    BY <2>1, Unseen
<1> QED
  BY <1>1, Shapes, ToldWith

(* A failure, whatever it left of the sequence.                            *)
LEMMA FailureRefines ==
    ASSUME TypeOK, NEW r \in Request, Answer(r, Failure(call[r])),
           step[r] \notin {"none", "answered"}, call' = call,
           table' = table, result' = result, Map!Waste
    PROVE  Map!Fail(r)
<1>1. store' = store /\ took' = took
  BY StoreKept, TookKept
<1> QED
  BY <1>1, AnswerShown DEF Map!Fail, Failure, Reply, Map!Reply

LEMMA NothingWasted == serial' = serial => Map!Waste
BY DEF Map!Waste, used

LEMMA RefinedInit == Init => Map!Init
<1> SUFFICES ASSUME Init PROVE Map!Init
  OBVIOUS
<1>1. store = Map!Empty /\ used = {}
  BY DEF Init, store, used, Ids, Map!Empty
<1>2. asked = Map!Empty /\ took = Map!Empty /\ told = Map!Empty
  BY DEF Init, asked, took, told, Map!Empty
<1> QED
  BY <1>1, <1>2 DEF Map!Init

LEMMA RefinedStep == IInv /\ [Next]_vars => [Map!Next]_(Map!vars)
<1> SUFFICES ASSUME IInv, [Next]_vars PROVE Map!Next \/ UNCHANGED Map!vars
  OBVIOUS
<1>0. TypeOK /\ OnlyValidRun /\ \A r \in Request : step[r] # "none" => call[r] \in Call
  BY DEF IInv, TypeOK, OnlyValidRun
<1>1. ASSUME NEW r \in Request, NEW c \in Call, Ask(r, c) PROVE Map!Ask(r, c)
  <2>1. r \notin DOMAIN asked /\ asked' = Map!With(asked, r, c)
    BY <1>0, <1>1, Shapes, AskedWith DEF Ask
  <2>2. table' = table /\ result' = result /\ used' = used
    BY <1>1 DEF Ask, used
  <2>3. told' = told
    <3>1. {p \in Request : step'[p] = "answered"} = {p \in Request : step[p] = "answered"}
      BY <1>0, <1>1 DEF Ask, TypeOK
    <3> QED
      BY <1>1, <3>1 DEF Ask, told
  <2> QED
    BY <2>1, <2>2, <2>3, StoreKept, TookKept DEF Map!Ask
<1>2. ASSUME NEW r \in Request, Refuse(r) PROVE Map!Tell(r)
  <2>1. /\ Answer(r, Reply(400, {})) /\ step[r] = "asked" /\ ~Valid(call[r])
        /\ call' = call /\ table' = table /\ result' = result /\ used' = used
    BY <1>2 DEF Refuse, used
  <2>2. Map!Refused(call[r])
    BY <1>0, <2>1, RefusalsAgree
  <2> QED
    BY <1>0, <2>1, <2>2, AnswerShown, StoreKept, TookKept DEF Map!Tell, Reply, Map!Reply
<1>3. ASSUME NEW r \in Request, Respond(r) PROVE Map!Tell(r)
  <2>1. /\ Answer(r, result[r]) /\ step[r] = "served" /\ result[r] # NoReply
        /\ call' = call /\ table' = table /\ result' = result /\ used' = used
    BY <1>0, <1>3 DEF Respond, used, OnlyValidRun
  <2>2. r \in DOMAIN took /\ took[r] = result[r]
    BY <2>1, Shapes
  <2> QED
    BY <1>0, <2>1, <2>2, AnswerShown, StoreKept, TookKept DEF Map!Tell
<1>4. ASSUME NEW r \in Request, AcquireFails(r) PROVE Map!Fail(r)
  <2>1. /\ Answer(r, Failure(call[r])) /\ step[r] \notin {"none", "answered"}
        /\ call' = call /\ table' = table /\ result' = result
    BY <1>4 DEF AcquireFails
  <2>2. Map!Waste
    BY <1>4, NothingWasted DEF AcquireFails
  <2> QED
    BY <1>0, <2>1, <2>2, FailureRefines
<1>5. ASSUME NEW r \in Request, ProbeTimeout(r) PROVE Map!Fail(r)
  <2>1. /\ Answer(r, Failure(call[r])) /\ step[r] \notin {"none", "answered"}
        /\ call' = call /\ table' = table /\ result' = result
    BY <1>5 DEF ProbeTimeout
  <2>2. Map!Waste
    BY <1>5, NothingWasted DEF ProbeTimeout
  <2> QED
    BY <1>0, <2>1, <2>2, FailureRefines
<1>6. ASSUME NEW r \in Request, ResponseLost(r) PROVE Map!Fail(r)
  <2>1. /\ Answer(r, Failure(call[r])) /\ step[r] \notin {"none", "answered"}
        /\ call' = call /\ table' = table /\ result' = result
    BY <1>6 DEF ResponseLost
  <2>2. Map!Waste
    BY <1>6, NothingWasted DEF ResponseLost
  <2> QED
    BY <1>0, <2>1, <2>2, FailureRefines
<1>7. ASSUME NEW r \in Request, RunFails(r) PROVE Map!Fail(r)
  <2>1. /\ Answer(r, Failure(call[r])) /\ step[r] \notin {"none", "answered"}
        /\ call' = call /\ table' = table /\ result' = result
    BY <1>7 DEF RunFails, RolledBack
  <2>2. Map!Waste
    BY <1>0, <1>7, RolledBackWastes DEF RunFails
  <2> QED
    BY <1>0, <2>1, <2>2, FailureRefines
<1>8. ASSUME NEW r \in Request, Acquire(r) PROVE UNCHANGED Map!vars
  <2>1. /\ step[r] \notin {"none", "answered"} /\ call' = call /\ answer' = answer
        /\ table' = table /\ result' = result /\ used' = used
    BY <1>8 DEF Acquire, used
  <2>2. (\A q \in Request \ {r} : step'[q] = step[q]) /\ step'[r] \notin {"none", "answered"}
    BY <1>0, <1>8 DEF Acquire, TypeOK
  <2> QED
    BY <1>0, <2>1, <2>2, Unseen, StoreKept, TookKept DEF Map!vars
<1>9. ASSUME NEW r \in Request, Leave(r) PROVE UNCHANGED Map!vars
  <2>1. /\ step[r] \notin {"none", "answered"} /\ call' = call /\ answer' = answer
        /\ table' = table /\ result' = result /\ used' = used
    BY <1>9 DEF Leave, used
  <2>2. (\A q \in Request \ {r} : step'[q] = step[q]) /\ step'[r] \notin {"none", "answered"}
    BY <1>0, <1>9 DEF Leave, TypeOK
  <2> QED
    BY <1>0, <2>1, <2>2, Unseen, StoreKept, TookKept DEF Map!vars
<1>10. ASSUME NEW r \in Request, OrphanDies(r) PROVE Map!Forget
  <2>1. /\ step[r] = "orphan" /\ call' = call /\ answer' = answer
        /\ table' = table /\ result' = result /\ step' = [step EXCEPT ![r] = "gone"]
    BY <1>10 DEF OrphanDies, RolledBack
  <2>2. Map!Waste
    BY <1>0, <1>10, RolledBackWastes DEF OrphanDies
  <2>3. asked' = asked /\ told' = told
    <3>1. (\A q \in Request \ {r} : step'[q] = step[q]) /\ step'[r] \notin {"none", "answered"}
      BY <1>0, <2>1 DEF TypeOK
    <3> QED
      BY <1>0, <2>1, <3>1, Unseen
  <2> QED
    BY <2>1, <2>2, <2>3, StoreKept, TookKept DEF Map!Forget
<1>11. ASSUME NEW r \in Request, Run(r) PROVE Map!Effect(r)
  <2>1. /\ step[r] = "running" /\ Statement(r) /\ call' = call /\ answer' = answer
        /\ step' = [step EXCEPT ![r] = "served"]
    BY <1>11 DEF Run
  <2>2. call[r] \in Call /\ Valid(call[r]) /\ result[r] = NoReply
    BY <1>0, <2>1 DEF OnlyValidRun
  <2>3. asked' = asked /\ told' = told
    <3>1. (\A q \in Request \ {r} : step'[q] = step[q]) /\ step'[r] \notin {"none", "answered"}
      BY <1>0, <2>1 DEF TypeOK
    <3> QED
      BY <1>0, <2>1, <3>1, Unseen
  <2> QED
    BY <2>1, <2>2, <2>3, StatementRefines
<1>12. ASSUME NEW r \in Request, OrphanRuns(r) PROVE Map!Effect(r)
  <2>1. /\ step[r] = "orphan" /\ Statement(r) /\ call' = call /\ answer' = answer
        /\ step' = [step EXCEPT ![r] = "gone"]
    BY <1>12 DEF OrphanRuns
  <2>2. call[r] \in Call /\ Valid(call[r]) /\ result[r] = NoReply
    BY <1>0, <2>1 DEF OnlyValidRun
  <2>3. asked' = asked /\ told' = told
    <3>1. (\A q \in Request \ {r} : step'[q] = step[q]) /\ step'[r] \notin {"none", "answered"}
      BY <1>0, <2>1 DEF TypeOK
    <3> QED
      BY <1>0, <2>1, <3>1, Unseen
  <2> QED
    BY <2>1, <2>2, <2>3, StatementRefines
<1>13. CASE Outage \/ UNCHANGED vars
  BY <1>13 DEF Outage, vars, Map!vars, store, TheRow, used, asked, took, told
<1> QED
  BY <1>1, <1>2, <1>3, <1>4, <1>5, <1>6, <1>7,
     <1>8, <1>9, <1>10, <1>11, <1>12, <1>13 DEF Next, Handle, Map!Next

(* The handlers, the service, the repository and the pool together behave  *)
(* as the map of TaskContract, whatever fails and whoever leaves.          *)
THEOREM Implementation == Spec => Contract
<1>1. Init => Map!Init
  BY RefinedInit
<1>2. IInv /\ [Next]_vars => [Map!Next]_(Map!vars)
  BY RefinedStep
<1> QED
  BY <1>1, <1>2, Invariance, PTL DEF Spec, Safety, Contract, Map!Spec
=============================================================================
