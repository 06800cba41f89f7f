---------------------------- MODULE TaskContract ----------------------------
(***************************************************************************)
(* What the tasks resource promises its clients: a map from ids to tasks,  *)
(* on which every call takes effect at most once, at one instant after it  *)
(* was made, and an answer tells what the map held at that instant. A call *)
(* that was refused has no effect; a call that failed, or whose client     *)
(* left, may have had its effect or may still have it. An id names one     *)
(* task for ever.                                                          *)
(*                                                                         *)
(* Tasks.tla implements this specification (TasksProofs.tla, Contract).    *)
(***************************************************************************)
EXTENDS Integers, FiniteSets

CONSTANTS
    Request,    \* what clients may send, each at most once
    Call,       \* the calls a request may make
    Id          \* the ids the map can give

VARIABLES
    store,      \* the tasks, a function from the ids in use
    used,       \* the ids that were given to a task or given up
    asked,      \* the calls made, a function from the requests that made one
    took,       \* the replies of the calls that took effect
    told        \* what the client was told, of the calls that were answered

vars == <<store, used, asked, took, told>>

With(f, x, y) == [z \in DOMAIN f \cup {x} |-> IF z = x THEN y ELSE f[z]]
Empty == [x \in {} |-> x]

Reply(status, tasks) == [status |-> status, rows |-> tasks]
Named(i, task) == [id |-> i, title |-> task.title, done |-> task.done]
Task(title, done) == [title |-> title, done |-> done]

Init == store = Empty /\ used = {} /\ asked = Empty /\ took = Empty /\ told = Empty

Ask(r, c) ==
    /\ r \notin DOMAIN asked
    /\ asked' = With(asked, r, c)
    /\ UNCHANGED <<store, used, took, told>>

(* A title of nothing but spaces is refused, and so is an id below 1.      *)
Refused(c) ==
    \/ c.op \in {"create", "update"} /\ c.title.text \in {"", "too long"}
    \/ c.op \in {"get", "update", "delete"} /\ c.id < 1
    \/ c.op = "list" /\ (c.limit \notin 0 .. 100 \/ c.offset < 0)

(* One call takes effect: what it does to the map, and what the map says.  *)
May(r) == r \in DOMAIN asked /\ r \notin DOMAIN took /\ ~Refused(asked[r])

Took(r, reply) == took' = With(took, r, reply)

Create(r) ==
    /\ May(r) /\ asked[r].op = "create"
    /\ \E i \in Id \ used : LET task == Task(asked[r].title.text, FALSE) IN
        /\ store' = With(store, i, task)
        /\ used' = used \cup {i}
        /\ Took(r, Reply(201, {Named(i, task)}))

Update(r) == LET c == asked[r] IN
    /\ May(r) /\ c.op = "update" /\ c.id \in DOMAIN store
    /\ LET task == Task(c.title.text, c.done) IN
        /\ store' = With(store, c.id, task)
        /\ Took(r, Reply(200, {Named(c.id, task)}))
    /\ UNCHANGED used

Delete(r) == LET c == asked[r] IN
    /\ May(r) /\ c.op = "delete" /\ c.id \in DOMAIN store
    /\ store' = [i \in DOMAIN store \ {c.id} |-> store[i]]
    /\ Took(r, Reply(204, {}))
    /\ UNCHANGED used

Get(r) == LET c == asked[r] IN
    /\ May(r) /\ c.op = "get" /\ c.id \in DOMAIN store
    /\ Took(r, Reply(200, {Named(c.id, store[c.id])}))
    /\ UNCHANGED <<store, used>>

Miss(r) == LET c == asked[r] IN
    /\ May(r) /\ c.op \in {"get", "update", "delete"} /\ c.id \notin DOMAIN store
    /\ Took(r, Reply(404, {}))
    /\ UNCHANGED <<store, used>>

(* A page holds the tasks that have from offset to offset + limit - 1      *)
(* newer ones.                                                             *)
Newer(i) == Cardinality({j \in DOMAIN store : j > i})

List(r) == LET c == asked[r] limit == IF c.limit = 0 THEN 20 ELSE c.limit IN
    /\ May(r) /\ c.op = "list"
    /\ Took(r, Reply(200, {Named(i, store[i]) :
            i \in {j \in DOMAIN store : Newer(j) \in c.offset .. c.offset + limit - 1}}))
    /\ UNCHANGED <<store, used>>

Probe(r) ==
    /\ May(r) /\ asked[r].op = "ready"
    /\ Took(r, Reply(200, {}))
    /\ UNCHANGED <<store, used>>

Effect(r) == /\ \/ Create(r) \/ Update(r) \/ Delete(r) \/ Get(r)
                \/ Miss(r) \/ List(r) \/ Probe(r)
             /\ UNCHANGED <<asked, told>>

(* The answer: what the map said, a refusal, or a failure.                 *)
Tell(r) ==
    /\ r \in DOMAIN asked /\ r \notin DOMAIN told
    /\ \/ r \in DOMAIN took /\ told' = With(told, r, took[r])
       \/ Refused(asked[r]) /\ told' = With(told, r, Reply(400, {}))
    /\ UNCHANGED <<store, used, asked, took>>

(* An id may be lost to a call that fails.                                 *)
Waste == used' = used \/ \E i \in Id : used' = used \cup {i}

Fail(r) ==
    /\ r \in DOMAIN asked /\ r \notin DOMAIN told
    /\ told' = With(told, r, Reply(IF asked[r].op = "ready" THEN 503 ELSE 500, {}))
    /\ Waste
    /\ UNCHANGED <<store, asked, took>>

(* A call whose client left fails without an answer.                       *)
Forget == Waste /\ UNCHANGED <<store, asked, took, told>>

Next == \/ \E r \in Request :
            \/ \E c \in Call : Ask(r, c)
            \/ Effect(r)
            \/ Tell(r)
            \/ Fail(r)
        \/ Forget

Spec == Init /\ [][Next]_vars
=============================================================================
