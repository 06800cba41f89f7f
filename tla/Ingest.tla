------------------------------- MODULE Ingest -------------------------------
(***************************************************************************)
(* The consumption ingest path: a Pub/Sub push subscription, any number of *)
(* concurrent runs of the HTTP handler (src/internal/httpapi/ingest.go),   *)
(* the consumption service and its streaming parser, the BigQuery default  *)
(* stream, the quarantine bucket and the readings_current view.            *)
(*                                                                         *)
(* A delivery attempt <<m, n>> is the n-th push of message m; each attempt *)
(* is one run of the handler, so two attempts of one message overlap when  *)
(* the ack deadline (60 s) passes before the handler's own limit (120 s).  *)
(* Pub/Sub, BigQuery and Cloud Storage are modelled from how the code and  *)
(* its Terraform use them.                                                 *)
(*                                                                         *)
(* A document is abstracted to what decides its fate: whether its envelope *)
(* can be read, whether a parser is registered for its root element, the   *)
(* batches the parser emits (the reading keys of each, and whether every   *)
(* reading passes Validate), and whether the parser then reaches the end   *)
(* of the document or finds it malformed.                                  *)
(***************************************************************************)
EXTENDS Naturals, Sequences, FiniteSets

CONSTANTS
    Message,        \* messages the source topic may publish
    Key,            \* (metering point, interval start, direction, measure)
    Doc,            \* Doc[m]: the document message m carries
    MaxAttempts,    \* max_delivery_attempts of the subscription
    MaxPublished    \* bound: how many of the messages get published

Document ==
    [body    : {"json", "garbled", "oversize"},
     root    : {"known", "unknown", "none"},
     batches : Seq([keys : SUBSET Key, valid : BOOLEAN]),
     tail    : {"end", "malformed"}]

ASSUME IngestAssumption ==
    /\ MaxAttempts \in Nat \ {0}
    /\ MaxPublished \in Nat
    /\ Doc \in [Message -> Document]

Attempt == Message \X (1 .. MaxAttempts)

VARIABLES
    (* Pub/Sub *)
    sub,        \* state of each message in the subscription
    tries,      \* deliveries of each message so far
    (* one handler run per attempt *)
    pc,         \* where the handler is
    env,        \* "live", "gone": the request context is cancelled,
                \* "term": the process got SIGTERM, the stream context is cancelled
    next,       \* index of the batch being written
    at,         \* ingestedAt, the stamp on every row of this attempt
    why,        \* the permanent error handed to park
    status,     \* the HTTP status answered, 0 before
    clock,      \* the wall clock ingestedAt is read from
    (* stores *)
    inflight,   \* appends sent to BigQuery and not yet applied
    table,      \* appends applied: <<attempt, batch index>>
    quarantine, \* attempts whose payload is an object in the bucket
    logged,     \* attempts that logged "quarantine failed"
    (* history, read by no action *)
    before,     \* before[m]: messages published earlier than m
    calm        \* calm[m]: those of them wholly over when m was published

subVars     == <<sub, tries>>
runVars     == <<pc, env, next, at, why, status, clock>>
storeVars   == <<inflight, table, quarantine, logged>>
historyVars == <<before, calm>>
vars        == <<subVars, runVars, storeVars, historyVars>>

SubState == {"none", "queued", "leased", "acked", "dead"}
Step     == {"idle", "receive", "open", "parse", "await", "park", "reply", "done"}
Env      == {"live", "gone", "term"}
Reason   == {"none", "envelope", "format", "malformed", "invalid", "rejected", "cancelled"}
Status   == {0, 200, 204, 401, 413, 503}

Batches(a) == Doc[a[1]].batches
Parts(m)   == 1 .. Len(Doc[m].batches)
Running(a) == pc[a] \notin {"idle", "done"}
Current(a) == sub[a[1]] = "leased" /\ a[2] = tries[a[1]]
Settled(m) == sub[m] \in {"acked", "dead"}
Over(m)    == Settled(m) /\ \A n \in 1 .. MaxAttempts : ~Running(<<m, n>>)

(* 2xx acknowledges and stops redelivery, anything else schedules a retry. *)
Acknowledges(s) == s \in 200 .. 299

-----------------------------------------------------------------------------
(* How a handler run leaves its current step: with an answer for Pub/Sub,  *)
(* or with a permanent error that is parked first.                         *)

Answer(a, s) ==
    /\ pc' = [pc EXCEPT ![a] = "reply"]
    /\ status' = [status EXCEPT ![a] = s]
    /\ UNCHANGED why

Reject(a, w) ==
    /\ pc' = [pc EXCEPT ![a] = "park"]
    /\ why' = [why EXCEPT ![a] = w]
    /\ UNCHANGED status

(* The run is over, and with it the process state it had.                  *)
Leave(a) ==
    /\ pc' = [pc EXCEPT ![a] = "done"]
    /\ env' = [env EXCEPT ![a] = "live"]
    /\ next' = [next EXCEPT ![a] = 1]
    /\ UNCHANGED <<why, status>>

Goto(a, step) ==
    /\ pc' = [pc EXCEPT ![a] = step]
    /\ UNCHANGED <<why, status>>

(* The errors an append can end in. "retryable" stands for the five gRPC   *)
(* codes classify lists, "rejected" for every other gRPC code. A context   *)
(* that ended, the request's or the stream's, surfaces as the bare context *)
(* error, which carries no gRPC status.                                    *)
AppendError(a) ==
    {"retryable", "rejected"} \cup (IF env[a] = "live" THEN {} ELSE {"cancelled"})

(* status.Code of an error without a gRPC status is Unknown, which is not  *)
(* one of the listed codes.                                                *)
Classify(e) == IF e = "retryable" THEN "transient" ELSE "permanent"

WriteFails(a, e) ==
    IF Classify(e) = "transient" THEN Answer(a, 503) ELSE Reject(a, e)

-----------------------------------------------------------------------------
(* The Pub/Sub subscription.                                               *)

Publish(m) ==
    /\ sub[m] = "none"
    /\ Cardinality({x \in Message : sub[x] # "none"}) < MaxPublished
    /\ sub' = [sub EXCEPT ![m] = "queued"]
    /\ before' = [before EXCEPT ![m] = {x \in Message : sub[x] # "none"}]
    /\ calm' = [calm EXCEPT ![m] = {x \in Message : Over(x)}]
    /\ UNCHANGED <<tries, runVars, storeVars>>

Deliver_NoLimit(m) ==
    /\ sub[m] = "queued"
    /\ sub' = [sub EXCEPT ![m] = "leased"]
    /\ tries' = [tries EXCEPT ![m] = @ + 1]
    /\ pc' = [pc EXCEPT ![<<m, tries[m] + 1>>] = "receive"]
    /\ UNCHANGED <<env, next, at, why, status, clock, storeVars, historyVars>>

Deliver(m) ==
    /\ sub[m] = "queued"
    /\ tries[m] < MaxAttempts
    /\ sub' = [sub EXCEPT ![m] = "leased"]
    /\ tries' = [tries EXCEPT ![m] = @ + 1]
    /\ pc' = [pc EXCEPT ![<<m, tries[m] + 1>>] = "receive"]
    /\ UNCHANGED <<env, next, at, why, status, clock, storeVars, historyVars>>

(* The ack deadline passes with the handler still running, or dead.        *)
Expire(m) ==
    /\ sub[m] = "leased"
    /\ sub' = [sub EXCEPT ![m] = "queued"]
    /\ UNCHANGED <<tries, runVars, storeVars, historyVars>>

DeadLetter_NoPolicy(m) ==
    /\ sub[m] = "queued"
    /\ tries[m] > MaxAttempts
    /\ sub' = [sub EXCEPT ![m] = "dead"]
    /\ UNCHANGED <<tries, runVars, storeVars, historyVars>>

DeadLetter(m) ==
    /\ sub[m] = "queued"
    /\ tries[m] = MaxAttempts
    /\ sub' = [sub EXCEPT ![m] = "dead"]
    /\ UNCHANGED <<tries, runVars, storeVars, historyVars>>

(* The answer reaches Pub/Sub while this attempt holds the lease.          *)
Reply(a) ==
    /\ pc[a] = "reply"
    /\ env[a] # "gone"
    /\ Current(a)
    /\ sub' = [sub EXCEPT ![a[1]] = IF Acknowledges(status[a]) THEN "acked" ELSE "queued"]
    /\ Leave(a)
    /\ UNCHANGED <<tries, at, clock, storeVars, historyVars>>

(* The answer comes after the lease was lost: Pub/Sub may still honour an  *)
(* acknowledgement, or ignore it. A closed connection carries no answer.   *)
ReplyLate(a) ==
    /\ pc[a] = "reply"
    /\ env[a] = "gone" \/ ~Current(a)
    /\ \/ UNCHANGED sub
       \/ /\ env[a] # "gone"
          /\ Acknowledges(status[a])
          /\ sub[a[1]] \in {"queued", "leased"}
          /\ sub' = [sub EXCEPT ![a[1]] = "acked"]
    /\ Leave(a)
    /\ UNCHANGED <<tries, at, clock, storeVars, historyVars>>

-----------------------------------------------------------------------------
(* The handler, ingestHandler.consume.                                     *)

(* The token may fail to verify; the body may be cut short by the network, *)
(* be oversized, be no push envelope, or be one to ingest.                 *)
Receive(a) ==
    /\ pc[a] = "receive"
    /\ \/ Answer(a, 401)
       \/ Answer(a, 503)
       \/ Doc[a[1]].body = "oversize" /\ Answer(a, 413)
       \/ Doc[a[1]].body = "garbled" /\ Reject(a, "envelope")
       \/ Doc[a[1]].body = "json" /\ Goto(a, "open")
    /\ UNCHANGED <<subVars, env, next, at, clock, storeVars, historyVars>>

(* The one ingestedAt that all rows of the run share: the wall clock, which *)
(* moves between any two readings of it.                                   *)
IngestedAt_Delivery(a) == a[2]
IngestedAt(a) == clock + 1

(* Registry.For on the root element, then the stamp.                       *)
RootIs(a, r) == Doc[a[1]].root = r

Open(a) ==
    /\ pc[a] = "open"
    /\ \/ RootIs(a, "none") /\ Reject(a, "malformed") /\ UNCHANGED <<at, clock>>
       \/ RootIs(a, "unknown") /\ Reject(a, "format") /\ UNCHANGED <<at, clock>>
       \/ /\ RootIs(a, "known")
          /\ at' = [at EXCEPT ![a] = IngestedAt(a)]
          /\ clock' = clock + 1
          /\ Goto(a, "parse")
    /\ next' = [next EXCEPT ![a] = 1]
    /\ UNCHANGED <<subVars, env, storeVars, historyVars>>

(* The parser's document loop looks at the request context (EsmpParser).   *)
ParserCancelled(a) ==
    /\ pc[a] = "parse"
    /\ env[a] = "gone"
    /\ Answer(a, 503)
    /\ UNCHANGED <<subVars, env, next, at, clock, storeVars, historyVars>>

(* The parser emits a batch: every reading is validated before any is      *)
(* appended, and AppendRows either sends the rows or fails.                *)
MayEmit(a) == pc[a] = "parse" /\ next[a] <= Len(Batches(a))

BatchValid_Unchecked(a) == TRUE
BatchValid_WholeDocument(a) == \A p \in Parts(a[1]) : Batches(a)[p].valid
BatchValid(a) == Batches(a)[next[a]].valid

EmitBatch(a) ==
    /\ MayEmit(a)
    /\ \/ /\ ~BatchValid(a)
          /\ Reject(a, "invalid")
          /\ UNCHANGED inflight
       \/ /\ BatchValid(a)
          /\ inflight' = inflight \cup {<<a, next[a]>>}
          /\ Goto(a, "await")
       \/ /\ BatchValid(a)
          /\ \E e \in AppendError(a) : WriteFails(a, e)
          /\ UNCHANGED inflight
    /\ UNCHANGED <<subVars, env, next, at, clock, table, quarantine, logged, historyVars>>

(* GetResult: BigQuery has accepted the rows, or the wait ends in an error *)
(* that need not say whether they were, or will be, applied.               *)
Accepted_Unawaited(a) == TRUE
Accepted(a) == <<a, next[a]>> \in table

AwaitResult_NoError(a) ==
    /\ pc[a] = "await"
    /\ Accepted(a)
    /\ Goto(a, "parse")
    /\ next' = [next EXCEPT ![a] = @ + 1]
    /\ UNCHANGED <<subVars, env, at, clock, storeVars, historyVars>>

AwaitResult(a) ==
    /\ pc[a] = "await"
    /\ \/ /\ Accepted(a)
          /\ Goto(a, "parse")
          /\ next' = [next EXCEPT ![a] = @ + 1]
          /\ UNCHANGED inflight
       \/ \E e \in AppendError(a) :
             /\ WriteFails(a, e)
             /\ inflight' = IF e = "rejected" THEN inflight \ {<<a, next[a]>>} ELSE inflight
             /\ UNCHANGED next
    /\ UNCHANGED <<subVars, env, at, clock, table, quarantine, logged, historyVars>>

(* The parser has emitted its last batch.                                  *)
FinishParse_IgnoresTail(a) ==
    /\ pc[a] = "parse"
    /\ next[a] > Len(Batches(a))
    /\ Answer(a, 204)
    /\ UNCHANGED <<subVars, env, next, at, clock, storeVars, historyVars>>

FinishParse(a) ==
    /\ pc[a] = "parse"
    /\ next[a] > Len(Batches(a))
    /\ \/ Doc[a[1]].tail = "end" /\ Answer(a, 204)
       \/ Doc[a[1]].tail = "malformed" /\ Reject(a, "malformed")
    /\ UNCHANGED <<subVars, env, next, at, clock, storeVars, historyVars>>

(* Quarantine: one object per call, named by the instant and the message   *)
(* id. An error does not say that the object was not written; a call made  *)
(* with a context that has ended never succeeds.                           *)
QuarantineOK(a) ==
    /\ env[a] # "gone"
    /\ quarantine' = quarantine \cup {a}

QuarantineFails(a) == quarantine' \in {quarantine, quarantine \cup {a}}

(* park: a failure to quarantine is logged, and the message is             *)
(* acknowledged either way.                                                *)
Park_SilentFailure(a) ==
    /\ pc[a] = "park"
    /\ QuarantineOK(a) \/ QuarantineFails(a)
    /\ Answer(a, 200)
    /\ UNCHANGED <<logged, subVars, env, next, at, clock, inflight, table, historyVars>>

Park(a) ==
    /\ pc[a] = "park"
    /\ \/ QuarantineOK(a) /\ UNCHANGED logged
       \/ QuarantineFails(a) /\ logged' = logged \cup {a}
    /\ Answer(a, 200)
    /\ UNCHANGED <<subVars, env, next, at, clock, inflight, table, historyVars>>

-----------------------------------------------------------------------------
(* The environment of a run.                                               *)

(* BigQuery applies an append it has received, whatever became of the run  *)
(* that sent it.                                                           *)
Commit(i) ==
    /\ inflight' = inflight \ {i}
    /\ table' = table \cup {i}
    /\ UNCHANGED <<subVars, runVars, quarantine, logged, historyVars>>

(* The process dies; an answer it was about to give is lost with it.       *)
Crash(a) ==
    /\ Running(a)
    /\ Leave(a)
    /\ UNCHANGED <<subVars, at, clock, storeVars, historyVars>>

(* SIGTERM cancels the context the stream was opened with, while the       *)
(* server keeps draining the request.                                      *)
Sigterm(a) ==
    /\ Running(a)
    /\ env[a] = "live"
    /\ env' = [env EXCEPT ![a] = "term"]
    /\ UNCHANGED <<subVars, pc, next, at, why, status, clock, storeVars, historyVars>>

(* The push connection closes: the request context ends, and Pub/Sub, if   *)
(* it was still waiting for this answer, takes the push as failed.         *)
Disconnect(a) ==
    /\ Running(a)
    /\ env[a] # "gone"
    /\ env' = [env EXCEPT ![a] = "gone"]
    /\ sub' = IF Current(a) THEN [sub EXCEPT ![a[1]] = "queued"] ELSE sub
    /\ UNCHANGED <<tries, pc, next, at, why, status, clock, storeVars, historyVars>>

Quiescent ==
    /\ \A m \in Message : sub[m] = "none" \/ Over(m)
    /\ inflight = {}
    /\ UNCHANGED vars

-----------------------------------------------------------------------------
Init ==
    /\ sub = [m \in Message |-> "none"]
    /\ tries = [m \in Message |-> 0]
    /\ pc = [a \in Attempt |-> "idle"]
    /\ env = [a \in Attempt |-> "live"]
    /\ next = [a \in Attempt |-> 1]
    /\ at = [a \in Attempt |-> 0]
    /\ why = [a \in Attempt |-> "none"]
    /\ status = [a \in Attempt |-> 0]
    /\ clock = 0
    /\ inflight = {}
    /\ table = {}
    /\ quarantine = {}
    /\ logged = {}
    /\ before = [m \in Message |-> {}]
    /\ calm = [m \in Message |-> {}]

(* One step of the handler's own code.                                     *)
Handle(a) ==
    \/ Receive(a)
    \/ Open(a)
    \/ ParserCancelled(a)
    \/ EmitBatch(a)
    \/ AwaitResult(a)
    \/ FinishParse(a)
    \/ Park(a)
    \/ Reply(a)
    \/ ReplyLate(a)

Next ==
    \/ \E m \in Message : Publish(m) \/ Deliver(m) \/ Expire(m) \/ DeadLetter(m)
    \/ \E a \in Attempt : Handle(a)
    \/ \E a \in Attempt : Crash(a) \/ Sigterm(a) \/ Disconnect(a)
    \/ \E i \in inflight : Commit(i)
    \/ Quiescent

Spec == Init /\ [][Next]_vars

(* The handler keeps running (Cloud Run ends a request after 180 s, so no  *)
(* wait in it is endless), and Pub/Sub keeps delivering, expiring leases   *)
(* and dead-lettering. Nothing is assumed about the publisher, BigQuery's  *)
(* commits or the faults.                                                  *)
Fairness ==
    /\ \A a \in Attempt : WF_vars(Handle(a))
    /\ \A m \in Message :
        WF_vars(Deliver(m)) /\ WF_vars(Expire(m)) /\ WF_vars(DeadLetter(m))

LiveSpec == Spec /\ Fairness

-----------------------------------------------------------------------------
(* The readings_current view: the appends that hold a row of key k, and    *)
(* those of them ROW_NUMBER() may put first.                               *)

Holds(i, k) == k \in Batches(i[1])[i[2]].keys
Rows(k)     == {i \in table : Holds(i, k)}
Serving(k)  == {i \in Rows(k) : \A j \in Rows(k) : at[j[1]] <= at[i[1]]}

StoredBy(a)  == \A p \in Parts(a[1]) : <<a, p>> \in table
Durable(m)   == \E n \in 1 .. MaxAttempts : StoredBy(<<m, n>>)
AnsweredStored(m) == \E n \in 1 .. MaxAttempts : status[<<m, n>>] = 204
Evidence(m)  == \E n \in 1 .. MaxAttempts : <<m, n>> \in quarantine \cup logged
Storable(m)  == {p \in Parts(m) : \A q \in 1 .. p : Doc[m].batches[q].valid}
SoundDoc(m)  ==
    /\ Doc[m].body = "json"
    /\ Doc[m].root = "known"
    /\ Doc[m].tail = "end"
    /\ Storable(m) = Parts(m)

-----------------------------------------------------------------------------
TypeOK ==
    /\ sub \in [Message -> SubState]
    /\ tries \in [Message -> 0 .. MaxAttempts]
    /\ pc \in [Attempt -> Step]
    /\ env \in [Attempt -> Env]
    /\ next \in [Attempt -> Nat \ {0}]
    /\ at \in [Attempt -> Nat]
    /\ why \in [Attempt -> Reason]
    /\ status \in [Attempt -> Status]
    /\ clock \in Nat
    /\ inflight \subseteq Attempt \X Nat
    /\ table \subseteq Attempt \X Nat
    /\ quarantine \subseteq Attempt
    /\ logged \subseteq Attempt
    /\ before \in [Message -> SUBSET Message]
    /\ calm \in [Message -> SUBSET Message]

(* No acknowledged message is gone without a trace: whatever was lost,     *)
(* repeated, cancelled or late, a message Pub/Sub will never deliver again *)
(* is durable in full, or is in quarantine, or its loss was logged         *)
(* (ingest.go:58-63 and 140-142).                                          *)
AckedIsAccountedFor ==
    \A m \in Message : sub[m] = "acked" => (SoundDoc(m) /\ Durable(m)) \/ Evidence(m)

(* 204 means stored: an attempt that answered "stored" has every batch of  *)
(* its document in the table under its own stamp, and the document has no  *)
(* defect (sink.go:87-88).                                                 *)
StoredAnswerIsDurable ==
    \A a \in Attempt : status[a] = 204 => SoundDoc(a[1]) /\ StoredBy(a)

(* The table holds prefixes of documents only: a batch is sent after every *)
(* earlier batch of the same run is durable, and neither a batch with an   *)
(* invalid reading nor anything after it is ever sent, even with appends   *)
(* that land after their run has failed or died (service.go:48-64).        *)
OnlyDurablePrefixes ==
    \A i \in table \cup inflight :
        /\ i[2] \in Storable(i[1][1])
        /\ \A q \in 1 .. i[2] - 1 : <<i[1], q>> \in table

(* What is parked because of its content has already been stored up to the *)
(* defect: the readings_current view then serves part of a document whose  *)
(* file is in quarantine, and re-publishing the file repeats that part.    *)
ParkedDocumentIsTorn ==
    \A a \in quarantine \cup logged :
        (why[a] = "invalid" \/ (why[a] = "malformed" /\ Doc[a[1]].root = "known"))
            => \A p \in Storable(a[1]) : <<a, p>> \in table

(* The inductive invariant behind the four invariants above, in parts:     *)
(* deliveries use attempt numbers in order, of published messages only; an *)
(* answer is given once, at the end of a run; the batches before the one   *)
(* being written are durable; a parked attempt left its trace; and Pub/Sub *)
(* only takes a message as acknowledged on a 2xx some attempt answered.    *)
FreshAttempts ==
    \A m \in Message : \A n \in 1 .. MaxAttempts :
        n > tries[m] => pc[<<m, n>>] = "idle"

AnswersOnce ==
    \A a \in Attempt :
        /\ status[a] # 0 => pc[a] \in {"reply", "done"}
        /\ a \in quarantine \cup logged => pc[a] \in {"reply", "done"}

WritesInOrder ==
    \A a \in Attempt :
        /\ pc[a] \in {"open", "parse", "await"} => Doc[a[1]].body = "json"
        /\ pc[a] \in {"parse", "await"} =>
              /\ RootIs(a, "known")
              /\ \A q \in 1 .. next[a] - 1 : q \in Parts(a[1]) /\ <<a, q>> \in table
        /\ pc[a] = "await" => next[a] \in Storable(a[1])

NoEarlyWork ==
    /\ \A m \in Message : sub[m] = "none" => tries[m] = 0
    /\ \A i \in inflight : pc[i[1]] # "idle"

TornWhenParked ==
    \A a \in Attempt :
        pc[a] = "park" /\ (why[a] = "invalid" \/ (why[a] = "malformed" /\ RootIs(a, "known")))
            => \A p \in Storable(a[1]) : <<a, p>> \in table

ParkLeavesTrace ==
    \A a \in Attempt : status[a] = 200 => a \in quarantine \cup logged

AckedOnAnswer ==
    \A m \in Message : sub[m] = "acked" =>
        \E n \in 1 .. MaxAttempts : Acknowledges(status[<<m, n>>])

IInv ==
    /\ TypeOK
    /\ FreshAttempts
    /\ AnswersOnce
    /\ NoEarlyWork
    /\ WritesInOrder
    /\ TornWhenParked
    /\ ParkLeavesTrace
    /\ AckedOnAnswer
    /\ OnlyDurablePrefixes
    /\ StoredAnswerIsDurable
    /\ ParkedDocumentIsTorn

(* A correction published once everything before it was over (settled, and *)
(* no run of it left) is what the view serves for the keys it carries.     *)
QuietCorrectionWins ==
    \A y \in Message : \A x \in calm[y] : \A k \in Key :
        (\E i \in Rows(k) : i[1][1] = y) => \A i \in Serving(k) : i[1][1] # x

(* The comment on the view (warehouse/main.tf:42): a later correction wins *)
(* because it was ingested later. Violated: a redelivered older message is *)
(* the one ingested later.                                                 *)
LaterCorrectionWins ==
    \A y \in Message : \A x \in before[y] : \A k \in Key :
        (AnsweredStored(x) /\ AnsweredStored(y) /\ \E i \in Rows(k) : i[1][1] = y)
            => \A i \in Serving(k) : i[1][1] # x

(* The comment on classify (sink.go:155-157): an append cancelled because  *)
(* its context ended must be retried, not treated as permanent. Violated:  *)
(* the bare context error is parked and acknowledged.                      *)
CancelledAppendIsRetried ==
    \A m \in Message : sub[m] = "acked" =>
        \/ AnsweredStored(m)
        \/ \E a \in quarantine \cup logged : a[1] = m /\ why[a] # "cancelled"

(* Every message Pub/Sub took is in the end acknowledged or dead-lettered, *)
(* whatever crashes, and however long BigQuery keeps an append.            *)
EverySettles == \A m \in Message : sub[m] = "queued" ~> Settled(m)

(* Every run of the handler ends: no answer of a store, or lack of one,    *)
(* leaves a request open for good.                                         *)
EveryRunEnds == \A a \in Attempt : pc[a] = "receive" ~> pc[a] = "done"

(* The refinement mapping: a message is owed from its publication to its   *)
(* settlement, and only rows of the table count as durable.                *)
Fate == [m \in Message |->
            IF sub[m] = "none" THEN "absent"
            ELSE IF sub[m] \in {"queued", "leased"} THEN "owed" ELSE sub[m]]
DurableParts == {<<i[1][1], i[2]>> : i \in table}
Traced == {a[1] : a \in quarantine \cup logged}
Portions == [m \in Message |-> Storable(m)]
SoundDocs == {m \in Message : SoundDoc(m)}

Contract == INSTANCE DeliveryContract WITH
    Sound <- SoundDocs, fate <- Fate, durable <- DurableParts, evidence <- Traced

(* Seen from outside, the ingest path only ever does what the contract     *)
(* allows: batches land front to back, and an acknowledgement is given for *)
(* a whole document or for one that left a trace (ingest.go:58-63).        *)
ImplementsContract == Contract!Spec
=============================================================================
