---------------------------- MODULE IngestProofs ----------------------------
(***************************************************************************)
(* Proofs about Ingest for every set of messages, every assignment of      *)
(* documents to them and every limit on delivery attempts.                 *)
(***************************************************************************)
EXTENDS Ingest, TLAPS

USE IngestAssumption

(* An attempt is a message and a number within the limit.                  *)
LEMMA AttemptParts ==
    ASSUME NEW a \in Attempt
    PROVE  /\ a[1] \in Message
           /\ a[2] \in 1 .. MaxAttempts
           /\ a = <<a[1], a[2]>>
  BY DEF Attempt

LEMMA SeqElement ==
    ASSUME NEW S, NEW s \in Seq(S), NEW p \in 1 .. Len(s)
    PROVE  s[p] \in S
  OBVIOUS

(* The batches of a document are a sequence, so their indexes are numbers. *)
LEMMA DocTyped ==
    ASSUME NEW m \in Message
    PROVE  /\ Len(Doc[m].batches) \in Nat
           /\ Parts(m) \subseteq Nat \ {0}
           /\ \A p \in Parts(m) : Doc[m].batches[p].valid \in BOOLEAN
  <1>1. Doc[m] \in Document
    OBVIOUS
  <1>2. Doc[m].batches \in Seq([keys : SUBSET Key, valid : BOOLEAN])
    BY <1>1 DEF Document
  <1>3. Len(Doc[m].batches) \in Nat
    BY <1>2
  <1>4. \A p \in 1 .. Len(Doc[m].batches) :
            Doc[m].batches[p] \in [keys : SUBSET Key, valid : BOOLEAN]
    BY <1>2, SeqElement
  <1> QED
    BY <1>3, <1>4 DEF Parts

-----------------------------------------------------------------------------
(* Type correctness.                                                       *)

LEMMA TypeInit == Init => TypeOK
  BY DEF Init, TypeOK, SubState, Step, Env, Reason, Status

(* The three ways a run leaves its step keep the types.                    *)
LEMMA TypeMoves ==
    ASSUME TypeOK, NEW a \in Attempt
    PROVE  /\ \A s \in Status : Answer(a, s) =>
                  /\ pc' \in [Attempt -> Step]
                  /\ why' \in [Attempt -> Reason]
                  /\ status' \in [Attempt -> Status]
           /\ \A w \in Reason : Reject(a, w) =>
                  /\ pc' \in [Attempt -> Step]
                  /\ why' \in [Attempt -> Reason]
                  /\ status' \in [Attempt -> Status]
           /\ \A s \in Step : Goto(a, s) =>
                  /\ pc' \in [Attempt -> Step]
                  /\ why' \in [Attempt -> Reason]
                  /\ status' \in [Attempt -> Status]
  BY DEF TypeOK, Answer, Reject, Goto, Step

LEMMA TypeWriteFails ==
    ASSUME TypeOK, NEW a \in Attempt, NEW e \in AppendError(a), WriteFails(a, e)
    PROVE  /\ pc' \in [Attempt -> Step]
           /\ why' \in [Attempt -> Reason]
           /\ status' \in [Attempt -> Status]
  <1>1. CASE Classify(e) = "transient"
    <2>1. Answer(a, 503) /\ 503 \in Status
      BY <1>1 DEF WriteFails, Status
    <2> QED
      BY <2>1, TypeMoves
  <1>2. CASE Classify(e) # "transient"
    <2>1. Reject(a, e) /\ e \in Reason
      BY <1>2 DEF WriteFails, AppendError, Classify, Reason
    <2> QED
      BY <2>1, TypeMoves
  <1> QED
    BY <1>1, <1>2

(* What the service, the stores and the subscription do to the types.      *)
LEMMA TypeNext == TypeOK /\ [Next]_vars => TypeOK'
  <1> SUFFICES ASSUME TypeOK, [Next]_vars PROVE TypeOK'
    OBVIOUS
  <1> USE DEF SubState, Env
  <1>1. ASSUME NEW m \in Message, Publish(m) PROVE TypeOK'
    BY <1>1 DEF Publish, TypeOK, runVars, storeVars
  <1>2. ASSUME NEW m \in Message, Deliver(m) PROVE TypeOK'
    <2>1. pc' \in [Attempt -> Step]
      BY <1>2 DEF Deliver, TypeOK, Step
    <2>2. tries' \in [Message -> 0 .. MaxAttempts]
      <3>1. tries[m] + 1 \in 0 .. MaxAttempts
        BY <1>2 DEF Deliver, TypeOK
      <3> QED
        BY <1>2, <3>1 DEF Deliver, TypeOK
    <2>3. sub' \in [Message -> SubState]
      BY <1>2 DEF Deliver, TypeOK
    <2> QED
      BY <1>2, <2>1, <2>2, <2>3 DEF Deliver, TypeOK, storeVars, historyVars
  <1>3. ASSUME NEW m \in Message, Expire(m) \/ DeadLetter(m) PROVE TypeOK'
    BY <1>3 DEF Expire, DeadLetter, TypeOK, runVars, storeVars, historyVars
  <1>4. ASSUME NEW a \in Attempt, Receive(a) PROVE TypeOK'
    <2>1. /\ pc' \in [Attempt -> Step]
          /\ why' \in [Attempt -> Reason]
          /\ status' \in [Attempt -> Status]
      BY <1>4, TypeMoves DEF Receive, Status, Reason, Step
    <2> QED
      BY <1>4, <2>1 DEF Receive, TypeOK, subVars, storeVars, historyVars
  <1>5. ASSUME NEW a \in Attempt, Open(a) PROVE TypeOK'
    <2>1. /\ pc' \in [Attempt -> Step]
          /\ why' \in [Attempt -> Reason]
          /\ status' \in [Attempt -> Status]
      BY <1>5, TypeMoves DEF Open, Reason, Step
    <2>2. clock' \in Nat /\ at' \in [Attempt -> Nat]
      BY <1>5 DEF Open, IngestedAt, TypeOK
    <2>3. next' \in [Attempt -> Nat \ {0}]
      BY <1>5 DEF Open, TypeOK
    <2> QED
      BY <1>5, <2>1, <2>2, <2>3 DEF Open, TypeOK, subVars, storeVars, historyVars
  <1>6. ASSUME NEW a \in Attempt, ParserCancelled(a) PROVE TypeOK'
    <2>1. /\ pc' \in [Attempt -> Step]
          /\ why' \in [Attempt -> Reason]
          /\ status' \in [Attempt -> Status]
      BY <1>6, TypeMoves DEF ParserCancelled, Status
    <2> QED
      BY <1>6, <2>1 DEF ParserCancelled, TypeOK, subVars, storeVars, historyVars
  <1>7. ASSUME NEW a \in Attempt, EmitBatch(a) PROVE TypeOK'
    <2>1. /\ pc' \in [Attempt -> Step]
          /\ why' \in [Attempt -> Reason]
          /\ status' \in [Attempt -> Status]
      BY <1>7, TypeMoves, TypeWriteFails DEF EmitBatch, Reason, Step
    <2> QED
      BY <1>7, <2>1 DEF EmitBatch, TypeOK, subVars, historyVars
  <1>8. ASSUME NEW a \in Attempt, AwaitResult(a) PROVE TypeOK'
    <2>1. /\ pc' \in [Attempt -> Step]
          /\ why' \in [Attempt -> Reason]
          /\ status' \in [Attempt -> Status]
      BY <1>8, TypeMoves, TypeWriteFails DEF AwaitResult, Step
    <2> QED
      BY <1>8, <2>1 DEF AwaitResult, TypeOK, subVars, historyVars
  <1>9. ASSUME NEW a \in Attempt, FinishParse(a) PROVE TypeOK'
    <2>1. /\ pc' \in [Attempt -> Step]
          /\ why' \in [Attempt -> Reason]
          /\ status' \in [Attempt -> Status]
      BY <1>9, TypeMoves DEF FinishParse, Status, Reason
    <2> QED
      BY <1>9, <2>1 DEF FinishParse, TypeOK, subVars, storeVars, historyVars
  <1>10. ASSUME NEW a \in Attempt, Park(a) PROVE TypeOK'
    <2>1. /\ pc' \in [Attempt -> Step]
          /\ why' \in [Attempt -> Reason]
          /\ status' \in [Attempt -> Status]
      BY <1>10, TypeMoves DEF Park, Status
    <2> QED
      BY <1>10, <2>1 DEF Park, QuarantineOK, QuarantineFails, TypeOK, subVars, historyVars
  <1>11. ASSUME NEW a \in Attempt, Reply(a) \/ ReplyLate(a) PROVE TypeOK'
    <2>1. sub' \in [Message -> SubState]
      <3>1. sub \in [Message -> SubState] /\ a[1] \in Message
        BY AttemptParts DEF TypeOK
      <3>2. CASE Reply(a)
        BY <3>1, <3>2 DEF Reply, SubState
      <3>3. CASE ReplyLate(a)
        BY <3>1, <3>3 DEF ReplyLate, SubState
      <3> QED
        BY <1>11, <3>2, <3>3
    <2>2. /\ pc' \in [Attempt -> Step]
          /\ env' \in [Attempt -> Env]
          /\ next' \in [Attempt -> Nat \ {0}]
      BY <1>11 DEF Reply, ReplyLate, Leave, TypeOK, Step
    <2> QED
      BY <1>11, <2>1, <2>2 DEF Reply, ReplyLate, Leave, TypeOK, storeVars, historyVars
  <1>12. ASSUME NEW a \in Attempt, Crash(a) PROVE TypeOK'
    BY <1>12 DEF Crash, Leave, TypeOK, Step, subVars, storeVars, historyVars
  <1>13. ASSUME NEW a \in Attempt, Sigterm(a) \/ Disconnect(a) PROVE TypeOK'
    BY <1>13, AttemptParts DEF Sigterm, Disconnect, TypeOK, subVars, storeVars, historyVars
  <1>14. ASSUME NEW i \in inflight, Commit(i) PROVE TypeOK'
    BY <1>14 DEF Commit, TypeOK, subVars, runVars, historyVars
  <1>15. ASSUME UNCHANGED vars PROVE TypeOK'
    BY <1>15 DEF vars, subVars, runVars, storeVars, historyVars, TypeOK
  <1> QED
    BY <1>1, <1>2, <1>3, <1>4, <1>5, <1>6, <1>7, <1>8, <1>9, <1>10, <1>11,
       <1>12, <1>13, <1>14, <1>15 DEF Next, Handle, Quiescent

(* Every reachable state of the ingest path has the declared types: no     *)
(* handler reaches a step, an answer or a reason outside the code's own.   *)
THEOREM TypeCorrect == Spec => []TypeOK
  BY TypeInit, TypeNext, PTL DEF Spec

-----------------------------------------------------------------------------
(* The inductive invariant. First, what a step of one run leaves alone.    *)

(* A run that has started keeps its attempt number used.                   *)
LEMMA KeepsFresh ==
    ASSUME IInv, NEW a \in Attempt, pc[a] # "idle", NEW s,
           pc' = [pc EXCEPT ![a] = s], tries' = tries
    PROVE  FreshAttempts'
  <1> SUFFICES ASSUME NEW m \in Message, NEW n \in 1 .. MaxAttempts, n > tries[m]
               PROVE  pc'[<<m, n>>] = "idle"
    BY DEF FreshAttempts
  <1>1. pc[<<m, n>>] = "idle" /\ <<m, n>> \in Attempt
    BY DEF IInv, FreshAttempts, Attempt
  <1> QED
    BY <1>1 DEF IInv, TypeOK

(* An acknowledgement rests on an answer, and a run answers only once.     *)
LEMMA KeepsAcked ==
    ASSUME IInv, NEW a \in Attempt, pc[a] \notin {"reply", "done"}, sub' = sub,
           NEW s, status' = status \/ status' = [status EXCEPT ![a] = s]
    PROVE  AckedOnAnswer'
  <1> SUFFICES ASSUME NEW m \in Message, sub[m] = "acked"
               PROVE  \E n \in 1 .. MaxAttempts : Acknowledges(status'[<<m, n>>])
    BY DEF AckedOnAnswer, Acknowledges
  <1>1. PICK n \in 1 .. MaxAttempts : Acknowledges(status[<<m, n>>])
    BY DEF IInv, AckedOnAnswer
  <1>2. <<m, n>> \in Attempt /\ status[<<m, n>>] # 0
    BY <1>1 DEF Attempt, Acknowledges
  <1>3. <<m, n>> # a
    BY <1>2 DEF IInv, AnswersOnce
  <1>4. status'[<<m, n>>] = status[<<m, n>>]
    BY <1>2, <1>3 DEF IInv, TypeOK
  <1> QED
    BY <1>1, <1>4

(* What a run in progress does leaves the attempts already parked alone.   *)
LEMMA KeepsParked ==
    ASSUME IInv, NEW a \in Attempt, pc[a] \notin {"reply", "done"},
           NEW w, why' \in {why, [why EXCEPT ![a] = w]},
           table \subseteq table', UNCHANGED <<quarantine, logged>>
    PROVE  ParkedDocumentIsTorn'
  <1> SUFFICES ASSUME NEW b \in quarantine \cup logged,
                      why'[b] = "invalid" \/ (why'[b] = "malformed" /\ RootIs(b, "known"))
               PROVE  \A p \in Storable(b[1]) : <<b, p>> \in table'
    BY DEF ParkedDocumentIsTorn, RootIs
  <1>1. b \in Attempt /\ b # a
    BY DEF IInv, TypeOK, AnswersOnce
  <1>2. why'[b] = why[b]
    BY <1>1 DEF IInv, TypeOK
  <1> QED
    BY <1>2 DEF IInv, ParkedDocumentIsTorn, RootIs

(* What a run in the parser knows of its document: the batches so far are  *)
(* a storable prefix, so a defect leaves exactly that prefix in the table, *)
(* and the end of the document leaves all of it there.                     *)
LEMMA StorablePrefix ==
    ASSUME IInv, NEW a \in Attempt, pc[a] = "parse"
    PROVE  /\ next[a] \in Nat \ {0}
           /\ \A q \in 1 .. next[a] - 1 : q \in Storable(a[1]) /\ <<a, q>> \in table
  <1>1. \A q \in 1 .. next[a] - 1 : <<a, q>> \in table
    BY DEF IInv, WritesInOrder
  <1>2. ASSUME NEW q \in 1 .. next[a] - 1 PROVE q \in Storable(a[1])
    <2> DEFINE i == <<a, q>>
    <2>1. i \in table \cup inflight
      BY <1>1
    <2>2. i[2] \in Storable(i[1][1])
      BY <2>1 DEF IInv, OnlyDurablePrefixes
    <2> QED
      BY <2>2
  <1> QED
    BY <1>1, <1>2 DEF IInv, TypeOK

LEMMA NextStorable ==
    ASSUME IInv, NEW a \in Attempt, MayEmit(a), BatchValid(a)
    PROVE  next[a] \in Storable(a[1])
  <1>1. next[a] \in Parts(a[1])
    BY StorablePrefix, DocTyped, AttemptParts DEF MayEmit, Batches, Parts
  <1>2. \A q \in 1 .. next[a] : Doc[a[1]].batches[q].valid
    <2> SUFFICES ASSUME NEW q \in 1 .. next[a] PROVE Doc[a[1]].batches[q].valid
      OBVIOUS
    <2>1. CASE q = next[a]
      BY <2>1 DEF BatchValid, Batches
    <2>2. CASE q # next[a]
      <3>1. q \in 1 .. next[a] - 1 /\ q \in 1 .. q
        BY <2>2, StorablePrefix DEF MayEmit
      <3>2. q \in Storable(a[1])
        BY <3>1, StorablePrefix DEF MayEmit
      <3> QED
        BY <3>1, <3>2 DEF Storable
    <2> QED
      BY <2>1, <2>2
  <1> QED
    BY <1>1, <1>2 DEF Storable

LEMMA DefectStored ==
    ASSUME IInv, NEW a \in Attempt, MayEmit(a), ~BatchValid(a)
    PROVE  \A p \in Storable(a[1]) : <<a, p>> \in table
  <1> SUFFICES ASSUME NEW p \in Storable(a[1]) PROVE <<a, p>> \in table
    OBVIOUS
  <1>1. p \in Nat \ {0} /\ next[a] \in Nat \ {0}
    BY DocTyped, AttemptParts, StorablePrefix DEF Storable, MayEmit
  <1>2. next[a] \notin 1 .. p
    BY DEF Storable, BatchValid, Batches
  <1>3. p \in 1 .. next[a] - 1
    BY <1>1, <1>2
  <1> QED
    BY <1>3, StorablePrefix DEF MayEmit

LEMMA EndStored ==
    ASSUME IInv, NEW a \in Attempt, pc[a] = "parse", next[a] > Len(Batches(a))
    PROVE  /\ Storable(a[1]) = Parts(a[1])
           /\ StoredBy(a)
           /\ \A p \in Storable(a[1]) : <<a, p>> \in table
  <1>1. Parts(a[1]) \subseteq 1 .. next[a] - 1
    BY StorablePrefix, DocTyped, AttemptParts DEF Parts, Batches
  <1>2. Storable(a[1]) \subseteq Parts(a[1])
    BY DEF Storable
  <1> QED
    BY <1>1, <1>2, StorablePrefix DEF StoredBy

(* A failed write answers 503, or parks with an error of the sink.         *)
LEMMA FailedWrite ==
    ASSUME NEW a, NEW e \in AppendError(a), WriteFails(a, e)
    PROVE  Answer(a, 503) \/ \E w \in {"rejected", "cancelled"} : Reject(a, w)
  BY DEF WriteFails, AppendError, Classify

(* A push that is refused, parked or taken up writes nothing.              *)
LEMMA ReceiveKeeps == ASSUME IInv, NEW a \in Attempt, Receive(a) PROVE IInv'
  <1>1. TypeOK'
    BY TypeNext DEF IInv, Next, Handle
  <1>2. FreshAttempts'
    BY KeepsFresh DEF Receive, Answer, Reject, Goto, subVars, storeVars,
       historyVars
  <1>3. AnswersOnce'
    BY DEF Receive, Answer, Reject, Goto, IInv, TypeOK, AnswersOnce, subVars,
       storeVars, historyVars
  <1>4. NoEarlyWork'
    BY DEF Receive, Answer, Reject, Goto, IInv, TypeOK, NoEarlyWork, subVars,
       storeVars, historyVars
  <1>5. WritesInOrder'
    BY DEF Receive, Answer, Reject, Goto, IInv, TypeOK, WritesInOrder, RootIs,
       subVars, storeVars, historyVars
  <1>6. TornWhenParked'
    BY DEF Receive, Answer, Reject, Goto, IInv, TypeOK, TornWhenParked, RootIs,
       subVars, storeVars, historyVars
  <1>7. ParkLeavesTrace'
    BY DEF Receive, Answer, Reject, Goto, IInv, TypeOK, ParkLeavesTrace,
       subVars, storeVars, historyVars
  <1>8. AckedOnAnswer'
    BY KeepsAcked DEF Receive, Answer, Reject, Goto, subVars, storeVars,
       historyVars
  <1>9. OnlyDurablePrefixes'
    BY DEF Receive, Answer, Reject, Goto, IInv, TypeOK, OnlyDurablePrefixes,
       subVars, storeVars, historyVars
  <1>10. StoredAnswerIsDurable'
    BY DEF Receive, Answer, Reject, Goto, IInv, TypeOK, StoredAnswerIsDurable,
       StoredBy, subVars, storeVars, historyVars
  <1>11. ParkedDocumentIsTorn'
    BY KeepsParked DEF Receive, Answer, Reject, Goto, subVars, storeVars,
       historyVars
  <1> QED
    BY <1>1, <1>2, <1>3, <1>4, <1>5, <1>6, <1>7, <1>8, <1>9, <1>10, <1>11 DEF IInv

(* The first batch to write has none before it.                            *)
LEMMA OpenKeeps == ASSUME IInv, NEW a \in Attempt, Open(a) PROVE IInv'
  <1>1. TypeOK'
    BY TypeNext DEF IInv, Next, Handle
  <1>2. FreshAttempts'
    BY KeepsFresh DEF Open, RootIs, Answer, Reject, Goto, subVars, storeVars,
       historyVars
  <1>3. AnswersOnce'
    BY DEF Open, RootIs, Answer, Reject, Goto, IInv, TypeOK, AnswersOnce,
       subVars, storeVars, historyVars
  <1>4. NoEarlyWork'
    BY DEF Open, RootIs, Answer, Reject, Goto, IInv, TypeOK, NoEarlyWork,
       subVars, storeVars, historyVars
  <1>5. WritesInOrder'
    BY DEF Open, RootIs, Answer, Reject, Goto, IInv, TypeOK, AnswersOnce,
       WritesInOrder, subVars, storeVars, historyVars
  <1>6. TornWhenParked'
    BY DEF Open, RootIs, Answer, Reject, Goto, IInv, TypeOK, TornWhenParked,
       subVars, storeVars, historyVars
  <1>7. ParkLeavesTrace'
    BY DEF Open, RootIs, Answer, Reject, Goto, IInv, TypeOK, ParkLeavesTrace,
       subVars, storeVars, historyVars
  <1>8. AckedOnAnswer'
    BY KeepsAcked DEF Open, RootIs, Answer, Reject, Goto, subVars, storeVars,
       historyVars
  <1>9. OnlyDurablePrefixes'
    BY DEF Open, RootIs, Answer, Reject, Goto, IInv, TypeOK,
       OnlyDurablePrefixes, subVars, storeVars, historyVars
  <1>10. StoredAnswerIsDurable'
    BY DEF Open, RootIs, Answer, Reject, Goto, IInv, TypeOK,
       StoredAnswerIsDurable, StoredBy, subVars, storeVars, historyVars
  <1>11. ParkedDocumentIsTorn'
    BY KeepsParked DEF Open, RootIs, Answer, Reject, Goto, subVars, storeVars,
       historyVars
  <1> QED
    BY <1>1, <1>2, <1>3, <1>4, <1>5, <1>6, <1>7, <1>8, <1>9, <1>10, <1>11 DEF IInv

(* A run that stops in the parser answers 503.                             *)
LEMMA ParserCancelledKeeps == ASSUME IInv, NEW a \in Attempt, ParserCancelled(a) PROVE IInv'
  <1>1. TypeOK'
    BY TypeNext DEF IInv, Next, Handle
  <1>2. FreshAttempts'
    BY KeepsFresh DEF ParserCancelled, Answer, subVars, storeVars, historyVars
  <1>3. AnswersOnce'
    BY DEF ParserCancelled, Answer, IInv, TypeOK, AnswersOnce, subVars,
       storeVars, historyVars
  <1>4. NoEarlyWork'
    BY DEF ParserCancelled, Answer, IInv, TypeOK, NoEarlyWork, subVars,
       storeVars, historyVars
  <1>5. WritesInOrder'
    BY DEF ParserCancelled, Answer, IInv, TypeOK, WritesInOrder, RootIs,
       subVars, storeVars, historyVars
  <1>6. TornWhenParked'
    BY DEF ParserCancelled, Answer, IInv, TypeOK, TornWhenParked, RootIs,
       subVars, storeVars, historyVars
  <1>7. ParkLeavesTrace'
    BY DEF ParserCancelled, Answer, IInv, TypeOK, ParkLeavesTrace, subVars,
       storeVars, historyVars
  <1>8. AckedOnAnswer'
    <2>1. pc[a] \notin {"reply", "done"} /\ sub' = sub
      BY DEF ParserCancelled, subVars
    <2>2. status' = status \/ status' = [status EXCEPT ![a] = 503]
      BY DEF ParserCancelled, Answer
    <2> QED
      BY ONLY IInv, a \in Attempt, <2>1, <2>2, KeepsAcked
  <1>9. OnlyDurablePrefixes'
    BY DEF ParserCancelled, Answer, IInv, TypeOK, OnlyDurablePrefixes, subVars,
       storeVars, historyVars
  <1>10. StoredAnswerIsDurable'
    BY DEF ParserCancelled, Answer, IInv, TypeOK, StoredAnswerIsDurable,
       StoredBy, subVars, storeVars, historyVars
  <1>11. ParkedDocumentIsTorn'
    BY KeepsParked DEF ParserCancelled, Answer, subVars, storeVars, historyVars
  <1> QED
    BY <1>1, <1>2, <1>3, <1>4, <1>5, <1>6, <1>7, <1>8, <1>9, <1>10, <1>11 DEF IInv

(* A batch is sent when everything before it is durable, or not at all.    *)
LEMMA EmitBatchKeeps == ASSUME IInv, NEW a \in Attempt, EmitBatch(a) PROVE IInv'
  <1>1. TypeOK'
    BY TypeNext DEF IInv, Next, Handle
  <1>2. FreshAttempts'
    BY KeepsFresh, FailedWrite DEF EmitBatch, MayEmit, Answer, Reject, Goto,
       subVars, historyVars
  <1>3. AnswersOnce'
    <2>1. pc[a] = "parse" /\ UNCHANGED <<quarantine, logged>>
      BY DEF EmitBatch, MayEmit
    <2>2. \A b \in Attempt : b # a => pc'[b] = pc[b] /\ status'[b] = status[b]
      BY FailedWrite DEF EmitBatch, Answer, Reject, Goto, IInv, TypeOK
    <2>3. \/ pc'[a] = "reply"
          \/ pc'[a] \in {"park", "await"} /\ status'[a] = status[a]
      BY FailedWrite DEF EmitBatch, Answer, Reject, Goto, IInv, TypeOK
    <2> QED
      BY <2>1, <2>2, <2>3 DEF IInv, AnswersOnce
  <1>4. NoEarlyWork'
    <2>1. /\ pc'[a] # "idle"
          /\ \A b \in Attempt : b # a => pc'[b] = pc[b]
      BY FailedWrite DEF EmitBatch, Answer, Reject, Goto, IInv, TypeOK
    <2>2. inflight' \subseteq inflight \cup {<<a, next[a]>>} /\ UNCHANGED subVars
      BY DEF EmitBatch
    <2>3. \A i \in inflight' : i[1] \in Attempt /\ pc'[i[1]] # "idle"
      BY <2>1, <2>2 DEF IInv, TypeOK, NoEarlyWork
    <2> QED
      BY <2>2, <2>3 DEF IInv, NoEarlyWork, subVars
  <1>5. WritesInOrder'
    <2>1. UNCHANGED <<next, table>> /\ MayEmit(a) /\ pc[a] = "parse"
      BY DEF EmitBatch, MayEmit
    <2>2. \A b \in Attempt : b # a => pc'[b] = pc[b]
      BY FailedWrite DEF EmitBatch, Answer, Reject, Goto, IInv, TypeOK
    <2>3. pc'[a] \in {"reply", "park"} \/ (pc'[a] = "await" /\ BatchValid(a))
      BY FailedWrite DEF EmitBatch, Answer, Reject, Goto, IInv, TypeOK
    <2> QED
      BY <2>1, <2>2, <2>3, NextStorable DEF IInv, WritesInOrder, RootIs
  <1>6. TornWhenParked'
    <2>1. CASE ~BatchValid(a) /\ Reject(a, "invalid")
      BY <2>1, DefectStored DEF EmitBatch, Reject, IInv, TypeOK, TornWhenParked, RootIs
    <2>2. CASE Goto(a, "await") \/ Answer(a, 503)
      BY <2>2 DEF EmitBatch, Answer, Goto, IInv, TypeOK, TornWhenParked, RootIs
    <2>3. CASE \E w \in {"rejected", "cancelled"} : Reject(a, w)
      BY <2>3 DEF EmitBatch, Reject, IInv, TypeOK, TornWhenParked, RootIs
    <2> QED
      BY <2>1, <2>2, <2>3, FailedWrite DEF EmitBatch
  <1>7. ParkLeavesTrace'
    BY FailedWrite DEF EmitBatch, MayEmit, Answer, Reject, Goto, IInv, TypeOK,
       ParkLeavesTrace, subVars, historyVars
  <1>8. AckedOnAnswer'
    BY KeepsAcked, FailedWrite DEF EmitBatch, MayEmit, Answer, Reject, Goto,
       subVars, historyVars
  <1>9. OnlyDurablePrefixes'
    <2>1. UNCHANGED table /\ MayEmit(a)
      BY DEF EmitBatch
    <2>2. \/ inflight' = inflight
          \/ BatchValid(a) /\ inflight' = inflight \cup {<<a, next[a]>>}
      BY DEF EmitBatch
    <2>3. BatchValid(a) => /\ next[a] \in Storable(a[1])
                           /\ \A q \in 1 .. next[a] - 1 : <<a, q>> \in table
      BY <2>1, NextStorable, StorablePrefix DEF MayEmit
    <2> QED
      BY <2>1, <2>2, <2>3 DEF IInv, OnlyDurablePrefixes
  <1>10. StoredAnswerIsDurable'
    BY FailedWrite DEF EmitBatch, MayEmit, Answer, Reject, Goto, IInv, TypeOK,
       StoredAnswerIsDurable, StoredBy, subVars, historyVars
  <1>11. ParkedDocumentIsTorn'
    BY KeepsParked, FailedWrite DEF EmitBatch, MayEmit, Answer, Reject, Goto,
       subVars, historyVars
  <1> QED
    BY <1>1, <1>2, <1>3, <1>4, <1>5, <1>6, <1>7, <1>8, <1>9, <1>10, <1>11 DEF IInv

(* The next batch is only reached once this one is in the table.           *)
LEMMA AwaitResultKeeps == ASSUME IInv, NEW a \in Attempt, AwaitResult(a) PROVE IInv'
  <1>1. TypeOK'
    BY TypeNext DEF IInv, Next, Handle
  <1>2. FreshAttempts'
    BY KeepsFresh, FailedWrite DEF AwaitResult, Accepted, Answer, Reject, Goto,
       subVars, historyVars
  <1>3. AnswersOnce'
    BY FailedWrite DEF AwaitResult, Accepted, Answer, Reject, Goto, IInv,
       TypeOK, AnswersOnce, subVars, historyVars
  <1>4. NoEarlyWork'
    BY FailedWrite DEF AwaitResult, Accepted, Answer, Reject, Goto, IInv,
       TypeOK, NoEarlyWork, subVars, historyVars
  <1>5. WritesInOrder'
    <2>1. CASE Accepted(a) /\ Goto(a, "parse") /\ next' = [next EXCEPT ![a] = @ + 1]
      <3> SUFFICES ASSUME NEW b \in Attempt PROVE
              /\ pc'[b] \in {"open", "parse", "await"} => Doc[b[1]].body = "json"
              /\ pc'[b] \in {"parse", "await"} =>
                    /\ RootIs(b, "known")
                    /\ \A q \in 1 .. next'[b] - 1 : q \in Parts(b[1]) /\ <<b, q>> \in table
              /\ pc'[b] = "await" => next'[b] \in Storable(b[1])
        BY DEF AwaitResult, WritesInOrder, RootIs
      <3>1. CASE b # a
        BY <2>1, <3>1 DEF Goto, IInv, TypeOK, WritesInOrder
      <3>2. CASE b = a
        <4>1. pc[a] = "await" /\ pc'[a] = "parse" /\ next'[a] = next[a] + 1
          BY <2>1 DEF AwaitResult, Goto, IInv, TypeOK
        <4>2. next[a] \in Parts(a[1]) /\ <<a, next[a]>> \in table
          BY <2>1, <4>1 DEF Accepted, IInv, WritesInOrder, Storable
        <4>3. \A q \in 1 .. next'[a] - 1 : q \in 1 .. next[a] - 1 \/ q = next[a]
          BY <4>1 DEF IInv, TypeOK
        <4> QED
          BY <3>2, <4>1, <4>2, <4>3 DEF IInv, WritesInOrder
      <3> QED
        BY <3>1, <3>2
    <2>2. CASE \E e \in AppendError(a) : WriteFails(a, e) /\ UNCHANGED next
      BY <2>2, FailedWrite DEF AwaitResult, Answer, Reject, IInv, TypeOK,
         WritesInOrder, RootIs
    <2> QED
      BY <2>1, <2>2 DEF AwaitResult
  <1>6. TornWhenParked'
    BY FailedWrite DEF AwaitResult, Accepted, Answer, Reject, Goto, IInv,
       TypeOK, TornWhenParked, RootIs, subVars, historyVars
  <1>7. ParkLeavesTrace'
    BY FailedWrite DEF AwaitResult, Accepted, Answer, Reject, Goto, IInv,
       TypeOK, ParkLeavesTrace, subVars, historyVars
  <1>8. AckedOnAnswer'
    BY KeepsAcked, FailedWrite DEF AwaitResult, Accepted, Answer, Reject, Goto,
       subVars, historyVars
  <1>9. OnlyDurablePrefixes'
    BY FailedWrite DEF AwaitResult, Accepted, Answer, Reject, Goto, IInv,
       TypeOK, OnlyDurablePrefixes, subVars, historyVars
  <1>10. StoredAnswerIsDurable'
    BY FailedWrite DEF AwaitResult, Accepted, Answer, Reject, Goto, IInv,
       TypeOK, StoredAnswerIsDurable, StoredBy, subVars, historyVars
  <1>11. ParkedDocumentIsTorn'
    BY KeepsParked, FailedWrite DEF AwaitResult, Accepted, Answer, Reject,
       Goto, subVars, historyVars
  <1> QED
    BY <1>1, <1>2, <1>3, <1>4, <1>5, <1>6, <1>7, <1>8, <1>9, <1>10, <1>11 DEF IInv

(* At the end of the document every storable batch is in the table.        *)
LEMMA FinishParseKeeps == ASSUME IInv, NEW a \in Attempt, FinishParse(a) PROVE IInv'
  <1>1. TypeOK'
    BY TypeNext DEF IInv, Next, Handle
  <1>2. FreshAttempts'
    BY KeepsFresh DEF FinishParse, Answer, Reject, subVars, storeVars,
       historyVars
  <1>3. AnswersOnce'
    BY DEF FinishParse, Answer, Reject, IInv, TypeOK, AnswersOnce, subVars,
       storeVars, historyVars
  <1>4. NoEarlyWork'
    BY DEF FinishParse, Answer, Reject, IInv, TypeOK, NoEarlyWork, subVars,
       storeVars, historyVars
  <1>5. WritesInOrder'
    BY DEF FinishParse, Answer, Reject, IInv, TypeOK, WritesInOrder, RootIs,
       subVars, storeVars, historyVars
  <1>6. TornWhenParked'
    BY EndStored DEF FinishParse, Answer, Reject, IInv, TypeOK, TornWhenParked,
       RootIs, subVars, storeVars, historyVars
  <1>7. ParkLeavesTrace'
    BY DEF FinishParse, Answer, Reject, IInv, TypeOK, ParkLeavesTrace, subVars,
       storeVars, historyVars
  <1>8. AckedOnAnswer'
    BY KeepsAcked DEF FinishParse, Answer, Reject, subVars, storeVars,
       historyVars
  <1>9. OnlyDurablePrefixes'
    BY DEF FinishParse, Answer, Reject, IInv, TypeOK, OnlyDurablePrefixes,
       subVars, storeVars, historyVars
  <1>10. StoredAnswerIsDurable'
    BY EndStored DEF FinishParse, Answer, Reject, IInv, TypeOK,
       StoredAnswerIsDurable, StoredBy, SoundDoc, WritesInOrder, RootIs,
       subVars, storeVars, historyVars
  <1>11. ParkedDocumentIsTorn'
    BY KeepsParked DEF FinishParse, Answer, Reject, subVars, storeVars,
       historyVars
  <1> QED
    BY <1>1, <1>2, <1>3, <1>4, <1>5, <1>6, <1>7, <1>8, <1>9, <1>10, <1>11 DEF IInv

(* Parking leaves an object or a log line, and then answers 200.           *)
LEMMA ParkKeeps == ASSUME IInv, NEW a \in Attempt, Park(a) PROVE IInv'
  <1>1. TypeOK'
    BY TypeNext DEF IInv, Next, Handle
  <1>2. FreshAttempts'
    BY KeepsFresh DEF Park, QuarantineOK, QuarantineFails, Answer, subVars,
       historyVars
  <1>3. AnswersOnce'
    BY DEF Park, QuarantineOK, QuarantineFails, Answer, IInv, TypeOK,
       AnswersOnce, subVars, historyVars
  <1>4. NoEarlyWork'
    BY DEF Park, QuarantineOK, QuarantineFails, Answer, IInv, TypeOK,
       NoEarlyWork, subVars, historyVars
  <1>5. WritesInOrder'
    BY DEF Park, QuarantineOK, QuarantineFails, Answer, IInv, TypeOK,
       WritesInOrder, RootIs, subVars, historyVars
  <1>6. TornWhenParked'
    BY DEF Park, QuarantineOK, QuarantineFails, Answer, IInv, TypeOK,
       TornWhenParked, RootIs, subVars, historyVars
  <1>7. ParkLeavesTrace'
    BY DEF Park, QuarantineOK, QuarantineFails, Answer, IInv, TypeOK,
       ParkLeavesTrace, subVars, historyVars
  <1>8. AckedOnAnswer'
    <2>1. pc[a] \notin {"reply", "done"} /\ sub' = sub
      BY DEF Park, subVars
    <2>2. status' = [status EXCEPT ![a] = 200]
      BY DEF Park, Answer
    <2> QED
      BY ONLY IInv, a \in Attempt, <2>1, <2>2, KeepsAcked
  <1>9. OnlyDurablePrefixes'
    BY DEF Park, QuarantineOK, QuarantineFails, Answer, IInv, TypeOK,
       OnlyDurablePrefixes, subVars, historyVars
  <1>10. StoredAnswerIsDurable'
    BY DEF Park, QuarantineOK, QuarantineFails, Answer, IInv, TypeOK,
       StoredAnswerIsDurable, StoredBy, subVars, historyVars
  <1>11. ParkedDocumentIsTorn'
    BY DEF Park, QuarantineOK, QuarantineFails, Answer, IInv, TypeOK,
       TornWhenParked, ParkedDocumentIsTorn, RootIs, subVars, historyVars
  <1> QED
    BY <1>1, <1>2, <1>3, <1>4, <1>5, <1>6, <1>7, <1>8, <1>9, <1>10, <1>11 DEF IInv

-----------------------------------------------------------------------------
(* The steps of the subscription, of BigQuery and of the faults.           *)

(* A step that moves no run and no store, and acknowledges nothing.        *)
LEMMA BystanderKeeps ==
    ASSUME IInv, TypeOK',
           UNCHANGED <<tries, pc, next, why, status, inflight, table, quarantine, logged>>,
           \A m \in Message : sub'[m] = "acked" => sub[m] = "acked",
           \A m \in Message : sub'[m] = "none" => sub[m] = "none"
    PROVE  IInv'
  <1>1. FreshAttempts' /\ AnswersOnce' /\ ParkLeavesTrace' /\ AckedOnAnswer'
    BY DEF IInv, FreshAttempts, AnswersOnce, ParkLeavesTrace, AckedOnAnswer, Acknowledges
  <1>2. NoEarlyWork' /\ WritesInOrder' /\ TornWhenParked' /\ OnlyDurablePrefixes'
    BY DEF IInv, NoEarlyWork, WritesInOrder, TornWhenParked, OnlyDurablePrefixes, RootIs
  <1>3. StoredAnswerIsDurable' /\ ParkedDocumentIsTorn'
    BY DEF IInv, StoredAnswerIsDurable, ParkedDocumentIsTorn, StoredBy, RootIs
  <1> QED
    BY <1>1, <1>2, <1>3 DEF IInv

(* The attempt a delivery starts was idle, so it had answered nothing.     *)
LEMMA DeliverKeeps == ASSUME IInv, NEW m \in Message, Deliver(m) PROVE IInv'
  <1> DEFINE a == <<m, tries[m] + 1>>
  <1>1. TypeOK'
    BY TypeNext DEF IInv, Next
  <1>2. a \in Attempt /\ pc[a] = "idle"
    <2>1. tries[m] + 1 \in 1 .. MaxAttempts /\ tries[m] + 1 > tries[m]
      BY DEF Deliver, IInv, TypeOK
    <2> QED
      BY <2>1 DEF IInv, FreshAttempts, Attempt
  <1>3. /\ pc'[a] = "receive"
        /\ \A b \in Attempt : b # a => pc'[b] = pc[b]
        /\ UNCHANGED <<next, why, status, inflight, table, quarantine, logged>>
    BY <1>2 DEF Deliver, IInv, TypeOK, storeVars
  <1>4. FreshAttempts'
    <2> SUFFICES ASSUME NEW x \in Message, NEW n \in 1 .. MaxAttempts, n > tries'[x]
                 PROVE  pc'[<<x, n>>] = "idle"
      BY DEF FreshAttempts
    <2>1. n > tries[x] /\ <<x, n>> # a
      BY DEF Deliver, IInv, TypeOK
    <2> QED
      BY <1>3, <2>1 DEF IInv, FreshAttempts, Attempt
  <1>5. AnswersOnce'
    BY <1>2, <1>3 DEF IInv, AnswersOnce
  <1>10. NoEarlyWork'
    BY <1>3, <1>2 DEF Deliver, IInv, TypeOK, NoEarlyWork
  <1>6. WritesInOrder' /\ TornWhenParked'
    BY <1>3 DEF IInv, WritesInOrder, TornWhenParked, RootIs
  <1>7. ParkLeavesTrace' /\ OnlyDurablePrefixes'
    BY <1>3 DEF IInv, ParkLeavesTrace, OnlyDurablePrefixes
  <1>8. StoredAnswerIsDurable' /\ ParkedDocumentIsTorn'
    BY <1>3 DEF IInv, StoredAnswerIsDurable, ParkedDocumentIsTorn, StoredBy, RootIs
  <1>9. AckedOnAnswer'
    <2>1. \A x \in Message : sub'[x] = "acked" => sub[x] = "acked"
      BY DEF Deliver, IInv, TypeOK
    <2> QED
      BY <1>3, <2>1 DEF IInv, AckedOnAnswer, Acknowledges
  <1> QED
    BY <1>1, <1>4, <1>5, <1>6, <1>7, <1>8, <1>9, <1>10 DEF IInv

(* An append that lands was in flight, so it extends a durable prefix.     *)
LEMMA CommitKeeps == ASSUME IInv, NEW i \in inflight, Commit(i) PROVE IInv'
  <1>1. TypeOK'
    BY TypeNext DEF IInv, Next
  <1>2. /\ table \subseteq table'
        /\ table' \cup inflight' = table \cup inflight
        /\ UNCHANGED <<sub, tries, pc, next, why, status, quarantine, logged>>
    BY DEF Commit, subVars, runVars
  <1>3. FreshAttempts' /\ AnswersOnce' /\ ParkLeavesTrace' /\ AckedOnAnswer'
    BY <1>2 DEF IInv, FreshAttempts, AnswersOnce, ParkLeavesTrace, AckedOnAnswer, Acknowledges
  <1>6. NoEarlyWork'
    BY <1>2 DEF Commit, IInv, NoEarlyWork
  <1>4. WritesInOrder' /\ TornWhenParked' /\ OnlyDurablePrefixes'
    BY <1>2 DEF IInv, WritesInOrder, TornWhenParked, OnlyDurablePrefixes, RootIs
  <1>5. StoredAnswerIsDurable' /\ ParkedDocumentIsTorn'
    BY <1>2 DEF IInv, StoredAnswerIsDurable, ParkedDocumentIsTorn, StoredBy, RootIs
  <1> QED
    BY <1>1, <1>3, <1>4, <1>5, <1>6 DEF IInv

(* A run that ends keeps its answer; a 2xx that Pub/Sub takes is one.      *)
LEMMA LeaveKeeps ==
    ASSUME IInv, TypeOK', NEW a \in Attempt, Running(a), Leave(a),
           UNCHANGED <<tries, inflight, table, quarantine, logged>>,
           \A m \in Message : sub'[m] = "acked" =>
               sub[m] = "acked" \/ (m = a[1] /\ Acknowledges(status[a])),
           \A m \in Message : sub'[m] = "none" => sub[m] = "none"
    PROVE  IInv'
  <1>1. /\ pc'[a] = "done"
        /\ \A b \in Attempt : b # a => pc'[b] = pc[b] /\ next'[b] = next[b]
        /\ UNCHANGED <<why, status>>
    BY DEF Leave, IInv, TypeOK
  <1>2. FreshAttempts'
    BY KeepsFresh DEF Leave, Running
  <1>3. AnswersOnce' /\ ParkLeavesTrace'
    BY <1>1 DEF IInv, AnswersOnce, ParkLeavesTrace
  <1>4. WritesInOrder' /\ TornWhenParked' /\ OnlyDurablePrefixes'
    BY <1>1 DEF IInv, WritesInOrder, TornWhenParked, OnlyDurablePrefixes, RootIs
  <1>5. StoredAnswerIsDurable' /\ ParkedDocumentIsTorn'
    BY <1>1 DEF IInv, StoredAnswerIsDurable, ParkedDocumentIsTorn, StoredBy, RootIs
  <1>7. NoEarlyWork'
    BY <1>1 DEF IInv, TypeOK, NoEarlyWork
  <1>6. AckedOnAnswer'
    <2> SUFFICES ASSUME NEW m \in Message, sub'[m] = "acked"
                 PROVE  \E n \in 1 .. MaxAttempts : Acknowledges(status[<<m, n>>])
      BY <1>1 DEF AckedOnAnswer, Acknowledges
    <2>1. CASE sub[m] = "acked"
      BY <2>1 DEF IInv, AckedOnAnswer
    <2>2. CASE m = a[1] /\ Acknowledges(status[a])
      BY <2>2, AttemptParts
    <2> QED
      BY <2>1, <2>2
  <1> QED
    BY <1>2, <1>3, <1>4, <1>5, <1>6, <1>7 DEF IInv

-----------------------------------------------------------------------------
LEMMA IInvInit == Init => IInv
  <1> SUFFICES ASSUME Init PROVE IInv
    OBVIOUS
  <1>1. \A m \in Message : \A n \in 1 .. MaxAttempts : <<m, n>> \in Attempt
    BY DEF Attempt
  <1> QED
    BY <1>1, TypeInit DEF Init, IInv, FreshAttempts, AnswersOnce, NoEarlyWork, WritesInOrder,
       TornWhenParked, ParkLeavesTrace, AckedOnAnswer, OnlyDurablePrefixes, StoredAnswerIsDurable,
       ParkedDocumentIsTorn

LEMMA IInvNext == IInv /\ [Next]_vars => IInv'
  <1> SUFFICES ASSUME IInv, [Next]_vars PROVE IInv'
    OBVIOUS
  <1>1. TypeOK'
    BY TypeNext DEF IInv
  <1>2. ASSUME NEW m \in Message, Publish(m) \/ Expire(m) \/ DeadLetter(m) PROVE IInv'
    BY <1>1, <1>2, BystanderKeeps
       DEF Publish, Expire, DeadLetter, IInv, TypeOK, runVars, storeVars
  <1>3. ASSUME NEW m \in Message, Deliver(m) PROVE IInv'
    BY <1>3, DeliverKeeps
  <1>4. ASSUME NEW a \in Attempt, Handle(a) PROVE IInv'
    <2>1. CASE Reply(a) \/ ReplyLate(a)
      <3>1. Running(a) /\ Leave(a)
        BY <2>1 DEF Reply, ReplyLate, Running
      <3>2. UNCHANGED <<tries, inflight, table, quarantine, logged>>
        BY <2>1 DEF Reply, ReplyLate, storeVars
      <3>3. \A m \in Message : sub'[m] = "acked" =>
                sub[m] = "acked" \/ (m = a[1] /\ Acknowledges(status[a]))
        BY <2>1, AttemptParts DEF Reply, ReplyLate, IInv, TypeOK
      <3>4. \A m \in Message : sub'[m] = "none" => sub[m] = "none"
        BY <2>1, AttemptParts DEF Reply, ReplyLate, IInv, TypeOK
      <3> QED
        BY <1>1, <3>1, <3>2, <3>3, <3>4, LeaveKeeps
    <2> QED
      BY <1>4, <2>1, ReceiveKeeps, OpenKeeps, ParserCancelledKeeps, EmitBatchKeeps,
         AwaitResultKeeps, FinishParseKeeps, ParkKeeps DEF Handle
  <1>5. ASSUME NEW a \in Attempt, Crash(a) PROVE IInv'
    BY <1>1, <1>5, LeaveKeeps DEF Crash, subVars, storeVars
  <1>6. ASSUME NEW a \in Attempt, Sigterm(a) \/ Disconnect(a) PROVE IInv'
    <2>1. UNCHANGED <<tries, pc, next, why, status, inflight, table, quarantine, logged>>
      BY <1>6 DEF Sigterm, Disconnect, subVars, storeVars
    <2>2. \A m \in Message : sub'[m] = "acked" => sub[m] = "acked"
      BY <1>6, AttemptParts DEF Sigterm, Disconnect, IInv, TypeOK, subVars
    <2>3. \A m \in Message : sub'[m] = "none" => sub[m] = "none"
      BY <1>6, AttemptParts DEF Sigterm, Disconnect, IInv, TypeOK, subVars
    <2> QED
      BY <1>1, <2>1, <2>2, <2>3, BystanderKeeps
  <1>7. ASSUME NEW i \in inflight, Commit(i) PROVE IInv'
    BY <1>7, CommitKeeps
  <1>8. ASSUME UNCHANGED vars PROVE IInv'
    BY <1>1, <1>8, BystanderKeeps DEF vars, subVars, runVars, storeVars
  <1> QED
    BY <1>2, <1>3, <1>4, <1>5, <1>6, <1>7, <1>8 DEF Next, Quiescent

(* The invariant that ties the answers of every run to the state of the    *)
(* stores holds in every reachable state.                                  *)
THEOREM Invariance == Spec => []IInv
  BY IInvInit, IInvNext, PTL DEF Spec

(* An acknowledged message is durable in full, or parked, or its loss was  *)
(* logged, whatever is lost, repeated or late on the way.                  *)
THEOREM NoSilentLoss == Spec => []AckedIsAccountedFor
  <1>1. IInv => AckedIsAccountedFor
    <2> SUFFICES ASSUME IInv, NEW m \in Message, sub[m] = "acked"
                 PROVE  (SoundDoc(m) /\ Durable(m)) \/ Evidence(m)
      BY DEF AckedIsAccountedFor
    <2>1. PICK n \in 1 .. MaxAttempts : Acknowledges(status[<<m, n>>])
      BY DEF IInv, AckedOnAnswer
    <2> DEFINE a == <<m, n>>
    <2>2. a \in Attempt /\ status[a] \in {200, 204}
      <3>1. a \in Attempt
        BY DEF Attempt
      <3>2. status[a] \in Status /\ status[a] \in 200 .. 299
        BY <2>1, <3>1 DEF Acknowledges, IInv, TypeOK
      <3> QED
        BY <3>1, <3>2 DEF Status
    <2>3. CASE status[a] = 204
      BY <2>2, <2>3 DEF IInv, StoredAnswerIsDurable, Durable
    <2>4. CASE status[a] = 200
      BY <2>2, <2>4 DEF IInv, ParkLeavesTrace, Evidence
    <2> QED
      BY <2>2, <2>3, <2>4
  <1> QED
    BY <1>1, Invariance, PTL

(* 204 is only answered for a sound document all of whose batches are in   *)
(* the table.                                                              *)
THEOREM StoredMeansDurable == Spec => []StoredAnswerIsDurable
  <1>1. IInv => StoredAnswerIsDurable
    BY DEF IInv
  <1> QED
    BY <1>1, Invariance, PTL

(* Whatever is in the table is a prefix of its document's valid batches.   *)
THEOREM PrefixesOnly == Spec => []OnlyDurablePrefixes
  <1>1. IInv => OnlyDurablePrefixes
    BY DEF IInv
  <1> QED
    BY <1>1, Invariance, PTL

(* A document parked for its content left its valid prefix in the table.   *)
THEOREM TornDocuments == Spec => []ParkedDocumentIsTorn
  <1>1. IInv => ParkedDocumentIsTorn
    BY DEF IInv
  <1> QED
    BY <1>1, Invariance, PTL

-----------------------------------------------------------------------------
(* The ingest path implements the delivery contract.                       *)

(* A message changes its fate when the subscription settles it or takes it *)
(* on, and at no other time.                                               *)
LEMMA FateStep ==
    ASSUME TypeOK, TypeOK', NEW m \in Message, NEW s \in {"none", "acked", "dead", "queued"},
           sub' = [sub EXCEPT ![m] = s]
    PROVE  Fate' = [Fate EXCEPT ![m] = IF s = "none" THEN "absent"
                                       ELSE IF s = "queued" THEN "owed" ELSE s]
  BY DEF Fate, TypeOK, SubState

LEMMA LandedPart ==
    ASSUME NEW b, NEW p, <<b, p>> \in table
    PROVE  <<b[1], p>> \in DurableParts
  <1> DEFINE i == <<b, p>>
  <1>1. i \in table /\ <<b[1], p>> = <<i[1][1], i[2]>>
    OBVIOUS
  <1> QED
    BY <1>1 DEF DurableParts

LEMMA ContractInit == Init => Contract!Init
  BY DEF Init, Contract!Init, Fate, DurableParts, Traced

LEMMA ContractNext == IInv /\ [Next]_vars => [Contract!Next]_(Contract!vars)
  <1> SUFFICES ASSUME IInv, [Next]_vars PROVE [Contract!Next]_(Contract!vars)
    OBVIOUS
  <1> DEFINE Still == UNCHANGED <<Fate, DurableParts, Traced>>
  <1>0. TypeOK /\ TypeOK' /\ (Still => UNCHANGED Contract!vars)
    BY TypeNext DEF IInv, Contract!vars
  <1>s. UNCHANGED <<sub, table, quarantine, logged>> => Still
    BY DEF Fate, DurableParts, Traced
  <1>t. UNCHANGED <<table, quarantine, logged>> => UNCHANGED <<DurableParts, Traced>>
    BY DEF DurableParts, Traced
  <1> HIDE DEF Still
  <1>1. ASSUME NEW m \in Message, Publish(m) PROVE Contract!Accept(m)
    <2>1. Fate[m] = "absent"
      BY <1>1 DEF Publish, Fate
    <2>2. Fate' = [Fate EXCEPT ![m] = "owed"]
      BY <1>0, <1>1, FateStep DEF Publish
    <2> QED
      BY <1>1, <1>t, <2>1, <2>2 DEF Publish, Contract!Accept, storeVars
  <1>2. ASSUME NEW m \in Message, Deliver(m) \/ Expire(m) PROVE Still
    <2>1. Fate' = Fate
      BY <1>0, <1>2 DEF Deliver, Expire, Fate, TypeOK
    <2> QED
      BY <1>2, <1>t, <2>1 DEF Deliver, Expire, storeVars, Still
  <1>3. ASSUME NEW m \in Message, DeadLetter(m) PROVE Contract!Bury(m)
    <2>1. Fate[m] = "owed"
      BY <1>3 DEF DeadLetter, Fate
    <2>2. Fate' = [Fate EXCEPT ![m] = "dead"]
      BY <1>0, <1>3, FateStep DEF DeadLetter
    <2> QED
      BY <1>3, <1>t, <2>1, <2>2 DEF DeadLetter, Contract!Bury, storeVars
  <1>4. ASSUME NEW a \in Attempt, Park(a) PROVE Contract!Keep(a[1])
    <2>1. UNCHANGED <<sub, table>> /\ quarantine' \cup logged' = quarantine \cup logged \cup {a}
      BY <1>4 DEF Park, QuarantineOK, QuarantineFails, subVars
    <2>2. Traced' = Traced \cup {a[1]}
      BY <2>1 DEF Traced
    <2>3. UNCHANGED <<Fate, DurableParts>>
      BY <2>1 DEF Fate, DurableParts
    <2>4. Fate[a[1]] # "absent"
      <3>1. pc[a] # "idle" /\ a[1] \in Message
        BY <1>4, AttemptParts DEF Park
      <3>2. sub[a[1]] # "none"
        BY <3>1, AttemptParts DEF IInv, FreshAttempts, NoEarlyWork
      <3> QED
        BY <1>0, <3>1, <3>2 DEF Fate, TypeOK, SubState
    <2> QED
      BY <2>2, <2>3, <2>4 DEF Contract!Keep
  <1>5. ASSUME NEW a \in Attempt, Reply(a) \/ ReplyLate(a)
        PROVE  Still \/ Contract!Ack(a[1])
    <2>1. UNCHANGED <<DurableParts, Traced>> /\ a[1] \in Message
      BY <1>5, <1>t, AttemptParts DEF Reply, ReplyLate, storeVars
    <2>2. CASE \/ sub' = sub
               \/ sub' = [sub EXCEPT ![a[1]] = "queued"] /\ sub[a[1]] = "leased"
      <3>1. Fate' = Fate
        BY <1>0, <2>1, <2>2 DEF Fate, TypeOK
      <3> QED
        BY <2>1, <3>1 DEF Still
    <2>3. CASE /\ sub' = [sub EXCEPT ![a[1]] = "acked"]
               /\ sub[a[1]] \in {"queued", "leased"}
               /\ Acknowledges(status[a])
      <3>1. Fate[a[1]] = "owed" /\ Fate' = [Fate EXCEPT ![a[1]] = "acked"]
        BY <1>0, <2>1, <2>3, FateStep DEF Fate
      <3>2. status[a] \in {200, 204}
        <4>1. status[a] \in Status /\ status[a] \in 200 .. 299
          BY <2>3 DEF Acknowledges, IInv, TypeOK
        <4> QED
          BY <4>1 DEF Status
      <3>3. CASE status[a] = 200
        <4>1. a[1] \in Traced
          BY <3>3 DEF IInv, ParkLeavesTrace, Traced
        <4> QED
          BY <2>1, <3>1, <4>1 DEF Contract!Ack
      <3>4. CASE status[a] = 204
        <4>1. SoundDoc(a[1]) /\ StoredBy(a)
          BY <3>4 DEF IInv, StoredAnswerIsDurable
        <4>2. \A p \in Portions[a[1]] : <<a[1], p>> \in DurableParts
          BY <2>1, <4>1, LandedPart DEF Portions, Storable, StoredBy
        <4> QED
          BY <2>1, <3>1, <4>1, <4>2 DEF Contract!Ack, Contract!Whole, SoundDocs
      <3> QED
        BY <3>2, <3>3, <3>4
    <2> QED
      <3>1. CASE Reply(a)
        <4>1. /\ sub[a[1]] = "leased"
              /\ sub' = [sub EXCEPT ![a[1]] = IF Acknowledges(status[a]) THEN "acked" ELSE "queued"]
          BY <3>1 DEF Reply, Current
        <4> QED
          BY <4>1, <2>2, <2>3
      <3>2. CASE ReplyLate(a)
        <4>1. \/ sub' = sub
              \/ /\ Acknowledges(status[a])
                 /\ sub[a[1]] \in {"queued", "leased"}
                 /\ sub' = [sub EXCEPT ![a[1]] = "acked"]
          BY <3>2 DEF ReplyLate
        <4>2. CASE sub' = sub
          BY <2>2, <4>2
        <4>3. CASE /\ Acknowledges(status[a])
                   /\ sub[a[1]] \in {"queued", "leased"}
                   /\ sub' = [sub EXCEPT ![a[1]] = "acked"]
          BY <2>3, <4>3
        <4> QED
          BY <4>1, <4>2, <4>3
      <3> QED
        BY <1>5, <3>1, <3>2
  <1>6. ASSUME NEW a \in Attempt, Crash(a) \/ Sigterm(a) PROVE Still
    BY <1>6, <1>s DEF Crash, Sigterm, subVars, storeVars
  <1>7. ASSUME NEW a \in Attempt, Disconnect(a) PROVE Still
    <2>1. Fate' = Fate
      BY <1>0, <1>7, AttemptParts DEF Disconnect, Current, Fate, TypeOK
    <2> QED
      BY <1>7, <1>t, <2>1 DEF Disconnect, storeVars, Still
  <1>8. ASSUME NEW i \in inflight, Commit(i)
        PROVE  Contract!Store(i[1][1], i[2]) /\ i[2] \in Portions[i[1][1]] /\ i[1][1] \in Message
    <2> DEFINE m == i[1][1]
    <2>1. i[1] \in Attempt /\ m \in Message /\ i = <<i[1], i[2]>>
      BY AttemptParts DEF IInv, TypeOK
    <2>2. i[2] \in Storable(m) /\ \A q \in 1 .. i[2] - 1 : <<i[1], q>> \in table
      BY DEF IInv, OnlyDurablePrefixes
    <2>3. \A q \in Portions[m] : q < i[2] => <<m, q>> \in DurableParts
      <3> SUFFICES ASSUME NEW q \in Portions[m], q < i[2] PROVE <<m, q>> \in DurableParts
        OBVIOUS
      <3>1. q \in 1 .. i[2] - 1
        BY <2>1, <2>2, DocTyped DEF Portions, Storable
      <3> QED
        BY <2>2, <3>1, LandedPart
    <2>4. DurableParts' = DurableParts \cup {<<m, i[2]>>}
      BY <1>8 DEF Commit, DurableParts
    <2>5. UNCHANGED <<Fate, Traced>>
      BY <1>8 DEF Commit, subVars, Fate, Traced
    <2>6. Fate[m] # "absent"
      <3>1. pc[i[1]] # "idle"
        BY DEF IInv, NoEarlyWork
      <3>2. sub[m] # "none"
        BY <2>1, <3>1, AttemptParts DEF IInv, FreshAttempts, NoEarlyWork
      <3> QED
        BY <1>0, <2>1, <3>2 DEF Fate, TypeOK, SubState
    <2> QED
      BY <2>1, <2>2, <2>3, <2>4, <2>5, <2>6 DEF Contract!Store, Portions
  <1>9. ASSUME NEW a \in Attempt,
               \/ Receive(a) \/ Open(a) \/ ParserCancelled(a)
               \/ EmitBatch(a) \/ AwaitResult(a) \/ FinishParse(a)
        PROVE  Still
    BY <1>9, <1>s DEF Receive, Open, ParserCancelled, EmitBatch, AwaitResult, FinishParse,
       subVars, storeVars
  <1>10. ASSUME UNCHANGED vars PROVE Still
    BY <1>10, <1>s DEF vars, subVars, storeVars
  <1>11. \A a \in Attempt : a[1] \in Message
    BY AttemptParts
  <1> QED
    BY <1>0, <1>1, <1>2, <1>3, <1>4, <1>5, <1>6, <1>7, <1>8, <1>9, <1>10, <1>11
       DEF Next, Handle, Quiescent, Contract!Next

(* Every behaviour of the ingest path is one the delivery contract allows. *)
THEOREM Refinement == Spec => ImplementsContract
  BY ContractInit, ContractNext, IInvInit, IInvNext, PTL
     DEF Spec, Contract!Spec, ImplementsContract

-----------------------------------------------------------------------------
(* Corrections. A run takes its stamp when it opens the document, after    *)
(* the clock has passed every stamp given before; what was over when a     *)
(* message was published stays over and takes no stamp any more.           *)

Unstamped == {"idle", "receive", "open"}
Writing   == {"parse", "await"}

Stamps ==
    \A a \in Attempt :
        /\ at[a] <= clock
        /\ pc[a] \in Unstamped => at[a] = 0
        /\ pc[a] \in Writing => at[a] # 0

RowsAreStamped == \A i \in table \cup inflight : at[i[1]] # 0

CalmStaysOver == \A y \in Message : \A x \in calm[y] : Over(x)

CalmIsEarlier ==
    \A y \in Message : \A x \in calm[y] : \A n, k \in 1 .. MaxAttempts :
        at[<<y, n>>] # 0 => at[<<x, k>>] < at[<<y, n>>]

QuietInv == Stamps /\ RowsAreStamped /\ CalmStaysOver /\ CalmIsEarlier

LEMMA QuietInit == Init => QuietInv
  BY DEF Init, QuietInv, Stamps, RowsAreStamped, CalmStaysOver, CalmIsEarlier, Unstamped, Writing, Attempt

(* Only a run that writes becomes one that awaits, and the other way       *)
(* round; opening the document is what makes it one.                       *)
LEMMA RunMoves ==
    ASSUME IInv, [Next]_vars, NEW b \in Attempt
    PROVE  \/ pc'[b] = pc[b]
           \/ pc[b] \in Unstamped /\ pc'[b] \in Unstamped \ {"idle"}
           \/ pc[b] \in Writing /\ pc'[b] \in Writing
           \/ pc'[b] \notin Unstamped \cup Writing
           \/ Open(b) /\ RootIs(b, "known") /\ pc[b] = "open" /\ at'[b] = IngestedAt(b)
  <1> USE DEF Unstamped, Writing
  <1>0. TypeOK
    BY DEF IInv
  <1>1. ASSUME NEW m \in Message, Publish(m) \/ Expire(m) \/ DeadLetter(m) PROVE pc'[b] = pc[b]
    BY <1>1 DEF Publish, Expire, DeadLetter, runVars
  <1>2. ASSUME NEW m \in Message, Deliver(m)
        PROVE  pc'[b] = pc[b] \/ (pc[b] \in Unstamped /\ pc'[b] \in Unstamped \ {"idle"})
    <2>1. tries[m] + 1 \in 1 .. MaxAttempts /\ tries[m] + 1 > tries[m]
      <3>1. tries[m] \in 0 .. MaxAttempts /\ tries[m] < MaxAttempts
        BY <1>0, <1>2 DEF Deliver, TypeOK
      <3> QED
        BY <3>1
    <2>2. pc[<<m, tries[m] + 1>>] = "idle"
      BY <2>1 DEF IInv, FreshAttempts
    <2>3. <<m, tries[m] + 1>> \in Attempt
      BY <2>1 DEF Attempt
    <2>4. pc' = [pc EXCEPT ![<<m, tries[m] + 1>>] = "receive"]
      BY <1>2 DEF Deliver
    <2> QED
      BY <1>0, <2>2, <2>3, <2>4 DEF TypeOK
  <1>3. ASSUME NEW a \in Attempt, Receive(a) PROVE
          \/ pc'[b] = pc[b]
          \/ pc[b] \in Unstamped /\ pc'[b] \in Unstamped \ {"idle"}
          \/ pc'[b] \notin Unstamped \cup Writing
    BY <1>0, <1>3 DEF Receive, Answer, Reject, Goto, TypeOK
  <1>4. ASSUME NEW a \in Attempt, Open(a) PROVE
          \/ pc'[b] = pc[b]
          \/ pc'[b] \notin Unstamped \cup Writing
          \/ Open(b) /\ RootIs(b, "known") /\ pc[b] = "open" /\ at'[b] = IngestedAt(b)
    <2>1. CASE b # a
      BY <1>0, <1>4, <2>1 DEF Open, Answer, Reject, Goto, TypeOK
    <2>2. CASE b = a
      BY <1>0, <1>4, <2>2 DEF Open, Answer, Reject, Goto, TypeOK
    <2> QED
      BY <2>1, <2>2
  <1>5. ASSUME NEW a \in Attempt, EmitBatch(a) \/ AwaitResult(a) PROVE
          \/ pc'[b] = pc[b]
          \/ pc[b] \in Writing /\ pc'[b] \in Writing
          \/ pc'[b] \notin Unstamped \cup Writing
    BY <1>0, <1>5, FailedWrite DEF EmitBatch, MayEmit, AwaitResult, Answer, Reject, Goto, TypeOK
  <1>6. ASSUME NEW a \in Attempt,
               ParserCancelled(a) \/ FinishParse(a) \/ Park(a) \/ Reply(a) \/ ReplyLate(a) \/ Crash(a)
        PROVE  pc'[b] = pc[b] \/ pc'[b] \notin Unstamped \cup Writing
    BY <1>0, <1>6 DEF ParserCancelled, FinishParse, Park, Reply, ReplyLate, Crash, Leave, Answer, Reject, TypeOK
  <1>7. ASSUME NEW a \in Attempt, Sigterm(a) \/ Disconnect(a) PROVE pc'[b] = pc[b]
    BY <1>7 DEF Sigterm, Disconnect
  <1>8. ASSUME NEW i \in inflight, Commit(i) PROVE pc'[b] = pc[b]
    BY <1>8 DEF Commit, runVars
  <1>9. ASSUME UNCHANGED vars PROVE pc'[b] = pc[b]
    BY <1>9 DEF vars, runVars
  <1> QED
    BY <1>1, <1>2, <1>3, <1>4, <1>5, <1>6, <1>7, <1>8, <1>9 DEF Next, Handle, Quiescent

(* Only Open gives a stamp, and only Publish says what is over.            *)
LEMMA OnlyOpenStamps ==
    ASSUME [Next]_vars, ~(\E a \in Attempt : Open(a) /\ RootIs(a, "known"))
    PROVE  at' = at /\ clock' = clock
  BY DEF Next, Handle, Publish, Deliver, Expire, DeadLetter, Receive, Open, ParserCancelled, EmitBatch,
     AwaitResult, FinishParse, Park, Reply, ReplyLate, Crash, Sigterm, Disconnect, Commit, Quiescent,
     vars, runVars

LEMMA OnlyPublishCalms ==
    ASSUME [Next]_vars, ~(\E m \in Message : Publish(m))
    PROVE  calm' = calm
  BY DEF Next, Handle, Publish, Deliver, Expire, DeadLetter, Receive, Open, ParserCancelled, EmitBatch,
     AwaitResult, FinishParse, Park, Reply, ReplyLate, Crash, Sigterm, Disconnect, Commit, Quiescent,
     vars, historyVars

(* What is settled is not delivered again, so what is over stays over.     *)
LEMMA SettledStays ==
    ASSUME TypeOK, [Next]_vars, NEW m \in Message, Settled(m)
    PROVE  sub'[m] = sub[m]
  <1> USE DEF Settled
  <1>1. ASSUME NEW x \in Message, Publish(x) \/ Deliver(x) \/ Expire(x) \/ DeadLetter(x)
        PROVE  sub'[m] = sub[m]
    BY <1>1 DEF Publish, Deliver, Expire, DeadLetter, TypeOK
  <1>2. ASSUME NEW a \in Attempt, Reply(a) \/ ReplyLate(a) \/ Disconnect(a)
        PROVE  sub'[m] = sub[m]
    BY <1>2, AttemptParts DEF Reply, ReplyLate, Disconnect, Current, TypeOK
  <1>3. ASSUME UNCHANGED sub PROVE sub'[m] = sub[m]
    BY <1>3
  <1> QED
    BY <1>1, <1>2, <1>3 DEF Next, Handle, Receive, Open, ParserCancelled, EmitBatch, AwaitResult,
       FinishParse, Park, Crash, Sigterm, Commit, Quiescent, vars, subVars

LEMMA OverStays ==
    ASSUME IInv, [Next]_vars, NEW m \in Message, Over(m)
    PROVE  Over(m)'
  <1>0. TypeOK /\ Settled(m) /\ Settled(m)'
    BY SettledStays DEF IInv, Over, Settled
  <1> SUFFICES ASSUME NEW n \in 1 .. MaxAttempts PROVE ~Running(<<m, n>>)'
    BY <1>0 DEF Over
  <1> DEFINE b == <<m, n>>
  <1>1. b \in Attempt /\ pc[b] \in {"idle", "done"}
    BY DEF Attempt, Over, Running
  <1>2. ASSUME NEW x \in Message, Publish(x) \/ Expire(x) \/ DeadLetter(x) PROVE pc'[b] = pc[b]
    BY <1>2 DEF Publish, Expire, DeadLetter, runVars
  <1>3. ASSUME NEW x \in Message, Deliver(x) PROVE pc'[b] = pc[b]
    <2>1. x # m
      BY <1>0, <1>3 DEF Deliver, Settled
    <2> QED
      BY <1>0, <1>1, <1>3, <2>1 DEF Deliver, TypeOK
  <1>4. ASSUME NEW a \in Attempt, Handle(a) \/ Crash(a) PROVE pc'[b] = pc[b]
    <2>1. a # b
      BY <1>1, <1>4 DEF Handle, Receive, Open, ParserCancelled, EmitBatch, MayEmit, AwaitResult,
                        FinishParse, Park, Reply, ReplyLate, Crash, Running
    <2>2. \E s : pc' = [pc EXCEPT ![a] = s]
      BY <1>4, FailedWrite
         DEF Handle, Receive, Open, ParserCancelled, EmitBatch, AwaitResult, FinishParse, Park, Reply,
             ReplyLate, Crash, Leave, Answer, Reject, Goto
    <2> QED
      BY <1>0, <1>1, <2>1, <2>2 DEF TypeOK
  <1>5. ASSUME NEW a \in Attempt, Sigterm(a) \/ Disconnect(a) PROVE pc'[b] = pc[b]
    BY <1>5 DEF Sigterm, Disconnect
  <1>6. ASSUME NEW i \in inflight, Commit(i) PROVE pc'[b] = pc[b]
    BY <1>6 DEF Commit, runVars
  <1>7. ASSUME UNCHANGED vars PROVE pc'[b] = pc[b]
    BY <1>7 DEF vars, runVars
  <1>8. pc'[b] = pc[b]
    BY <1>2, <1>3, <1>4, <1>5, <1>6, <1>7 DEF Next, Quiescent
  <1> QED
    BY <1>1, <1>8 DEF Running

LEMMA StampsStep == ASSUME IInv, Stamps, [Next]_vars PROVE Stamps'
  <1> USE DEF Unstamped, Writing
  <1>0. TypeOK
    BY DEF IInv
  <1>1. CASE at' = at /\ clock' = clock
    <2> SUFFICES ASSUME NEW b \in Attempt
                 PROVE  /\ at'[b] <= clock'
                        /\ pc'[b] \in Unstamped => at'[b] = 0
                        /\ pc'[b] \in Writing => at'[b] # 0
      BY DEF Stamps
    <2>1. CASE Open(b) /\ RootIs(b, "known") /\ pc[b] = "open" /\ at'[b] = IngestedAt(b)
      BY <1>0, <1>1, <2>1 DEF IngestedAt, Stamps, TypeOK
    <2>2. CASE ~(Open(b) /\ RootIs(b, "known") /\ pc[b] = "open" /\ at'[b] = IngestedAt(b))
      <3>1. \/ pc'[b] = pc[b]
            \/ pc[b] \in Unstamped /\ pc'[b] \in Unstamped \ {"idle"}
            \/ pc[b] \in Writing /\ pc'[b] \in Writing
            \/ pc'[b] \notin Unstamped \cup Writing
        BY <2>2, RunMoves
      <3> QED
        BY <1>1, <3>1 DEF Stamps
    <2> QED
      BY <2>1, <2>2
  <1>2. ASSUME NEW a \in Attempt, Open(a), RootIs(a, "known") PROVE Stamps'
    <2>1. at' = [at EXCEPT ![a] = clock + 1] /\ clock' = clock + 1 /\ pc' = [pc EXCEPT ![a] = "parse"]
      BY <1>2 DEF Open, RootIs, IngestedAt, Goto
    <2> QED
      BY <1>0, <2>1 DEF Stamps, TypeOK
  <1> QED
    BY <1>1, <1>2, OnlyOpenStamps

LEMMA RowsStep == ASSUME IInv, Stamps, RowsAreStamped, [Next]_vars PROVE RowsAreStamped'
  <1>0. TypeOK
    BY DEF IInv
  <1>1. \A b \in Attempt : at[b] # 0 => at'[b] # 0
    <2>1. CASE at' = at
      BY <2>1
    <2>2. ASSUME NEW a \in Attempt, Open(a), RootIs(a, "known")
          PROVE  \A b \in Attempt : at[b] # 0 => at'[b] # 0
      <3>1. at' = [at EXCEPT ![a] = clock + 1] /\ clock \in Nat
        BY <1>0, <2>2 DEF Open, RootIs, IngestedAt, TypeOK
      <3> QED
        BY <1>0, <3>1 DEF TypeOK
    <2> QED
      BY <2>1, <2>2, OnlyOpenStamps
  <1>2. \A i \in table' \cup inflight' : i \in table \cup inflight \/ (i[1] \in Attempt /\ at[i[1]] # 0)
    <2>1. ASSUME NEW a \in Attempt, EmitBatch(a)
          PROVE  \A i \in table' \cup inflight' : i \in table \cup inflight \/ (i[1] \in Attempt /\ at[i[1]] # 0)
      <3>1. table' = table /\ inflight' \subseteq inflight \cup {<<a, next[a]>>} /\ pc[a] = "parse"
        BY <2>1 DEF EmitBatch, MayEmit
      <3>2. at[a] # 0
        BY <3>1 DEF Stamps, Writing
      <3> QED
        BY <3>1, <3>2
    <2>2. ASSUME NEW a \in Attempt, AwaitResult(a) PROVE table' \cup inflight' \subseteq table \cup inflight
      BY <2>2 DEF AwaitResult
    <2>3. ASSUME NEW i \in inflight, Commit(i) PROVE table' \cup inflight' \subseteq table \cup inflight
      BY <2>3 DEF Commit
    <2>4. CASE UNCHANGED <<table, inflight>>
      BY <2>4
    <2> QED
      BY <2>1, <2>2, <2>3, <2>4
         DEF Next, Handle, Publish, Deliver, Expire, DeadLetter, Receive, Open, ParserCancelled, FinishParse,
             Park, Reply, ReplyLate, Crash, Sigterm, Disconnect, Quiescent, vars, storeVars
  <1>3. \A i \in table \cup inflight : i[1] \in Attempt
    BY <1>0 DEF TypeOK
  <1> QED
    BY <1>1, <1>2, <1>3 DEF RowsAreStamped

(* A message just published has no stamp yet, and nothing that is over for *)
(* it can take one later.                                                  *)
LEMMA UnpublishedIsUnstamped ==
    ASSUME IInv, Stamps, NEW m \in Message, sub[m] = "none", NEW n \in 1 .. MaxAttempts
    PROVE  at[<<m, n>>] = 0
  <1>1. tries[m] = 0
    BY DEF IInv, NoEarlyWork
  <1>2. n > tries[m]
    BY <1>1
  <1>3. pc[<<m, n>>] = "idle"
    BY <1>2 DEF IInv, FreshAttempts
  <1>4. <<m, n>> \in Attempt
    BY DEF Attempt
  <1> QED
    BY <1>3, <1>4 DEF Stamps, Unstamped

LEMMA CalmStep ==
    ASSUME IInv, Stamps, CalmStaysOver, CalmIsEarlier, [Next]_vars
    PROVE  CalmStaysOver' /\ CalmIsEarlier'
  <1>0. TypeOK /\ TypeOK'
    BY IInvNext DEF IInv
  <1>1. ASSUME NEW m \in Message, Publish(m) PROVE CalmStaysOver' /\ CalmIsEarlier'
    <2>1. /\ calm' = [calm EXCEPT ![m] = {x \in Message : Over(x)}]
          /\ sub[m] = "none" /\ at' = at
      BY <1>1 DEF Publish, runVars
    <2>2. \A y \in Message : \A x \in calm'[y] : x \in Message /\ Over(x) /\ (y = m \/ x \in calm[y])
      BY <1>0, <2>1 DEF CalmStaysOver, TypeOK
    <2>3. CalmStaysOver'
      BY <2>2, OverStays DEF CalmStaysOver
    <2>4. CalmIsEarlier'
      BY <2>1, <2>2, UnpublishedIsUnstamped DEF CalmIsEarlier
    <2> QED
      BY <2>3, <2>4
  <1>2. CASE ~(\E m \in Message : Publish(m))
    <2>1. calm' = calm
      BY <1>2, OnlyPublishCalms
    <2>2. \A y \in Message : \A x \in calm[y] : x \in Message
      BY <1>0 DEF TypeOK
    <2>3. CalmStaysOver'
      BY <2>1, <2>2, OverStays DEF CalmStaysOver
    <2>4. ASSUME at' = at PROVE CalmIsEarlier'
      BY <2>1, <2>4 DEF CalmIsEarlier
    <2>5. ASSUME NEW a \in Attempt, Open(a), RootIs(a, "known") PROVE CalmIsEarlier'
      <3>1. at' = [at EXCEPT ![a] = clock + 1] /\ pc[a] = "open"
        BY <2>5 DEF Open, RootIs, IngestedAt
      <3> SUFFICES ASSUME NEW y \in Message, NEW x \in calm[y], NEW n \in 1 .. MaxAttempts,
                          NEW k \in 1 .. MaxAttempts, at'[<<y, n>>] # 0
                   PROVE  at'[<<x, k>>] < at'[<<y, n>>]
        BY <2>1 DEF CalmIsEarlier
      <3>2. <<y, n>> \in Attempt /\ <<x, k>> \in Attempt
        BY <2>2 DEF Attempt
      <3>3. <<x, k>> # a
        <4>1. ~Running(<<x, k>>)
          BY DEF CalmStaysOver, Over
        <4> QED
          BY <3>1, <4>1 DEF Running
      <3>4. at'[<<x, k>>] = at[<<x, k>>] /\ at[<<x, k>>] \in Nat /\ at[<<x, k>>] <= clock /\ clock \in Nat
        BY <1>0, <3>1, <3>2, <3>3 DEF TypeOK, Stamps
      <3>5. CASE <<y, n>> = a
        <4>1. at'[<<y, n>>] = clock + 1
          BY <1>0, <3>1, <3>5 DEF TypeOK
        <4> QED
          BY <3>4, <4>1
      <3>6. CASE <<y, n>> # a
        <4>1. at'[<<y, n>>] = at[<<y, n>>]
          BY <1>0, <3>1, <3>2, <3>6 DEF TypeOK
        <4> QED
          BY <3>4, <4>1 DEF CalmIsEarlier
      <3> QED
        BY <3>5, <3>6
    <2>6. CalmIsEarlier'
      BY <2>4, <2>5, OnlyOpenStamps
    <2> QED
      BY <2>3, <2>6
  <1> QED
    BY <1>1, <1>2

(* A correction that is published when everything before it is over is     *)
(* what the view serves for its keys, whatever is redelivered, repeated or *)
(* lands late (warehouse/main.tf:42, service.go:43).                       *)
THEOREM QuietCorrections == Spec => []QuietCorrectionWins
  <1>1. IInv /\ QuietInv /\ [Next]_vars => QuietInv'
    BY StampsStep, RowsStep, CalmStep DEF QuietInv
  <1>2. TypeOK /\ QuietInv => QuietCorrectionWins
    <2> SUFFICES ASSUME TypeOK, QuietInv, NEW y \in Message, NEW x \in calm[y], NEW k \in Key,
                        NEW i \in Rows(k), i[1][1] = y, NEW j \in Serving(k), j[1][1] = x
                 PROVE  FALSE
      BY DEF QuietCorrectionWins
    <2>1. i \in table /\ j \in table /\ at[i[1]] <= at[j[1]]
      BY DEF Rows, Serving
    <2>2. i[1] \in Attempt /\ j[1] \in Attempt
      BY <2>1 DEF TypeOK
    <2>3. i[1] = <<y, i[1][2]>> /\ j[1] = <<x, j[1][2]>>
          /\ i[1][2] \in 1 .. MaxAttempts /\ j[1][2] \in 1 .. MaxAttempts
      BY <2>2, AttemptParts
    <2>4. at[i[1]] # 0
      BY <2>1 DEF QuietInv, RowsAreStamped
    <2>5. at[j[1]] < at[i[1]]
      BY <2>3, <2>4 DEF QuietInv, CalmIsEarlier
    <2> QED
      BY <2>1, <2>2, <2>5 DEF TypeOK
  <1>3. IInv => TypeOK
    BY DEF IInv
  <1> QED
    BY <1>1, <1>2, <1>3, QuietInit, Invariance, PTL DEF Spec
=============================================================================
