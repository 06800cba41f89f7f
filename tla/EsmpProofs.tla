----------------------------- MODULE EsmpProofs -----------------------------
(***************************************************************************)
(* Proofs about EsmpParser: its types, and that whatever the document the  *)
(* parser never holds more than a batch.                                   *)
(***************************************************************************)
EXTENDS EsmpParser, TLAPS

(* While the parser runs, every batch emitted was a full one; only the     *)
(* flush at the end of the document emits a shorter one.                   *)
FullBatches ==
    /\ result = "running" => Len(batch) < BatchRows
    /\ result = "running" => \A n \in 1 .. Len(emitted) : Len(emitted[n]) = BatchRows

-----------------------------------------------------------------------------
(* The token under the cursor.                                             *)
LEMMA TokenType == ASSUME CursorType, pos <= Len(doc) PROVE Token \in Tokens
<1>1. pos \in 1 .. Len(doc)
  BY DEF CursorType
<1> QED
  BY <1>1 DEF CursorType, Token

LEMMA ReadingType ==
  ASSUME LocalsType, NEW p \in Int PROVE Reading(p) \in Readings
  BY DEF LocalsType, Reading, Readings, IntervalStart, Quality, Direction, Scalars

(* flush either leaves everything or moves the batch to the emitted ones.  *)
LEMMA FlushType ==
  ASSUME emitted \in Seq(Seq(Readings)), NEW rows \in Seq(Readings), NEW ok \in BOOLEAN, Flush(rows, ok)
  PROVE  batch' \in Seq(Readings) /\ emitted' \in Seq(Seq(Readings))
<1>1. CASE rows = <<>> \/ ~ok
  BY <1>1 DEF Flush
<1>2. CASE ~(rows = <<>> \/ ~ok)
  <2>1. emitted' = Append(emitted, rows) /\ batch' = <<>>
    BY <1>2 DEF Flush
  <2> QED
    BY <2>1
<1> QED
  BY <1>1, <1>2

-----------------------------------------------------------------------------
(* The cursor stays or moves over one token.                               *)
LEMMA CursorStep == ASSUME TypeOK, [Next]_vars PROVE CursorType'
<1> DEFINE Step == UNCHANGED <<doc, pos>> \/ (doc' = doc /\ pos' = pos + 1 /\ pos <= Len(doc))
<1>1. Step
  <2>1. CASE Truncated \/ DocumentCancelled
    BY <2>1 DEF Truncated, DocumentCancelled, Return
  <2>7. CASE Cancel
    BY <2>7 DEF Cancel
  <2>8. CASE Done \/ UNCHANGED vars
    BY <2>8 DEF Done, vars
  <2>2. CASE DocumentToken \/ OpenPeriod \/ SeriesOther \/ PeriodOther
    BY <2>2 DEF DocumentToken, OpenPeriod, SeriesOther, PeriodOther, Advance, At
  <2>3. CASE FinishDocument
    BY <2>3 DEF FinishDocument, Advance, At
  <2>4. CASE SeriesScalar
    BY <2>4 DEF SeriesScalar, Return, Advance
  <2>5. CASE PeriodScalar
    BY <2>5 DEF PeriodScalar, Return, Advance
  <2>6. CASE PeriodPoint
    BY <2>6 DEF PeriodPoint, AppendPoint, Return, Advance
  <2> QED
    BY <2>1, <2>2, <2>3, <2>4, <2>5, <2>6, <2>7, <2>8 DEF Next, Parse
<1>2. CursorType
  BY DEF TypeOK
<1> QED
  BY <1>1, <1>2 DEF CursorType

LEMMA NewLocalsType ==
  /\ NewSeries \in [scalar : [Scalars -> Text], periodSeen : BOOLEAN]
  /\ NewPeriod \in [meter : Text, start : Int, resolution : Int, haveStart : BOOLEAN,
                    haveRes : BOOLEAN, pointSeen : BOOLEAN]
<1>1. [el \in Scalars |-> ""] \in [Scalars -> Text]
  BY TextAssumption
<1>2. NewSeries \in [scalar : [Scalars -> Text], periodSeen : BOOLEAN]
  BY <1>1 DEF NewSeries
<1>3. PICK empty \in Text : empty = ""
  BY TextAssumption
<1>4. [meter |-> empty, start |-> 0, resolution |-> 0, haveStart |-> FALSE, haveRes |-> FALSE,
       pointSeen |-> FALSE]
        \in [meter : Text, start : Int, resolution : Int, haveStart : BOOLEAN, haveRes : BOOLEAN,
            pointSeen : BOOLEAN]
  OBVIOUS
<1> QED
  BY <1>2, <1>3, <1>4, Zenon DEF NewPeriod

(* Only five actions write the locals of parseTimeSeries and parsePeriod.  *)
LEMMA LocalsStep == ASSUME TypeOK, [Next]_vars PROVE LocalsType'
<1>1. CursorType /\ LocalsType
  BY DEF TypeOK
<1>2. CASE DocumentToken
  <2>1. period' = period /\ (series' = series \/ series' = NewSeries)
    BY <1>2 DEF DocumentToken
  <2> QED
    BY <1>1, <2>1, NewLocalsType DEF LocalsType
<1>3. CASE SeriesScalar
  <2>1. Token.el \in Scalars /\ Token.val \in Text
    BY <1>1, <1>3, TokenType DEF SeriesScalar, Tokens
  <2>2. period' = period /\ (series' = series \/ series' = [series EXCEPT !.scalar[Token.el] = Token.val])
    BY <1>3 DEF SeriesScalar, Return
  <2> QED
    BY <1>1, <2>1, <2>2 DEF LocalsType
<1>4. CASE OpenPeriod
  <2>1. MeterID \in Text
    BY <1>1 DEF LocalsType, MeterID, Scalars
  <2> QED
    <3>1. series' = [series EXCEPT !.periodSeen = TRUE] /\ period' = [NewPeriod EXCEPT !.meter = MeterID]
      BY <1>4 DEF OpenPeriod
    <3> QED
      BY <1>1, <2>1, <3>1, NewLocalsType DEF LocalsType
<1>5. CASE PeriodScalar
  <2>1. Token.num \in Int
    BY <1>1, <1>5, TokenType DEF PeriodScalar, Tokens
  <2>2. /\ series' = series
        /\ \/ period' = period
           \/ period' = [period EXCEPT !.start = Token.num, !.haveStart = TRUE]
           \/ period' = [period EXCEPT !.resolution = Token.num, !.haveRes = TRUE]
    BY <1>5 DEF PeriodScalar, Return
  <2> QED
    BY <1>1, <2>1, <2>2 DEF LocalsType
<1>6. CASE PeriodPoint
  <2>1. series' = series /\ (period' = period \/ period' = [period EXCEPT !.pointSeen = TRUE])
    BY <1>6 DEF PeriodPoint, AppendPoint, Return
  <2> QED
    BY <1>1, <2>1 DEF LocalsType
<1>7. CASE UNCHANGED <<series, period>>
  BY <1>1, <1>7 DEF LocalsType
<1> QED
  BY <1>2, <1>3, <1>4, <1>5, <1>6, <1>7
     DEF Next, Parse, Truncated, DocumentCancelled, FinishDocument, SeriesOther, PeriodOther, Cancel,
         Done, vars, Return

(* Only a Point and the end of the document touch the readings.            *)
LEMMA RowsStep == ASSUME TypeOK, [Next]_vars PROVE RowsType'
<1>1. CursorType /\ LocalsType /\ RowsType
  BY DEF TypeOK
<1>2. CASE FinishDocument
  <2>1. PICK ok \in BOOLEAN : Flush(batch, ok)
    BY <1>2 DEF FinishDocument
  <2>2. total' = total
    BY <1>2 DEF FinishDocument
  <2> QED
    BY <1>1, <2>1, <2>2, FlushType DEF RowsType
<1>3. CASE PeriodPoint
  <2>1. CASE AppendPoint(Token.num) /\ ~TooMany
    <3>1. Token.num \in Int
      BY <1>1, <1>3, TokenType DEF PeriodPoint, Tokens
    <3>2. Append(batch, Reading(Token.num)) \in Seq(Readings)
      BY <1>1, <3>1, ReadingType DEF RowsType
    <3>3. batch' \in Seq(Readings) /\ emitted' \in Seq(Seq(Readings))
      BY <1>1, <2>1, <3>2, FlushType DEF AppendPoint, RowsType
    <3>4. total' = total + 1 /\ total + 1 <= MaxReadings
      <4>1. total' = total + 1 /\ ~(total + 1 > MaxReadings)
        BY <2>1 DEF AppendPoint, TooMany
      <4> QED
        BY <1>1, <4>1, BoundsAssumption DEF RowsType
    <3> QED
      BY <1>1, <3>3, <3>4, BoundsAssumption DEF RowsType
  <2>2. CASE Return("malformed")
    BY <1>1, <2>2 DEF Return, RowsType
  <2> QED
    BY <1>3, <2>1, <2>2 DEF PeriodPoint
<1>4. CASE UNCHANGED <<batch, emitted, total>>
  BY <1>1, <1>4 DEF RowsType
<1> QED
  BY <1>2, <1>3, <1>4
     DEF Next, Parse, Truncated, DocumentCancelled, DocumentToken, SeriesScalar, OpenPeriod, SeriesOther,
         PeriodScalar, PeriodOther, Cancel, Done, vars, Return

LEMMA StatusStep == ASSUME TypeOK, [Next]_vars PROVE StatusType'
<1>1. StatusType
  BY DEF TypeOK
<1> QED
  BY <1>1 DEF StatusType, Next, Parse, Truncated, DocumentCancelled, DocumentToken, FinishDocument,
         SeriesScalar, OpenPeriod, SeriesOther, PeriodScalar, PeriodPoint, AppendPoint, PeriodOther,
         Cancel, Done, vars, Return

(* Type correctness (esmp.go:73-253).                                      *)
THEOREM TypeCorrect == Spec => []TypeOK
<1>1. Init => TypeOK
  <2> SUFFICES ASSUME Init PROVE TypeOK
    OBVIOUS
  <2>1. CursorType
    BY DocsAssumption DEF Init, CursorType
  <2>2. LocalsType
    BY NewLocalsType DEF Init, LocalsType
  <2>3. RowsType
    BY BoundsAssumption DEF Init, RowsType
  <2>4. StatusType
    BY DEF Init, StatusType
  <2> QED
    BY <2>1, <2>2, <2>3, <2>4 DEF TypeOK
<1>2. TypeOK /\ [Next]_vars => TypeOK'
  BY CursorStep, LocalsStep, RowsStep, StatusStep DEF TypeOK
<1> QED
  BY <1>1, <1>2, PTL DEF Spec

-----------------------------------------------------------------------------
(* What the parser holds and emits: for every document and every batch     *)
(* size, fewer readings than a batch between two tokens, and full batches  *)
(* but for the last (esmp.go:136-139, 246-250).                            *)
THEOREM BoundedBatches == Spec => []BatchesAreBounded
<1>1. Init => BatchesAreBounded /\ FullBatches
  BY BoundsAssumption DEF Init, BatchesAreBounded, FullBatches
<1>2. TypeOK /\ BatchesAreBounded /\ FullBatches /\ [Next]_vars => (BatchesAreBounded /\ FullBatches)'
  <2> SUFFICES ASSUME TypeOK, BatchesAreBounded, FullBatches, [Next]_vars
               PROVE  (BatchesAreBounded /\ FullBatches)'
    OBVIOUS
  <2> USE BoundsAssumption
  <2>0. CursorType /\ LocalsType /\ RowsType
    BY DEF TypeOK
  <2>1. CASE UNCHANGED <<batch, emitted>> /\ (result' = "running" => result = "running")
    BY <2>1 DEF BatchesAreBounded, FullBatches
  <2>2. CASE FinishDocument
    <3>1. PICK ok \in BOOLEAN : Flush(batch, ok) /\ result' = IF batch = <<>> \/ ok THEN "ok" ELSE "emit failed"
      BY <2>2 DEF FinishDocument
    <3>2. result = "running" /\ result' # "running"
      BY <2>2, <3>1 DEF FinishDocument, Running
    <3>3. CASE batch = <<>> \/ ~ok
      BY <3>1, <3>2, <3>3 DEF Flush, BatchesAreBounded, FullBatches
    <3>4. CASE batch # <<>> /\ ok
      <4>1. emitted' = Append(emitted, batch) /\ Len(batch) \in 1 .. BatchRows
        BY <3>1, <3>2, <3>4 DEF Flush, FullBatches, RowsType
      <4>2. \A n \in 1 .. Len(emitted) : emitted'[n] = emitted[n] /\ Len(emitted[n]) = BatchRows
        BY <3>2, <4>1 DEF FullBatches, RowsType
      <4>3. Len(emitted') = Len(emitted) + 1 /\ emitted'[Len(emitted) + 1] = batch
        BY <2>0, <4>1 DEF RowsType
      <4> QED
        BY <3>2, <4>1, <4>2, <4>3 DEF BatchesAreBounded, FullBatches, RowsType
    <3> QED
      BY <3>3, <3>4
  <2>3. CASE PeriodPoint
    <3>1. CASE AppendPoint(Token.num) /\ pos <= Len(doc)
      <4> DEFINE rows == Append(batch, Reading(Token.num))
      <4>1. result = "running"
        BY <2>3 DEF PeriodPoint, Running
      <4>2. Token.num \in Int
        BY <2>0, <3>1, TokenType DEF Tokens
      <4>3. rows \in Seq(Readings) /\ Len(rows) \in 1 .. BatchRows
        <5>1. Reading(Token.num) \in Readings
          BY <2>0, <4>2, ReadingType
        <5>2. batch \in Seq(Readings) /\ Len(batch) < BatchRows
          BY <2>0, <4>1 DEF RowsType, FullBatches
        <5> QED
          BY <5>1, <5>2
      <4>4. CASE ~Full(rows)
        <5>1. batch' = rows /\ UNCHANGED <<emitted, result>> /\ Len(rows) < BatchRows
          BY <3>1, <4>3, <4>4 DEF AppendPoint, Full
        <5> QED
          BY <4>1, <5>1 DEF BatchesAreBounded, FullBatches
      <4>5. CASE Full(rows)
        <5>1. PICK ok \in BOOLEAN : Flush(rows, ok) /\ result' = IF ok THEN "running" ELSE "emit failed"
          BY <3>1, <4>5 DEF AppendPoint
        <5>2. Len(rows) = BatchRows /\ rows # <<>>
          BY <4>3, <4>5 DEF Full
        <5>3. CASE ~ok
          BY <4>1, <5>1, <5>3 DEF Flush, BatchesAreBounded, FullBatches
        <5>4. CASE ok
          <6>1. emitted' = Append(emitted, rows) /\ batch' = <<>>
            BY <5>1, <5>2, <5>4 DEF Flush
          <6>2. \A n \in 1 .. Len(emitted') : Len(emitted'[n]) = BatchRows
            BY <4>1, <4>3, <5>2, <6>1 DEF FullBatches, RowsType
          <6>3. Len(batch') < BatchRows
            BY <6>1
          <6> QED
            BY <6>2, <6>3 DEF BatchesAreBounded, FullBatches
        <5> QED
          BY <5>3, <5>4
      <4> QED
        BY <4>4, <4>5
    <3>2. CASE Return("malformed") /\ UNCHANGED cancelled
      BY <2>1, <3>2 DEF Return
    <3> QED
      BY <2>3, <3>1, <3>2 DEF PeriodPoint
  <2>4. ASSUME ~FinishDocument, ~PeriodPoint
        PROVE  UNCHANGED <<batch, emitted>> /\ (result' = "running" => result = "running")
    BY <2>4 DEF Next, Parse, Truncated, DocumentCancelled, DocumentToken, SeriesScalar, OpenPeriod,
                SeriesOther, PeriodScalar, PeriodOther, Cancel, Done, vars, Return
  <2> QED
    BY <2>1, <2>2, <2>3, <2>4
<1> QED
  BY <1>1, <1>2, TypeCorrect, PTL DEF Spec
=============================================================================
