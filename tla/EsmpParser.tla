----------------------------- MODULE EsmpParser -----------------------------
(***************************************************************************)
(* The streaming ESMP parser, src/internal/consumption/xmlfmt/esmp.go: one *)
(* step per XML token, with the reading batches it emits on the way. The   *)
(* document loop (streamDocument) and the small decoders the package keeps *)
(* beside this file are modelled from how esmp.go calls them.              *)
(*                                                                         *)
(* EsmpDocument says what a document is, and what it means as a whole.      *)
(***************************************************************************)
EXTENDS EsmpDocument

CONSTANT BatchRows    \* INGEST_BATCH_ROWS

Readings == [meter : Text, unit : Text, start : Int, quality : {"missing", "estimated", "measured"},
             direction : {"production", "consumption"}]

ASSUME BoundsAssumption == BatchRows \in Nat \ {0} /\ MaxReadings \in Nat

VARIABLES
    doc,        \* the document
    pos,        \* index of the next token
    level,      \* the function reading it: "document", "series" or "period"
    series,     \* the locals of parseTimeSeries
    period,     \* the locals of parsePeriod
    batch,      \* the readings not yet emitted
    total,      \* readings appended so far
    emitted,    \* the batches emit accepted, in order
    cancelled,  \* the context has ended
    result      \* "running", or what Parse returned

vars == <<doc, pos, level, series, period, batch, total, emitted, cancelled, result>>

NewSeries == [scalar |-> [el \in Scalars |-> ""], periodSeen |-> FALSE]
NewPeriod == [meter |-> "", start |-> 0, resolution |-> 0, haveStart |-> FALSE,
              haveRes |-> FALSE, pointSeen |-> FALSE]

Token == doc[pos]
At(el, val) == pos <= Len(doc) /\ Token.el = el /\ Token.val = val

Return(r) == result' = r /\ UNCHANGED <<doc, pos, level, series, period, batch, total, emitted>>

Advance == pos' = pos + 1

-----------------------------------------------------------------------------
(* flush: an empty batch is not emitted, an emitted one starts afresh; the *)
(* error of emit stops the parser.                                         *)
Flush(rows, ok) ==
    IF rows = <<>> \/ ~ok
    THEN emitted' = emitted /\ batch' = rows
    ELSE emitted' = Append(emitted, rows) /\ batch' = <<>>

(* Any other code, or none, means measured.                                *)
Quality(code) == CASE code = "A02" -> "missing" [] code = "A03" -> "estimated" [] OTHER -> "measured"
Direction(businessType) == IF businessType = "A01" THEN "production" ELSE "consumption"

(* requirePointContext: what the first Point of a period needs.            *)
PointContext_StartOnly == period.meter # "" /\ series.scalar["unit"] # "" /\ period.haveStart
PointContext ==
    /\ period.meter # ""
    /\ series.scalar["unit"] # ""
    /\ period.haveStart
    /\ period.haveRes

(* intervalStart: positions count from 1.                                  *)
IntervalStart(p) == period.start + (p - 1) * period.resolution

Reading_StaleQuality(p) ==
    [meter |-> period.meter, unit |-> series.scalar["unit"], start |-> IntervalStart(p),
     quality |-> IF batch = <<>> THEN Quality(Token.val) ELSE batch[1].quality,
     direction |-> Direction(series.scalar["businessType"])]
Reading(p) ==
    [meter |-> period.meter, unit |-> series.scalar["unit"], start |-> IntervalStart(p),
     quality |-> Quality(Token.val), direction |-> Direction(series.scalar["businessType"])]

(* A batch is emitted as soon as it is full.                               *)
Full_Late(rows) == Len(rows) > BatchRows
Full(rows) == Len(rows) >= BatchRows

(* appendPoint.                                                            *)
AppendPoint(p) ==
    LET rows == Append(batch, Reading(p)) IN
    /\ total' = total + 1
    /\ period' = [period EXCEPT !.pointSeen = TRUE]
    /\ IF Full(rows)
       THEN \E ok \in BOOLEAN :
               /\ Flush(rows, ok)
               /\ result' = IF ok THEN "running" ELSE "emit failed"
       ELSE batch' = rows /\ UNCHANGED <<emitted, result>>
    /\ Advance
    /\ UNCHANGED <<doc, level, series, cancelled>>

-----------------------------------------------------------------------------
Running(l) == result = "running" /\ level = l

(* d.Token fails: the document stops before its root element is closed.    *)
Truncated ==
    /\ result = "running"
    /\ pos > Len(doc)
    /\ level = "document" => ~cancelled
    /\ Return("malformed")
    /\ UNCHANGED cancelled

(* The document loop looks at the context before each of its own tokens.   *)
DocumentCancelled ==
    /\ Running("document")
    /\ cancelled
    /\ Return("transient")
    /\ UNCHANGED cancelled

DocumentToken ==
    /\ Running("document")
    /\ ~cancelled
    /\ pos <= Len(doc)
    /\ ~At("root", "close")
    /\ IF At("series", "open")
       THEN level' = "series" /\ series' = NewSeries
       ELSE UNCHANGED <<level, series>>
    /\ Advance
    /\ UNCHANGED <<doc, period, batch, total, emitted, cancelled, result>>

(* The end of the root element flushes what is left.                       *)
FinishDocument_DropTail ==
    /\ Running("document")
    /\ ~cancelled
    /\ At("root", "close")
    /\ Return("ok")
    /\ UNCHANGED cancelled

FinishDocument ==
    /\ Running("document")
    /\ ~cancelled
    /\ At("root", "close")
    /\ \E ok \in BOOLEAN :
          /\ Flush(batch, ok)
          /\ result' = IF batch = <<>> \/ ok THEN "ok" ELSE "emit failed"
    /\ Advance
    /\ UNCHANGED <<doc, level, series, period, total, cancelled>>

(* parseTimeSeries: a scalar is recorded, unless a Period came before it.  *)
ScalarAllowed_Always == TRUE
ScalarAllowed == ~series.periodSeen

SeriesScalar ==
    /\ Running("series")
    /\ pos <= Len(doc)
    /\ Token.el \in Scalars
    /\ IF ScalarAllowed /\ Token.val # "bad"
       THEN /\ series' = [series EXCEPT !.scalar[Token.el] = Token.val]
            /\ Advance
            /\ UNCHANGED <<doc, level, period, batch, total, emitted, cancelled, result>>
       ELSE Return("malformed") /\ UNCHANGED cancelled

MeterID_SeriesFirst == IF series.scalar["mRID"] = "" THEN series.scalar["MarketEvaluationPoint"]
                       ELSE series.scalar["mRID"]

(* A Period inherits the meter, which falls back to the series' own mRID.  *)
MeterID == IF series.scalar["MarketEvaluationPoint"] = "" THEN series.scalar["mRID"]
           ELSE series.scalar["MarketEvaluationPoint"]

OpenPeriod ==
    /\ Running("series")
    /\ At("period", "open")
    /\ level' = "period"
    /\ series' = [series EXCEPT !.periodSeen = TRUE]
    /\ period' = [NewPeriod EXCEPT !.meter = MeterID]
    /\ Advance
    /\ UNCHANGED <<doc, batch, total, emitted, cancelled, result>>

(* Any other child of a series is skipped; the end tag returns.            *)
SeriesOther ==
    /\ Running("series")
    /\ pos <= Len(doc)
    /\ Token.el \notin Scalars
    /\ ~At("period", "open")
    /\ level' = IF At("series", "close") THEN "document" ELSE "series"
    /\ Advance
    /\ UNCHANGED <<doc, series, period, batch, total, emitted, cancelled, result>>

(* parsePeriod: timeInterval and resolution, unless a Point came before.   *)
PeriodScalar ==
    /\ Running("period")
    /\ pos <= Len(doc)
    /\ Token.el \in {"timeInterval", "resolution"}
    /\ IF period.pointSeen \/ Token.val = "bad"
       THEN Return("malformed") /\ UNCHANGED cancelled
       ELSE /\ period' = IF Token.el = "timeInterval"
                         THEN [period EXCEPT !.start = Token.num, !.haveStart = TRUE]
                         ELSE [period EXCEPT !.resolution = Token.num, !.haveRes = TRUE]
            /\ Advance
            /\ UNCHANGED <<doc, level, series, batch, total, emitted, cancelled, result>>

TooMany_OffByOne == total > MaxReadings
TooMany == total + 1 > MaxReadings

PeriodPoint ==
    /\ Running("period")
    /\ pos <= Len(doc)
    /\ Token.el = "Point"
    /\ IF \/ ~period.pointSeen /\ ~PointContext
          \/ Token.val = "bad"
          \/ Token.num < 1
          \/ TooMany
       THEN Return("malformed") /\ UNCHANGED cancelled
       ELSE AppendPoint(Token.num)

PeriodOther ==
    /\ Running("period")
    /\ pos <= Len(doc)
    /\ Token.el \notin {"timeInterval", "resolution", "Point"}
    /\ level' = IF At("period", "close") THEN "series" ELSE "period"
    /\ Advance
    /\ UNCHANGED <<doc, series, period, batch, total, emitted, cancelled, result>>

Cancel ==
    /\ result = "running"
    /\ ~cancelled
    /\ cancelled' = TRUE
    /\ UNCHANGED <<doc, pos, level, series, period, batch, total, emitted, result>>

Done == result # "running" /\ UNCHANGED vars

Parse ==
    \/ Truncated \/ DocumentCancelled \/ DocumentToken \/ FinishDocument
    \/ SeriesScalar \/ OpenPeriod \/ SeriesOther
    \/ PeriodScalar \/ PeriodPoint \/ PeriodOther

Init ==
    /\ doc \in Docs
    /\ pos = 1
    /\ level = "document"
    /\ series = NewSeries
    /\ period = NewPeriod
    /\ batch = <<>>
    /\ total = 0
    /\ emitted = <<>>
    /\ cancelled = FALSE
    /\ result = "running"

Next == Parse \/ Cancel \/ Done
Spec == Init /\ [][Next]_vars

-----------------------------------------------------------------------------
Stored == FlattenSeq(emitted)

-----------------------------------------------------------------------------
CursorType == doc \in Seq(Tokens) /\ pos \in 1 .. Len(doc) + 1
LocalsType ==
    /\ series \in [scalar : [Scalars -> Text], periodSeen : BOOLEAN]
    /\ period \in [meter : Text, start : Int, resolution : Int, haveStart : BOOLEAN,
                   haveRes : BOOLEAN, pointSeen : BOOLEAN]
RowsType == batch \in Seq(Readings) /\ emitted \in Seq(Seq(Readings)) /\ total \in 0 .. MaxReadings
StatusType ==
    /\ level \in {"document", "series", "period"}
    /\ cancelled \in BOOLEAN
    /\ result \in {"running", "ok", "malformed", "transient", "emit failed"}
TypeOK == CursorType /\ LocalsType /\ RowsType /\ StatusType

(* Every point is emitted once, in document order, with the meter, unit,   *)
(* interval and direction in force where it stands and its own quality:    *)
(* the reading of the n-th point is the n-th row. What has been emitted    *)
(* when the parser stops early is a prefix of that (esmp.go:147-275).      *)
EmitsReadingsInOrder ==
    LET Rows == Stored \o batch IN
    /\ Len(Rows) = total /\ total <= Cardinality(PointsAt(doc))
    /\ \A i \in PointsAt(doc) : Rank(doc, i) <= total => Rows[Rank(doc, i)] = ReadingAt(doc, i)

(* Memory stays proportional to a batch: between tokens a batch is never   *)
(* full, and every batch emitted but the last has exactly BatchRows rows.  *)
BatchesAreBounded ==
    /\ result = "running" => Len(batch) < BatchRows
    /\ \A n \in 1 .. Len(emitted) :
          IF n < Len(emitted) THEN Len(emitted[n]) = BatchRows
          ELSE Len(emitted[n]) \in 1 .. BatchRows

(* The parser accepts exactly the legal documents: whatever it does token  *)
(* by token, "ok" is returned for a document that is legal as a whole and  *)
(* whose points were all emitted, and "malformed" only for one that is not *)
(* (esmp.go:63-73, 136-147).                                               *)
AcceptsExactlyLegal ==
    /\ result = "ok" => Legal(doc) /\ batch = <<>> /\ total = Cardinality(PointsAt(doc))
    /\ result = "malformed" => ~Legal(doc)
=============================================================================
