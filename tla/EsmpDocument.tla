---------------------------- MODULE EsmpDocument ----------------------------
(***************************************************************************)
(* What an ESMP document means, said of the whole document at once and     *)
(* without a parser: which documents are legal, and which reading each of  *)
(* their points stands for. EsmpParser is checked and proved against it.   *)
(*                                                                         *)
(* A document is a sequence of tokens [el, val, num]: "series", "period"   *)
(* and "root" open or close an element (val "open" or "close"); any other  *)
(* el is a whole leaf element with its content. Content is abstracted to   *)
(* what the parser tells apart: val "" is empty and "bad" does not decode; *)
(* a start or a resolution is a number of minutes, a Point its position    *)
(* and, as its val, its quality code.                                      *)
(***************************************************************************)
EXTENDS Integers, Sequences, FiniteSets, SequencesExt

CONSTANTS
    Text,           \* the texts a document holds
    Docs,           \* the documents to parse
    MaxReadings     \* maxReadingsPerDocument

Scalars == {"mRID", "businessType", "unit", "MarketEvaluationPoint"}
Elements == Scalars \cup {"root", "series", "period", "timeInterval", "resolution", "Point", "other"}
Tokens == [el : Elements, val : Text, num : Int]

Is(t, el, val) == t.el = el /\ t.val = val

-----------------------------------------------------------------------------
(* Where the element el enclosing token i was opened, 0 if none does.      *)
Opened(d, el, i) ==
    {j \in 1 .. i - 1 : Is(d[j], el, "open") /\ ~ \E k \in j .. i - 1 : Is(d[k], el, "close")}
Encloser(d, el, i) == Max({0} \cup Opened(d, el, i))

InPeriod(d, i) == Encloser(d, "period", i) # 0
InSeries(d, i) == Encloser(d, "series", i) # 0 /\ ~InPeriod(d, i)

(* Elements nest, as encoding/xml enforces, and one that stands where the  *)
(* parser does not look for it is skipped whole: it is one token "other".  *)
(* A document may stop anywhere.                                           *)
WellNested(d) ==
    \A i \in 1 .. Len(d) :
        /\ d[i].el = "series" =>
              ~InPeriod(d, i) /\ d[i].val = IF InSeries(d, i) THEN "close" ELSE "open"
        /\ d[i].el = "period" =>
              /\ Encloser(d, "series", i) # 0
              /\ d[i].val = IF InPeriod(d, i) THEN "close" ELSE "open"
        /\ d[i].el = "root" =>
              d[i].val = "close" /\ i = Len(d) /\ Encloser(d, "series", i) = 0

ASSUME TextAssumption == "" \in Text
ASSUME DocsAssumption == Docs \subseteq Seq(Tokens)
ASSUME NestingAssumption == \A d \in Docs : WellNested(d)

-----------------------------------------------------------------------------
(* The leaves el before token i that speak of the series or period around  *)
(* it, and the last of them.                                               *)
SeriesLeaves(d, el, i) == {k \in Encloser(d, "series", i) .. i - 1 : k # 0 /\ d[k].el = el /\ InSeries(d, k)}
PeriodLeaves(d, el, i) == {k \in Encloser(d, "period", i) .. i - 1 : k # 0 /\ d[k].el = el}
SeriesVal(d, el, i) == IF SeriesLeaves(d, el, i) = {} THEN "" ELSE d[Max(SeriesLeaves(d, el, i))].val
PeriodNum(d, el, i) == IF PeriodLeaves(d, el, i) = {} THEN 0 ELSE d[Max(PeriodLeaves(d, el, i))].num

(* The points, and how many there are up to one of them.                   *)
PointsAt(d) == {i \in 1 .. Len(d) : d[i].el = "Point" /\ InPeriod(d, i)}
Rank(d, i) == Cardinality({j \in PointsAt(d) : j <= i})

MeterOf(d, i) ==
    IF SeriesVal(d, "MarketEvaluationPoint", i) = "" THEN SeriesVal(d, "mRID", i)
    ELSE SeriesVal(d, "MarketEvaluationPoint", i)

LegalPoint(d, i) ==
    /\ MeterOf(d, i) # "" /\ SeriesVal(d, "unit", i) # ""
    /\ PeriodLeaves(d, "timeInterval", i) # {} /\ PeriodLeaves(d, "resolution", i) # {}
    /\ d[i].val # "bad" /\ d[i].num >= 1

(* A scalar of a series decodes and stands before its Periods; an interval *)
(* or resolution decodes and stands before the Points of its Period.       *)
LegalLeaf(d, i) ==
    /\ d[i].el \in Scalars /\ InSeries(d, i) =>
          d[i].val # "bad" /\ \A j \in Encloser(d, "series", i) .. i : d[j].el # "period"
    /\ d[i].el \in {"timeInterval", "resolution"} /\ InPeriod(d, i) =>
          d[i].val # "bad" /\ \A j \in Encloser(d, "period", i) .. i : d[j].el # "Point"

Legal(d) ==
    /\ d # <<>> /\ Is(d[Len(d)], "root", "close")
    /\ \A i \in 1 .. Len(d) : LegalLeaf(d, i)
    /\ \A i \in PointsAt(d) : LegalPoint(d, i)
    /\ Cardinality(PointsAt(d)) <= MaxReadings

ReadingAt(d, i) ==
    [meter     |-> MeterOf(d, i),
     unit      |-> SeriesVal(d, "unit", i),
     start     |-> PeriodNum(d, "timeInterval", i) + (d[i].num - 1) * PeriodNum(d, "resolution", i),
     quality   |-> CASE d[i].val = "A02" -> "missing" [] d[i].val = "A03" -> "estimated"
                     [] OTHER -> "measured",
     direction |-> IF SeriesVal(d, "businessType", i) = "A01" THEN "production" ELSE "consumption"]
=============================================================================
