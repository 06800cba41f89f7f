---------------------------- MODULE MCEsmpParser ----------------------------
(***************************************************************************)
(* Documents for EsmpParser: legal ones, and every document one or two     *)
(* edits away from them.                                                   *)
(***************************************************************************)
EXTENDS EsmpParser

Open(e)     == [el |-> e, val |-> "open", num |-> 0]
Close(e)    == [el |-> e, val |-> "close", num |-> 0]
Leaf(e, v)  == [el |-> e, val |-> v, num |-> 0]
Number(e, n) == [el |-> e, val |-> "number", num |-> n]
Coded(c, n)  == [el |-> "Point", val |-> c, num |-> n]

MCText == {"", "bad", "open", "close", "number", "s1", "s2", "s9", "m2", "m9", "A01", "A02", "A03", "kWh"}

(* Two series, the first of two periods: meters named both ways.           *)
Large ==
    <<Open("series"), Leaf("mRID", "s1"), Leaf("businessType", "A01"), Leaf("unit", "kWh"),
      Open("period"), Number("timeInterval", 100), Number("resolution", 15),
      Number("Point", 1), Coded("A02", 2), Close("period"),
      Open("period"), Number("timeInterval", 200), Number("resolution", 60),
      Number("Point", 1), Close("period"), Close("series"),
      Open("series"), Leaf("mRID", "s2"), Leaf("unit", "kWh"), Leaf("MarketEvaluationPoint", "m2"),
      Open("period"), Number("resolution", 15), Number("timeInterval", 300),
      Coded("A03", 4), Close("period"), Close("series"), Close("root")>>

Small ==
    <<Open("series"), Leaf("mRID", "s1"), Leaf("unit", "kWh"),
      Open("period"), Number("timeInterval", 100), Number("resolution", 15),
      Number("Point", 1), Number("Point", 2), Close("period"), Close("series"), Close("root")>>

Leaves ==
    {Leaf("mRID", ""), Leaf("mRID", "s9"), Leaf("MarketEvaluationPoint", ""),
     Leaf("MarketEvaluationPoint", "m9"), Leaf("unit", "bad"), Leaf("unit", ""),
     Leaf("businessType", "A01"), Leaf("timeInterval", "bad"), Number("timeInterval", 500),
     Leaf("resolution", "bad"), Number("resolution", 60),
     Number("Point", 0), Number("Point", 3), Leaf("Point", "bad"), Leaf("other", "")}

Common == {Leaf("mRID", ""), Leaf("MarketEvaluationPoint", "m9"), Leaf("unit", ""),
           Number("timeInterval", 500), Number("resolution", 60), Number("Point", 3)}

IsLeaf(t) == t.val \notin {"open", "close"}

(* One leaf inserted or taken out, or the end of the document cut off.     *)
Edits(d, leaves) ==
    {d} \cup {InsertAt(d, i, l) : i \in 1 .. Len(d), l \in leaves}
        \cup {RemoveAt(d, i) : i \in {j \in 1 .. Len(d) : IsLeaf(d[j])}}
        \cup {SubSeq(d, 1, i) : i \in 1 .. Len(d) - 1}

MCDocs == Edits(Large, Leaves) \cup UNION {Edits(d, Leaves) : d \in Edits(Small, Common)}
=============================================================================
