------------------------------ MODULE MCIngest ------------------------------
(***************************************************************************)
(* Instances of Ingest for TLC: the documents the messages carry.          *)
(***************************************************************************)
EXTENDS Ingest

CONSTANTS k1, k2, good, twin, fix, torn, cut, garbled, oversize, alien, empty

Batch(ks, ok) == [keys |-> ks, valid |-> ok]
Plain(bs, end) == [body |-> "json", root |-> "known", batches |-> bs, tail |-> end]
Opaque(b, r) == [body |-> b, root |-> r, batches |-> <<>>, tail |-> "end"]

MCDocument(m) ==
    CASE m = good     -> Plain(<<Batch({k1}, TRUE), Batch({k2}, TRUE)>>, "end")
      [] m = twin     -> Plain(<<Batch({k1}, TRUE)>>, "end")
      [] m = fix      -> Plain(<<Batch({k1}, TRUE)>>, "end")
      [] m = torn     -> Plain(<<Batch({k1}, TRUE), Batch({k2}, FALSE)>>, "end")
      [] m = cut      -> Plain(<<Batch({k1}, TRUE)>>, "malformed")
      [] m = garbled  -> Opaque("garbled", "none")
      [] m = oversize -> Opaque("oversize", "none")
      [] m = alien    -> Opaque("json", "unknown")
      [] m = empty    -> Opaque("json", "none")

MCDoc == [m \in Message |-> MCDocument(m)]

(* Bounds that keep the two-message instances small and take away no       *)
(* write: a run that would park stops there instead (parking writes no     *)
(* row), and contexts do not end (a run still stops anywhere, by a crash   *)
(* or by a failed append).                                                 *)
Steady == UNCHANGED <<quarantine, logged, env>>

SteadySpec == Init /\ [][Next /\ Steady]_vars

(* A publisher that corrects nothing before all it sent is over: the       *)
(* behaviours in which QuietCorrectionWins speaks of every pair.           *)
OneAtATime ==
    \A m \in Message : sub[m] = "none" /\ sub'[m] # "none" =>
        \A x \in Message : sub[x] = "none" \/ Over(x)

QuietSpec == Init /\ [][Next /\ Steady /\ OneAtATime]_vars
=============================================================================
