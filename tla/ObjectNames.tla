---------------------------- MODULE ObjectNames ----------------------------
(***************************************************************************)
(* ObjectName and sanitizeID (src/internal/consumption/quarantine/gcs.go): *)
(* the name a parked payload is stored under. An id is the sequence of its *)
(* characters. The date and the time of day are one instant, and "unknown" *)
(* counts as one character, which only matters for its length.             *)
(***************************************************************************)
EXTENDS Naturals, Sequences, FiniteSetsExt

CONSTANTS
    Plain,      \* the letters, the digits and "-"
    MaxLen,     \* at most so many characters of an id are kept
    Digest      \* the first half word of the SHA-256 of an id

ASSUME NamesAssumption ==
    /\ MaxLen \in Nat \ {0}
    /\ {"unknown"} \subseteq Plain /\ Plain \cap {".", "_", "/"} = {}

Kept == Plain \cup {".", "_"}

Replaced_Verbatim(id) == id
Replaced(id) == [i \in DOMAIN id |-> IF id[i] \in Kept THEN id[i] ELSE "_"]

(* Leading and trailing "_" and "." are stripped, then the length is cut:  *)
(* the end of a long id may be one of them again.                          *)
Solid(s) == {i \in DOMAIN s : s[i] \notin {"_", "."}}
Trim(s) == IF Solid(s) = {} THEN <<>> ELSE SubSeq(s, Min(Solid(s)), Max(Solid(s)))

Capped(s) == SubSeq(s, 1, IF Len(s) > MaxLen THEN MaxLen ELSE Len(s))

SanitizeID(id) ==
    LET safe == Capped(Trim(Replaced(id)))
    IN  IF safe = <<>> THEN <<"unknown">> ELSE safe

ObjectName_NoDigest(now, id) == [at |-> now, digest |-> 0, safe |-> SanitizeID(id)]
ObjectName(now, id) == [at |-> now, digest |-> Digest[id], safe |-> SanitizeID(id)]
=============================================================================
