--------------------------- MODULE InstanceProofs ---------------------------
(***************************************************************************)
(* Proofs about Instance, for every set of environments, every request,    *)
(* every id and every size of a word.                                      *)
(***************************************************************************)
EXTENDS Instance, WellFoundedInduction, SequenceTheorems, TLAPS

-----------------------------------------------------------------------------
(* Object names.                                                           *)

LEMMA SmallestIsMin ==
    ASSUME NEW S \in SUBSET Nat, S # {}
    PROVE  Min(S) \in S /\ \A n \in S : Min(S) <= n
<1> DEFINE R == OpToRel(<, Nat)
<1>1. PICK x \in S : \A y \in S : <<y, x>> \notin R
  <2>1. IsWellFoundedOn(R, Nat)
    BY NatLessThanWellFounded
  <2> HIDE DEF R
  <2> QED
    BY <2>1, WFMin
<1>2. \A y \in S : x <= y
  <2> SUFFICES ASSUME NEW y \in S, y < x PROVE FALSE
    OBVIOUS
  <2>1. <<y, x>> \in R
    BY DEF OpToRel
  <2> QED
    BY <1>1, <2>1
<1> QED
  BY <1>2 DEF Min

LEMMA LargestIsMax ==
    ASSUME NEW b \in Nat, NEW S \in SUBSET (0 .. b), S # {}
    PROVE  Max(S) \in S /\ \A n \in S : n <= Max(S)
<1> DEFINE T == {b - n : n \in S}
<1>1. T \in SUBSET Nat /\ T # {}
  <2>1. \A n \in S : b - n \in Nat
    OBVIOUS
  <2>2. \A t \in T : t \in Nat
    BY <2>1
  <2>3. PICK n \in S : TRUE
    OBVIOUS
  <2>4. b - n \in T
    OBVIOUS
  <2> QED
    BY <2>2, <2>4
<1>2. Min(T) \in T /\ \A t \in T : Min(T) <= t
  <2> HIDE DEF T
  <2> QED
    BY <1>1, SmallestIsMin
<1>3. PICK x \in S : Min(T) = b - x
  BY <1>2
<1>4. \A n \in S : n <= x
  <2> TAKE n \in S
  <2>1. b - n \in T
    OBVIOUS
  <2> HIDE DEF T
  <2>2. b - x <= b - n
    BY <1>2, <1>3, <2>1
  <2>3. x \in Int /\ n \in Int /\ b \in Int
    OBVIOUS
  <2> QED
    BY <2>2, <2>3
<1> QED
  BY <1>4 DEF Max

(* What is put in place of an id's characters may be kept.                 *)
LEMMA ReplacedIsKept ==
    ASSUME NEW i \in Seq(STRING)
    PROVE  Replaced(i) \in Seq(Kept)
<1>1. Len(i) \in Nat /\ DOMAIN i = 1 .. Len(i)
  BY LenProperties
<1>2. "_" \in Kept
  BY DEF Kept
<1>3. Replaced(i) \in [1 .. Len(i) -> Kept]
  BY <1>1, <1>2 DEF Replaced
<1> QED
  BY <1>1, <1>3, SeqDef

(* Trimming leaves nothing, or something that begins with neither "_" nor  *)
(* ".".                                                                    *)
LEMMA TrimStartsSolid ==
    ASSUME NEW s \in Seq(Kept)
    PROVE  /\ Trim(s) \in Seq(Kept)
           /\ Trim(s) # <<>> => Trim(s)[1] \notin {".", "_"}
<1>1. CASE Solid(s) = {}
  BY <1>1 DEF Trim
<1>2. CASE Solid(s) # {}
  <2>0. Len(s) \in Nat /\ DOMAIN s = 1 .. Len(s) /\ \A k \in 1 .. Len(s) : s[k] \in Kept
    BY LenProperties, ElementOfSeq
  <2>1. Solid(s) \in SUBSET (0 .. Len(s)) /\ Solid(s) \in SUBSET Nat
    <3>1. Solid(s) \subseteq 1 .. Len(s)
      BY <2>0 DEF Solid
    <3>2. 1 .. Len(s) \subseteq 0 .. Len(s) /\ 1 .. Len(s) \subseteq Nat
      BY <2>0
    <3> QED
      BY <3>1, <3>2
  <2> DEFINE first == Min(Solid(s))
             last  == Max(Solid(s))
  <2>2. first \in Solid(s) /\ last \in Solid(s) /\ first <= last
    <3>1. first \in Solid(s) /\ \A k \in Solid(s) : first <= k
      BY <1>2, <2>1, SmallestIsMin
    <3>2. last \in Solid(s)
      BY <1>2, <2>0, <2>1, LargestIsMax
    <3> QED
      BY <3>1, <3>2
  <2>3. Trim(s) = SubSeq(s, first, last)
    BY <1>2 DEF Trim
  <2> HIDE DEF first, last
  <2>4. first \in Nat /\ last \in Nat /\ 1 <= first /\ last <= Len(s)
    <3>1. first \in DOMAIN s /\ last \in DOMAIN s
      BY <2>2 DEF Solid
    <3>2. \A k \in DOMAIN s : k \in Nat /\ 1 <= k /\ k <= Len(s)
      BY <2>0
    <3> QED
      BY <3>1, <3>2
  <2>5. \A k \in first .. last : s[k] \in Kept
    BY <2>0, <2>4
  <2>6. /\ SubSeq(s, first, last) \in Seq(Kept)
        /\ SubSeq(s, first, last)[1] = s[first]
    <3>1. /\ SubSeq(s, first, last) \in Seq(Kept)
          /\ \A k \in 1 .. last - first + 1 : SubSeq(s, first, last)[k] = s[first + k - 1]
      BY <2>4, <2>5, SubSeqProperties
    <3>2. 1 \in 1 .. last - first + 1 /\ first + 1 - 1 = first
      BY <2>2, <2>4
    <3> QED
      BY <3>1, <3>2
  <2>7. s[first] \notin {".", "_"}
    BY <2>2 DEF Solid
  <2> QED
    BY <2>3, <2>6, <2>7
<1> QED
  BY <1>1, <1>2

(* What an object may be called.                                           *)
InPrefix(safe) ==
    /\ Len(safe) \in 1 .. MaxLen
    /\ safe[1] \notin {".", "_"}
    /\ \A k \in DOMAIN safe : safe[k] \in Kept /\ safe[k] # "/"

LEMMA SanitizedInPrefix ==
    ASSUME NEW i \in Seq(STRING)
    PROVE  InPrefix(SanitizeID(i))
<1> DEFINE t    == Trim(Replaced(i))
           safe == Capped(t)
           n    == IF Len(t) > MaxLen THEN MaxLen ELSE Len(t)
<1>1. t \in Seq(Kept) /\ (t # <<>> => t[1] \notin {".", "_"})
  BY ReplacedIsKept, TrimStartsSolid
<1>2. MaxLen \in Nat \ {0} /\ "unknown" \in Kept /\ "unknown" \notin {".", "_"} /\ "/" \notin Kept
  BY NamesAssumption DEF Kept
<1> HIDE DEF t
<1>3. n \in 0 .. Len(t) /\ n <= MaxLen /\ n \in Int /\ Len(t) \in Nat /\ (t # <<>> => n >= 1)
  <2>1. Len(t) \in Nat
    BY <1>1, LenProperties
  <2>2. t # <<>> => Len(t) \in Nat \ {0}
    BY <1>1, EmptySeq
  <2> QED
    BY <1>2, <2>1, <2>2
<1>4. CASE t = <<>>
  <2>1. safe = <<>>
    BY <1>3, <1>4, SubSeqEmpty DEF Capped
  <2>2. SanitizeID(i) = <<"unknown">>
    BY <2>1 DEF SanitizeID, t
  <2> QED
    BY <2>2, <1>2 DEF InPrefix
<1>5. CASE t # <<>>
  <2> HIDE DEF n
  <2>1. safe = SubSeq(t, 1, n)
    BY DEF Capped, n
  <2>2. \A k \in 1 .. n : t[k] \in Kept
    <3>1. \A k \in 1 .. n : k \in 1 .. Len(t)
      BY <1>3
    <3> QED
      BY <1>1, <3>1, ElementOfSeq
  <2>3. /\ SubSeq(t, 1, n) \in Seq(Kept)
        /\ Len(SubSeq(t, 1, n)) = n
        /\ SubSeq(t, 1, n)[1] = t[1]
    <3>1. /\ SubSeq(t, 1, n) \in Seq(Kept)
          /\ Len(SubSeq(t, 1, n)) = IF 1 <= n THEN n - 1 + 1 ELSE 0
          /\ \A k \in 1 .. n - 1 + 1 : SubSeq(t, 1, n)[k] = t[1 + k - 1]
      BY <1>3, <2>2, SubSeqProperties
    <3> QED
      BY <3>1, <1>3, <1>5
  <2>4. safe \in Seq(Kept) /\ Len(safe) = n /\ safe[1] = t[1]
    BY <2>1, <2>3
  <2> HIDE DEF safe
  <2>5. safe # <<>>
    BY <2>4, <1>3, <1>5, EmptySeq
  <2>6. SanitizeID(i) = safe
    BY <2>5 DEF SanitizeID, t, safe
  <2>7. \A k \in DOMAIN safe : safe[k] \in Kept
    BY <2>4, LenProperties, ElementOfSeq
  <2>8. Len(safe) \in 1 .. MaxLen
    BY <2>4, <1>2, <1>3, <1>5
  <2>9. safe[1] \notin {".", "_"} /\ \A k \in DOMAIN safe : safe[k] # "/"
    BY <2>4, <2>7, <1>1, <1>2, <1>5
  <2> QED
    BY <2>6, <2>7, <2>8, <2>9 DEF InPrefix
<1> QED
  BY <1>4, <1>5

-----------------------------------------------------------------------------
(* Words.                                                                  *)

LEMMA WrapFits ==
    ASSUME NEW n \in Int, NEW half \in Nat \ {0}
    PROVE  /\ Wrap(n, half) \in Int
           /\ n \in -half .. half - 1 => Wrap(n, half) = n
           /\ n >= 0 => Wrap(n, half) <= n
BY DEF Wrap

LEMMA BurnTimeCapped ==
    ASSUME NEW ms \in Int
    PROVE  /\ BurnTime(ms) \in Int
           /\ BurnTime(ms) <= MaxBurn
           /\ Spun(BurnTime(ms)) \in 0 .. MaxBurn
<1>1. ms * NsPerMs \in Int
  BY InstanceAssumption
<1>2. Wrap(ms * NsPerMs, LongHalf) \in Int
  BY <1>1, WrapFits, InstanceAssumption
<1>3. MaxBurn \in Nat
  BY InstanceAssumption
<1> QED
  BY <1>2, <1>3 DEF BurnTime, Spun

(* What may be said of a burn of ms milliseconds that took d.              *)
BurntAs(d, ms) ==
    /\ d <= MaxBurn /\ d <= ms * NsPerMs
    /\ ms * NsPerMs < LongHalf => d = IF ms * NsPerMs > MaxBurn THEN MaxBurn ELSE ms * NsPerMs

LEMMA BurnTimeAsAsked ==
    ASSUME NEW ms \in Int, ms >= 0
    PROVE  BurntAs(Spun(BurnTime(ms)), ms)
<1> DEFINE asked == ms * NsPerMs
           w == Wrap(asked, LongHalf)
<1>1. ms \in Nat /\ NsPerMs \in Nat /\ MaxBurn \in Nat /\ LongHalf \in Nat \ {0}
  BY InstanceAssumption
<1>2. asked \in Nat
  BY <1>1
<1>3. BurnTime(ms) = IF w > MaxBurn THEN MaxBurn ELSE w
  BY DEF BurnTime
<1> HIDE DEF asked
<1>4. w \in Int /\ w <= asked /\ (asked < LongHalf => w = asked)
  BY <1>1, <1>2, WrapFits
<1> HIDE DEF w
<1>5. /\ Spun(BurnTime(ms)) <= MaxBurn
      /\ Spun(BurnTime(ms)) <= asked
      /\ asked < LongHalf => Spun(BurnTime(ms)) = IF asked > MaxBurn THEN MaxBurn ELSE asked
  BY <1>1, <1>2, <1>3, <1>4 DEF Spun
<1> QED
  BY <1>5 DEF BurntAs, asked

-----------------------------------------------------------------------------
(* The invariant.                                                          *)

(* What is wired is what the environment asked for and validation let pass.*)
WiredByEnv ==
    /\ env \in Environment
    /\ phase \in {"load", "boot", "serving", "exited"}
    /\ phase \in {"boot", "serving"} => Valid(Load(env))
    /\ phase = "serving" => CanBoot(Load(env)) /\ deps = Wired(Load(env))
    /\ phase # "serving" => deps = NoDeps

Steps == {"none", "routed", "ingest", "parking", "panicked", "answered", "done"}
Statuses == {0, 200, 201, 204, 301, 307, 400, 401, 404, 405, 413, 500, 503}

RequestType ==
    /\ ask \in [Request -> Ask \cup {NoAsk}]
    /\ step \in [Request -> Steps]
    /\ id \in [Request -> IDs \cup {<<>>}]
    /\ status \in [Request -> Statuses]
    /\ spent \in [Request -> 0 .. MaxBurn]
    /\ name \in [Request -> Names \cup {NoName}]
    /\ clock \in 0 .. MaxInstant
    /\ \A o \in bucket : o.name \in Names
    /\ \A l \in log : l.of \in Request
    /\ admitted \subseteq Request

(* Only an instance that serves is asked anything, and only a push gets to *)
(* the ingest service.                                                     *)
Asked ==
    \A r \in Request :
        /\ step[r] # "none" => phase = "serving" /\ ask[r] \in Ask
        /\ step[r] = "parking" => name[r] \in Names
        /\ step[r] \in {"ingest", "parking"} => r \in admitted /\ Route(ask[r]) = "push"

(* An answer waits for its line of the log, which comes with "done".       *)
Logged ==
    \A r \in Request :
        /\ step[r] = "answered" => status[r] \notin {301, 307}
        /\ {l \in log : l.of = r} =
               IF step[r] = "done" /\ status[r] \notin {301, 307}
               THEN {[of |-> r, id |-> id[r], status |-> status[r]]} ELSE {}

Identified ==
    \A r \in Request : id[r] # <<>> => step[r] # "none" /\ id[r] = RequestID(r, ask[r])

(* A push that was let in had the token the configuration asks for.        *)
Vetted ==
    \A r \in admitted : step[r] # "none" /\ deps.ingest /\ Verifies(ask[r].token)

NameOf(r) == \E t \in 0 .. MaxInstant : name[r] = ObjectName(t, ask[r].id)

Found(r) ==
    \E o \in bucket :
        /\ o.name = name[r]
        /\ o.payload = Payload(r) \/ (ask[r].id = <<>> /\ o.payload \in {<<"of", s>> : s \in Request})

Filed ==
    /\ \A r \in Request : step[r] = "parking" => NameOf(r)
    /\ kept \subseteq admitted
    /\ \A r \in kept : step[r] \in {"answered", "done"} /\ NameOf(r) /\ Found(r)

Burnt ==
    \A r \in Request : step[r] \in {"answered", "done"} /\ status[r] = 200 /\ Route(ask[r]) = "burn" =>
        BurntAs(spent[r], Atoi[ask[r].ms])

IInv == WiredByEnv /\ RequestType /\ Asked /\ Logged /\ Identified /\ Vetted /\ Filed /\ Burnt /\ nil = {}

LEMMA LoadType ==
    ASSUME NEW e \in Environment
    PROVE  Load(e).maxConns \in Int /\ Load(e).minConns \in Int
<1>1. ASSUME NEW t, NEW n \in Int PROVE EnvInt(t, n) \in Int
  BY AtoiAssumption DEF EnvInt
<1>2. Load(e).maxConns = EnvInt(e["DB_MAX_CONNS"], 10) /\ Load(e).minConns = EnvInt(e["DB_MIN_CONNS"], 1)
  BY DEF Load
<1> QED
  BY <1>1, <1>2

LEMMA PoolType ==
    ASSUME NEW e \in Environment
    PROVE  Pool(Load(e)) \in [max : Int, min : Int]
<1>1. Wrap(Load(e).maxConns, WordHalf) \in Int /\ Wrap(Load(e).minConns, WordHalf) \in Int
  BY LoadType, WrapFits, InstanceAssumption
<1> QED
  BY <1>1 DEF Pool

LEMMA InitIInv == Init => IInv
BY InstanceAssumption DEF Init, IInv, WiredByEnv, RequestType, Asked, Logged, Identified, Vetted, Filed, Burnt,
    Steps, Statuses

(* Requests leave the process as it is.                                    *)
LEMMA ServeFrame ==
    ASSUME NEW r \in Request, Serve(r)
    PROVE  UNCHANGED bootVars
BY DEF Serve, Arrive, Handle, Burn, Push, Consume, Park, Panic, Recover, LogLine, bootVars

LEMMA RouteFrame ==
    ASSUME UNCHANGED bootVars
    PROVE  \A q : Route(q)' = Route(q)
BY DEF bootVars, Route, Registered

LEMMA WiredStep == WiredByEnv /\ [Next]_vars => WiredByEnv'
<1> SUFFICES ASSUME WiredByEnv, [Next]_vars PROVE WiredByEnv'
  OBVIOUS
<1>1. CASE LoadConfig
  BY <1>1 DEF LoadConfig, WiredByEnv
<1>2. CASE Boot
  BY <1>2 DEF Boot, WiredByEnv
<1>3. CASE UNCHANGED bootVars
  BY <1>3 DEF WiredByEnv, bootVars
<1> QED
  BY <1>1, <1>2, <1>3, ServeFrame DEF Next, Rest, vars

(* What a handler answers with.                                            *)
Codes == {200, 201, 204, 400, 401, 404, 405, 413, 500, 503}

LEMMA AnswerType ==
    ASSUME step \in [Request -> Steps], status \in [Request -> Statuses],
           NEW r \in Request, Answer(r, Codes)
    PROVE  /\ step' \in [Request -> Steps] /\ status' \in [Request -> Statuses]
           /\ step' = [step EXCEPT ![r] = "answered"]
           /\ status'[r] \in Codes /\ \A s \in Request \ {r} : status'[s] = status[s]
<1>1. PICK c \in Codes : status' = [status EXCEPT ![r] = c]
  BY DEF Answer
<1>2. c \in Statuses
  BY DEF Codes, Statuses
<1>3. step' = [step EXCEPT ![r] = "answered"]
  BY DEF Answer
<1>4. step' \in [Request -> Steps]
  BY <1>3 DEF Steps
<1> QED
  BY <1>1, <1>2, <1>3, <1>4

LEMMA AnswerMore ==
    ASSUME NEW r \in Request, NEW S \in SUBSET Codes, Answer(r, S)
    PROVE  Answer(r, Codes)
BY DEF Answer

LEMMA HandleAnswers ==
    ASSUME NEW r \in Request, Handle(r)
    PROVE  Answer(r, Codes)
<1>1. /\ {200} \in SUBSET Codes /\ ({200} \cup {c \in {503} : deps.pinger}) \in SUBSET Codes
      /\ {200, 201, 204, 400, 404, 500} \in SUBSET Codes /\ {404} \in SUBSET Codes /\ {405} \in SUBSET Codes
  BY DEF Codes
<1>2. \/ Answer(r, {200}) \/ Answer(r, {200} \cup {c \in {503} : deps.pinger})
      \/ Answer(r, {200, 201, 204, 400, 404, 500}) \/ Answer(r, {404}) \/ Answer(r, {405})
  BY Zenon DEF Handle
<1> QED
  BY <1>1, <1>2, AnswerMore

LEMMA BurnAnswers ==
    ASSUME NEW r \in Request, Burn(r)
    PROVE  /\ Answer(r, Codes)
           /\ \/ /\ Answer(r, {200})
                 /\ ask[r].ms \in DOMAIN Atoi /\ Atoi[ask[r].ms] >= 0
                 /\ spent' = [spent EXCEPT ![r] = Spun(BurnTime(Atoi[ask[r].ms]))]
              \/ Answer(r, {400}) /\ spent' = spent
<1>1. {200} \in SUBSET Codes /\ {400} \in SUBSET Codes
  BY DEF Codes
<1>2. \/ /\ Answer(r, {200})
         /\ ask[r].ms \in DOMAIN Atoi /\ Atoi[ask[r].ms] >= 0
         /\ spent' = [spent EXCEPT ![r] = Spun(BurnTime(Atoi[ask[r].ms]))]
      \/ Answer(r, {400}) /\ spent' = spent
  BY Zenon DEF Burn
<1> QED
  BY <1>1, <1>2, AnswerMore

LEMMA PushAnswers ==
    ASSUME NEW r \in Request, Push(r)
    PROVE  \/ Answer(r, Codes) /\ admitted' = admitted
           \/ /\ Verifies(ask[r].token)
              /\ step' = [step EXCEPT ![r] = "ingest"]
              /\ status' = status
              /\ admitted' = admitted \cup {r}
<1>1. {401} \in SUBSET Codes
  BY DEF Codes
<1> QED
  BY <1>1, AnswerMore DEF Push

LEMMA ConsumeAnswers ==
    ASSUME NEW r \in Request, Consume(r)
    PROVE  \/ Answer(r, Codes) /\ name' = name /\ clock' = clock
           \/ /\ clock' \in {clock, clock + 1} /\ clock' <= MaxInstant
              /\ name' = [name EXCEPT ![r] = ObjectName(clock', ask[r].id)]
              /\ step' = [step EXCEPT ![r] = "parking"]
              /\ status' = status
<1>1. (IF ask[r].broken THEN {413, 503} ELSE {204, 413, 503}) \in SUBSET Codes
  BY DEF Codes
<1> QED
  BY <1>1, AnswerMore DEF Consume

LEMMA ParkAnswers ==
    ASSUME NEW r \in Request, Park(r)
    PROVE  Answer(r, Codes)
<1>1. {200} \in SUBSET Codes
  BY DEF Codes
<1> QED
  BY <1>1, AnswerMore DEF Park

LEMMA RecoverAnswers ==
    ASSUME NEW r \in Request, Recover(r)
    PROVE  Answer(r, Codes)
<1>1. {500} \in SUBSET Codes
  BY DEF Codes
<1> QED
  BY <1>1, AnswerMore DEF Recover

LEMMA TypeStep == RequestType /\ Asked /\ [Next]_vars => RequestType'
<1> SUFFICES ASSUME RequestType, Asked, [Next]_vars PROVE RequestType'
  OBVIOUS
<1> USE DEF RequestType, requestVars, traceVars
<1>1. CASE UNCHANGED <<requestVars, traceVars>>
  BY <1>1
<1>2. ASSUME NEW r \in Request, Serve(r) PROVE RequestType'
  <2>1. ASSUME NEW q \in Ask, Arrive(r, q) PROVE RequestType'
    <3>1. RequestID(r, q) \in IDs
      BY DEF RequestID, IDs
    <3>2. step' \in [Request -> Steps] /\ status' \in [Request -> Statuses] /\ id' \in [Request -> IDs \cup {<<>>}]
      <4>1. CASE Route(q) = "redirect"
        <5>1. Redirect(r, q)
          BY <2>1, <4>1 DEF Arrive
        <5>2. (IF q.target = "push" THEN 307 ELSE 301) \in Statuses /\ "done" \in Steps
          BY DEF Statuses, Steps
        <5> QED
          BY <5>1, <5>2 DEF Redirect
      <4>2. CASE Route(q) # "redirect"
        BY <2>1, <3>1, <4>2 DEF Arrive, Steps
      <4> QED
        BY <4>1, <4>2
    <3>3. ask' \in [Request -> Ask \cup {NoAsk}]
      BY <2>1 DEF Arrive
    <3> QED
      BY <2>1, <3>2, <3>3 DEF Arrive
  <2>2. CASE Handle(r)
    <3>1. step' \in [Request -> Steps] /\ status' \in [Request -> Statuses]
      BY <2>2, HandleAnswers, AnswerType
    <3> QED
      BY <2>2, <3>1 DEF Handle
  <2>3. CASE Burn(r)
    <3>1. ASSUME NEW ms \in Int PROVE Spun(BurnTime(ms)) \in 0 .. MaxBurn
      BY BurnTimeCapped
    <3>2. ask[r].ms \in DOMAIN Atoi => Spun(BurnTime(Atoi[ask[r].ms])) \in 0 .. MaxBurn
      BY <3>1, AtoiAssumption
    <3>3. spent' \in [Request -> 0 .. MaxBurn]
      BY <2>3, <3>2, BurnAnswers
    <3>4. step' \in [Request -> Steps] /\ status' \in [Request -> Statuses]
      BY <2>3, BurnAnswers, AnswerType
    <3> QED
      BY <2>3, <3>3, <3>4 DEF Burn
  <2>4. CASE Push(r)
    <3>1. step' \in [Request -> Steps] /\ status' \in [Request -> Statuses]
      <4>1. CASE Answer(r, Codes)
        BY <4>1, AnswerType
      <4>2. CASE step' = [step EXCEPT ![r] = "ingest"] /\ status' = status
        BY <4>2 DEF Steps
      <4> QED
        BY <2>4, <4>1, <4>2, PushAnswers
    <3>2. admitted' \subseteq Request
      BY <2>4, PushAnswers
    <3> QED
      BY <2>4, <3>1, <3>2 DEF Push
  <2>5. CASE Consume(r)
    <3>1. ask[r] \in Ask
      BY <2>5 DEF Consume, Asked
    <3>2. ask[r].id \in DOMAIN Digest
      BY <3>1, InstanceAssumption DEF Asks
    <3>3. \A t \in 0 .. MaxInstant : ObjectName(t, ask[r].id) \in Names
      BY <3>2 DEF Names
    <3>4. clock' \in 0 .. MaxInstant
      BY <2>5, ConsumeAnswers, InstanceAssumption
    <3>5. name' \in [Request -> Names \cup {NoName}]
      BY <2>5, <3>3, <3>4, ConsumeAnswers
    <3>6. step' \in [Request -> Steps] /\ status' \in [Request -> Statuses]
      <4>1. CASE Answer(r, Codes)
        BY <4>1, AnswerType
      <4>2. CASE step' = [step EXCEPT ![r] = "parking"] /\ status' = status
        BY <4>2 DEF Steps
      <4> QED
        BY <2>5, <4>1, <4>2, ConsumeAnswers
    <3> QED
      BY <2>5, <3>4, <3>5, <3>6 DEF Consume
  <2>6. CASE Park(r)
    <3>1. \A o \in bucket' : o.name \in Names
      BY <2>6 DEF Park, Written, Asked
    <3>2. step' \in [Request -> Steps] /\ status' \in [Request -> Statuses]
      BY <2>6, AnswerType, ParkAnswers
    <3> QED
      BY <2>6, <3>1, <3>2 DEF Park
  <2>7. CASE Panic(r)
    BY <2>7 DEF Panic, Steps
  <2>8. CASE Recover(r)
    <3>1. step' \in [Request -> Steps] /\ status' \in [Request -> Statuses]
      BY <2>8, AnswerType, RecoverAnswers
    <3> QED
      BY <2>8, <3>1 DEF Recover
  <2>9. CASE LogLine(r)
    BY <2>9 DEF LogLine, Steps
  <2> QED
    BY <1>2, <2>1, <2>2, <2>3, <2>4, <2>5, <2>6, <2>7, <2>8, <2>9 DEF Serve
<1> QED
  BY <1>1, <1>2 DEF Next, Rest, vars, LoadConfig, Boot

LEMMA AskedStep == WiredByEnv /\ RequestType /\ Asked /\ [Next]_vars => Asked'
<1> SUFFICES ASSUME WiredByEnv, RequestType, Asked, [Next]_vars PROVE Asked'
  OBVIOUS
<1> USE DEF RequestType, Asked, Answer, requestVars, traceVars, bootVars
<1>1. CASE UNCHANGED <<bootVars, requestVars, traceVars>>
  BY <1>1, RouteFrame
<1>2. CASE LoadConfig \/ Boot
  BY <1>2 DEF LoadConfig, Boot
<1>3. ASSUME NEW r \in Request, Serve(r) PROVE Asked'
  <2>0. UNCHANGED bootVars /\ \A q : Route(q)' = Route(q)
    BY <1>3, ServeFrame, RouteFrame
  <2>1. ASSUME NEW q \in Ask, Arrive(r, q) PROVE Asked'
    BY <2>0, <2>1 DEF Arrive, Redirect
  <2>2. CASE Handle(r)
    <3>1. step' = [step EXCEPT ![r] = "answered"]
      BY <2>2, HandleAnswers DEF Answer
    <3>2. ask' = ask /\ name' = name /\ admitted' = admitted /\ step[r] = "routed"
      BY <2>2 DEF Handle
    <3> QED
      BY <2>0, <3>1, <3>2
  <2>3. CASE Burn(r)
    BY <2>0, <2>3 DEF Burn
  <2>4. CASE Push(r)
    BY <2>0, <2>4 DEF Push
  <2>5. CASE Consume(r)
    <3>1. ask' = ask /\ admitted' = admitted /\ ask[r] \in Ask
      BY <2>5 DEF Consume
    <3>2. CASE Answer(r, Codes) /\ name' = name
      BY <2>0, <2>5, <3>1, <3>2 DEF Consume
    <3>3. CASE step' = [step EXCEPT ![r] = "parking"] /\ name' = [name EXCEPT ![r] = ObjectName(clock', ask[r].id)]
      <4>1. clock' \in 0 .. MaxInstant /\ ask[r].id \in DOMAIN Digest
        BY <1>3, <3>1, TypeStep, InstanceAssumption DEF Next, Asks
      <4>2. ObjectName(clock', ask[r].id) \in Names
        BY <4>1 DEF Names
      <4> QED
        BY <2>0, <2>5, <3>1, <3>3, <4>2 DEF Consume
    <3> QED
      BY <2>5, <3>2, <3>3, ConsumeAnswers
  <2>6. CASE Park(r)
    BY <2>0, <2>6 DEF Park
  <2>7. CASE Panic(r)
    BY <2>0, <2>7 DEF Panic
  <2>8. CASE Recover(r)
    BY <2>0, <2>8 DEF Recover
  <2>9. CASE LogLine(r)
    BY <2>0, <2>9 DEF LogLine
  <2> QED
    BY <1>3, <2>1, <2>2, <2>3, <2>4, <2>5, <2>6, <2>7, <2>8, <2>9 DEF Serve
<1> QED
  BY <1>1, <1>2, <1>3 DEF Next, Rest, vars

LEMMA LoggedStep == RequestType /\ Logged /\ [Next]_vars => Logged'
<1> SUFFICES ASSUME RequestType, Logged, [Next]_vars PROVE Logged'
  OBVIOUS
<1> USE DEF RequestType
<1>1. CASE UNCHANGED <<requestVars, log>>
  BY <1>1 DEF Logged, requestVars
<1>2. ASSUME NEW r \in Request, Serve(r) PROVE Logged'
  <2>1. ASSUME Answer(r, Codes), step[r] # "done", id' = id, log' = log PROVE Logged'
    <3>1. /\ step' = [step EXCEPT ![r] = "answered"]
          /\ status'[r] \in Codes /\ \A s \in Request \ {r} : status'[s] = status[s]
      BY <2>1, AnswerType
    <3> QED
      BY <2>1, <3>1 DEF Logged, Codes
  <2>2. ASSUME NEW at \in {"routed", "ingest", "parking", "panicked"}, step' = [step EXCEPT ![r] = at],
               step[r] # "done", UNCHANGED <<status, id, log>>
        PROVE  Logged'
    BY <2>2 DEF Logged
  <2>3. ASSUME NEW q \in Ask, Arrive(r, q) PROVE Logged'
    <3>1. {l \in log : l.of = r} = {}
      BY <2>3 DEF Arrive, Logged
    <3>2. log' = log
      BY <2>3 DEF Arrive, traceVars
    <3>3. CASE Redirect(r, q)
      <4>1. status' = [status EXCEPT ![r] = IF q.target = "push" THEN 307 ELSE 301]
        BY <3>3 DEF Redirect
      <4>2. status'[r] \in {301, 307} /\ \A s \in Request \ {r} : status'[s] = status[s]
        BY <4>1
      <4>3. step' = [step EXCEPT ![r] = "done"] /\ id' = id
        BY <3>3 DEF Redirect
      <4> QED
        BY <3>1, <3>2, <4>2, <4>3 DEF Logged
    <3>4. CASE step' = [step EXCEPT ![r] = "routed"] /\ id' = [id EXCEPT ![r] = RequestID(r, q)] /\ status' = status
      BY <3>1, <3>2, <3>4 DEF Logged
    <3> QED
      BY <2>3, <3>3, <3>4 DEF Arrive
  <2>4. CASE Handle(r)
    BY <2>1, <2>4, HandleAnswers DEF Handle, traceVars
  <2>5. CASE Burn(r)
    BY <2>1, <2>5, BurnAnswers DEF Burn, traceVars
  <2>6. CASE Push(r)
    BY <2>1, <2>2, <2>6, PushAnswers DEF Push
  <2>7. CASE Consume(r)
    BY <2>1, <2>2, <2>7, ConsumeAnswers DEF Consume
  <2>8. CASE Park(r)
    BY <2>1, <2>8, ParkAnswers DEF Park
  <2>9. CASE Panic(r)
    BY <2>2, <2>9 DEF Panic
  <2>10. CASE Recover(r)
    BY <2>1, <2>10, RecoverAnswers DEF Recover, traceVars
  <2>11. CASE LogLine(r)
    <3>1. /\ {l \in log : l.of = r} = {} /\ status[r] \notin {301, 307}
          /\ step' = [step EXCEPT ![r] = "done"] /\ UNCHANGED <<status, id>>
      BY <2>11 DEF LogLine, Logged
    <3> DEFINE line == [of |-> r, id |-> id[r], status |-> status[r]]
    <3>2. log' = log \cup {line} /\ line.of = r
      BY <2>11 DEF LogLine
    <3> HIDE DEF line
    <3>3. {l \in log' : l.of = r} = {line} /\ \A s \in Request \ {r} : {l \in log' : l.of = s} = {l \in log : l.of = s}
      BY <3>1, <3>2
    <3> QED
      BY <3>1, <3>3 DEF Logged, line
  <2> QED
    BY <1>2, <2>3, <2>4, <2>5, <2>6, <2>7, <2>8, <2>9, <2>10, <2>11 DEF Serve
<1> QED
  BY <1>1, <1>2 DEF Next, Rest, vars, LoadConfig, Boot, traceVars

LEMMA IdentifiedStep == RequestType /\ Identified /\ [Next]_vars => Identified'
<1> SUFFICES ASSUME RequestType, Identified, [Next]_vars PROVE Identified'
  OBVIOUS
<1> USE DEF RequestType
<1>1. CASE UNCHANGED requestVars
  BY <1>1 DEF Identified, requestVars, RequestID
<1>2. ASSUME NEW r \in Request, Serve(r) PROVE Identified'
  <2>1. ASSUME NEW q \in Ask, Arrive(r, q) PROVE Identified'
    <3>1. ask' = [ask EXCEPT ![r] = q] /\ step[r] = "none" /\ id[r] = <<>>
      BY <2>1 DEF Arrive, Identified
    <3>2. CASE step' = [step EXCEPT ![r] = "done"] /\ id' = id
      BY <3>1, <3>2 DEF Identified, RequestID
    <3>3. CASE step' = [step EXCEPT ![r] = "routed"] /\ id' = [id EXCEPT ![r] = RequestID(r, q)]
      BY <3>1, <3>3 DEF Identified, RequestID
    <3> QED
      BY <2>1, <3>2, <3>3 DEF Arrive, Redirect
  <2>2. ASSUME NEW at \in Steps \ {"none"}, step' = [step EXCEPT ![r] = at], ask' = ask, id' = id PROVE Identified'
    BY <2>2 DEF Identified, RequestID
  <2>3. ASSUME Answer(r, Codes), ask' = ask, id' = id PROVE Identified'
    BY <2>2, <2>3 DEF Answer, Steps
  <2>4. CASE Handle(r)
    BY <2>3, <2>4, HandleAnswers DEF Handle
  <2>5. CASE Burn(r)
    BY <2>3, <2>5, BurnAnswers DEF Burn
  <2>6. CASE Push(r)
    BY <2>2, <2>3, <2>6, PushAnswers DEF Push, Steps
  <2>7. CASE Consume(r)
    BY <2>2, <2>3, <2>7, ConsumeAnswers DEF Consume, Steps
  <2>8. CASE Park(r)
    BY <2>3, <2>8, ParkAnswers DEF Park
  <2>9. CASE Panic(r)
    BY <2>2, <2>9 DEF Panic, Steps
  <2>10. CASE Recover(r)
    BY <2>3, <2>10, RecoverAnswers DEF Recover
  <2>11. CASE LogLine(r)
    BY <2>2, <2>11 DEF LogLine, Steps
  <2> QED
    BY <1>2, <2>1, <2>4, <2>5, <2>6, <2>7, <2>8, <2>9, <2>10, <2>11 DEF Serve
<1> QED
  BY <1>1, <1>2 DEF Next, Rest, vars, LoadConfig, Boot

(* No step takes a request back, or changes what it asks, once it is there.*)
LEMMA AskKept ==
    ASSUME RequestType, NEW r \in Request, Serve(r)
    PROVE  /\ \A s \in Request : step[s] # "none" => ask'[s] = ask[s] /\ step'[s] # "none"
           /\ \A s \in Request \ {r} : ask'[s] = ask[s] /\ step'[s] = step[s] /\ name'[s] = name[s]
<1> USE DEF RequestType
<1>1. ASSUME NEW q \in Ask, Arrive(r, q)
      PROVE  /\ step[r] = "none" /\ ask' = [ask EXCEPT ![r] = q] /\ name' = name
             /\ step' \in {[step EXCEPT ![r] = "done"], [step EXCEPT ![r] = "routed"]}
  BY <1>1 DEF Arrive, Redirect
<1>2. ASSUME ~ \E q \in Ask : Arrive(r, q)
      PROVE  /\ ask' = ask
             /\ \E at \in Steps \ {"none"} : step' = [step EXCEPT ![r] = at]
             /\ \E n : name' = [name EXCEPT ![r] = n]
  <2>1. \A at \in {"answered", "ingest", "parking", "panicked", "done"} : at \in Steps \ {"none"}
    BY DEF Steps
  <2>2. [name EXCEPT ![r] = name[r]] = name
    OBVIOUS
  <2>3. CASE Handle(r)
    BY <2>1, <2>2, <2>3, HandleAnswers DEF Handle, Answer
  <2>4. CASE Burn(r)
    BY <2>1, <2>2, <2>4, BurnAnswers DEF Burn, Answer
  <2>5. CASE Push(r)
    BY <2>1, <2>2, <2>5, PushAnswers DEF Push, Answer
  <2>6. CASE Consume(r)
    BY <2>1, <2>2, <2>6, ConsumeAnswers DEF Consume, Answer
  <2>7. CASE Park(r)
    BY <2>1, <2>2, <2>7, ParkAnswers DEF Park, Answer
  <2>8. CASE Panic(r)
    BY <2>1, <2>2, <2>8 DEF Panic
  <2>9. CASE Recover(r)
    BY <2>1, <2>2, <2>9, RecoverAnswers DEF Recover, Answer
  <2>10. CASE LogLine(r)
    BY <2>1, <2>2, <2>10 DEF LogLine
  <2> QED
    BY <1>2, <2>3, <2>4, <2>5, <2>6, <2>7, <2>8, <2>9, <2>10 DEF Serve
<1>3. CASE \E q \in Ask : Arrive(r, q)
  BY <1>1, <1>3
<1>4. CASE ~ \E q \in Ask : Arrive(r, q)
  BY <1>2, <1>4
<1> QED
  BY <1>3, <1>4

(* Who is let in has the token; the configuration stays as it is.          *)
LEMMA VettedStep == WiredByEnv /\ RequestType /\ Asked /\ Vetted /\ [Next]_vars => Vetted'
<1> SUFFICES ASSUME WiredByEnv, RequestType, Asked, Vetted, [Next]_vars PROVE Vetted'
  OBVIOUS
<1> USE DEF RequestType
<1>1. CASE UNCHANGED <<bootVars, requestVars, traceVars>>
  BY <1>1 DEF Vetted, Verifies, bootVars, requestVars, traceVars
<1>2. CASE LoadConfig \/ Boot
  BY <1>2 DEF LoadConfig, Boot, Vetted, Asked, traceVars, requestVars
<1>3. ASSUME NEW r \in Request, Serve(r) PROVE Vetted'
  <2>1. UNCHANGED bootVars
    BY <1>3, ServeFrame
  <2>2. \A s \in Request : step[s] # "none" => ask'[s] = ask[s] /\ step'[s] # "none"
    BY <1>3, AskKept
  <2>3. /\ admitted' \subseteq admitted \cup {r}
        /\ r \in admitted' => r \in admitted \/ (step[r] # "none" /\ deps.ingest /\ Verifies(ask[r].token))
    <3>1. CASE Push(r)
      <4>1. deps.ingest /\ step[r] # "none"
        BY <3>1 DEF Push, Route, Registered
      <4> QED
        BY <3>1, <4>1, PushAnswers
    <3>2. CASE ~ Push(r)
      <4>1. admitted' = admitted
        BY <1>3, <3>2 DEF Serve, Arrive, Handle, Burn, Consume, Park, Panic, Recover, LogLine, traceVars
      <4> QED
        BY <4>1
    <3> QED
      BY <3>1, <3>2
  <2>4. \A s \in admitted' : step[s] # "none" /\ deps.ingest /\ Verifies(ask[s].token)
    BY <2>3 DEF Vetted
  <2>5. \A s \in admitted' : s \in Request
    BY <2>3
  <2>6. \A token : Verifies(token)' = Verifies(token)
    BY <2>1 DEF Verifies, bootVars
  <2> QED
    BY <2>1, <2>2, <2>4, <2>5, <2>6 DEF Vetted, Verifies, bootVars
<1> QED
  BY <1>1, <1>2, <1>3 DEF Next, Rest, vars

(* The stretch a request burns is settled with its answer.                 *)
LEMMA BurntStep == WiredByEnv /\ RequestType /\ Asked /\ Burnt /\ [Next]_vars => Burnt'
<1> SUFFICES ASSUME WiredByEnv, RequestType, Asked, Burnt, [Next]_vars PROVE Burnt'
  OBVIOUS
<1> USE DEF RequestType
<1>1. CASE UNCHANGED <<bootVars, requestVars>>
  BY <1>1, RouteFrame DEF Burnt, requestVars
<1>2. CASE LoadConfig \/ Boot
  BY <1>2 DEF LoadConfig, Boot, Burnt, Asked, requestVars
<1>3. ASSUME NEW r \in Request, Serve(r) PROVE Burnt'
  <2>1. \A q : Route(q)' = Route(q)
    BY <1>3, ServeFrame, RouteFrame
  <2>2. \A s \in Request \ {r} : /\ ask'[s] = ask[s] /\ step'[s] = step[s]
                                 /\ status'[s] = status[s] /\ spent'[s] = spent[s]
    <3>1. \A s \in Request \ {r} : status'[s] = status[s]
      <4>1. CASE Answer(r, Codes)
        BY <4>1, AnswerType
      <4>2. CASE UNCHANGED status \/ \E q \in Ask : Arrive(r, q)
        BY <4>2 DEF Arrive, Redirect
      <4> QED
        BY <1>3, <4>1, <4>2, HandleAnswers, BurnAnswers, PushAnswers, ConsumeAnswers, ParkAnswers, RecoverAnswers
        DEF Serve, Panic, LogLine
    <3>2. \A s \in Request \ {r} : spent'[s] = spent[s]
      <4>1. CASE Burn(r)
        BY <4>1, BurnAnswers
      <4>2. CASE ~ Burn(r)
        BY <1>3, <4>2 DEF Serve, Arrive, Handle, Push, Consume, Park, Panic, Recover, LogLine
      <4> QED
        BY <4>1, <4>2
    <3> QED
      BY <1>3, <3>1, <3>2, AskKept
  <2>3. step'[r] \in {"answered", "done"} /\ status'[r] = 200 /\ Route(ask'[r]) = "burn"
            => BurntAs(spent'[r], Atoi[ask'[r].ms])
    <3>1. ASSUME NEW q \in Ask, Arrive(r, q) PROVE step'[r] = "routed" \/ status'[r] \in {301, 307}
      BY <3>1 DEF Arrive, Redirect
    <3>2. CASE Handle(r)
      BY <3>2 DEF Handle
    <3>3. CASE Burn(r)
      <4>1. ask' = ask
        BY <3>3 DEF Burn
      <4>2. CASE Answer(r, {400})
        BY <4>2 DEF Answer
      <4>3. CASE /\ ask[r].ms \in DOMAIN Atoi /\ Atoi[ask[r].ms] >= 0
                 /\ spent' = [spent EXCEPT ![r] = Spun(BurnTime(Atoi[ask[r].ms]))]
        <5> DEFINE ms == Atoi[ask[r].ms]
        <5>1. ms \in Int /\ ms >= 0
          BY <4>3, AtoiAssumption
        <5>2. Atoi[ask'[r].ms] = ms
          BY <4>1
        <5>3. spent'[r] = Spun(BurnTime(ms))
          BY <4>3
        <5> HIDE DEF ms
        <5> QED
          BY <5>1, <5>2, <5>3, BurnTimeAsAsked
      <4> QED
        BY <3>3, <4>2, <4>3, BurnAnswers
    <3>4. CASE Push(r) \/ Consume(r) \/ Park(r)
      <4>1. Route(ask[r]) = "push" /\ ask' = ask
        BY <3>4 DEF Push, Consume, Park, Asked
      <4> QED
        BY <4>1
    <3>5. CASE Panic(r)
      BY <3>5 DEF Panic
    <3>6. CASE Recover(r)
      BY <3>6 DEF Recover, Answer
    <3>7. CASE LogLine(r)
      BY <3>7 DEF LogLine, Burnt
    <3> QED
      BY <1>3, <3>1, <3>2, <3>3, <3>4, <3>5, <3>6, <3>7 DEF Serve
  <2> QED
    BY <2>1, <2>2, <2>3 DEF Burnt
<1> QED
  BY <1>1, <1>2, <1>3 DEF Next, Rest, vars

(* Whatever is registered has what it calls.                               *)
LEMMA NothingLacks ==
    ASSUME WiredByEnv, phase = "serving"
    PROVE  \A q : ~ Lacks(Route(q))
<1> DEFINE cfg == Load(env)
<1>1. CanBoot(cfg) /\ deps = Wired(cfg)
  BY DEF WiredByEnv
<1> HIDE DEF cfg
<1>2. deps.tasks \/ deps.pinger => cfg.dsn # "" /\ deps.pool = Pool(cfg) /\ Pool(cfg).max >= 1
  BY <1>1 DEF Wired, CanBoot
<1>3. deps.tasks \/ deps.pinger => deps.pool # NoPool
  <2>1. NoPool.max = 0 /\ ~ (0 >= 1)
    BY DEF NoPool
  <2>2. deps.tasks \/ deps.pinger => deps.pool.max >= 1
    BY <1>2
  <2> HIDE DEF NoPool
  <2> QED
    BY <2>1, <2>2
<1>4. \A q : Route(q) = "tasks" => deps.tasks
  BY DEF Route, Registered
<1> QED
  BY <1>3, <1>4 DEF Lacks

LEMMA NilStep == WiredByEnv /\ Asked /\ nil = {} /\ [Next]_vars => nil' = {}
<1> SUFFICES ASSUME WiredByEnv, Asked, nil = {}, [Next]_vars PROVE nil' = {}
  OBVIOUS
<1>1. ASSUME NEW r \in Request, Panic(r) PROVE nil' = {}
  BY <1>1, NothingLacks DEF Panic, Asked
<1>2. ASSUME NEW r \in Request, Serve(r), ~ Panic(r) PROVE nil' = nil
  BY <1>2 DEF Serve, Arrive, Handle, Burn, Push, Consume, Park, Recover, LogLine, traceVars
<1> QED
  BY <1>1, <1>2 DEF Next, Rest, vars, LoadConfig, Boot, traceVars

(* Two payloads under one name came under one id.                          *)
LEMMA SameNameSameId ==
    ASSUME Asked, NEW r \in Request, NEW s \in Request, step[r] # "none", step[s] # "none",
           NameOf(r), NameOf(s), name[r] = name[s]
    PROVE  ask[r].id = ask[s].id
<1>1. ask[r].id \in DOMAIN Digest /\ ask[s].id \in DOMAIN Digest
  BY InstanceAssumption DEF Asked, Asks
<1>2. name[r].digest = Digest[ask[r].id] /\ name[s].digest = Digest[ask[s].id]
  BY DEF NameOf, ObjectName
<1> QED
  BY <1>1, <1>2, InstanceAssumption

LEMMA FiledStep == RequestType /\ Asked /\ Filed /\ [Next]_vars => Filed'
<1> SUFFICES ASSUME RequestType, Asked, Filed, [Next]_vars PROVE Filed'
  OBVIOUS
<1> USE DEF RequestType
<1>1. CASE UNCHANGED <<requestVars, traceVars>>
  BY <1>1 DEF Filed, NameOf, Found, Payload, requestVars, traceVars
<1>2. ASSUME NEW r \in Request, Serve(r) PROVE Filed'
  (* What is true of a request holds as long as it and the bucket stay.    *)
  <2>1. ASSUME NEW s \in Request, ask'[s] = ask[s], name'[s] = name[s] PROVE NameOf(s) => NameOf(s)'
    BY <2>1 DEF NameOf
  <2>2. ASSUME NEW s \in Request, ask'[s] = ask[s], name'[s] = name[s], bucket' = bucket
        PROVE  Found(s) => Found(s)'
    BY <2>2 DEF Found, Payload
  <2>3. \A s \in Request \ {r} : ask'[s] = ask[s] /\ step'[s] = step[s] /\ name'[s] = name[s]
    BY <1>2, AskKept
  <2>4. admitted \subseteq admitted'
    <3>1. CASE Push(r)
      BY <3>1, PushAnswers
    <3>2. CASE ~ Push(r)
      BY <1>2, <3>2 DEF Serve, Arrive, Handle, Burn, Consume, Park, Panic, Recover, LogLine, traceVars
    <3> QED
      BY <3>1, <3>2
  <2>5. CASE Park(r)
    <3>1. /\ step[r] = "parking" /\ step' = [step EXCEPT ![r] = "answered"]
          /\ ask' = ask /\ name' = name /\ admitted' = admitted
      BY <2>5 DEF Park, Answer
    <3>2. NameOf(r) /\ r \in admitted /\ r \notin kept
      BY <3>1 DEF Filed, Asked
    <3>3. \/ kept' = kept /\ bucket' = bucket
          \/ kept' \subseteq kept \cup {r} /\ bucket' = Written(r)
      BY <2>5 DEF Park
    <3>4. \A s \in kept' : step'[s] \in {"answered", "done"}
      BY <3>1, <3>3 DEF Filed
    <3>5. \A s \in kept' : NameOf(s)'
      BY <2>1, <3>1, <3>2, <3>3 DEF Filed
    <3>6. ASSUME NEW s \in kept' PROVE Found(s)'
      <4>1. CASE kept' = kept /\ bucket' = bucket
        BY <2>2, <3>1, <4>1 DEF Filed
      <4>2. CASE bucket' = Written(r)
        <5>0. s \in Request /\ step[s] # "none" /\ step[r] # "none" /\ NameOf(s)
          BY <3>1, <3>2, <3>3 DEF Filed
        <5> DEFINE new == [name |-> name[r], payload |-> Payload(r)]
        <5>1. new \in bucket' /\ new.name = name[r] /\ new.payload = Payload(r)
          BY <4>2 DEF Written
        <5>2. CASE name[s] = name[r]
          <6>1. ask[r].id = ask[s].id
            BY <3>2, <5>0, <5>2, SameNameSameId
          <6>2. new.payload = Payload(s) \/ (ask[s].id = <<>> /\ new.payload \in {<<"of", t>> : t \in Request})
            BY <5>1, <6>1 DEF Payload
          <6> HIDE DEF new
          <6> QED
            BY <3>1, <5>1, <5>2, <6>2 DEF Found, Payload
        <5>3. CASE name[s] # name[r]
          <6>1. s \in kept
            BY <3>3, <5>3
          <6>2. PICK o \in bucket :
                    /\ o.name = name[s]
                    /\ o.payload = Payload(s) \/ (ask[s].id = <<>> /\ o.payload \in {<<"of", t>> : t \in Request})
            BY <6>1 DEF Filed, Found
          <6>3. o \in bucket'
            BY <4>2, <5>3, <6>2 DEF Written
          <6> QED
            BY <3>1, <6>2, <6>3 DEF Found, Payload
        <5> QED
          BY <5>2, <5>3
      <4> QED
        BY <3>3, <4>1, <4>2
    <3>7. \A s \in Request : step'[s] = "parking" => NameOf(s)'
      BY <2>1, <3>1 DEF Filed
    <3> QED
      BY <3>1, <3>2, <3>3, <3>4, <3>5, <3>6, <3>7 DEF Filed
  <2>6. CASE ~ Park(r)
    <3>1. kept' = kept /\ bucket' = bucket
      BY <1>2, <2>6 DEF Serve, Arrive, Handle, Burn, Push, Consume, Panic, Recover, LogLine, traceVars
    <3>2. r \in kept => ask'[r] = ask[r] /\ name'[r] = name[r] /\ step'[r] \in {"answered", "done"}
      <4>1. r \in kept => LogLine(r)
        BY <1>2, <2>6 DEF Filed, Serve, Arrive, Handle, Burn, Push, Consume, Panic, Recover
      <4> QED
        BY <4>1 DEF LogLine
    <3>3. \A s \in kept : ask'[s] = ask[s] /\ name'[s] = name[s] /\ step'[s] \in {"answered", "done"}
      BY <2>3, <3>2 DEF Filed
    <3>4. \A s \in kept' : step'[s] \in {"answered", "done"} /\ NameOf(s)' /\ Found(s)'
      BY <2>1, <2>2, <3>1, <3>3 DEF Filed
    <3>5. step'[r] = "parking" => NameOf(r)'
      <4>1. step'[r] = "parking" => Consume(r)
        <5>1. ASSUME NEW q \in Ask, Arrive(r, q) PROVE step'[r] # "parking"
          BY <5>1 DEF Arrive, Redirect
        <5>2. ASSUME Answer(r, Codes) PROVE step'[r] # "parking"
          BY <5>2 DEF Answer
        <5>3. Push(r) \/ Panic(r) \/ LogLine(r) => step'[r] # "parking"
          BY <5>2, PushAnswers DEF Panic, LogLine
        <5> QED
          BY <1>2, <2>6, <5>1, <5>2, <5>3, HandleAnswers, BurnAnswers, RecoverAnswers DEF Serve
      <4>2. CASE Consume(r) /\ step'[r] = "parking"
        <5>1. name' = [name EXCEPT ![r] = ObjectName(clock', ask[r].id)] /\ ask' = ask
          BY <4>2, ConsumeAnswers DEF Answer, Consume
        <5>2. clock' \in 0 .. MaxInstant
          BY <1>2, TypeStep DEF Next
        <5> QED
          BY <5>1, <5>2 DEF NameOf
      <4> QED
        BY <4>1, <4>2
    <3>6. \A s \in Request : step'[s] = "parking" => NameOf(s)'
      BY <2>1, <2>3, <3>5 DEF Filed
    <3> QED
      BY <2>4, <3>1, <3>4, <3>6 DEF Filed
  <2> QED
    BY <2>5, <2>6
<1> QED
  BY <1>1, <1>2 DEF Next, Rest, vars, LoadConfig, Boot

LEMMA Step == IInv /\ [Next]_vars => IInv'
BY WiredStep, TypeStep, AskedStep, LoggedStep, IdentifiedStep, VettedStep, FiledStep, BurntStep, NilStep DEF IInv

(* The invariant holds in every state of every instance.                   *)
THEOREM Invariant == Spec => []IInv
BY InitIInv, Step, PTL DEF Spec

-----------------------------------------------------------------------------
(* What follows from it.                                                   *)

LEMMA ValidParts ==
    ASSUME NEW cfg, Valid(cfg)
    PROVE  HasDatabase(cfg) /\ PoolOrdered(cfg) /\ ValidIngest(cfg)
BY DEF Valid

LEMMA DepsType ==
    ASSUME NEW p \in [max : Int, min : Int], NEW a \in BOOLEAN, NEW b \in BOOLEAN, NEW c \in BOOLEAN,
           NEW d \in BOOLEAN
    PROVE  [pool |-> p, pinger |-> a, tasks |-> b, burn |-> c, ingest |-> d]
               \in [pool : [max : Int, min : Int], pinger : BOOLEAN, tasks : BOOLEAN,
                    burn : BOOLEAN, ingest : BOOLEAN]
OBVIOUS

(* Every variable keeps its type: in particular no request burns longer    *)
(* than maxBurnDuration or less than nothing, however the product of its   *)
(* milliseconds wraps (burn.go).                                           *)
THEOREM TypeCorrect == Spec => []TypeOK
<1>1. IInv => TypeOK
  <2> SUFFICES ASSUME IInv PROVE TypeOK
    OBVIOUS
  <2> DEFINE Types == [pool : [max : Int, min : Int], pinger : BOOLEAN, tasks : BOOLEAN,
                       burn : BOOLEAN, ingest : BOOLEAN]
  <2>1. NoDeps \in Types
    BY DEF NoDeps, NoPool
  <2>2. ASSUME NEW e \in Environment PROVE Wired(Load(e)) \in Types
    <3> DEFINE cfg == Load(e)
    <3>1. Pool(cfg) \in [max : Int, min : Int] /\ NoPool \in [max : Int, min : Int]
      BY PoolType DEF NoPool
    <3>2. cfg.burn \in BOOLEAN /\ cfg.ingest \in BOOLEAN
      BY DEF Load, EnvBool
    <3>6. Wired(Load(e)) = Wired(cfg)
      OBVIOUS
    <3> HIDE DEF cfg
    <3>3. (IF cfg.dsn = "" THEN NoPool ELSE Pool(cfg)) \in [max : Int, min : Int]
      BY <3>1
    <3>4. (cfg.dsn # "") \in BOOLEAN
      BY Zenon
    <3>5. Wired(cfg) \in Types
      BY <3>2, <3>3, <3>4, DepsType DEF Wired
    <3> QED
      BY <3>5, <3>6
  <2>3. deps \in Types
    BY <2>1, <2>2 DEF IInv, WiredByEnv
  <2>4. kept \subseteq admitted /\ nil \subseteq Request
    BY DEF IInv, Filed
  <2> HIDE DEF Types
  <2>5. /\ env \in Environment /\ phase \in {"load", "boot", "serving", "exited"}
        /\ step \in [Request -> {"none", "routed", "ingest", "parking", "panicked", "answered", "done"}]
        /\ status \in [Request -> {0, 200, 201, 204, 301, 307, 400, 401, 404, 405, 413, 500, 503}]
    BY DEF IInv, WiredByEnv, RequestType, Steps, Statuses
  <2> QED
    BY <2>3, <2>4, <2>5 DEF TypeOK, IInv, RequestType, Types
<1> QED
  BY <1>1, Invariant, PTL

(* No request reaches a handler that lacks what it calls, in any role.     *)
THEOREM Complete == Spec => []NothingMissing
<1>1. IInv => NothingMissing
  BY DEF IInv, NothingMissing
<1> QED
  BY <1>1, Invariant, PTL

(* A push gets to the ingest service only with a signed token of the       *)
(* configured account, made out to the configured audience, and neither of *)
(* the two was left empty.                                                 *)
THEOREM PushesAreAuthentic == Spec => []AuthenticPush
<1>1. IInv => AuthenticPush
  <2> SUFFICES ASSUME IInv, NEW r \in admitted
               PROVE  /\ ask[r].token.signed /\ ask[r].token.verified # "no"
                      /\ ask[r].token.audience = env["PUBSUB_AUDIENCE"] /\ ask[r].token.audience # ""
                      /\ ask[r].token.email = env["PUBSUB_PUSH_SERVICE_ACCOUNT"] /\ ask[r].token.email # ""
    BY Zenon DEF AuthenticPush
  <2> DEFINE cfg == Load(env)
  <2>1. deps.ingest /\ Verifies(ask[r].token) /\ step[r] # "none" /\ r \in Request
    BY DEF IInv, Vetted, RequestType
  <2>2. Valid(cfg) /\ deps = Wired(cfg)
    BY <2>1 DEF IInv, Asked, WiredByEnv
  <2>3. cfg.audience = env["PUBSUB_AUDIENCE"] /\ cfg.account = env["PUBSUB_PUSH_SERVICE_ACCOUNT"]
    BY DEF Load
  <2>4. cfg.audience # "" /\ cfg.account # ""
    <3>1. cfg.ingest
      BY <2>1, <2>2 DEF Wired
    <3>2. \A key \in Required : cfg[key] # ""
      BY Zenon, <2>2, <3>1, ValidParts DEF ValidIngest
    <3> QED
      BY <3>2 DEF Required
  <2> QED
    BY <2>1, <2>3, <2>4 DEF Verifies
<1> QED
  BY <1>1, Invariant, PTL

(* An instance that serves has tasks or pushes to serve, pushes only when  *)
(* it is told so.                                                          *)
THEOREM ServesWhatItIsTold == Spec => []ServesAsTold
<1>1. IInv => ServesAsTold
  <2> SUFFICES ASSUME IInv, phase = "serving"
               PROVE  /\ Registered \cap {"tasks", "push"} # {}
                      /\ "push" \in Registered <=> env["ENABLE_INGEST_ENDPOINT"] \in Truths
                      /\ "tasks" \in Registered => env["DATABASE_URL"] # "" \/ env["POSTGRES_HOST"] # ""
    BY DEF ServesAsTold
  <2> DEFINE cfg == Load(env)
  <2>1. Valid(cfg) /\ deps = Wired(cfg)
    BY DEF IInv, WiredByEnv
  <2>2. cfg.ingest = (env["ENABLE_INGEST_ENDPOINT"] \in Truths) /\ cfg.dsn = DSN(env)
    BY DEF Load, EnvBool
  <2>3. cfg.ingest \/ cfg.dsn # ""
    BY Zenon, <2>1, ValidParts DEF HasDatabase
  <2>4. ("push" \in Registered <=> cfg.ingest) /\ ("tasks" \in Registered <=> cfg.dsn # "")
    BY <2>1 DEF Registered, Wired
  <2> HIDE DEF cfg
  <2>5. cfg.dsn # "" => env["DATABASE_URL"] # "" \/ env["POSTGRES_HOST"] # ""
    BY <2>2 DEF DSN
  <2> QED
    BY <2>2, <2>3, <2>4, <2>5
<1> QED
  BY <1>1, Invariant, PTL

(* The pool an instance serves from can hold a connection, and sizes that  *)
(* fit an int32 arrive as they were configured.                            *)
THEOREM PoolIsConfigured == Spec => []PoolAsConfigured
<1>1. IInv => PoolAsConfigured
  <2> SUFFICES ASSUME IInv, phase = "serving", deps.tasks
               PROVE  /\ deps.pool.max >= 1
                      /\ Load(env).maxConns \in -WordHalf .. WordHalf - 1
                         /\ Load(env).minConns \in -WordHalf .. WordHalf - 1 =>
                             /\ deps.pool = [max |-> Load(env).maxConns, min |-> Load(env).minConns]
                             /\ deps.pool.min <= deps.pool.max
    BY DEF PoolAsConfigured
  <2> DEFINE cfg == Load(env)
  <2>1. Valid(cfg) /\ deps = Wired(cfg) /\ CanBoot(cfg) /\ cfg.maxConns \in Int /\ cfg.minConns \in Int
    BY LoadType DEF IInv, WiredByEnv
  <2>2. WordHalf \in Nat \ {0}
    BY InstanceAssumption
  <2> HIDE DEF cfg
  <2>3. deps.pool = Pool(cfg) /\ Pool(cfg).max >= 1
    BY <2>1 DEF Wired, CanBoot
  <2>4. cfg.minConns <= cfg.maxConns
    BY Zenon, <2>1, ValidParts DEF PoolOrdered
  <2>5. ASSUME cfg.maxConns \in -WordHalf .. WordHalf - 1, cfg.minConns \in -WordHalf .. WordHalf - 1
        PROVE  Pool(cfg) = [max |-> cfg.maxConns, min |-> cfg.minConns]
    <3>1. Wrap(cfg.maxConns, WordHalf) = cfg.maxConns /\ Wrap(cfg.minConns, WordHalf) = cfg.minConns
      BY <2>1, <2>2, <2>5, WrapFits
    <3> QED
      BY <3>1 DEF Pool
  <2>6. deps.pool.max >= 1
    BY <2>3
  <2>7. ASSUME cfg.maxConns \in -WordHalf .. WordHalf - 1, cfg.minConns \in -WordHalf .. WordHalf - 1
        PROVE  deps.pool = [max |-> cfg.maxConns, min |-> cfg.minConns] /\ deps.pool.min <= deps.pool.max
    BY <2>3, <2>4, <2>5, <2>7
  <2> QED
    BY <2>6, <2>7 DEF cfg
<1> QED
  BY <1>1, Invariant, PTL

(* A request burns what it asked for, up to the cap, as long as the        *)
(* product fits the word, and never more.                                  *)
THEOREM BurnsAreAsked == Spec => []BurnsAsAsked
<1>1. IInv => BurnsAsAsked
  BY Zenon DEF IInv, Burnt, BurntAs, BurnsAsAsked
<1> QED
  BY <1>1, Invariant, PTL

(* Every request the middleware saw leaves one line with its status and    *)
(* its id.                                                                 *)
THEOREM EveryRequestTraceable == Spec => []Traceable
<1>1. IInv => Traceable
  <2> SUFFICES ASSUME IInv PROVE Traceable
    OBVIOUS
  <2>1. \A r \in Request : step[r] = "done" /\ status[r] \notin {301, 307} =>
            {l \in log : l.of = r} = {[of |-> r, id |-> id[r], status |-> status[r]]}
    BY DEF IInv, Logged
  <2>2. ASSUME NEW r \in Request, NEW s \in Request, id[r] # <<>>, id[r] = id[s], r # s
        PROVE  ask[r].header # "" /\ ask[r].header = ask[s].header
    <3>1. RequestID(r, ask[r]) = RequestID(s, ask[s])
      BY <2>2 DEF IInv, Identified
    <3>2. \A t, u : <<"made", t>> # <<"sent", u>> /\ <<"sent", t>> # <<"made", u>>
      OBVIOUS
    <3>3. \A t, u : (<<"made", t>> = <<"made", u>> => t = u) /\ (<<"sent", t>> = <<"sent", u>> => t = u)
      OBVIOUS
    <3> QED
      BY <2>2, <3>1, <3>2, <3>3 DEF RequestID
  <2> QED
    BY <2>1, <2>2 DEF Traceable
<1> QED
  BY <1>1, Invariant, PTL

(* A payload reported as parked is in the bucket.                          *)
THEOREM WhatIsParkedIsFound == Spec => []ParkedIsFound
<1>1. IInv => ParkedIsFound
  BY Zenon DEF IInv, Filed, Found, ParkedIsFound
<1> QED
  BY <1>1, Invariant, PTL

(* No id a publisher picks makes an object leave its prefix.               *)
THEOREM NamesAreInPrefix == Spec => []NamesStayInPrefix
<1>1. IInv => NamesStayInPrefix
  <2> SUFFICES ASSUME IInv, NEW o \in bucket PROVE InPrefix(o.name.safe)
    BY Zenon DEF NamesStayInPrefix, InPrefix
  <2>1. PICK t \in 0 .. MaxInstant, i \in DOMAIN Digest : o.name = ObjectName(t, i)
    BY DEF IInv, RequestType, Names
  <2>2. o.name.safe = SanitizeID(i)
    BY <2>1 DEF ObjectName
  <2>3. i \in Seq(STRING)
    BY InstanceAssumption
  <2> QED
    BY <2>2, <2>3, SanitizedInPrefix
<1> QED
  BY <1>1, Invariant, PTL
=============================================================================
