------------------------ MODULE ServerLifecycleProofs ------------------------
(***************************************************************************)
(* Proofs about ServerLifecycle, for every set of requests and every       *)
(* choice of configurations.                                               *)
(***************************************************************************)
EXTENDS ServerLifecycle, TLAPS

(* The invariant holds before anything is opened.                          *)
LEMMA InitIInv == Init => IInv
BY RolesAssumption DEF Init, IInv, TypeOK, ServerType, RequestType, OpenMatchesMain,
    QuietBeforeListen, RequestsNeedRole, ResultMatchesMain, ClosedUnderHandler, Boot, Closing, Serving, Returned

(* A step of a request leaves the process as it was.                       *)
LEMMA ServerFrame ==
    ServerType /\ UNCHANGED <<role, main, result, exit, signalled, listener, open>>
        => ServerType'
BY DEF ServerType

(* Every step preserves it.                                                *)
LEMMA Step == IInv /\ [Next]_vars => IInv'
<1> SUFFICES ASSUME IInv, [Next]_vars PROVE IInv'
  OBVIOUS
<1> USE DEF Boot, Closing, Serving, Returned, Active, Idle, Goto, Return,
        procVars, reqVars, vars, Misuse, Answer, Cut, ShutDown, KeptAlive
<1>1. CASE MigrateOnStart
  BY <1>1 DEF MigrateOnStart, IInv, TypeOK, ServerType, RequestType, OpenMatchesMain, QuietBeforeListen, RequestsNeedRole,
        ResultMatchesMain, ClosedUnderHandler
<1>2. CASE OpenPool
  <2>1. TypeOK'
    <3>1. ServerType'
      BY <1>2 DEF OpenPool, IInv, TypeOK, ServerType
    <3>2. RequestType'
      BY <1>2 DEF OpenPool, IInv, TypeOK, RequestType
    <3> QED
      BY <3>1, <3>2 DEF TypeOK
  <2>2. OpenMatchesMain'
    BY <1>2 DEF OpenPool, IInv, TypeOK, ServerType, OpenMatchesMain
  <2>3. QuietBeforeListen'
    BY <1>2 DEF OpenPool, IInv, TypeOK, ServerType, RequestType, QuietBeforeListen
  <2>4. RequestsNeedRole'
    BY <1>2 DEF OpenPool, IInv, TypeOK, ServerType, RequestType, RequestsNeedRole
  <2>5. ResultMatchesMain'
    BY <1>2 DEF OpenPool, IInv, TypeOK, ServerType, RequestType, ResultMatchesMain
  <2>6. ClosedUnderHandler'
    BY <1>2 DEF OpenPool, IInv, TypeOK, RequestType, ResultMatchesMain, ClosedUnderHandler
  <2> QED
    BY <2>1, <2>2, <2>3, <2>4, <2>5, <2>6 DEF IInv
<1>3. CASE OpenSink
  <2>1. TypeOK'
    <3>1. ServerType'
      BY <1>3 DEF OpenSink, IInv, TypeOK, ServerType
    <3>2. RequestType'
      BY <1>3 DEF OpenSink, IInv, TypeOK, RequestType
    <3> QED
      BY <3>1, <3>2 DEF TypeOK
  <2>2. OpenMatchesMain'
    <3>1. CASE role.db
      BY <1>3, <3>1 DEF OpenSink, IInv, TypeOK, ServerType, OpenMatchesMain
    <3>2. CASE ~role.db
      BY <1>3, <3>2 DEF OpenSink, IInv, TypeOK, ServerType, OpenMatchesMain
    <3> QED
      BY <3>1, <3>2
  <2>3. QuietBeforeListen'
    BY <1>3 DEF OpenSink, IInv, TypeOK, ServerType, RequestType, QuietBeforeListen
  <2>4. RequestsNeedRole'
    BY <1>3 DEF OpenSink, IInv, TypeOK, ServerType, RequestType, RequestsNeedRole
  <2>5. ResultMatchesMain'
    BY <1>3 DEF OpenSink, IInv, TypeOK, ServerType, RequestType, ResultMatchesMain
  <2>6. ClosedUnderHandler'
    BY <1>3 DEF OpenSink, IInv, TypeOK, RequestType, ResultMatchesMain, ClosedUnderHandler
  <2> QED
    BY <2>1, <2>2, <2>3, <2>4, <2>5, <2>6 DEF IInv
<1>4. CASE OpenGCS
  <2>1. TypeOK'
    <3>1. ServerType'
      BY <1>4 DEF OpenGCS, IInv, TypeOK, ServerType
    <3>2. RequestType'
      BY <1>4 DEF OpenGCS, IInv, TypeOK, RequestType
    <3> QED
      BY <3>1, <3>2 DEF TypeOK
  <2>2. OpenMatchesMain'
    BY <1>4 DEF OpenGCS, IInv, TypeOK, ServerType, OpenMatchesMain
  <2>3. QuietBeforeListen'
    BY <1>4 DEF OpenGCS, IInv, TypeOK, ServerType, RequestType, QuietBeforeListen
  <2>4. RequestsNeedRole'
    BY <1>4 DEF OpenGCS, IInv, TypeOK, ServerType, RequestType, RequestsNeedRole
  <2>5. ResultMatchesMain'
    BY <1>4 DEF OpenGCS, IInv, TypeOK, ServerType, RequestType, ResultMatchesMain
  <2>6. ClosedUnderHandler'
    BY <1>4 DEF OpenGCS, IInv, TypeOK, RequestType, ResultMatchesMain, ClosedUnderHandler
  <2> QED
    BY <2>1, <2>2, <2>3, <2>4, <2>5, <2>6 DEF IInv
<1>5. CASE StartListening
  BY <1>5 DEF StartListening, IInv, TypeOK, ServerType, RequestType, OpenMatchesMain, QuietBeforeListen, RequestsNeedRole,
        ResultMatchesMain, ClosedUnderHandler
<1>6. CASE SelectError
  <2>1. TypeOK'
    <3>1. ServerType'
      BY <1>6 DEF SelectError, IInv, TypeOK, ServerType
    <3>2. RequestType'
      BY <1>6 DEF SelectError, IInv, TypeOK, RequestType
    <3> QED
      BY <3>1, <3>2 DEF TypeOK
  <2>2. OpenMatchesMain'
    BY <1>6 DEF SelectError, IInv, TypeOK, ServerType, OpenMatchesMain
  <2>3. QuietBeforeListen'
    BY <1>6 DEF SelectError, IInv, TypeOK, ServerType, RequestType, QuietBeforeListen
  <2>4. RequestsNeedRole'
    BY <1>6 DEF SelectError, IInv, TypeOK, ServerType, RequestType, RequestsNeedRole
  <2>5. ResultMatchesMain'
    BY <1>6 DEF SelectError, IInv, TypeOK, ServerType, RequestType, ResultMatchesMain
  <2>6. ClosedUnderHandler'
    BY <1>6 DEF SelectError, IInv, TypeOK, RequestType, ResultMatchesMain, ClosedUnderHandler
  <2> QED
    BY <2>1, <2>2, <2>3, <2>4, <2>5, <2>6 DEF IInv
<1>7. CASE SelectDone
  <2>1. TypeOK'
    <3>1. ServerType'
      BY <1>7 DEF SelectDone, IInv, TypeOK, ServerType
    <3>2. RequestType'
      BY <1>7 DEF SelectDone, IInv, TypeOK, RequestType
    <3> QED
      BY <3>1, <3>2 DEF TypeOK
  <2>2. OpenMatchesMain'
    BY <1>7 DEF SelectDone, IInv, TypeOK, ServerType, OpenMatchesMain
  <2>3. QuietBeforeListen'
    BY <1>7 DEF SelectDone, IInv, TypeOK, ServerType, RequestType, QuietBeforeListen
  <2>4. RequestsNeedRole'
    BY <1>7 DEF SelectDone, IInv, TypeOK, ServerType, RequestType, RequestsNeedRole
  <2>5. ResultMatchesMain'
    BY <1>7 DEF SelectDone, IInv, TypeOK, ServerType, RequestType, ResultMatchesMain
  <2>6. ClosedUnderHandler'
    BY <1>7 DEF SelectDone, IInv, TypeOK, RequestType, ResultMatchesMain, ClosedUnderHandler
  <2> QED
    BY <2>1, <2>2, <2>3, <2>4, <2>5, <2>6 DEF IInv
<1>8. CASE DrainDone
  <2>1. TypeOK'
    <3>1. ServerType'
      BY <1>8 DEF DrainDone, IInv, TypeOK, ServerType
    <3>2. RequestType'
      BY <1>8 DEF DrainDone, IInv, TypeOK, RequestType
    <3> QED
      BY <3>1, <3>2 DEF TypeOK
  <2>2. OpenMatchesMain'
    <3>1. CASE role.ingest
      BY <1>8, <3>1 DEF DrainDone, IInv, TypeOK, ServerType, OpenMatchesMain
    <3>2. CASE ~role.ingest
      <4>1. "sink" \notin open /\ open \subseteq {"pool"}
        BY <1>8, <3>2 DEF DrainDone, IInv, TypeOK, ServerType, OpenMatchesMain
      <4> QED
        BY <1>8, <4>1 DEF DrainDone, IInv, TypeOK, ServerType, OpenMatchesMain
    <3> QED
      BY <3>1, <3>2 DEF IInv, TypeOK, ServerType
  <2>3. QuietBeforeListen'
    BY <1>8 DEF DrainDone, IInv, TypeOK, ServerType, RequestType, QuietBeforeListen
  <2>4. RequestsNeedRole'
    BY <1>8 DEF DrainDone, IInv, TypeOK, ServerType, RequestType, RequestsNeedRole
  <2>5. ResultMatchesMain'
    BY <1>8 DEF DrainDone, IInv, TypeOK, ServerType, RequestType, ResultMatchesMain
  <2>6. ClosedUnderHandler'
    BY <1>8 DEF DrainDone, IInv, TypeOK, RequestType, ResultMatchesMain, ClosedUnderHandler
  <2> QED
    BY <2>1, <2>2, <2>3, <2>4, <2>5, <2>6 DEF IInv
<1>9. CASE DrainTimeout
  <2>1. TypeOK'
    <3>1. ServerType'
      BY <1>9 DEF DrainTimeout, IInv, TypeOK, ServerType
    <3>2. RequestType'
      BY <1>9 DEF DrainTimeout, IInv, TypeOK, RequestType
    <3> QED
      BY <3>1, <3>2 DEF TypeOK
  <2>2. OpenMatchesMain'
    <3>1. CASE role.ingest
      BY <1>9, <3>1 DEF DrainTimeout, IInv, TypeOK, ServerType, OpenMatchesMain
    <3>2. CASE ~role.ingest
      <4>1. "sink" \notin open /\ open \subseteq {"pool"}
        BY <1>9, <3>2 DEF DrainTimeout, IInv, TypeOK, ServerType, OpenMatchesMain
      <4> QED
        BY <1>9, <4>1 DEF DrainTimeout, IInv, TypeOK, ServerType, OpenMatchesMain
    <3> QED
      BY <3>1, <3>2 DEF IInv, TypeOK, ServerType
  <2>3. QuietBeforeListen'
    BY <1>9 DEF DrainTimeout, IInv, TypeOK, ServerType, RequestType, QuietBeforeListen
  <2>4. RequestsNeedRole'
    BY <1>9 DEF DrainTimeout, IInv, TypeOK, ServerType, RequestType, RequestsNeedRole
  <2>5. ResultMatchesMain'
    BY <1>9 DEF DrainTimeout, IInv, TypeOK, ServerType, RequestType, ResultMatchesMain
  <2>6. ClosedUnderHandler'
    BY <1>9 DEF DrainTimeout, IInv, TypeOK, RequestType, ResultMatchesMain, ClosedUnderHandler
  <2> QED
    BY <2>1, <2>2, <2>3, <2>4, <2>5, <2>6 DEF IInv
<1>10. CASE CloseSink
  <2>1. TypeOK'
    <3>1. ServerType'
      BY <1>10 DEF CloseSink, IInv, TypeOK, ServerType
    <3>2. RequestType'
      BY <1>10 DEF CloseSink, IInv, TypeOK, RequestType
    <3> QED
      BY <3>1, <3>2 DEF TypeOK
  <2>2. OpenMatchesMain'
    BY <1>10 DEF CloseSink, IInv, TypeOK, ServerType, OpenMatchesMain
  <2>3. QuietBeforeListen'
    BY <1>10 DEF CloseSink, IInv, TypeOK, ServerType, RequestType, QuietBeforeListen
  <2>4. RequestsNeedRole'
    BY <1>10 DEF CloseSink, IInv, TypeOK, ServerType, RequestType, RequestsNeedRole
  <2>5. ResultMatchesMain'
    BY <1>10 DEF CloseSink, IInv, TypeOK, ServerType, RequestType, ResultMatchesMain
  <2>6. ClosedUnderHandler'
    BY <1>10 DEF CloseSink, IInv, TypeOK, RequestType, ResultMatchesMain, ClosedUnderHandler
  <2> QED
    BY <2>1, <2>2, <2>3, <2>4, <2>5, <2>6 DEF IInv
<1>11. CASE CloseGCS
  <2>1. TypeOK'
    <3>1. ServerType'
      BY <1>11 DEF CloseGCS, IInv, TypeOK, ServerType
    <3>2. RequestType'
      BY <1>11 DEF CloseGCS, IInv, TypeOK, RequestType
    <3> QED
      BY <3>1, <3>2 DEF TypeOK
  <2>2. OpenMatchesMain'
    <3>1. open' \subseteq {"pool"}
      BY <1>11 DEF CloseGCS, IInv, TypeOK, ServerType, OpenMatchesMain
    <3> QED
      BY <1>11, <3>1 DEF CloseGCS, IInv, TypeOK, ServerType, OpenMatchesMain
  <2>3. QuietBeforeListen'
    BY <1>11 DEF CloseGCS, IInv, TypeOK, ServerType, RequestType, QuietBeforeListen
  <2>4. RequestsNeedRole'
    BY <1>11 DEF CloseGCS, IInv, TypeOK, ServerType, RequestType, RequestsNeedRole
  <2>5. ResultMatchesMain'
    BY <1>11 DEF CloseGCS, IInv, TypeOK, ServerType, RequestType, ResultMatchesMain
  <2>6. ClosedUnderHandler'
    BY <1>11 DEF CloseGCS, IInv, TypeOK, RequestType, ResultMatchesMain, ClosedUnderHandler
  <2> QED
    BY <2>1, <2>2, <2>3, <2>4, <2>5, <2>6 DEF IInv
<1>12. CASE ClosePool
  <2>1. TypeOK'
    <3>1. ServerType'
      BY <1>12 DEF ClosePool, IInv, TypeOK, ServerType
    <3>2. RequestType'
      BY <1>12 DEF ClosePool, IInv, TypeOK, RequestType
    <3> QED
      BY <3>1, <3>2 DEF TypeOK
  <2>2. OpenMatchesMain'
    BY <1>12 DEF ClosePool, IInv, TypeOK, ServerType, OpenMatchesMain
  <2>3. QuietBeforeListen'
    BY <1>12 DEF ClosePool, IInv, TypeOK, ServerType, RequestType, QuietBeforeListen
  <2>4. RequestsNeedRole'
    BY <1>12 DEF ClosePool, IInv, TypeOK, ServerType, RequestType, RequestsNeedRole
  <2>5. ResultMatchesMain'
    BY <1>12 DEF ClosePool, IInv, TypeOK, ServerType, RequestType, ResultMatchesMain
  <2>6. ClosedUnderHandler'
    BY <1>12 DEF ClosePool, IInv, TypeOK, RequestType, ResultMatchesMain, ClosedUnderHandler
  <2> QED
    BY <2>1, <2>2, <2>3, <2>4, <2>5, <2>6 DEF IInv
<1>13. CASE PoolClosed
  <2>1. TypeOK'
    <3>1. ServerType'
      BY <1>13 DEF PoolClosed, IInv, TypeOK, ServerType
    <3>2. RequestType'
      BY <1>13 DEF PoolClosed, IInv, TypeOK, RequestType
    <3> QED
      BY <3>1, <3>2 DEF TypeOK
  <2>2. OpenMatchesMain'
    BY <1>13 DEF PoolClosed, IInv, TypeOK, ServerType, OpenMatchesMain
  <2>3. QuietBeforeListen'
    BY <1>13 DEF PoolClosed, IInv, TypeOK, ServerType, RequestType, QuietBeforeListen
  <2>4. RequestsNeedRole'
    BY <1>13 DEF PoolClosed, IInv, TypeOK, ServerType, RequestType, RequestsNeedRole
  <2>5. ResultMatchesMain'
    BY <1>13 DEF PoolClosed, IInv, TypeOK, ServerType, RequestType, ResultMatchesMain
  <2>6. ClosedUnderHandler'
    BY <1>13 DEF PoolClosed, IInv, TypeOK, RequestType, ResultMatchesMain, ClosedUnderHandler
  <2> QED
    BY <2>1, <2>2, <2>3, <2>4, <2>5, <2>6 DEF IInv
<1>14. CASE Exit
  <2>1. TypeOK'
    <3>1. ServerType'
      BY <1>14 DEF Exit, IInv, TypeOK, ServerType
    <3>2. RequestType'
      BY <1>14 DEF Exit, IInv, TypeOK, RequestType
    <3> QED
      BY <3>1, <3>2 DEF TypeOK
  <2>2. OpenMatchesMain'
    BY <1>14 DEF Exit, IInv, TypeOK, ServerType, OpenMatchesMain
  <2>3. QuietBeforeListen'
    BY <1>14 DEF Exit, IInv, TypeOK, ServerType, RequestType, QuietBeforeListen
  <2>4. RequestsNeedRole'
    BY <1>14 DEF Exit, IInv, TypeOK, ServerType, RequestType, RequestsNeedRole
  <2>5. ResultMatchesMain'
    BY <1>14 DEF Exit, IInv, TypeOK, ServerType, RequestType, ResultMatchesMain
  <2>6. ClosedUnderHandler'
    BY <1>14 DEF Exit, IInv, TypeOK, RequestType, ResultMatchesMain, ClosedUnderHandler
  <2> QED
    BY <2>1, <2>2, <2>3, <2>4, <2>5, <2>6 DEF IInv
<1>15. CASE Bind
  <2>1. TypeOK'
    <3>1. ServerType'
      BY <1>15 DEF Bind, IInv, TypeOK, ServerType
    <3>2. RequestType'
      BY <1>15 DEF Bind, IInv, TypeOK, RequestType
    <3> QED
      BY <3>1, <3>2 DEF TypeOK
  <2>2. OpenMatchesMain'
    BY <1>15 DEF Bind, IInv, TypeOK, ServerType, OpenMatchesMain
  <2>3. QuietBeforeListen'
    BY <1>15 DEF Bind, IInv, TypeOK, ServerType, RequestType, QuietBeforeListen
  <2>4. RequestsNeedRole'
    BY <1>15 DEF Bind, IInv, TypeOK, ServerType, RequestType, RequestsNeedRole
  <2>5. ResultMatchesMain'
    BY <1>15 DEF Bind, IInv, TypeOK, ServerType, RequestType, ResultMatchesMain
  <2>6. ClosedUnderHandler'
    BY <1>15 DEF Bind, IInv, TypeOK, RequestType, ResultMatchesMain, ClosedUnderHandler
  <2> QED
    BY <2>1, <2>2, <2>3, <2>4, <2>5, <2>6 DEF IInv
<1>16. CASE ListenerFails
  <2>1. TypeOK'
    <3>1. ServerType'
      BY <1>16 DEF ListenerFails, IInv, TypeOK, ServerType
    <3>2. RequestType'
      BY <1>16 DEF ListenerFails, IInv, TypeOK, RequestType
    <3> QED
      BY <3>1, <3>2 DEF TypeOK
  <2>2. OpenMatchesMain'
    BY <1>16 DEF ListenerFails, IInv, TypeOK, ServerType, OpenMatchesMain
  <2>3. QuietBeforeListen'
    BY <1>16 DEF ListenerFails, IInv, TypeOK, ServerType, RequestType, QuietBeforeListen
  <2>4. RequestsNeedRole'
    BY <1>16 DEF ListenerFails, IInv, TypeOK, ServerType, RequestType, RequestsNeedRole
  <2>5. ResultMatchesMain'
    BY <1>16 DEF ListenerFails, IInv, TypeOK, ServerType, RequestType, ResultMatchesMain
  <2>6. ClosedUnderHandler'
    BY <1>16 DEF ListenerFails, IInv, TypeOK, RequestType, ResultMatchesMain, ClosedUnderHandler
  <2> QED
    BY <2>1, <2>2, <2>3, <2>4, <2>5, <2>6 DEF IInv
<1>17. CASE \E r \in Request : Accept(r)
  <2> PICK r \in Request : Accept(r)
    BY <1>17
  <2>1. TypeOK'
    <3>1. ServerType'
      <4>1. UNCHANGED <<role, main, result, exit, signalled, listener, open>>
        BY DEF Accept
      <4>2. ServerType
        BY DEF IInv, TypeOK
      <4> QED
        BY ONLY <4>1, <4>2, ServerFrame
    <3>2. req' \in [Request -> {"none", "pool", "sink", "park", "answered", "cut"}]
      BY DEF Accept, IInv, TypeOK, RequestType
    <3>3. holds' \subseteq Request /\ misused' \subseteq Request
      BY DEF Accept, IInv, TypeOK, RequestType
    <3>4. ASSUME NEW q \in holds' PROVE req'[q] = "pool"
      BY DEF Accept, IInv, TypeOK, RequestType
    <3> QED
      BY <3>1, <3>2, <3>3, <3>4 DEF TypeOK, RequestType
  <2>2. OpenMatchesMain'
    BY DEF Accept, IInv, TypeOK, ServerType, OpenMatchesMain
  <2>3. QuietBeforeListen'
    BY DEF Accept, IInv, TypeOK, ServerType, RequestType, QuietBeforeListen, RequestsNeedRole
  <2>4. RequestsNeedRole'
    BY DEF Accept, IInv, TypeOK, ServerType, RequestType, RequestsNeedRole
  <2>5. ResultMatchesMain'
    BY DEF Accept, IInv, TypeOK, RequestType, RequestsNeedRole, ResultMatchesMain
  <2>6. ClosedUnderHandler'
    BY DEF Accept, IInv, TypeOK, RequestType, ResultMatchesMain, ClosedUnderHandler
  <2> QED
    BY <2>1, <2>2, <2>3, <2>4, <2>5, <2>6 DEF IInv
<1>18. CASE \E r \in Request : Acquire(r)
  <2> PICK r \in Request : Acquire(r)
    BY <1>18
  <2>1. TypeOK'
    <3>1. ServerType'
      <4>1. UNCHANGED <<role, main, result, exit, signalled, listener, open>>
        BY DEF Acquire
      <4>2. ServerType
        BY DEF IInv, TypeOK
      <4> QED
        BY ONLY <4>1, <4>2, ServerFrame
    <3>2. req' \in [Request -> {"none", "pool", "sink", "park", "answered", "cut"}]
      BY DEF Acquire, IInv, TypeOK, RequestType
    <3>3. holds' \subseteq Request /\ misused' \subseteq Request
      BY DEF Acquire, IInv, TypeOK, RequestType
    <3>4. ASSUME NEW q \in holds' PROVE req'[q] = "pool"
      BY DEF Acquire, IInv, TypeOK, RequestType
    <3> QED
      BY <3>1, <3>2, <3>3, <3>4 DEF TypeOK, RequestType
  <2>2. OpenMatchesMain'
    BY DEF Acquire, IInv, TypeOK, ServerType, OpenMatchesMain
  <2>3. QuietBeforeListen'
    BY DEF Acquire, IInv, TypeOK, ServerType, RequestType, QuietBeforeListen
  <2>4. RequestsNeedRole'
    BY DEF Acquire, IInv, TypeOK, ServerType, RequestType, RequestsNeedRole
  <2>5. ResultMatchesMain'
    BY DEF Acquire, IInv, TypeOK, RequestType, QuietBeforeListen, ResultMatchesMain
  <2>6. ClosedUnderHandler'
    BY DEF Acquire, IInv, TypeOK, ServerType, RequestType, OpenMatchesMain, QuietBeforeListen, RequestsNeedRole,
        ResultMatchesMain, ClosedUnderHandler
  <2> QED
    BY <2>1, <2>2, <2>3, <2>4, <2>5, <2>6 DEF IInv
<1>19. CASE \E r \in Request : Release(r)
  <2> PICK r \in Request : Release(r)
    BY <1>19
  <2>1. TypeOK'
    <3>1. ServerType'
      <4>1. UNCHANGED <<role, main, result, exit, signalled, listener, open>>
        BY DEF Release
      <4>2. ServerType
        BY DEF IInv, TypeOK
      <4> QED
        BY ONLY <4>1, <4>2, ServerFrame
    <3>2. req' \in [Request -> {"none", "pool", "sink", "park", "answered", "cut"}]
      BY DEF Release, IInv, TypeOK, RequestType
    <3>3. holds' \subseteq Request /\ misused' \subseteq Request
      BY DEF Release, IInv, TypeOK, RequestType
    <3>4. ASSUME NEW q \in holds' PROVE req'[q] = "pool"
      BY DEF Release, IInv, TypeOK, RequestType
    <3> QED
      BY <3>1, <3>2, <3>3, <3>4 DEF TypeOK, RequestType
  <2>2. OpenMatchesMain'
    BY DEF Release, IInv, TypeOK, ServerType, OpenMatchesMain
  <2>3. QuietBeforeListen'
    BY DEF Release, IInv, TypeOK, ServerType, RequestType, QuietBeforeListen
  <2>4. RequestsNeedRole'
    BY DEF Release, IInv, TypeOK, ServerType, RequestType, RequestsNeedRole
  <2>5. ResultMatchesMain'
    BY DEF Release, IInv, TypeOK, RequestType, QuietBeforeListen, ResultMatchesMain
  <2>6. ClosedUnderHandler'
    BY DEF Release, IInv, TypeOK, RequestType, ResultMatchesMain, ClosedUnderHandler
  <2> QED
    BY <2>1, <2>2, <2>3, <2>4, <2>5, <2>6 DEF IInv
<1>20. CASE \E r \in Request : Write(r)
  <2> PICK r \in Request : Write(r)
    BY <1>20
  <2>1. TypeOK'
    <3>1. ServerType'
      <4>1. UNCHANGED <<role, main, result, exit, signalled, listener, open>>
        BY DEF Write
      <4>2. ServerType
        BY DEF IInv, TypeOK
      <4> QED
        BY ONLY <4>1, <4>2, ServerFrame
    <3>2. req' \in [Request -> {"none", "pool", "sink", "park", "answered", "cut"}]
      BY DEF Write, IInv, TypeOK, RequestType
    <3>3. holds' \subseteq Request /\ misused' \subseteq Request
      BY DEF Write, IInv, TypeOK, RequestType
    <3>4. ASSUME NEW q \in holds' PROVE req'[q] = "pool"
      BY DEF Write, IInv, TypeOK, RequestType
    <3> QED
      BY <3>1, <3>2, <3>3, <3>4 DEF TypeOK, RequestType
  <2>2. OpenMatchesMain'
    BY DEF Write, IInv, TypeOK, ServerType, OpenMatchesMain
  <2>3. QuietBeforeListen'
    BY DEF Write, IInv, TypeOK, ServerType, RequestType, QuietBeforeListen
  <2>4. RequestsNeedRole'
    BY DEF Write, IInv, TypeOK, ServerType, RequestType, RequestsNeedRole
  <2>5. ResultMatchesMain'
    BY DEF Write, IInv, TypeOK, RequestType, QuietBeforeListen, ResultMatchesMain
  <2>6. ClosedUnderHandler'
    BY DEF Write, IInv, TypeOK, ServerType, RequestType, OpenMatchesMain, QuietBeforeListen, RequestsNeedRole,
        ResultMatchesMain, ClosedUnderHandler
  <2> QED
    BY <2>1, <2>2, <2>3, <2>4, <2>5, <2>6 DEF IInv
<1>21. CASE \E r \in Request : Park(r)
  <2> PICK r \in Request : Park(r)
    BY <1>21
  <2>1. TypeOK'
    <3>1. ServerType'
      <4>1. UNCHANGED <<role, main, result, exit, signalled, listener, open>>
        BY DEF Park
      <4>2. ServerType
        BY DEF IInv, TypeOK
      <4> QED
        BY ONLY <4>1, <4>2, ServerFrame
    <3>2. req' \in [Request -> {"none", "pool", "sink", "park", "answered", "cut"}]
      BY DEF Park, IInv, TypeOK, RequestType
    <3>3. holds' \subseteq Request /\ misused' \subseteq Request
      BY DEF Park, IInv, TypeOK, RequestType
    <3>4. ASSUME NEW q \in holds' PROVE req'[q] = "pool"
      BY DEF Park, IInv, TypeOK, RequestType
    <3> QED
      BY <3>1, <3>2, <3>3, <3>4 DEF TypeOK, RequestType
  <2>2. OpenMatchesMain'
    BY DEF Park, IInv, TypeOK, ServerType, OpenMatchesMain
  <2>3. QuietBeforeListen'
    BY DEF Park, IInv, TypeOK, ServerType, RequestType, QuietBeforeListen
  <2>4. RequestsNeedRole'
    BY DEF Park, IInv, TypeOK, ServerType, RequestType, RequestsNeedRole
  <2>5. ResultMatchesMain'
    BY DEF Park, IInv, TypeOK, RequestType, QuietBeforeListen, ResultMatchesMain
  <2>6. ClosedUnderHandler'
    BY DEF Park, IInv, TypeOK, ServerType, RequestType, OpenMatchesMain, QuietBeforeListen, RequestsNeedRole,
        ResultMatchesMain, ClosedUnderHandler
  <2> QED
    BY <2>1, <2>2, <2>3, <2>4, <2>5, <2>6 DEF IInv
<1>22. CASE Signal
  <2>1. TypeOK'
    <3>1. ServerType'
      BY <1>22 DEF Signal, IInv, TypeOK, ServerType
    <3>2. RequestType'
      BY <1>22 DEF Signal, IInv, TypeOK, RequestType
    <3> QED
      BY <3>1, <3>2 DEF TypeOK
  <2>2. OpenMatchesMain'
    BY <1>22 DEF Signal, IInv, TypeOK, ServerType, OpenMatchesMain
  <2>3. QuietBeforeListen'
    BY <1>22 DEF Signal, IInv, TypeOK, ServerType, RequestType, QuietBeforeListen
  <2>4. RequestsNeedRole'
    BY <1>22 DEF Signal, IInv, TypeOK, ServerType, RequestType, RequestsNeedRole
  <2>5. ResultMatchesMain'
    BY <1>22 DEF Signal, IInv, TypeOK, ServerType, RequestType, ResultMatchesMain
  <2>6. ClosedUnderHandler'
    BY <1>22 DEF Signal, IInv, TypeOK, RequestType, ResultMatchesMain, ClosedUnderHandler
  <2> QED
    BY <2>1, <2>2, <2>3, <2>4, <2>5, <2>6 DEF IInv
<1>23. CASE UNCHANGED vars
  <2>1. TypeOK'
    <3>1. ServerType'
      <4>1. UNCHANGED <<role, main, result, exit, signalled, listener, open>>
        BY <1>23
      <4>2. ServerType
        BY DEF IInv, TypeOK
      <4> QED
        BY ONLY <4>1, <4>2, ServerFrame
    <3>2. RequestType'
      BY <1>23 DEF IInv, TypeOK, RequestType
    <3> QED
      BY <3>1, <3>2 DEF TypeOK
  <2>2. OpenMatchesMain'
    BY <1>23 DEF IInv, TypeOK, ServerType, OpenMatchesMain
  <2>3. QuietBeforeListen'
    BY <1>23 DEF IInv, TypeOK, ServerType, RequestType, QuietBeforeListen
  <2>4. RequestsNeedRole'
    BY <1>23 DEF IInv, TypeOK, ServerType, RequestType, RequestsNeedRole
  <2>5. ResultMatchesMain'
    BY <1>23 DEF IInv, TypeOK, ServerType, RequestType, ResultMatchesMain
  <2>6. ClosedUnderHandler'
    BY <1>23 DEF IInv, TypeOK, RequestType, ResultMatchesMain, ClosedUnderHandler
  <2> QED
    BY <2>1, <2>2, <2>3, <2>4, <2>5, <2>6 DEF IInv
<1> QED
  BY <1>1, <1>2, <1>3, <1>4, <1>5, <1>6, <1>7, <1>8, <1>9, <1>10, <1>11,
     <1>12, <1>13, <1>14, <1>15, <1>16, <1>17, <1>18, <1>19, <1>20, <1>21, <1>22, <1>23
  DEF Next, Serve, Exited

(* The inductive invariant holds in every reachable state.                 *)
THEOREM Invariance == Spec => []IInv
<1>1. Init => IInv
  BY InitIInv
<1>2. IInv /\ [Next]_vars => IInv'
  BY Step
<1> QED
  BY <1>1, <1>2, PTL DEF Spec

(* The life cycle's state has the declared types, and only a request that  *)
(* needs the pool holds a connection.                                      *)
THEOREM TypeCorrect == Spec => []TypeOK
<1>1. IInv => TypeOK
  BY DEF IInv
<1> QED
  BY <1>1, Invariance, PTL

(* Every way out of serve closes what it opened, also after a start that   *)
(* failed half-way (main.go:87-105, 127-132).                              *)
THEOREM ReleasesEverything == Spec => []NothingLeaks
<1>1. IInv => NothingLeaks
  BY DEF IInv, OpenMatchesMain, NothingLeaks
<1> QED
  BY <1>1, Invariance, PTL

(* A handler can only find a client closed when the drain timed out or the *)
(* listener failed (server.go:51-63).                                      *)
THEOREM ClosedOnlyUndrained == Spec => []ClosedUnderHandler
<1>1. IInv => ClosedUnderHandler
  BY DEF IInv
<1> QED
  BY <1>1, Invariance, PTL

(* Exit code 0 means a stop that was asked for, with nothing cut off.      *)
THEOREM CleanStop == Spec => []CleanExit
<1>1. IInv => CleanExit
  BY DEF IInv, ResultMatchesMain, CleanExit
<1> QED
  BY <1>1, Invariance, PTL
=============================================================================
