---------------------------- MODULE PagingProofs ----------------------------
(***************************************************************************)
(* Proofs about TaskPaging, for any number of ids, any limit and any       *)
(* number of clients that create, change and delete during the walk.       *)
(***************************************************************************)
EXTENDS TaskPaging, FiniteSetTheorems, TLAPS

-----------------------------------------------------------------------------
(* How many of S are newer than i: the place of the row i in the list.     *)
Newer(S, i) == Cardinality({j \in S : j > i})

LEMMA NewerType ==
    ASSUME NEW S, IsFiniteSet(S), NEW i
    PROVE  /\ IsFiniteSet({j \in S : j > i})
           /\ Newer(S, i) \in Nat
<1>1. {j \in S : j > i} \in SUBSET S
  OBVIOUS
<1> QED
  BY <1>1, FS_Subset, FS_CardinalityType DEF Newer

(* A new row only moves the others back.                                   *)
LEMMA NewerGrows ==
    ASSUME NEW T, IsFiniteSet(T), NEW S \in SUBSET T, NEW i
    PROVE  Newer(S, i) <= Newer(T, i)
<1>1. {j \in S : j > i} \in SUBSET {j \in T : j > i}
  OBVIOUS
<1> QED
  BY <1>1, NewerType, FS_Subset DEF Newer

(* No two rows have the same place.                                        *)
LEMMA NewerOrders ==
    ASSUME NEW S \in SUBSET Int, IsFiniteSet(S), NEW i \in S, NEW j \in S, i < j
    PROVE  Newer(S, j) < Newer(S, i)
<1> DEFINE A == {k \in S : k > i}
<1> DEFINE B == {k \in S : k > j}
<1>1. B \in SUBSET A /\ j \in A /\ j \notin B
  <2>1. \A k \in S : k \in Int /\ (k > j => k > i) /\ ~(j > j) /\ j > i
    OBVIOUS
  <2> QED
    BY <2>1
<1>2. IsFiniteSet(A) /\ Cardinality(A) \in Nat /\ Cardinality(B) \in Nat
  BY NewerType DEF Newer
<1>3. Cardinality(B) <= Cardinality(A) /\ Cardinality(A) # Cardinality(B)
  BY ONLY <1>1, <1>2, FS_Subset
<1> QED
  BY <1>2, <1>3 DEF Newer

LEMMA SamePlaceSameRow ==
    ASSUME NEW S \in SUBSET Int, IsFiniteSet(S), NEW i \in S, NEW j \in S,
           Newer(S, i) = Newer(S, j)
    PROVE  i = j
<1>1. Newer(S, i) \in Nat
  BY NewerType
<1>2. ~(i < j) /\ ~(j < i)
  BY <1>1, NewerOrders
<1> QED
  BY <1>2

(* When a row goes, the others move up by at most one place.               *)
LEMMA NewerWithout ==
    ASSUME NEW S, IsFiniteSet(S), NEW d, NEW i
    PROVE  Newer(S, i) <= Newer(S \ {d}, i) + 1
<1> DEFINE A == {j \in S : j > i}
<1>1. {j \in S \ {d} : j > i} = A \ {d}
  OBVIOUS
<1>2. IsFiniteSet(A) /\ Cardinality(A) \in Nat
  BY NewerType DEF Newer
<1>3. Cardinality(A \ {d}) = IF d \in A THEN Cardinality(A) - 1 ELSE Cardinality(A)
  BY ONLY <1>2, FS_RemoveElement
<1> QED
  BY <1>1, <1>2, <1>3 DEF Newer

(* The places are filled without a gap.                                    *)
LEMMA NoGap ==
    ASSUME NEW S \in SUBSET Int, IsFiniteSet(S), NEW i \in S, NEW n \in 0 .. Newer(S, i)
    PROVE  \E j \in S : Newer(S, j) = n
<1> DEFINE last == Newer(S, i)
<1> DEFINE A == {j \in S : j > i} \cup {i}
<1> DEFINE f == [j \in A |-> Newer(S, j)]
<1>1. last \in Nat /\ IsFiniteSet({j \in S : j > i})
  BY NewerType
<1>2. IsFiniteSet(A) /\ Cardinality(A) = last + 1
  <2>1. i \notin {j \in S : j > i}
    OBVIOUS
  <2> QED
    BY <1>1, <2>1, FS_AddElement DEF Newer
<1>3. IsFiniteSet(0 .. last) /\ Cardinality(0 .. last) = last + 1
  BY <1>1, FS_Interval
<1>4. A \subseteq S
  OBVIOUS
<1>5. \A j \in A : Newer(S, j) \in 0 .. last
  <2> SUFFICES ASSUME NEW j \in A PROVE Newer(S, j) \in 0 .. last
    OBVIOUS
  <2>1. Newer(S, j) \in Nat
    BY NewerType
  <2>2. j = i \/ Newer(S, j) < last
    BY NewerOrders
  <2> QED
    BY <1>1, <2>1, <2>2
<1>6. f \in Injection(A, 0 .. last)
  <2>1. f \in [A -> 0 .. last]
    BY <1>5
  <2>2. \A j, k \in A : f[j] = f[k] => j = k
    BY <1>4, SamePlaceSameRow
  <2> QED
    BY <2>1, <2>2 DEF Injection, IsInjective
<1>7. f \in Surjection(A, 0 .. last)
  BY ONLY <1>2, <1>3, <1>6, FS_Injection
<1>8. \E j \in A : f[j] = n
  BY <1>7 DEF Surjection
<1> QED
  BY <1>4, <1>8

-----------------------------------------------------------------------------
(* The statements, as far as the ids of their rows go.                     *)

OnPage(S, from) == {i \in S : Newer(S, i) \in from .. from + Limit - 1}

LEMMA PageSizeIsLimit == PageSize(Limit) = Limit /\ Limit \in Nat \ {0}
BY PagingAssumption DEF PageSize

LEMMA PageIds ==
    ASSUME NEW from
    PROVE  Ids(Page(table, Limit, from)) = OnPage(Ids(table), from)
<1>1. Page(table, Limit, from)
        = {row \in table : Newer(Ids(table), row.id) \in from .. from + Limit - 1}
  BY PageSizeIsLimit DEF Page, Rank, Newer
<1> QED
  BY <1>1 DEF Ids, OnPage

(* A set of rows has no more ids than rows.                                *)
LEMMA IdsAreFewer ==
    ASSUME NEW T, IsFiniteSet(T)
    PROVE  IsFiniteSet(Ids(T)) /\ Cardinality(Ids(T)) <= Cardinality(T)
<1> DEFINE f == [row \in T |-> row.id]
<1>1. f \in Surjection(T, Ids(T))
  BY DEF Surjection, Ids
<1> QED
  BY ONLY <1>1, FS_Surjection, IsFiniteSet(T)

LEMMA CountInterval ==
    ASSUME NEW a \in Nat, NEW n \in Nat \ {0}
    PROVE  Cardinality(a .. a + n - 1) = n
<1>1. a + n - 1 \in Int /\ ~(a > a + n - 1) /\ (a + n - 1) - a + 1 = n
  OBVIOUS
<1> QED
  BY <1>1, FS_Interval

(* A page that has a row after it is full.                                 *)
LEMMA FullPage ==
    ASSUME NEW S \in SUBSET Int, IsFiniteSet(S), NEW from \in Nat, NEW i \in S,
           Newer(S, i) >= from + Limit
    PROVE  IsFiniteSet(OnPage(S, from)) /\ Cardinality(OnPage(S, from)) >= Limit
<1> DEFINE P == OnPage(S, from)
<1> DEFINE places == from .. from + Limit - 1
<1> DEFINE g == [j \in P |-> Newer(S, j)]
<1>1. IsFiniteSet(P) /\ Cardinality(P) \in Nat
  <2>1. P \in SUBSET S
    BY DEF OnPage
  <2> QED
    BY <2>1, FS_Subset, FS_CardinalityType
<1>2. Cardinality(places) = Limit
  BY PageSizeIsLimit, CountInterval
<1>3. \A n \in places : \E j \in P : Newer(S, j) = n
  <2> SUFFICES ASSUME NEW n \in places PROVE \E j \in P : Newer(S, j) = n
    OBVIOUS
  <2>1. n \in 0 .. Newer(S, i)
    <3>1. Newer(S, i) \in Nat
      BY NewerType
    <3> QED
      BY <3>1, PageSizeIsLimit
  <2>2. PICK j \in S : Newer(S, j) = n
    BY <2>1, NoGap
  <2> QED
    BY <2>2 DEF OnPage
<1>4. g \in [P -> places]
  BY DEF OnPage
<1>5. g \in Surjection(P, places)
  BY <1>3, <1>4 DEF Surjection
<1>6. Cardinality(places) <= Cardinality(P)
  BY ONLY <1>1, <1>5, FS_Surjection
<1> QED
  BY <1>1, <1>2, <1>6, PageSizeIsLimit

LEMMA InsertAddsId ==
    ASSUME NEW T, NEW row
    PROVE  Ids(T \cup {row}) = Ids(T) \cup {row.id}
BY DEF Ids

LEMMA UpdateKeepsIds ==
    ASSUME NEW id \in Ids(table), NEW title, NEW done, IsFiniteSet(table)
    PROVE  LET T == Updated(table, id, title, done)
           IN  Ids(T) = Ids(table) /\ IsFiniteSet(T)
<1> DEFINE new == [id |-> id, title |-> title, done |-> done]
<1> DEFINE T == Updated(table, id, title, done)
<1>1. Changed(table, id, title, done) = {new}
  BY DEF Changed, Selected, Ids
<1>2. T = (table \ Selected(table, id)) \cup {new}
  BY <1>1 DEF Updated
<1>3. Ids(T) = Ids(table)
  <2> HIDE DEF T, new
  <2>1. new.id = id
    BY DEF new
  <2>2. \A row \in table : row.id = id \/ row \in T
    BY <1>2 DEF Selected
  <2>3. \A row \in T : row \in table \/ row = new
    BY <1>2
  <2>4. new \in T
    BY <1>2
  <2> QED
    BY <2>1, <2>2, <2>3, <2>4 DEF Ids
<1>4. T \in SUBSET (table \cup {new})
  BY <1>2
<1>5. IsFiniteSet(T)
  BY ONLY <1>4, FS_Subset, FS_AddElement, IsFiniteSet(table)
<1> QED
  BY <1>3, <1>5

LEMMA DeleteDropsId ==
    ASSUME NEW id, IsFiniteSet(table)
    PROVE  LET T == table \ Selected(table, id)
           IN  Ids(T) = Ids(table) \ {id} /\ IsFiniteSet(T)
<1>1. table \ Selected(table, id) \in SUBSET table
  OBVIOUS
<1> QED
  BY <1>1, FS_Subset DEF Ids, Selected

-----------------------------------------------------------------------------
(* The invariant. A row that stays is behind the walk when it was not      *)
(* shown and its place is before the next page: only a deletion puts one   *)
(* there, and only one at a time.                                          *)

Behind == {id \in throughout : seen[id] = 0 /\ Newer(Ids(table), id) < offset}

WalkShape ==
    /\ IsFiniteSet(table) /\ Ids(table) \subseteq 1 .. serial
    /\ serial \in 0 .. MaxId
    /\ drawn \subseteq 1 .. serial
    /\ throughout \subseteq Ids(table)
    /\ seen \in [Id -> Nat]
    /\ offset \in Nat /\ deleted \in Nat
    /\ walking \in {"no", "yes", "done"}
    /\ walking = "no" => offset = 0

BehindIsBounded == walking = "yes" => Cardinality(Behind) <= deleted

WalkInv == WalkShape /\ BehindIsBounded /\ MissesOnlyForDeletes

LEMMA WalkShapeHolds == Spec => []WalkShape
<1>1. Init => WalkShape
  BY PagingAssumption, FS_EmptySet DEF Init, WalkShape, Ids, Id
<1>2. WalkShape /\ [Next]_vars => WalkShape'
  <2> SUFFICES ASSUME WalkShape, [Next]_vars PROVE WalkShape'
    OBVIOUS
  <2> USE PagingAssumption
  <2>1. CASE Draw
    BY <2>1 DEF Draw, WalkShape, Ids, walkVars
  <2>2. ASSUME NEW id \in Id, Commit(id) PROVE WalkShape'
    <3>1. PICK title \in Title :
            table' = table \cup {[id |-> id, title |-> title, done |-> FALSE]}
      BY <2>2 DEF Commit
    <3>2. Ids(table)' = Ids(table) \cup {id}
      BY <3>1, InsertAddsId DEF Ids
    <3>3. IsFiniteSet(table')
      BY <3>1, FS_AddElement DEF WalkShape
    <3> QED
      BY <2>2, <3>2, <3>3 DEF Commit, WalkShape
  <2>3. ASSUME NEW id \in Id, Abort(id) PROVE WalkShape'
    BY <2>3 DEF Abort, WalkShape, Ids, walkVars
  <2>4. ASSUME NEW id \in Id, Update(id) PROVE WalkShape'
    <3>1. Ids(table)' = Ids(table) /\ IsFiniteSet(table')
      BY <2>4, UpdateKeepsIds DEF Update, WalkShape
    <3> QED
      BY <2>4, <3>1 DEF Update, WalkShape, walkVars
  <2>5. ASSUME NEW id \in Id, Delete(id) PROVE WalkShape'
    <3>1. Ids(table)' = Ids(table) \ {id} /\ IsFiniteSet(table')
      BY <2>5, DeleteDropsId DEF Delete, WalkShape
    <3>2. deleted' \in Nat
      BY <2>5 DEF Delete, During, WalkShape
    <3>3. throughout' \subseteq Ids(table)'
      BY <2>5, <3>1 DEF Delete, WalkShape
    <3> QED
      BY <2>5, <3>1, <3>2, <3>3 DEF Delete, WalkShape
  <2>6. CASE StartWalk
    BY <2>6 DEF StartWalk, WalkShape, Ids, tableVars
  <2>7. CASE NextPage
    <3>1. seen' \in [Id -> Nat]
      BY <2>7 DEF NextPage, WalkShape
    <3>2. walking' \in {"yes", "done"} /\ offset' \in Nat
      BY <2>7 DEF NextPage, WalkShape
    <3> QED
      BY <2>7, <3>1, <3>2 DEF NextPage, WalkShape, Ids, tableVars
  <2>8. CASE UNCHANGED vars
    BY <2>8 DEF vars, tableVars, walkVars, WalkShape, Ids
  <2> QED
    BY <2>1, <2>2, <2>3, <2>4, <2>5, <2>6, <2>7, <2>8 DEF Next
<1> QED
  BY <1>1, <1>2, PTL DEF Spec

LEMMA ShapeFacts ==
    ASSUME WalkShape
    PROVE  /\ Ids(table) \in SUBSET Int /\ IsFiniteSet(Ids(table))
           /\ IsFiniteSet(throughout)
           /\ IsFiniteSet(Behind) /\ Cardinality(Behind) \in Nat
           /\ IsFiniteSet(Missed) /\ Cardinality(Missed) \in Nat
<1>1. Ids(table) \in SUBSET Int /\ IsFiniteSet(Ids(table))
  BY IdsAreFewer DEF WalkShape
<1>2. IsFiniteSet(throughout)
  BY <1>1, FS_Subset DEF WalkShape
<1>3. Behind \in SUBSET throughout /\ Missed \in SUBSET throughout
  BY DEF Behind, Missed
<1> QED
  BY <1>1, <1>2, <1>3, FS_Subset, FS_CardinalityType

(* Nobody falls behind when no row was deleted and no page was taken.      *)
LEMMA NobodyFallsBehind ==
    ASSUME WalkShape, WalkShape', throughout' = throughout, seen' = seen,
           offset' = offset, Ids(table) \subseteq Ids(table)'
    PROVE  Cardinality(Behind)' <= Cardinality(Behind)
<1>1. \A i : /\ Newer(Ids(table), i) <= Newer(Ids(table'), i)
             /\ Newer(Ids(table), i) \in Nat /\ Newer(Ids(table'), i) \in Nat
  BY ShapeFacts, IdsAreFewer, NewerGrows, NewerType DEF WalkShape
<1>2. Behind' \in SUBSET Behind
  BY <1>1 DEF Behind, WalkShape
<1> QED
  BY <1>2, ShapeFacts, FS_Subset

(* A deletion moves up by one place: of the rows whose place was not       *)
(* before the next page only the first one gets there.                     *)
LEMMA OneFallsBehind ==
    ASSUME WalkShape, NEW id \in Id, Delete(id)
    PROVE  Cardinality(Behind') <= Cardinality(Behind) + 1
<1> DEFINE S == Ids(table)
<1> DEFINE first == {i \in S : Newer(S, i) = offset}
<1>1. /\ Ids(table') = S \ {id} /\ S \in SUBSET Int /\ IsFiniteSet(S)
      /\ throughout' = throughout \ {id} /\ throughout \subseteq S
      /\ seen' = seen /\ offset' = offset /\ offset \in Nat
  BY DeleteDropsId, ShapeFacts DEF WalkShape, Delete
<1>2. \A i : /\ Newer(S, i) <= Newer(S \ {id}, i) + 1
             /\ Newer(S, i) \in Nat /\ Newer(S \ {id}, i) \in Nat
  BY <1>1, NewerWithout, NewerType, FS_RemoveElement
<1>3. Behind' \subseteq Behind \cup first
  <2> SUFFICES ASSUME NEW i \in Behind' PROVE i \in Behind \cup first
    OBVIOUS
  <2>1. i \in throughout /\ seen[i] = 0 /\ i \in S /\ Newer(S \ {id}, i) < offset
    BY <1>1 DEF Behind
  <2>2. Newer(S, i) < offset \/ Newer(S, i) = offset
    BY <1>1, <1>2, <2>1
  <2> QED
    BY <2>1, <2>2 DEF Behind
<1>4. \A i, j \in first : i = j
  BY <1>1, SamePlaceSameRow
<1>5. \E x : first \subseteq {x}
  BY <1>4
<1>6. PICK x : Behind' \subseteq Behind \cup {x}
  BY <1>3, <1>5
<1>7. IsFiniteSet(Behind) /\ Cardinality(Behind) \in Nat
  BY ShapeFacts
<1> DEFINE more == Behind \cup {x}
<1>8. IsFiniteSet(more) /\ Cardinality(more) \in Nat
      /\ Cardinality(more) <= Cardinality(Behind) + 1
  BY <1>7, FS_AddElement
<1>9. Cardinality(Behind') <= Cardinality(more) /\ Cardinality(Behind') \in Nat
  <2> HIDE DEF more
  <2>1. Behind' \in SUBSET more
    BY <1>6 DEF more
  <2> QED
    BY <1>8, <2>1, FS_Subset, FS_CardinalityType
<1> QED
  BY <1>7, <1>8, <1>9

(* A row that was not shown by now was behind before.                      *)
LEMMA NotShownWasBehind ==
    ASSUME WalkShape, NextPage, NEW i \in throughout, seen'[i] = 0,
           Newer(Ids(table), i) < offset + Limit
    PROVE  i \in Behind
<1>1. i \in Id /\ i \in Ids(table)
  <2>1. i \in Ids(table) /\ i \in 1 .. serial
    BY DEF WalkShape
  <2> QED
    BY <2>1, PagingAssumption DEF WalkShape, Id
<1>2. i \notin Ids(Page(table, Limit, offset)) /\ seen[i] = 0
  BY <1>1 DEF NextPage, WalkShape
<1>3. i \notin OnPage(Ids(table), offset)
  BY <1>2, PageIds
<1>4. Newer(Ids(table), i) \in Nat
  BY ShapeFacts, NewerType
<1>5. Newer(Ids(table), i) < offset
  BY <1>1, <1>3, <1>4, PageSizeIsLimit DEF OnPage, WalkShape
<1> QED
  BY <1>2, <1>5 DEF Behind

(* Nothing is left after a page that is not full.                          *)
LEMMA LastPage ==
    ASSUME WalkShape, NEW i \in Ids(table),
           Cardinality(Page(table, Limit, offset)) < Limit
    PROVE  Newer(Ids(table), i) < offset + Limit
<1> DEFINE page == Page(table, Limit, offset)
<1>1. Newer(Ids(table), i) \in Nat /\ offset \in Nat
  BY ShapeFacts, NewerType DEF WalkShape
<1>2. IsFiniteSet(page)
  <2>1. page \in SUBSET table
    BY DEF Page
  <2> QED
    BY <2>1, FS_Subset DEF WalkShape
<1>3. /\ IsFiniteSet(OnPage(Ids(table), offset))
      /\ Cardinality(OnPage(Ids(table), offset)) <= Cardinality(page)
  BY <1>2, IdsAreFewer, PageIds
<1>4. /\ Cardinality(page) \in Nat
      /\ Cardinality(OnPage(Ids(table), offset)) \in Nat
  BY <1>2, <1>3, FS_CardinalityType
<1>5. ~(Cardinality(OnPage(Ids(table), offset)) >= Limit)
  BY <1>3, <1>4, PageSizeIsLimit
<1>6. ~(Newer(Ids(table), i) >= offset + Limit)
  BY <1>1, <1>5, ShapeFacts, FullPage
<1> QED
  BY <1>1, <1>6, PageSizeIsLimit

LEMMA WalkInvHolds == Spec => []WalkInv
<1>1. Init => BehindIsBounded /\ MissesOnlyForDeletes
  BY DEF Init, BehindIsBounded, MissesOnlyForDeletes
<1>2. WalkInv /\ WalkShape' /\ [Next]_vars => BehindIsBounded' /\ MissesOnlyForDeletes'
  <2> SUFFICES ASSUME WalkInv, WalkShape', [Next]_vars
               PROVE  BehindIsBounded' /\ MissesOnlyForDeletes'
    OBVIOUS
  <2>0. /\ WalkShape /\ BehindIsBounded /\ MissesOnlyForDeletes
        /\ Cardinality(Behind) \in Nat /\ Cardinality(Behind') \in Nat
        /\ Cardinality(Missed) \in Nat /\ Cardinality(Missed') \in Nat
        /\ IsFiniteSet(Behind) /\ IsFiniteSet(Missed)
        /\ deleted \in Nat /\ deleted' \in Nat
    <3>1. WalkShape /\ BehindIsBounded /\ MissesOnlyForDeletes
      BY DEF WalkInv
    <3>2. Cardinality(Behind') \in Nat /\ Cardinality(Missed') \in Nat
      <4>1. IsFiniteSet(throughout')
        BY IdsAreFewer, FS_Subset DEF WalkShape
      <4>2. Behind' \in SUBSET throughout' /\ Missed' \in SUBSET throughout'
        BY DEF Behind, Missed
      <4> QED
        BY <4>1, <4>2, FS_Subset, FS_CardinalityType
    <3> QED
      BY <3>1, <3>2, ShapeFacts DEF WalkShape
  <2>1. ASSUME walking' = walking, throughout' = throughout, seen' = seen,
               offset' = offset, deleted' = deleted, Ids(table) \subseteq Ids(table)'
        PROVE  BehindIsBounded' /\ MissesOnlyForDeletes'
    <3>1. Cardinality(Behind') <= Cardinality(Behind)
      BY <2>0, <2>1, NobodyFallsBehind
    <3>2. Missed' = Missed
      BY <2>1 DEF Missed
    <3> QED
      BY <2>0, <2>1, <3>1, <3>2 DEF BehindIsBounded, MissesOnlyForDeletes
  <2>2. CASE Draw
    BY <2>1, <2>2 DEF Draw, walkVars, Ids
  <2>3. ASSUME NEW id \in Id, Commit(id) PROVE BehindIsBounded' /\ MissesOnlyForDeletes'
    BY <2>1, <2>3 DEF Commit, Ids
  <2>4. ASSUME NEW id \in Id, Abort(id) PROVE BehindIsBounded' /\ MissesOnlyForDeletes'
    BY <2>1, <2>4 DEF Abort, walkVars, Ids
  <2>5. ASSUME NEW id \in Id, Update(id) PROVE BehindIsBounded' /\ MissesOnlyForDeletes'
    <3>1. Ids(table)' = Ids(table)
      BY <2>0, <2>5, UpdateKeepsIds DEF Update, WalkShape
    <3> QED
      BY <2>1, <2>5, <3>1 DEF Update, walkVars
  <2>6. ASSUME NEW id \in Id, Delete(id) PROVE BehindIsBounded' /\ MissesOnlyForDeletes'
    <3>1. BehindIsBounded'
      BY <2>0, <2>6, OneFallsBehind DEF Delete, During, BehindIsBounded
    <3>2. Missed' \in SUBSET Missed
      BY <2>6 DEF Delete, Missed
    <3>3. Cardinality(Missed') <= Cardinality(Missed)
      BY ONLY <2>0, <3>2, FS_Subset
    <3>4. walking' = "done" => deleted' = deleted /\ walking = "done"
      BY <2>6 DEF Delete, During
    <3> QED
      BY <2>0, <3>1, <3>3, <3>4 DEF MissesOnlyForDeletes
  <2>7. CASE StartWalk
    <3>1. walking' = "yes" /\ offset' = 0 /\ Ids(table') = Ids(table)
      BY <2>0, <2>7 DEF StartWalk, WalkShape, tableVars
    <3>2. \A i : Newer(Ids(table'), i) \in Nat
      BY <2>0, <3>1, ShapeFacts, NewerType
    <3>3. Behind' = {}
      BY <3>1, <3>2 DEF Behind
    <3> QED
      BY <2>0, <3>1, <3>3, FS_EmptySet DEF BehindIsBounded, MissesOnlyForDeletes
  <2>8. CASE NextPage
    <3>1. /\ throughout' = throughout /\ Ids(table') = Ids(table) /\ deleted' = deleted
          /\ offset' = offset + Limit /\ walking = "yes"
      BY <2>8 DEF NextPage, tableVars
    <3>2. Behind' \in SUBSET Behind
      BY <2>0, <2>8, <3>1, NotShownWasBehind DEF Behind
    <3>3. Cardinality(Behind') <= Cardinality(Behind)
      BY ONLY <2>0, <3>2, FS_Subset
    <3>4. ASSUME walking' = "done" PROVE Cardinality(Missed') <= Cardinality(Behind)
      <4>1. Cardinality(Page(table, Limit, offset)) < Limit
        BY <2>8, <3>4 DEF NextPage
      <4>2. Missed' \in SUBSET Behind
        <5> SUFFICES ASSUME NEW i \in Missed' PROVE i \in Behind
          OBVIOUS
        <5>1. i \in throughout /\ seen'[i] = 0 /\ i \in Ids(table)
          BY <2>0, <3>1 DEF Missed, WalkShape
        <5> QED
          BY <2>0, <2>8, <4>1, <5>1, LastPage, NotShownWasBehind
      <4> QED
        BY ONLY <2>0, <4>2, FS_Subset
    <3> QED
      BY <2>0, <3>1, <3>3, <3>4 DEF BehindIsBounded, MissesOnlyForDeletes
  <2>9. CASE UNCHANGED vars
    BY <2>1, <2>9 DEF vars, tableVars, walkVars, Ids
  <2> QED
    BY <2>2, <2>3, <2>4, <2>5, <2>6, <2>7, <2>8, <2>9 DEF Next
<1> QED
  BY <1>1, <1>2, WalkShapeHolds, PTL DEF Spec, WalkInv

(* A walk through the list misses no more of the rows that stay than other *)
(* clients deleted while it lasted (internal/task/postgres.go:36-38).      *)
THEOREM WalkMissesFew == Spec => []MissesOnlyForDeletes
<1>1. WalkInv => MissesOnlyForDeletes
  BY DEF WalkInv
<1> QED
  BY <1>1, WalkInvHolds, PTL

-----------------------------------------------------------------------------
(* Repetitions. A row that was shown and has its place on the next page or *)
(* later will be shown again: it counts as a repetition already, and every *)
(* one of those is charged to an insert that moved the row there.          *)

Ahead == {id \in Ids(table) : seen[id] > 0 /\ Newer(Ids(table), id) >= offset}
Charges == Repetitions \cup {<<id, seen[id]>> : id \in Ahead}

FreshIds ==
    /\ drawn \cap Ids(table) = {}
    /\ \A id \in Id : seen[id] > 0 => id \in 1 .. serial /\ id \notin drawn
    /\ walking = "no" => \A id \in Id : seen[id] = 0
    /\ inserted \in Nat

ChargesAreBounded == walking = "yes" => Cardinality(Charges) <= inserted

LEMMA FreshIdsHolds == Spec => []FreshIds
<1>1. Init => FreshIds
  BY DEF Init, FreshIds
<1>2. WalkShape /\ FreshIds /\ [Next]_vars => FreshIds'
  <2> SUFFICES ASSUME WalkShape, FreshIds, [Next]_vars PROVE FreshIds'
    OBVIOUS
  <2>0. serial \in Nat /\ Ids(table) \subseteq 1 .. serial /\ seen \in [Id -> Nat]
    BY PagingAssumption DEF WalkShape
  <2>1. CASE Draw
    <3>1. serial + 1 \notin 1 .. serial /\ 1 .. serial \subseteq 1 .. serial + 1
      BY <2>0
    <3> QED
      BY <2>0, <2>1, <3>1 DEF Draw, FreshIds, Ids, walkVars
  <2>2. ASSUME NEW id \in Id, Commit(id) PROVE FreshIds'
    <3>1. PICK title \in Title :
            table' = table \cup {[id |-> id, title |-> title, done |-> FALSE]}
      BY <2>2 DEF Commit
    <3>2. Ids(table)' = Ids(table) \cup {id}
      BY <3>1, InsertAddsId DEF Ids
    <3>3. inserted' \in Nat
      BY <2>2 DEF Commit, During, FreshIds
    <3> QED
      BY <2>2, <3>2, <3>3 DEF Commit, FreshIds
  <2>3. ASSUME NEW id \in Id, Abort(id) PROVE FreshIds'
    BY <2>3 DEF Abort, FreshIds, Ids, walkVars
  <2>4. ASSUME NEW id \in Id, Update(id) PROVE FreshIds'
    <3>1. Ids(table)' = Ids(table)
      BY <2>4, UpdateKeepsIds DEF Update, WalkShape
    <3> QED
      BY <2>4, <3>1 DEF Update, FreshIds, walkVars
  <2>5. ASSUME NEW id \in Id, Delete(id) PROVE FreshIds'
    <3>1. Ids(table)' = Ids(table) \ {id}
      BY <2>5, DeleteDropsId DEF Delete, WalkShape
    <3> QED
      BY <2>5, <3>1 DEF Delete, FreshIds
  <2>6. CASE StartWalk
    BY <2>6 DEF StartWalk, FreshIds, Ids, tableVars
  <2>7. CASE NextPage
    <3>1. \A id \in Id : seen'[id] # seen[id] => id \in Ids(table)
      <4>1. \A id \in Id : id \notin Ids(Page(table, Limit, offset)) => seen'[id] = seen[id]
        BY <2>7 DEF NextPage
      <4> QED
        BY <4>1, PageIds DEF OnPage
    <3>2. walking' # "no" /\ UNCHANGED <<table, serial, drawn, inserted>>
      BY <2>7 DEF NextPage, tableVars
    <3> QED
      BY <2>0, <3>1, <3>2 DEF FreshIds, Ids
  <2>8. CASE UNCHANGED vars
    BY <2>8 DEF vars, tableVars, walkVars, FreshIds, Ids
  <2> QED
    BY <2>1, <2>2, <2>3, <2>4, <2>5, <2>6, <2>7, <2>8 DEF Next
<1> QED
  BY <1>1, <1>2, WalkShapeHolds, PTL DEF Spec

(* One page turns the charges of the rows it shows into repetitions.       *)
LEMMA PageKeepsCharges ==
    ASSUME WalkShape, NextPage
    PROVE  Charges' \subseteq Charges
<1> DEFINE S == Ids(table)
<1> DEFINE P == OnPage(S, offset)
<1>0. /\ S \in SUBSET Int /\ IsFiniteSet(S) /\ S \subseteq Id
      /\ seen \in [Id -> Nat] /\ offset \in Nat
  BY ShapeFacts, PagingAssumption DEF WalkShape, Id
<1>1. /\ seen' = [id \in Id |-> IF id \in P THEN seen[id] + 1 ELSE seen[id]]
      /\ Ids(table') = S /\ offset' = offset + Limit
  BY PageIds DEF NextPage, tableVars
<1>2. \A i : Newer(S, i) \in Nat
  BY <1>0, NewerType
<1>3. \A i \in P : i \in S /\ Newer(S, i) >= offset /\ ~(Newer(S, i) >= offset + Limit)
  BY <1>0, <1>2, PageSizeIsLimit DEF OnPage
<1>4. ASSUME NEW id \in Id, NEW n \in 1 .. seen'[id] - 1
      PROVE  <<id, n>> \in Charges
  <2>1. CASE id \notin P
    BY <1>1, <1>4, <2>1 DEF Charges, Repetitions
  <2>2. CASE id \in P
    <3>1. n \in 1 .. seen[id] /\ seen[id] \in Nat
      BY <1>0, <1>1, <1>4, <2>2
    <3>2. CASE n = seen[id]
      <4>1. id \in Ahead
        BY <1>3, <2>2, <3>1, <3>2 DEF Ahead
      <4> QED
        BY <3>2, <4>1 DEF Charges
    <3>3. CASE n # seen[id]
      <4>1. n \in 1 .. seen[id] - 1
        BY <3>1, <3>3
      <4> QED
        BY <4>1 DEF Charges, Repetitions
    <3> QED
      BY <3>2, <3>3
  <2> QED
    BY <2>1, <2>2
<1>5. ASSUME NEW id \in Ahead'
      PROVE  <<id, seen'[id]>> \in Charges
  <2>1. id \in S /\ seen'[id] > 0 /\ Newer(S, id) >= offset + Limit
    BY <1>1, <1>5 DEF Ahead
  <2>2. id \notin P /\ Newer(S, id) >= offset
    BY <1>0, <1>2, <1>3, <2>1, PageSizeIsLimit
  <2>3. seen'[id] = seen[id]
    BY <1>0, <1>1, <2>1, <2>2
  <2> QED
    BY <2>1, <2>2, <2>3 DEF Ahead, Charges
<1> QED
  BY <1>4, <1>5 DEF Charges, Repetitions

(* Without a page or an insert, rows only move up and nothing is charged.  *)
LEMMA NothingCharged ==
    ASSUME WalkShape, WalkShape', seen' = seen, offset' = offset, Ids(table)' \subseteq Ids(table)
    PROVE  Charges' \subseteq Charges
<1>1. \A i : /\ Newer(Ids(table'), i) <= Newer(Ids(table), i)
             /\ Newer(Ids(table), i) \in Nat /\ Newer(Ids(table'), i) \in Nat
  BY IdsAreFewer, NewerGrows, NewerType DEF WalkShape
<1>2. Ahead' \subseteq Ahead
  BY <1>1 DEF Ahead, WalkShape
<1> QED
  BY <1>2 DEF Charges, Repetitions

(* An insert moves the others back by one place, so one row at most that   *)
(* was shown already gets its place on the next page.                      *)
LEMMA OneIsCharged ==
    ASSUME WalkShape, FreshIds, NEW id \in Id, Commit(id)
    PROVE  \E x : Charges' \subseteq Charges \cup {x}
<1> DEFINE S == Ids(table)
<1> DEFINE edge == {i \in S : Newer(S, i) = offset - 1}
<1>1. /\ Ids(table') = S \cup {id} /\ S \in SUBSET Int /\ IsFiniteSet(S)
      /\ seen' = seen /\ offset' = offset /\ offset \in Nat /\ seen[id] \in Nat
  <2>1. PICK title \in Title :
          table' = table \cup {[id |-> id, title |-> title, done |-> FALSE]}
    BY DEF Commit
  <2>2. Ids(table') = S \cup {id}
    BY <2>1, InsertAddsId
  <2> QED
    BY <2>2, ShapeFacts DEF WalkShape, Commit
<1>2. id \notin S /\ ~(seen[id] > 0)
  BY DEF FreshIds, Commit
<1>3. \A i : /\ Newer(S \cup {id}, i) <= Newer(S, i) + 1
             /\ Newer(S, i) \in Nat /\ Newer(S \cup {id}, i) \in Nat
  <2>1. (S \cup {id}) \ {id} = S
    BY <1>2
  <2> QED
    BY <1>1, <2>1, NewerWithout, NewerType, FS_AddElement
<1>4. Ahead' \subseteq Ahead \cup edge
  <2> SUFFICES ASSUME NEW i \in Ahead' PROVE i \in Ahead \cup edge
    OBVIOUS
  <2>1. i \in S /\ seen[i] > 0 /\ Newer(S \cup {id}, i) >= offset
    BY <1>1, <1>2 DEF Ahead
  <2>2. Newer(S, i) >= offset \/ Newer(S, i) = offset - 1
    BY <1>1, <1>3, <2>1
  <2> QED
    BY <2>1, <2>2 DEF Ahead
<1>5. \A i, j \in edge : i = j
  BY <1>1, SamePlaceSameRow
<1>6. \E e : edge \subseteq {e}
  BY <1>5
<1>7. PICK e : Ahead' \subseteq Ahead \cup {e}
  BY <1>4, <1>6
<1>8. Charges' \subseteq Charges \cup {<<e, seen[e]>>}
  BY <1>1, <1>7 DEF Charges, Repetitions
<1> QED
  BY <1>8

LEMMA NothingShown ==
    ASSUME WalkShape, \A id \in Id : seen[id] = 0
    PROVE  Charges = {} /\ Repetitions = {}
<1>1. Ids(table) \subseteq Id
  BY PagingAssumption DEF WalkShape, Id
<1>2. Ahead = {}
  BY <1>1 DEF Ahead
<1>3. \A id \in Id : 1 .. seen[id] - 1 = {}
  OBVIOUS
<1>4. Repetitions = {}
  BY <1>3 DEF Repetitions
<1> QED
  BY <1>2, <1>4 DEF Charges

LEMMA NothingShownNext ==
    ASSUME WalkShape', \A id \in Id : seen'[id] = 0
    PROVE  Charges' = {}
<1>1. Ids(table') \subseteq Id
  BY PagingAssumption DEF WalkShape, Id
<1>2. Ahead' = {}
  BY <1>1 DEF Ahead
<1>3. \A id \in Id : 1 .. seen'[id] - 1 = {}
  OBVIOUS
<1>4. Repetitions' = {}
  BY <1>3 DEF Repetitions
<1> QED
  BY <1>2, <1>4 DEF Charges

(* What a step does to the charges.                                        *)
LEMMA ChargesStep ==
    ASSUME WalkShape, WalkShape', FreshIds, FreshIds', [Next]_vars
    PROVE  \/ Charges' \subseteq Charges
           \/ /\ \E x : Charges' \subseteq Charges \cup {x}
              /\ UNCHANGED <<walking, seen>>
              /\ walking = "yes" => inserted' = inserted + 1
<1>1. CASE Draw
  BY <1>1, NothingCharged DEF Draw, walkVars, Ids
<1>2. ASSUME NEW id \in Id, Commit(id)
      PROVE  /\ \E x : Charges' \subseteq Charges \cup {x}
             /\ UNCHANGED <<walking, seen>>
             /\ walking = "yes" => inserted' = inserted + 1
  BY <1>2, OneIsCharged DEF Commit, During
<1>3. ASSUME NEW id \in Id, Abort(id) PROVE Charges' \subseteq Charges
  BY <1>3, NothingCharged DEF Abort, walkVars, Ids
<1>4. ASSUME NEW id \in Id, Update(id) PROVE Charges' \subseteq Charges
  <2>1. Ids(table)' = Ids(table)
    BY <1>4, UpdateKeepsIds DEF Update, WalkShape
  <2> QED
    BY <1>4, <2>1, NothingCharged DEF Update, walkVars
<1>5. ASSUME NEW id \in Id, Delete(id) PROVE Charges' \subseteq Charges
  <2>1. Ids(table)' = Ids(table) \ {id}
    BY <1>5, DeleteDropsId DEF Delete, WalkShape
  <2> QED
    BY <1>5, <2>1, NothingCharged DEF Delete
<1>6. CASE StartWalk
  BY <1>6, NothingCharged DEF StartWalk, tableVars, Ids
<1>7. CASE NextPage
  BY <1>7, PageKeepsCharges
<1>8. CASE UNCHANGED vars
  BY <1>8, NothingCharged DEF vars, tableVars, walkVars, Ids
<1> QED
  BY <1>1, <1>2, <1>3, <1>4, <1>5, <1>6, <1>7, <1>8 DEF Next

(* Outside the walk nothing is counted.                                    *)
LEMMA CountsOnlyInWalk ==
    ASSUME WalkShape, FreshIds, [Next]_vars, inserted' # inserted
    PROVE  walking = "yes" /\ inserted' = inserted + 1
<1>1. \E id \in Id : Commit(id)
  BY DEF Next, Draw, Abort, Update, Delete, StartWalk, NextPage, vars, walkVars
<1> QED
  BY <1>1 DEF Commit, During

LEMMA WalkingSteps ==
    ASSUME WalkShape, [Next]_vars
    PROVE  \/ walking' = walking
           \/ walking = "no" /\ walking' = "yes" /\ seen' = seen
           \/ walking = "yes" /\ walking' = "done"
<1>1. CASE StartWalk \/ NextPage
  BY <1>1 DEF StartWalk, NextPage
<1>2. CASE ~(StartWalk \/ NextPage)
  BY <1>2 DEF Next, Draw, Commit, Abort, Update, Delete, vars, walkVars
<1> QED
  BY <1>1, <1>2

LEMMA SeenOnlyInWalk ==
    ASSUME [Next]_vars, walking # "yes"
    PROVE  seen' = seen
BY DEF Next, Draw, Commit, Abort, Update, Delete, StartWalk, NextPage, vars, walkVars

LEMMA ChargesHold == Spec => [](IsFiniteSet(Charges) /\ ChargesAreBounded /\ RepeatsOnlyForInserts)
<1> DEFINE Inv == IsFiniteSet(Charges) /\ ChargesAreBounded /\ RepeatsOnlyForInserts
<1>1. Init /\ WalkShape => Inv
  BY NothingShown, FS_EmptySet DEF Init, ChargesAreBounded, RepeatsOnlyForInserts
<1>2. Inv /\ WalkShape /\ WalkShape' /\ FreshIds /\ FreshIds' /\ [Next]_vars => Inv'
  <2> SUFFICES ASSUME Inv, WalkShape, WalkShape', FreshIds, FreshIds', [Next]_vars PROVE Inv'
    OBVIOUS
  <2>0. /\ IsFiniteSet(Charges) /\ ChargesAreBounded /\ RepeatsOnlyForInserts
        /\ inserted \in Nat /\ inserted' \in Nat
        /\ walking \in {"no", "yes", "done"} /\ walking' \in {"no", "yes", "done"}
    BY DEF FreshIds, WalkShape
  <2>1. /\ IsFiniteSet(Charges') /\ Cardinality(Charges) \in Nat /\ Cardinality(Charges') \in Nat
        /\ \/ Cardinality(Charges') <= Cardinality(Charges)
           \/ /\ Cardinality(Charges') <= Cardinality(Charges) + 1
              /\ UNCHANGED <<walking, seen>>
              /\ walking = "yes" => inserted' = inserted + 1
    <3>1. CASE Charges' \subseteq Charges
      <4>1. Charges' \in SUBSET Charges
        BY <3>1
      <4> QED
        BY <2>0, <4>1, FS_Subset, FS_CardinalityType
    <3>2. ASSUME NEW x, Charges' \subseteq Charges \cup {x}
          PROVE  /\ IsFiniteSet(Charges') /\ Cardinality(Charges) \in Nat
                 /\ Cardinality(Charges') \in Nat
                 /\ Cardinality(Charges') <= Cardinality(Charges) + 1
      <4> DEFINE more == Charges \cup {x}
      <4>1. /\ IsFiniteSet(more) /\ Cardinality(Charges) \in Nat /\ Cardinality(more) \in Nat
            /\ Cardinality(more) <= Cardinality(Charges) + 1
        <5>1. Cardinality(Charges) \in Nat
          BY <2>0, FS_CardinalityType
        <5>2. /\ IsFiniteSet(more)
              /\ Cardinality(more) = IF x \in Charges THEN Cardinality(Charges)
                                     ELSE Cardinality(Charges) + 1
          BY <2>0, FS_AddElement
        <5> QED
          BY <5>1, <5>2
      <4>2. /\ IsFiniteSet(Charges') /\ Cardinality(Charges') \in Nat
            /\ Cardinality(Charges') <= Cardinality(more)
        <5>1. Charges' \in SUBSET more
          BY <3>2
        <5> HIDE DEF more
        <5> QED
          BY <4>1, <5>1, FS_Subset, FS_CardinalityType
      <4> QED
        BY <4>1, <4>2
    <3> QED
      BY <3>1, <3>2, ChargesStep
  <2>2. /\ IsFiniteSet(Repetitions') /\ Cardinality(Repetitions') \in Nat
        /\ Cardinality(Repetitions') <= Cardinality(Charges')
    <3>1. Repetitions' \in SUBSET Charges'
      BY DEF Charges
    <3> QED
      BY <2>1, <3>1, FS_Subset, FS_CardinalityType
  <2>3. Cardinality(Repetitions) \in Nat
    <3>1. Repetitions \in SUBSET Charges
      BY DEF Charges
    <3> QED
      BY <2>0, <3>1, FS_Subset, FS_CardinalityType
  <2>4. inserted' >= inserted
    BY <2>0, CountsOnlyInWalk
  <2>5. CASE walking # "yes"
    <3>1. seen' = seen /\ Repetitions' = Repetitions /\ inserted' = inserted
      BY <2>5, SeenOnlyInWalk, CountsOnlyInWalk DEF Repetitions
    <3>2. CASE walking' = "yes"
      <4>1. \A id \in Id : seen'[id] = 0
        BY <2>5, <3>1, <3>2, WalkingSteps DEF FreshIds
      <4>2. Cardinality(Charges') = 0
        <5>1. Charges' = {}
          BY <3>1, <4>1, NothingShownNext
        <5> QED
          BY <5>1, FS_EmptySet
      <4> QED
        BY <2>0, <2>1, <3>1, <4>2 DEF ChargesAreBounded, RepeatsOnlyForInserts
    <3>3. CASE walking' # "yes"
      BY <2>0, <2>1, <3>1, <3>3 DEF ChargesAreBounded, RepeatsOnlyForInserts
    <3> QED
      BY <3>2, <3>3
  <2>6. CASE walking = "yes"
    <3>1. Cardinality(Charges') <= inserted'
      BY <2>0, <2>1, <2>4, <2>6 DEF ChargesAreBounded
    <3> QED
      BY <2>0, <2>1, <2>2, <3>1 DEF ChargesAreBounded, RepeatsOnlyForInserts
  <2> QED
    BY <2>5, <2>6
<1> QED
  <2>1. Init => WalkShape
    BY PagingAssumption, FS_EmptySet DEF Init, WalkShape, Ids, Id
  <2> QED
    BY <1>1, <1>2, <2>1, WalkShapeHolds, FreshIdsHolds, PTL DEF Spec

(* A walk through the list shows a row again no more often than other      *)
(* clients inserted rows while it lasted (internal/task/postgres.go:36-38).*)
THEOREM WalkRepeatsFew == Spec => []RepeatsOnlyForInserts
BY ChargesHold, PTL
=============================================================================
