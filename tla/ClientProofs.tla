----------------------------- MODULE ClientProofs -----------------------------
(***************************************************************************)
(* Theorems about Client, for any number of callers, sessions and rows per *)
(* page, any lifetime of a cache entry and any clock: a revoked key is let *)
(* in for a bounded time, and a walk over the pages is complete.           *)
(***************************************************************************)
EXTENDS Client, FiniteSetTheorems, FunctionTheorems, SequenceTheorems, TLAPS

(* The order of rows. *)

\* A set of numbers has a least one.
LEMMA LeastNatural ==
    ASSUME NEW T \in SUBSET Nat, T # {}
    PROVE  \E m \in T : \A n \in T : m <= n
  <1>. DEFINE R == OpToRel(<, Nat)
  <1>1. IsWellFoundedOn(R, Nat)
    BY NatLessThanWellFounded
  <1>2. \A a, b \in Nat : a < b => <<a, b>> \in R
    BY DEF OpToRel
  <1>. HIDE DEF R
  <1>3. PICK m \in T : \A n \in T : <<n, m>> \notin R
    BY <1>1, WFMin
  <1>4. \A n \in T : n \in Nat /\ m \in Nat /\ ~(n < m)
    BY <1>2, <1>3
  <1>. QED
    BY <1>4

\* Newer orders the sessions: by time, and by id among those of one time.
LEMMA NewerOrders ==
    ASSUME created \in [Ids -> Nat]
    PROVE  /\ \A i \in Ids : ~Newer(i, i)
           /\ \A i, j \in Ids : i = j \/ Newer(i, j) \/ Newer(j, i)
           /\ \A i, j, k \in Ids : Newer(i, j) /\ Newer(j, k) => Newer(i, k)
  <1>1. Ids \subseteq Nat
    BY ClientAssumption
  <1>2. \A i \in Ids : created[i] \in Nat
    OBVIOUS
  <1>. QED
    BY <1>1, <1>2 DEF Newer

\* Of some sessions, one is the oldest.
LEMMA OldestExists ==
    ASSUME created \in [Ids -> Nat], NEW S \in SUBSET Ids, S # {}
    PROVE  \E x \in S : \A i \in S \ {x} : Newer(i, x)
  <1>1. Ids \subseteq Nat /\ \A i \in Ids : created[i] \in Nat
    BY ClientAssumption
  <1>2. PICK t \in {created[i] : i \in S} : \A u \in {created[i] : i \in S} : t <= u
    <2>1. {created[i] : i \in S} \in SUBSET Nat /\ {created[i] : i \in S} # {}
      BY <1>1
    <2>. QED
      BY <2>1, LeastNatural
  <1>. DEFINE E == {i \in S : created[i] = t}
  <1>3. PICK x \in E : \A i \in E : x <= i
    <2>1. E \in SUBSET Nat /\ E # {}
      BY <1>1, <1>2
    <2>. QED
      BY <2>1, LeastNatural
  <1>4. ASSUME NEW i \in S \ {x} PROVE Newer(i, x)
    <2>1. /\ i \in Nat /\ x \in Nat /\ i # x
          /\ created[i] \in Nat /\ created[x] \in Nat
          /\ created[x] <= created[i]
          /\ created[i] = created[x] => x <= i
      BY <1>1, <1>2, <1>3
    <2>. QED
      BY <2>1 DEF Newer
  <1>. QED
    BY <1>3, <1>4

InOrder(s) == \A m, n \in DOMAIN s : m < n => Newer(s[m], s[n])

\* Finitely many sessions can be put in order: else take as few as possible that
\* cannot, order all but the oldest, and add it at the end.
LEMMA OrderExists ==
    ASSUME created \in [Ids -> Nat], NEW S \in SUBSET Ids, IsFiniteSet(S)
    PROVE  \E s \in [1..Cardinality(S) -> S] : InOrder(s)
  <1>. DEFINE Can(T) == \E s \in [1..Cardinality(T) -> T] : InOrder(s)
              Cannot == {T \in SUBSET Ids : IsFiniteSet(T) /\ ~Can(T)}
              Sizes == {Cardinality(T) : T \in Cannot}
  <1>. SUFFICES ASSUME Cannot # {} PROVE FALSE
    OBVIOUS
  <1>1. Sizes \in SUBSET Nat /\ Sizes # {}
    BY FS_CardinalityType
  <1>2. PICK n \in Sizes : \A k \in Sizes : n <= k
    BY <1>1, LeastNatural
  <1>3. PICK T \in Cannot : Cardinality(T) = n
    OBVIOUS
  <1>4. n \in Nat
    BY <1>1
  <1>5. T # {}
    <2>. SUFFICES ASSUME T = {} PROVE FALSE
      OBVIOUS
    <2>1. Cardinality(T) = 0
      BY FS_EmptySet
    <2>. DEFINE none == [k \in 1..0 |-> 0]
    <2>2. none \in [1..Cardinality(T) -> T] /\ InOrder(none)
      BY <2>1 DEF InOrder
    <2>. QED
      BY <2>2, <1>3
  <1>6. PICK x \in T : \A i \in T \ {x} : Newer(i, x)
    BY <1>3, <1>5, OldestExists
  <1>. DEFINE U == T \ {x}
  <1>7. U \in SUBSET Ids /\ IsFiniteSet(U) /\ Cardinality(U) = n - 1
    BY <1>3, FS_RemoveElement
  <1>8. PICK s \in [1..(n - 1) -> U] : InOrder(s)
    <2>1. Can(U)
      <3>. SUFFICES ASSUME ~Can(U) PROVE FALSE
        OBVIOUS
      <3>1. U \in Cannot
        BY <1>7
      <3>. HIDE DEF U, Can, Cannot
      <3>2. n - 1 \in Sizes
        BY <1>7, <3>1
      <3>. QED
        BY <1>2, <1>4, <3>2
    <2>. QED
      BY <2>1, <1>7
  <1>. DEFINE r == [k \in 1..n |-> IF k = n THEN x ELSE s[k]]
  <1>9. r \in [1..n -> T]
    <2>1. ASSUME NEW k \in 1..n PROVE (IF k = n THEN x ELSE s[k]) \in T
      BY <1>4
    <2>. QED
      BY <2>1
  <1>10. InOrder(r)
    <2>. SUFFICES ASSUME NEW m \in 1..n, NEW k \in 1..n, m < k
                  PROVE  Newer(r[m], r[k])
      BY <1>9 DEF InOrder
    <2>1. m \in 1..(n - 1) /\ r[m] = s[m] /\ s[m] \in U
      BY <1>4
    <2>2. CASE k = n
      BY <2>1, <2>2, <1>6
    <2>3. CASE k # n
      <3>1. k \in 1..(n - 1) /\ r[k] = s[k]
        BY <2>3, <1>4
      <3>. QED
        BY <2>1, <3>1, <1>8 DEF InOrder
    <2>. QED
      BY <2>2, <2>3
  <1>. QED
    BY <1>3, <1>9, <1>10

\* What a query returns: each row once, newest first.
LEMMA OrderedRows ==
    ASSUME created \in [Ids -> Nat], NEW S \in SUBSET Ids, IsFiniteSet(S)
    PROVE  /\ Ordered(S) \in Seq(S)
           /\ InOrder(Ordered(S))
           /\ \A i \in S : Contains(Ordered(S), i)
  <1>. DEFINE n == Cardinality(S)
              r == Ordered(S)
  <1>1. n \in Nat
    BY FS_CardinalityType
  <1>2. r \in [1..n -> S] /\ InOrder(r)
    BY OrderExists DEF Ordered, InOrder
  <1>. HIDE DEF r
  <1>3. r \in Seq(S) /\ Len(r) = n
    <2>1. r \in Seq(S)
      BY <1>1, <1>2, SeqDef
    <2>2. DOMAIN r = 1..Len(r) /\ DOMAIN r = 1..n /\ Len(r) \in Nat
      BY <1>2, <2>1, LenProperties
    <2>. QED
      BY <1>1, <2>1, <2>2
  <1>4. r \in Injection(1..n, S)
    <2>1. ASSUME NEW a \in 1..n, NEW b \in 1..n, a # b PROVE r[a] # r[b]
      <3>1. a < b \/ b < a
        BY <1>1, <2>1
      <3>2. Newer(r[a], r[b]) \/ Newer(r[b], r[a])
        BY <1>2, <3>1 DEF InOrder
      <3>. QED
        BY <1>2, <3>2, NewerOrders
    <2>. QED
      BY <1>2, <2>1, Fun_IsInj
  <1>5. r \in Surjection(1..n, S)
    <2>1. IsFiniteSet(1..n) /\ Cardinality(1..n) = n
      BY <1>1, FS_Interval
    <2>. QED
      BY <1>4, <2>1, FS_Injection
  <1>6. \A i \in S : \E k \in 1..n : r[k] = i
    BY <1>5 DEF Surjection
  <1>. QED
    BY <1>2, <1>3, <1>6 DEF r, Contains

-----------------------------------------------------------------------------
(* Types. *)

\* An entry of the cache holds for Ttl, and a lookup is over within Window.
Clocks ==
    /\ revoked <= now
    /\ cached <= now + Ttl
    /\ \A c \in Callers : looked[c] <= now

\* What queries see has been created, and there are finitely many sessions.
Rows == IsFiniteSet(committed) /\ \A i \in committed : created[i] # 0

Base == TypeOK /\ Clocks /\ Rows

LEMMA Numbers ==
    /\ Ids \subseteq Nat /\ 0 \notin Ids
    /\ Limit \in Nat /\ Limit # 0
    /\ Ttl \in Nat /\ Window \in Nat /\ MaxTime \in Nat /\ MaxTime # 0
  BY ClientAssumption

\* The page a listing returns, and whether there is more.
Page(c) ==
    LET rows == Ordered(After(c))
    IN  IF Len(rows) > Limit THEN SubSeq(rows, 1, Limit) ELSE rows
More(c) == Len(Ordered(After(c))) > Limit

LEMMA ListsPage ==
    ASSUME NEW c \in Callers, Lists(c)
    PROVE  /\ pc[c] = "listing"
           /\ got' = [got EXCEPT ![c] = got[c] \o Page(c)]
           /\ cursor' = IF More(c) THEN [cursor EXCEPT ![c] = Last(Page(c))] ELSE cursor
           /\ pc' = [pc EXCEPT ![c] = IF More(c) THEN "idle" ELSE "listed"]
           /\ expected' = IF cursor[c] = 0 THEN [expected EXCEPT ![c] = committed]
                          ELSE expected
           /\ UNCHANGED <<now, keyVars, rowVars, looked>>
  BY DEF Lists, Page, More, Goes

\* A page has rows that come after the cursor, newest first; what it leaves out is
\* older than its last row.
LEMMA PageRows ==
    ASSUME Base, NEW c \in Callers
    PROVE  /\ Page(c) \in Seq(After(c))
           /\ InOrder(Page(c))
           /\ After(c) \in SUBSET Ids
           /\ More(c) => /\ Len(Page(c)) = Limit
                         /\ Last(Page(c)) \in After(c)
                         /\ Last(Page(c)) = Page(c)[Len(Page(c))]
           /\ \A i \in After(c) : \/ Contains(Page(c), i)
                                  \/ More(c) /\ Newer(Last(Page(c)), i)
  <1>. DEFINE S == After(c)
              r == Ordered(S)
              p == Page(c)
  <1>1. S \in SUBSET Ids /\ S \in SUBSET committed
    BY DEF After, Base, TypeOK
  <1>2. IsFiniteSet(S)
    BY <1>1, FS_Subset DEF Base, Rows
  <1>3. created \in [Ids -> Nat]
    BY Numbers DEF Base, TypeOK, Times
  <1>. HIDE DEF S
  <1>4. r \in Seq(S) /\ InOrder(r) /\ \A i \in S : Contains(r, i)
    BY <1>1, <1>2, <1>3, OrderedRows
  <1>. HIDE DEF r
  <1>5. Len(r) \in Nat /\ DOMAIN r = 1..Len(r) /\ \A k \in 1..Len(r) : r[k] \in S
    BY <1>4, LenProperties
  <1>6. p = (IF Len(r) > Limit THEN SubSeq(r, 1, Limit) ELSE r)
    BY DEF Page, r, S
  <1>7. More(c) <=> Len(r) > Limit
    BY DEF More, r, S
  <1>. HIDE DEF p
  <1>8. CASE ~(Len(r) > Limit)
    BY <1>1, <1>4, <1>6, <1>7, <1>8 DEF p, S
  <1>9. CASE Len(r) > Limit
    <2>1. \A k \in 1..Limit : r[k] \in S
      BY <1>5, <1>9, Numbers
    <2>2. /\ p \in Seq(S) /\ Len(p) = Limit
          /\ \A k \in 1..Limit : p[k] = r[k]
      <3>1. /\ SubSeq(r, 1, Limit) \in Seq(S)
            /\ Len(SubSeq(r, 1, Limit)) = IF 1 <= Limit THEN Limit - 1 + 1 ELSE 0
            /\ \A k \in 1..(Limit - 1 + 1) : SubSeq(r, 1, Limit)[k] = r[1 + k - 1]
        BY <2>1, Numbers, SubSeqProperties
      <3>. QED
        BY <1>6, <1>9, <3>1, Numbers
    <2>3. DOMAIN p = 1..Limit
      BY <2>2, LenProperties
    <2>4. InOrder(p)
      BY <1>4, <1>5, <1>9, <2>2, <2>3, Numbers DEF InOrder
    <2>5. Last(p) = p[Len(p)] /\ Last(p) = r[Limit] /\ Last(p) \in S
      BY <2>1, <2>2, Numbers DEF Last
    <2>6. ASSUME NEW i \in S PROVE Contains(p, i) \/ Newer(Last(p), i)
      <3>1. PICK k \in 1..Len(r) : r[k] = i
        BY <1>4 DEF Contains
      <3>2. CASE k <= Limit
        <4>1. k \in 1..Limit
          BY <1>5, <3>2, Numbers
        <4>. QED
          BY <2>2, <3>1, <4>1 DEF Contains
      <3>3. CASE ~(k <= Limit)
        <4>1. Limit \in 1..Len(r) /\ k \in 1..Len(r) /\ Limit < k
          BY <1>5, <1>9, <3>3, Numbers
        <4>. QED
          BY <1>4, <1>5, <2>5, <3>1, <4>1 DEF InOrder
      <3>. QED
        BY <3>2, <3>3
    <2>. QED
      BY <1>1, <1>7, <1>9, <2>2, <2>4, <2>5, <2>6 DEF p, S
  <1>. QED
    BY <1>8, <1>9

LEMMA StepTypeOK == Base /\ [Next]_vars => TypeOK'
  <1>. SUFFICES ASSUME Base, TypeOK, Clocks, [Next]_vars PROVE TypeOK'
    BY DEF Base
  <1>. USE DEF TypeOK, Times
  <1>1. now \in 1..MaxTime /\ MaxTime \in Nat /\ Ttl \in Nat
    BY Numbers
  <1>2. CASE TimePasses
    BY <1>1, <1>2 DEF TimePasses, keyVars, rowVars, walkVars
  <1>3. CASE Revokes
    BY <1>1, <1>3 DEF Revokes, rowVars, walkVars
  <1>4. CASE CacheClears
    BY <1>1, <1>4 DEF CacheClears, rowVars, walkVars
  <1>5. ASSUME NEW i \in Ids, Creates(i) PROVE TypeOK'
    BY <1>1, <1>5 DEF Creates, keyVars, walkVars
  <1>6. ASSUME NEW i \in Ids, CreateCommits(i) PROVE TypeOK'
    BY <1>6 DEF CreateCommits, keyVars, walkVars
  <1>7. ASSUME NEW c \in Callers,
               Asks(c) \/ LooksUp(c) \/ Puts(c) \/ Fails(c) \/ ListFails(c)
        PROVE  TypeOK'
    <2>1. /\ UNCHANGED <<now, revoked, created, committed, cursor, got, expected>>
          /\ cached' \in {cached, now + Ttl}
          /\ \E l \in {looked[c], now, 0} : looked' = [looked EXCEPT ![c] = l]
      BY <1>7 DEF Asks, LooksUp, Puts, Fails, ListFails, keyVars, rowVars, walkVars
    <2>2. \E to \in {"idle", "looking", "verified", "listing", "refused"} :
             pc' = [pc EXCEPT ![c] = to]
      BY <1>7 DEF Asks, LooksUp, Puts, Fails, ListFails, Goes
    <2>3. cached' \in 0..(MaxTime + Ttl)
      BY <1>1, <2>1
    <2>4. looked' \in [Callers -> Times]
      BY <1>1, <2>1
    <2>5. pc' \in [Callers -> {"idle", "looking", "verified", "listing", "listed",
                             "refused"}]
      BY <2>2
    <2>. QED
      BY <2>1, <2>3, <2>4, <2>5
  <1>8. ASSUME NEW c \in Callers, Lists(c) PROVE TypeOK'
    <2>1. Page(c) \in Seq(Ids) /\ (More(c) => Last(Page(c)) \in Ids)
      BY PageRows, SeqMonotonic
    <2>2. got[c] \o Page(c) \in Seq(Ids)
      BY <2>1, ConcatProperties
    <2>3. got' \in [Callers -> Seq(Ids)]
      BY <1>8, <2>2, ListsPage
    <2>4. cursor' \in [Callers -> Ids \cup {0}]
      BY <1>8, <2>1, ListsPage
    <2>5. expected' \in [Callers -> SUBSET Ids]
      BY <1>8, ListsPage
    <2>6. pc' \in [Callers -> {"idle", "looking", "verified", "listing", "listed",
                             "refused"}]
      BY <1>8, ListsPage
    <2>. QED
      BY <1>8, <2>3, <2>4, <2>5, <2>6, ListsPage DEF keyVars, rowVars
  <1>9. CASE UNCHANGED vars
    BY <1>9 DEF vars, keyVars, rowVars, walkVars
  <1>. QED
    BY <1>2, <1>3, <1>4, <1>5, <1>6, <1>7, <1>8, <1>9 DEF Next

LEMMA StepClocks == TypeOK /\ Clocks /\ [Next]_vars => Clocks'
  <1>. SUFFICES ASSUME TypeOK, Clocks, [Next]_vars PROVE Clocks'
    OBVIOUS
  <1>. USE DEF Clocks, TypeOK, Times
  <1>1. /\ now \in Nat /\ revoked \in Nat /\ cached \in Nat /\ Ttl \in Nat
        /\ \A c \in Callers : looked[c] \in Nat
    BY Numbers
  <1>2. CASE TimePasses
    BY <1>1, <1>2 DEF TimePasses, keyVars
  <1>3. CASE Revokes
    BY <1>1, <1>3 DEF Revokes
  <1>4. CASE CacheClears
    BY <1>1, <1>4 DEF CacheClears
  <1>5. CASE \E i \in Ids : Creates(i) \/ CreateCommits(i)
    BY <1>5 DEF Creates, CreateCommits, keyVars
  <1>6. ASSUME NEW c \in Callers,
               Asks(c) \/ LooksUp(c) \/ Puts(c) \/ Fails(c) \/ ListFails(c)
        PROVE  Clocks'
    <2>1. /\ UNCHANGED <<now, revoked>>
          /\ cached' \in {cached, now + Ttl}
          /\ \E l \in {looked[c], now, 0} : looked' = [looked EXCEPT ![c] = l]
      BY <1>6 DEF Asks, LooksUp, Puts, Fails, ListFails, keyVars
    <2>2. \A d \in Callers : looked'[d] <= now
      BY <1>1, <2>1
    <2>. QED
      BY <1>1, <2>1, <2>2
  <1>7. ASSUME NEW c \in Callers, Lists(c) PROVE Clocks'
    BY <1>7 DEF Lists, keyVars
  <1>8. CASE UNCHANGED vars
    BY <1>8 DEF vars, keyVars
  <1>. QED
    BY <1>2, <1>3, <1>4, <1>5, <1>6, <1>7, <1>8 DEF Next

LEMMA StepRows == TypeOK /\ Rows /\ [Next]_vars => Rows'
  <1>. SUFFICES ASSUME TypeOK, Rows, [Next]_vars PROVE Rows'
    OBVIOUS
  <1>. USE DEF Rows
  <1>1. CASE UNCHANGED rowVars
    BY <1>1 DEF rowVars
  <1>2. ASSUME NEW i \in Ids, Creates(i) PROVE Rows'
    BY <1>2 DEF Creates, TypeOK
  <1>3. ASSUME NEW i \in Ids, CreateCommits(i) PROVE Rows'
    BY <1>3, FS_AddElement DEF CreateCommits
  <1>4. \/ UNCHANGED rowVars
        \/ \E i \in Ids : Creates(i) \/ CreateCommits(i)
    BY DEF Next, TimePasses, Revokes, CacheClears, Asks, LooksUp, Puts, Fails,
           ListFails, Lists, vars
  <1>. QED
    BY <1>1, <1>2, <1>3, <1>4

LEMMA BaseInvariance == Spec => []Base
  <1>1. Init => Base
    BY Numbers, FS_EmptySet, EmptySeq DEF Init, Base, TypeOK, Times, Clocks, Rows
  <1>2. Base /\ [Next]_vars => Base'
    BY StepTypeOK, StepClocks, StepRows DEF Base
  <1>. QED
    BY <1>1, <1>2, PTL DEF Spec

\* The clock, the key, the rows and the walks keep their types, for any number of
\* callers and sessions.
THEOREM TypeCorrect == Spec => []TypeOK
  BY BaseInvariance, PTL DEF Base

-----------------------------------------------------------------------------
(* Revocation. *)

\* A lookup in progress began within Window, and before the revocation; so an entry
\* that outlives the revocation does so by Window and Ttl at most.
Granted ==
    /\ \A c \in Callers : pc[c] = "verified" =>
          /\ now <= looked[c] + Window
          /\ revoked # 0 => looked[c] <= revoked
    /\ revoked # 0 => cached <= revoked + Window + Ttl

LEMMA StepGranted == TypeOK /\ Clocks /\ Granted /\ [Next]_vars => Granted'
  <1>. SUFFICES ASSUME TypeOK, Clocks, Granted, [Next]_vars PROVE Granted'
    OBVIOUS
  <1>. USE DEF Granted
  <1>1. /\ now \in Nat /\ revoked \in Nat /\ cached \in Nat
        /\ Ttl \in Nat /\ Window \in Nat
        /\ \A c \in Callers : looked[c] \in Nat
    BY Numbers DEF TypeOK, Times
  <1>2. CASE TimePasses
    BY <1>1, <1>2 DEF TimePasses, keyVars
  <1>3. CASE Revokes
    BY <1>1, <1>3 DEF Revokes, Clocks
  <1>4. CASE CacheClears
    BY <1>1, <1>4 DEF CacheClears
  <1>5. CASE \E i \in Ids : Creates(i) \/ CreateCommits(i)
    BY <1>5 DEF Creates, CreateCommits, keyVars
  <1>6. ASSUME NEW c \in Callers, Asks(c) \/ Fails(c) \/ ListFails(c) \/ Lists(c)
        PROVE  Granted'
    BY <1>6 DEF Asks, Fails, ListFails, Lists, Goes, keyVars, TypeOK
  <1>7. ASSUME NEW c \in Callers, LooksUp(c) PROVE Granted'
    <2>1. UNCHANGED <<now, revoked, cached>>
      BY <1>7 DEF LooksUp, keyVars
    <2>2. ASSUME NEW d \in Callers, d # c PROVE pc'[d] = pc[d] /\ looked'[d] = looked[d]
      BY <1>7, <2>2 DEF LooksUp, Goes, TypeOK
    <2>3. pc'[c] = "verified" => revoked = 0 /\ looked'[c] = now
      BY <1>7 DEF LooksUp, Goes, TypeOK
    <2>. QED
      BY <1>1, <2>1, <2>2, <2>3
  <1>8. ASSUME NEW c \in Callers, Puts(c) PROVE Granted'
    <2>1. revoked # 0 => now + Ttl <= revoked + Window + Ttl
      BY <1>1, <1>8 DEF Puts
    <2>. QED
      BY <1>8, <2>1 DEF Puts, Goes, TypeOK
  <1>9. CASE UNCHANGED vars
    BY <1>9 DEF vars, keyVars
  <1>. QED
    BY <1>2, <1>3, <1>4, <1>5, <1>6, <1>7, <1>8, <1>9 DEF Next

LEMMA GrantedInvariance == Spec => []Granted
  <1>1. Init => Granted
    BY DEF Init, Granted
  <1>2. Base /\ Granted /\ [Next]_vars => Granted'
    BY StepGranted DEF Base
  <1>. QED
    BY <1>1, <1>2, BaseInvariance, PTL DEF Spec

LetIn ==
    \A c \in Callers :
        pc[c] # "listing" /\ pc'[c] = "listing" /\ revoked # 0
            => now <= revoked + Window + Ttl

\* Window + Ttl after its revocation no caller is let in by the key any more,
\* whichever lookups were under way and however often the entry was put or used.
THEOREM RevocationCorrect == Spec => RevocationHolds
  <1>1. Base /\ Granted /\ [Next]_vars => [LetIn]_vars
    <2>. SUFFICES ASSUME TypeOK, Granted, [Next]_vars,
                         NEW c \in Callers,
                         pc[c] # "listing", pc'[c] = "listing", revoked # 0
                  PROVE  now <= revoked + Window + Ttl
      BY DEF LetIn, Base
    <2>1. /\ now \in Nat /\ revoked \in Nat /\ cached \in Nat
          /\ Ttl \in Nat /\ Window \in Nat /\ looked[c] \in Nat
      BY Numbers DEF TypeOK, Times
    <2>2. Asks(c) \/ Puts(c)
      BY DEF Next, TimePasses, Revokes, CacheClears, Creates, CreateCommits, Asks,
             LooksUp, Puts, Fails, ListFails, Lists, Goes, TypeOK, vars
    <2>3. CASE Asks(c)
      <3>1. cached >= now
        BY <2>3 DEF Asks, Goes, TypeOK
      <3>. QED
        BY <2>1, <3>1 DEF Granted
    <2>4. CASE Puts(c)
      BY <2>1, <2>4 DEF Puts, Granted
    <2>. QED
      BY <2>2, <2>3, <2>4
  <1>2. RevocationHolds <=> [][LetIn]_vars
    BY DEF RevocationHolds, LetIn
  <1>. QED
    BY <1>1, <1>2, BaseInvariance, GrantedInvariance, PTL DEF Spec

-----------------------------------------------------------------------------
(* Walks. *)

\* A walk stands at its cursor, the last row it got.  What it expects and did not
\* get is older than the cursor: only rows that nobody saw at the first page can be
\* missed.
Walked(c) ==
    /\ \A n \in DOMAIN got[c] : got[c][n] \in committed
    /\ InOrder(got[c])
    /\ expected[c] \subseteq committed
    /\ pc[c] # "listed" =>
          IF cursor[c] = 0 THEN got[c] = <<>>
          ELSE got[c] # <<>> /\ cursor[c] = Last(got[c])
    /\ \A i \in expected[c] :
          \/ Contains(got[c], i)
          \/ pc[c] # "listed" /\ cursor[c] # 0 /\ Newer(cursor[c], i)

Walks == \A c \in Callers : Walked(c)

\* The order of rows that queries see does not change.
LEMMA OrderStays ==
    ASSUME Base, [Next]_vars
    PROVE  /\ committed \subseteq committed'
           /\ \A i, j \in committed : Newer(i, j)' <=> Newer(i, j)
  <1>1. CASE UNCHANGED rowVars
    BY <1>1 DEF rowVars, Newer
  <1>2. ASSUME NEW k \in Ids, Creates(k) \/ CreateCommits(k)
        PROVE  /\ committed \subseteq committed'
               /\ \A i \in committed : created'[i] = created[i]
    BY <1>2 DEF Creates, CreateCommits, Base, TypeOK, Rows
  <1>3. \/ UNCHANGED rowVars
        \/ \E i \in Ids : Creates(i) \/ CreateCommits(i)
    BY DEF Next, TimePasses, Revokes, CacheClears, Asks, LooksUp, Puts, Fails,
           ListFails, Lists, vars
  <1>. QED
    BY <1>1, <1>2, <1>3 DEF Newer

\* A walk that does not move is not disturbed.
LEMMA WalkRests ==
    ASSUME Base, [Next]_vars, NEW c \in Callers, Walked(c),
           got'[c] = got[c], cursor'[c] = cursor[c], expected'[c] = expected[c],
           pc[c] # "listed" \/ pc'[c] = "listed", pc'[c] = "listed" => pc[c] = "listed"
    PROVE  Walked(c)'
  <1>1. /\ committed \subseteq committed'
        /\ \A i, j \in committed : Newer(i, j)' <=> Newer(i, j)
    BY OrderStays
  <1>2. got[c] \in Seq(Ids)
    BY DEF Base, TypeOK
  <1>3. DOMAIN got[c] = 1..Len(got[c]) /\ Len(got[c]) \in Nat
    BY <1>2, LenProperties
  <1>4. \A n \in DOMAIN got[c] : got[c][n] \in committed
    BY DEF Walked
  <1>5. pc[c] # "listed" /\ cursor[c] # 0 => cursor[c] \in committed
    <2>. SUFFICES ASSUME pc[c] # "listed", cursor[c] # 0 PROVE cursor[c] \in committed
      OBVIOUS
    <2>1. got[c] # <<>> /\ cursor[c] = got[c][Len(got[c])]
      BY DEF Walked, Last
    <2>2. Len(got[c]) \in DOMAIN got[c]
      BY <1>2, <1>3, <2>1, EmptySeq
    <2>. QED
      BY <1>4, <2>1, <2>2
  <1>6. InOrder(got[c])'
    BY <1>1, <1>4 DEF Walked, InOrder, Newer
  <1>. QED
    BY <1>1, <1>4, <1>5, <1>6 DEF Walked, Contains, Last, Newer

\* A page continues the walk where it stands.
LEMMA WalkGoesOn ==
    ASSUME Base, NEW c \in Callers, Walked(c), Lists(c)
    PROVE  Walked(c)'
  <1>. DEFINE g == got[c]
              p == Page(c)
              h == g \o p
  <1>1. /\ g \in Seq(Ids) /\ cursor[c] \in Ids \cup {0} /\ committed \in SUBSET Ids
        /\ created \in [Ids -> Nat]
    BY Numbers DEF Base, TypeOK, Times
  <1>2. /\ pc[c] = "listing" /\ UNCHANGED rowVars
        /\ got'[c] = h
        /\ cursor'[c] = IF More(c) THEN Last(p) ELSE cursor[c]
        /\ pc'[c] = IF More(c) THEN "idle" ELSE "listed"
        /\ expected'[c] = IF cursor[c] = 0 THEN committed ELSE expected[c]
    BY ListsPage DEF Base, TypeOK
  <1>3. After(c) = {i \in committed : cursor[c] # 0 => Newer(cursor[c], i)}
    BY DEF After
  <1>4. /\ p \in Seq(After(c)) /\ InOrder(p) /\ After(c) \in SUBSET Ids
        /\ More(c) => Len(p) = Limit /\ Last(p) \in After(c) /\ Last(p) = p[Len(p)]
        /\ \A i \in After(c) : Contains(p, i) \/ (More(c) /\ Newer(Last(p), i))
    BY PageRows
  <1>. HIDE DEF p
  <1>5. /\ Len(g) \in Nat /\ DOMAIN g = 1..Len(g)
        /\ Len(p) \in Nat /\ DOMAIN p = 1..Len(p)
        /\ \A n \in 1..Len(p) : p[n] \in After(c)
    BY <1>1, <1>4, LenProperties
  <1>6. /\ Len(h) = Len(g) + Len(p) /\ DOMAIN h = 1..(Len(g) + Len(p))
        /\ \A n \in 1..Len(g) : h[n] = g[n]
        /\ \A n \in DOMAIN h : n \notin 1..Len(g) =>
              n - Len(g) \in 1..Len(p) /\ h[n] = p[n - Len(g)]
    <2>1. p \in Seq(Ids)
      BY <1>4, SeqMonotonic
    <2>2. /\ h \in Seq(Ids)
          /\ Len(h) = Len(g) + Len(p)
          /\ \A i \in 1..(Len(g) + Len(p)) :
                h[i] = IF i <= Len(g) THEN g[i] ELSE p[i - Len(g)]
      BY <1>1, <2>1, ConcatProperties
    <2>3. DOMAIN h = 1..(Len(g) + Len(p))
      BY <2>2, LenProperties
    <2>. QED
      BY <1>5, <2>2, <2>3
  <1>. HIDE DEF h
  <1>7. \A n \in DOMAIN g : g[n] \in committed
    BY DEF Walked
  <1>8. IF cursor[c] = 0 THEN g = <<>> ELSE g # <<>> /\ cursor[c] = g[Len(g)]
    BY <1>2 DEF Walked, Last
  \* Every row of the page is older than every row before it.
  <1>9. ASSUME NEW m \in 1..Len(g), NEW i \in After(c) PROVE Newer(g[m], i)
    <2>1. g # <<>> /\ cursor[c] # 0 /\ cursor[c] = g[Len(g)]
      <3>1. g = <<>> => Len(g) = 0
        BY EmptySeq
      <3>. QED
        BY <1>5, <1>8, <3>1
    <2>2. /\ Newer(cursor[c], i) /\ i \in Ids
          /\ g[m] \in Ids /\ cursor[c] \in Ids
      BY <1>1, <1>3, <1>5, <1>7, <2>1
    <2>3. g[m] = cursor[c] \/ Newer(g[m], cursor[c])
      BY <1>5, <2>1 DEF Walked, InOrder
    <2>. QED
      BY <1>1, <2>2, <2>3, NewerOrders
  <1>10. \A n \in DOMAIN h : h[n] \in committed
    BY <1>3, <1>5, <1>6, <1>7
  <1>11. InOrder(h)
    <2>. SUFFICES ASSUME NEW m \in DOMAIN h, NEW n \in DOMAIN h, m < n
                  PROVE  Newer(h[m], h[n])
      BY DEF InOrder
    <2>1. CASE n \in 1..Len(g)
      <3>1. m \in 1..Len(g)
        BY <1>5, <1>6, <2>1
      <3>. QED
        BY <1>5, <1>6, <2>1, <3>1 DEF Walked, InOrder
    <2>2. CASE m \in 1..Len(g) /\ n \notin 1..Len(g)
      BY <1>5, <1>6, <1>9, <2>2
    <2>3. CASE m \notin 1..Len(g) /\ n \notin 1..Len(g)
      <3>1. /\ m - Len(g) \in DOMAIN p /\ n - Len(g) \in DOMAIN p
            /\ m - Len(g) < n - Len(g)
            /\ h[m] = p[m - Len(g)] /\ h[n] = p[n - Len(g)]
        BY <1>5, <1>6, <2>3
      <3>. QED
        BY <1>4, <3>1 DEF InOrder
    <2>. QED
      BY <2>1, <2>2, <2>3
  <1>12. \A i : Contains(g, i) \/ Contains(p, i) => Contains(h, i)
    <2>1. ASSUME NEW n \in 1..Len(g) PROVE n \in 1..Len(h) /\ h[n] = g[n]
      BY <1>5, <1>6
    <2>2. ASSUME NEW n \in 1..Len(p)
          PROVE  n + Len(g) \in 1..Len(h) /\ h[n + Len(g)] = p[n]
      <3>1. /\ n + Len(g) \in DOMAIN h /\ n + Len(g) \notin 1..Len(g)
            /\ n + Len(g) \in 1..Len(h) /\ (n + Len(g)) - Len(g) = n
        BY <1>5, <1>6
      <3>2. h[n + Len(g)] = p[(n + Len(g)) - Len(g)]
        BY <1>6, <3>1
      <3>. QED
        BY <3>1, <3>2
    <2>. QED
      BY <2>1, <2>2 DEF Contains
  <1>13. More(c) => h # <<>> /\ Last(p) = Last(h) /\ Last(p) # 0
    <2>. SUFFICES ASSUME More(c) PROVE h # <<>> /\ Last(p) = Last(h) /\ Last(p) # 0
      OBVIOUS
    <2>1. Len(p) \in Nat /\ Len(p) # 0 /\ Last(p) = p[Len(p)] /\ Last(p) \in Ids
      BY <1>4, <1>5, Numbers
    <2>2. Len(h) # 0 /\ h[Len(h)] = p[Len(p)]
      BY <1>5, <1>6, <2>1
    <2>. QED
      BY <2>1, <2>2, EmptySeq, Numbers DEF Last
  <1>14. ASSUME NEW i \in expected'[c]
         PROVE  Contains(h, i) \/ (More(c) /\ Newer(Last(p), i))
    <2>1. Contains(g, i) \/ i \in After(c)
      BY <1>2, <1>3, <1>14 DEF Walked
    <2>. QED
      BY <1>4, <1>12, <2>1
  <1>15. expected'[c] \subseteq committed
    BY <1>2 DEF Walked
  <1>16. pc'[c] # "listed" => More(c) /\ cursor'[c] = Last(p)
    BY <1>2
  <1>17. InOrder(got[c])'
    BY <1>2, <1>11 DEF InOrder, Newer, rowVars
  <1>. QED
    BY <1>2, <1>10, <1>13, <1>14, <1>15, <1>16, <1>17 DEF Walked, rowVars, Newer

LEMMA StepWalks == Base /\ Walks /\ [Next]_vars => Walks'
  <1>. SUFFICES ASSUME Base, Walks, [Next]_vars, NEW c \in Callers PROVE Walked(c)'
    BY DEF Walks
  <1>1. Walked(c)
    BY DEF Walks
  <1>2. CASE Lists(c)
    BY <1>1, <1>2, WalkGoesOn
  <1>3. CASE ~Lists(c)
    <2>. DEFINE Rests == /\ got'[c] = got[c] /\ cursor'[c] = cursor[c]
                         /\ expected'[c] = expected[c]
                         /\ pc'[c] = "listed" <=> pc[c] = "listed"
    <2>1. Rests
      <3>. USE DEF Base, TypeOK
      <3>1. CASE UNCHANGED <<pc, walkVars>>
        BY <3>1 DEF walkVars
      <3>2. ASSUME NEW d \in Callers,
                   Asks(d) \/ LooksUp(d) \/ Puts(d) \/ Fails(d) \/ ListFails(d)
            PROVE  Rests
        BY <3>2 DEF Asks, LooksUp, Puts, Fails, ListFails, Goes, walkVars
      <3>3. ASSUME NEW d \in Callers, Lists(d) PROVE Rests
        <4>1. d # c
          BY <1>3, <3>3
        <4>2. /\ \E x : got' = [got EXCEPT ![d] = x]
              /\ \E x : pc' = [pc EXCEPT ![d] = x]
              /\ cursor' = cursor \/ \E x : cursor' = [cursor EXCEPT ![d] = x]
              /\ expected' = expected \/ \E x : expected' = [expected EXCEPT ![d] = x]
          BY <3>3 DEF Lists, Goes
        <4>. QED
          BY <4>1, <4>2
      <3>. QED
        BY <3>1, <3>2, <3>3 DEF Next, TimePasses, Revokes, CacheClears, Creates,
                                CreateCommits, vars
    <2>. QED
      BY <1>1, <2>1, WalkRests
  <1>. QED
    BY <1>2, <1>3

\* A walk over the pages gets the rows newest first, none twice, and at its end all
\* of those there were when it began, whatever is created, committed and retried
\* meanwhile.
THEOREM WalkCorrect == Spec => []WalkComplete
  <1>1. Init => Walks
    BY EmptySeq DEF Init, Walks, Walked, InOrder
  <1>2. Base /\ Walks /\ [Next]_vars => Walks'
    BY StepWalks
  <1>3. Walks => WalkComplete
    BY DEF Walks, Walked, InOrder, WalkComplete
  <1>. QED
    BY <1>1, <1>2, <1>3, BaseInvariance, PTL DEF Spec
=============================================================================
