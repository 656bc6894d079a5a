------------------------ MODULE CacheRefinementProofs ------------------------
(***************************************************************************)
(* TimeAndSizeBoundedCache implements ICache, for any keys, values,        *)
(* capacity and maximum age: list, index and sweeper thread are, to those  *)
(* who call get and put, a map that forgets.                               *)
(***************************************************************************)
EXTENDS TimeAndSizeBoundedCacheProofs, FiniteSetTheorems

-----------------------------------------------------------------------------
(* The map a list shows. *)

Kept(e) == [value |-> e.value, age |-> e.age]

\* h is the map of the entries of es.
Shows(es, h) ==
  /\ h = [k \in Keys |-> h[k]]
  /\ \A i \in 1..Len(es) : h[es[i].key] = Kept(es[i])
  /\ \A k \in Keys : (\A i \in 1..Len(es) : es[i].key # k) => h[k] = Nullopt

\* A list shows one map only.
LEMMA ShowsOne ==
  ASSUME NEW es, NEW g, NEW h, Shows(es, g), Shows(es, h)
  PROVE  g = h
<1>1. \A k \in Keys : g[k] = h[k]
  BY DEF Shows
<1> QED
  BY <1>1 DEF Shows

\* With an index of it, a list has each key once.
LEMMA DistinctKeys ==
  ASSUME NEW es \in Seq(Entry), NEW ix, Linked(es, ix),
         NEW i \in 1..Len(es), NEW j \in 1..Len(es), es[i].key = es[j].key
  PROVE  i = j
BY DEF Linked

LEMMA EntriesAreEntries ==
  ASSUME NEW es \in Seq(Entry), NEW i \in 1..Len(es)
  PROVE  es[i] \in Entry /\ es[i].key \in Keys /\ Kept(es[i]) # Nullopt
<1>1. es[i] \in Entry
  BY ElementOfSeq
<1>2. es[i].value \in Values /\ es[i].age \in Ages /\ es[i].key \in Keys
  BY <1>1 DEF Entry
<1>3. Kept(es[i]) \in [value : Values, age : Ages]
  BY <1>2 DEF Kept
<1> QED
  BY <1>1, <1>2, <1>3, NulloptAssumption

\* heldHere, of any list.
MapOf(es) ==
  [k \in Keys |->
     IF \E i \in DOMAIN es : es[i].key = k
     THEN [value |-> es[CHOOSE i \in DOMAIN es : es[i].key = k].value,
           age |-> es[CHOOSE i \in DOMAIN es : es[i].key = k].age]
     ELSE Nullopt]

LEMMA MapOfShown ==
  ASSUME NEW es \in Seq(Entry), NEW ix, Linked(es, ix)
  PROVE  Shows(es, MapOf(es))
<1>1. DOMAIN es = 1..Len(es)
  BY LenProperties
<1>2. ASSUME NEW i \in 1..Len(es) PROVE MapOf(es)[es[i].key] = Kept(es[i])
  <2> DEFINE j == CHOOSE j \in DOMAIN es : es[j].key = es[i].key
  <2>1. j \in 1..Len(es) /\ es[j].key = es[i].key
    BY <1>1
  <2>2. j = i
    BY <2>1, DistinctKeys
  <2>3. es[i].key \in Keys
    BY EntriesAreEntries
  <2>4. MapOf(es)[es[i].key] = [value |-> es[j].value, age |-> es[j].age]
    BY <1>1, <2>3 DEF MapOf
  <2> QED
    BY <2>2, <2>4 DEF Kept
<1>3. \A k \in Keys : (\A i \in 1..Len(es) : es[i].key # k) => MapOf(es)[k] = Nullopt
  BY <1>1 DEF MapOf
<1> QED
  BY <1>2, <1>3 DEF Shows, MapOf

\* ICache's own Cardinality is the one the library's theorems are about.
LEMMA PromisedCardinality ==
  ASSUME NEW S
  PROVE  Promise!Cardinality(S) = Cardinality(S)
BY DEF Promise!Cardinality, Cardinality

\* The map of this state and of the next.
LEMMA HeldHereShown ==
  ASSUME IInv
  PROVE  Shows(entries, heldHere)
<1>1. heldHere = MapOf(entries)
  BY DEF heldHere, MapOf, Entered
<1>2. entries \in Seq(Entry) /\ Linked(entries, index)
  BY LinkedIsMatching DEF IInv, TypeOK
<1> QED
  BY <1>1, <1>2, MapOfShown

LEMMA HeldHereNext ==
  ASSUME IInv', NEW h, Shows(entries', h)
  PROVE  heldHere' = h
<1>1. heldHere' = MapOf(entries')
  BY DEF heldHere, MapOf, Entered
<1>2. entries' \in Seq(Entry) /\ Linked(entries', index')
  BY LinkedIsMatchingNext DEF IInv, TypeOK
<1>3. Shows(entries', MapOf(entries'))
  BY <1>2, MapOfShown
<1> QED
  BY <1>1, <1>3, ShowsOne

-----------------------------------------------------------------------------
(* What the operations on the list do to the map. *)

LEMMA EraseShown ==
  ASSUME NEW es \in Seq(Entry), NEW ix, Linked(es, ix), NEW i \in 1..Len(es),
         NEW h, Shows(es, h)
  PROVE  Shows(RemoveAt(es, i), Promise!Without(h, es[i].key))
<1> DEFINE rest == RemoveAt(es, i)
           n == Len(es)
           g == Promise!Without(h, es[i].key)
<1>1. n \in Nat /\ i \in 1..n
  BY LenProperties
<1>2. /\ Len(rest) = n - 1
      /\ \A j \in 1..(n - 1) : rest[j] = IF j < i THEN es[j] ELSE es[j + 1]
  BY RemoveAtFacts
<1>3. /\ \A j \in 1..n : es[j].key \in Keys
      /\ \A j \in 1..n : j # i => es[j].key # es[i].key
  BY EntriesAreEntries, DistinctKeys
<1>4. DOMAIN h = Keys
  BY DEF Shows
<1>5. /\ g = [k \in Keys |-> IF k = es[i].key THEN Nullopt ELSE h[k]]
  BY <1>4 DEF Promise!Without, Promise!With
<1> HIDE DEF rest, n, g
<1>6. \A j \in 1..(n - 1) : \E m \in 1..n : m # i /\ rest[j] = es[m]
  <2> TAKE j \in 1..(n - 1)
  <2>1. CASE j < i
    BY <1>1, <1>2, <2>1
  <2>2. CASE ~(j < i)
    <3>1. j + 1 \in 1..n /\ j + 1 # i /\ rest[j] = es[j + 1]
      BY <1>1, <1>2, <2>2
    <3> QED
      BY <3>1
  <2> QED
    BY <2>1, <2>2
<1>7. \A m \in 1..n : m # i => \E j \in 1..(n - 1) : rest[j] = es[m]
  <2> TAKE m \in 1..n
  <2> HAVE m # i
  <2>1. CASE m < i
    <3>1. m \in 1..(n - 1) /\ rest[m] = es[m]
      BY <1>1, <1>2, <2>1
    <3> QED
      BY <3>1
  <2>2. CASE ~(m < i)
    <3>1. m - 1 \in 1..(n - 1) /\ ~(m - 1 < i) /\ (m - 1) + 1 = m
      BY <1>1, <2>2
    <3>2. rest[m - 1] = es[m]
      BY <1>2, <3>1
    <3> QED
      BY <3>1, <3>2
  <2> QED
    BY <2>1, <2>2
<1>8. \A j \in 1..(n - 1) : g[rest[j].key] = Kept(rest[j])
  <2> TAKE j \in 1..(n - 1)
  <2>1. PICK m \in 1..n : m # i /\ rest[j] = es[m]
    BY <1>6
  <2> QED
    BY <1>3, <1>5, <2>1 DEF Shows, n
<1>9. ASSUME NEW k \in Keys, \A j \in 1..(n - 1) : rest[j].key # k
      PROVE  g[k] = Nullopt
  <2>1. CASE k = es[i].key
    BY <1>5, <2>1
  <2>2. CASE k # es[i].key
    <3>1. \A m \in 1..n : es[m].key # k
      BY <1>7, <1>9, <2>2
    <3> QED
      BY <1>5, <2>2, <3>1 DEF Shows, n
  <2> QED
    BY <2>1, <2>2
<1>10. g = [k \in Keys |-> g[k]]
  BY <1>5
<1> QED
  BY <1>2, <1>8, <1>9, <1>10 DEF Shows, rest, g

LEMMA PushShown ==
  ASSUME NEW es \in Seq(Entry), NEW e \in Entry, \A i \in 1..Len(es) : es[i].key # e.key,
         NEW h, Shows(es, h)
  PROVE  Shows(Cons(e, es), Promise!With(h, e.key, Kept(e)))
<1> DEFINE longer == Cons(e, es)
           n == Len(es)
           g == Promise!With(h, e.key, Kept(e))
<1>1. n \in Nat
  BY LenProperties
<1>2. Len(longer) = n + 1 /\ longer[1] = e /\ \A j \in 1..n : longer[j + 1] = es[j]
  BY ConsEntryFacts
<1>3. e.key \in Keys /\ \A j \in 1..n : es[j].key \in Keys
  BY EntriesAreEntries DEF Entry
<1>4. DOMAIN h = Keys
  BY DEF Shows
<1>5. g = [k \in Keys |-> IF k = e.key THEN Kept(e) ELSE h[k]]
  BY <1>4 DEF Promise!With
<1> HIDE DEF longer, n, g
<1>6. ASSUME NEW j \in 1..(n + 1) PROVE g[longer[j].key] = Kept(longer[j])
  <2>1. CASE j = 1
    BY <1>2, <1>3, <1>5, <2>1
  <2>2. CASE j # 1
    <3>1. j - 1 \in 1..n /\ (j - 1) + 1 = j
      BY <1>1, <2>2
    <3>2. longer[j] = es[j - 1]
      BY <1>2, <3>1
    <3>3. h[es[j - 1].key] = Kept(es[j - 1])
      BY <3>1 DEF Shows, n
    <3> QED
      BY <1>3, <1>5, <3>1, <3>2, <3>3 DEF n
  <2> QED
    BY <2>1, <2>2
<1>7. ASSUME NEW k \in Keys, \A j \in 1..(n + 1) : longer[j].key # k
      PROVE  g[k] = Nullopt
  <2>1. 1 \in 1..(n + 1) /\ \A j \in 1..n : j + 1 \in 1..(n + 1)
    BY <1>1
  <2>2. k # e.key
    BY <1>2, <1>7, <2>1
  <2>3. \A j \in 1..n : es[j].key # k
    BY <1>2, <1>7, <2>1
  <2>4. h[k] = Nullopt
    BY <2>3 DEF Shows, n
  <2> QED
    BY <1>5, <2>2, <2>4
<1>8. g = [k \in Keys |-> g[k]]
  BY <1>5
<1> QED
  BY <1>2, <1>6, <1>7, <1>8 DEF Shows, longer, g

\* The map holds as many keys as the list has entries.
LEMMA HeldCount ==
  ASSUME NEW es \in Seq(Entry), NEW ix, Linked(es, ix), NEW h, Shows(es, h)
  PROVE  Cardinality(Promise!Held(h)) = Len(es)
<1> DEFINE n == Len(es)
           T == Promise!Held(h)
           f == [i \in 1..n |-> es[i].key]
<1>1. n \in Nat
  BY LenProperties
<1>2. DOMAIN h = Keys
  BY DEF Shows
<1>3. \A i \in 1..n : es[i].key \in T
  BY <1>2, EntriesAreEntries DEF Shows, Promise!Held
<1>4. \A k \in T : \E i \in 1..n : es[i].key = k
  BY <1>2 DEF Shows, Promise!Held
<1>5. \A i, j \in 1..n : es[i].key = es[j].key => i = j
  BY DistinctKeys
<1> HIDE DEF n, T
<1>6. f \in Bijection(1..n, T)
  <2>1. f \in [1..n -> T]
    BY <1>3
  <2>2. IsInjective(f)
    BY <1>5 DEF IsInjective
  <2>3. \A t \in T : \E s \in 1..n : f[s] = t
    BY <1>4
  <2> QED
    BY <2>1, <2>2, <2>3 DEF Bijection, Injection, Surjection
<1>7. ExistsBijection(1..n, T)
  BY <1>6 DEF ExistsBijection
<1> QED
  BY <1>1, <1>7, FS_CountingElements DEF n, T

\* The list without the entry of a key, whether there was one or not.
LEMMA ErasedShown ==
  ASSUME IInv, NEW k \in Keys
  PROVE  Shows(Erased(k), Promise!Without(heldHere, k))
<1>1. entries \in Seq(Entry) /\ Linked(entries, index) /\ Shows(entries, heldHere)
  BY LinkedIsMatching, HeldHereShown DEF IInv, TypeOK
<1>2. CASE index[k] = NoNode
  <2>1. \A i \in 1..Len(entries) : entries[i] \in Entry
    BY <1>1, ElementOfSeq
  <2>2. \A i \in 1..Len(entries) : entries[i].key # k
    BY <1>1, <1>2, <2>1, NodesAssumption DEF Linked, Entry
  <2>3. heldHere[k] = Nullopt
    BY <1>1, <2>2 DEF Shows
  <2>4. heldHere = [x \in Keys |-> heldHere[x]] /\ DOMAIN heldHere = Keys
    BY <1>1 DEF Shows
  <2>5. Promise!Without(heldHere, k) = heldHere
    BY <2>3, <2>4 DEF Promise!Without, Promise!With
  <2> QED
    BY <1>1, <1>2, <2>5 DEF Erased
<1>3. CASE index[k] # NoNode
  <2>1. /\ Position(index[k]) \in 1..Len(entries)
        /\ entries[Position(index[k])].key = k
    BY <1>3, IndexedPosition DEF IInv
  <2>2. Shows(RemoveAt(entries, Position(index[k])), Promise!Without(heldHere, k))
    BY <1>1, <2>1, EraseShown
  <2> QED
    BY <1>3, <2>2 DEF Erased
<1> QED
  BY <1>2, <1>3

\* What the map says under a key that is indexed.
LEMMA HeldAtIndex ==
  ASSUME IInv, NEW k \in Keys
  PROVE  /\ index[k] = NoNode => heldHere[k] = Nullopt
         /\ index[k] # NoNode =>
              /\ heldHere[k] = Kept(entries[Position(index[k])])
              /\ heldHere[k] # Nullopt
<1>1. entries \in Seq(Entry) /\ Linked(entries, index) /\ Shows(entries, heldHere)
  BY LinkedIsMatching, HeldHereShown DEF IInv, TypeOK
<1>2. ASSUME index[k] = NoNode PROVE heldHere[k] = Nullopt
  <2>1. \A i \in 1..Len(entries) : entries[i] \in Entry
    BY <1>1, ElementOfSeq
  <2>2. \A i \in 1..Len(entries) : entries[i].key # k
    BY <1>1, <1>2, <2>1, NodesAssumption DEF Linked, Entry
  <2> QED
    BY <1>1, <2>2 DEF Shows
<1>3. ASSUME index[k] # NoNode
      PROVE  heldHere[k] = Kept(entries[Position(index[k])]) /\ heldHere[k] # Nullopt
  <2>1. /\ Position(index[k]) \in 1..Len(entries)
        /\ entries[Position(index[k])].key = k
    BY <1>3, IndexedPosition DEF IInv
  <2> QED
    BY <1>1, <2>1, EntriesAreEntries DEF Shows
<1> QED
  BY <1>2, <1>3

-----------------------------------------------------------------------------
(* Every step is one of the map's. *)

LEMMA InitShown == Init => Promise!Init
<1> SUFFICES ASSUME Init PROVE Promise!Init
  OBVIOUS
<1>1. DOMAIN entries = {}
  BY EmptySeq DEF Init
<1> QED
  BY <1>1 DEF Init, Promise!Init, heldHere

\* The map stays when the list does.
LEMMA ListStays ==
  ASSUME entries' = entries
  PROVE  heldHere' = heldHere
BY DEF heldHere, Entered

LEMMA GetAbsentShown ==
  ASSUME IInv, NEW k \in Keys, GetAbsent(k)
  PROVE  Promise!Get(k)
<1>1. heldHere' = heldHere
  BY ListStays DEF GetAbsent, list
<1>2. heldHere[k] = Nullopt
  BY HeldAtIndex DEF GetAbsent
<1>3. heldHere = [x \in Keys |-> heldHere[x]] /\ DOMAIN heldHere = Keys
  BY DEF heldHere
<1>4. Promise!Without(heldHere, k) = heldHere
  BY <1>2, <1>3 DEF Promise!Without, Promise!With
<1>5. ~Promise!Live(heldHere, k)
  BY <1>2 DEF Promise!Live
<1> QED
  BY <1>1, <1>4, <1>5
     DEF GetAbsent, Callable, Returns, life, Promise!Get, Promise!AfterGet, Promise!Found

LEMMA GetExpiredShown ==
  ASSUME IInv, IInv', NEW k \in Keys, GetExpired(k)
  PROVE  Promise!Get(k)
<1>1. heldHere[k] = Kept(entries[Position(index[k])])
  BY HeldAtIndex DEF GetExpired
<1>2. ~Promise!Live(heldHere, k)
  BY <1>1 DEF GetExpired, Expired, Kept, Promise!Live, Promise!Expired
<1>3. Shows(entries', Promise!Without(heldHere, k))
  BY ErasedShown DEF GetExpired
<1>4. heldHere' = Promise!Without(heldHere, k)
  BY <1>3, HeldHereNext
<1> QED
  BY <1>2, <1>4
     DEF GetExpired, Callable, Returns, life, Promise!Get, Promise!AfterGet, Promise!Found

LEMMA GetHitShown ==
  ASSUME IInv, IInv', NEW k \in Keys, GetHit(k)
  PROVE  Promise!Get(k)
<1> DEFINE e == entries[Position(index[k])]
<1>1. heldHere[k] = Kept(e) /\ heldHere[k] # Nullopt
  BY HeldAtIndex DEF GetHit
<1>2. e \in Entry /\ e.key = k
  BY IndexedPosition DEF GetHit, IInv
<1>3. /\ Erased(k) \in Seq(Entry) /\ Shows(Erased(k), Promise!Without(heldHere, k))
      /\ \A j \in 1..Len(Erased(k)) : Erased(k)[j].key # k
  <2>1. /\ Erased(k) \in Seq(Entry)
        /\ Linked(Erased(k), [index EXCEPT ![k] = NoNode])
        /\ \A j \in 1..Len(Erased(k)) : Erased(k)[j].node # index[k]
    BY ErasedFacts DEF IInv
  <2>2. [index EXCEPT ![k] = NoNode][k] = NoNode
    BY DEF IInv, TypeOK
  <2>3. \A j \in 1..Len(Erased(k)) : Erased(k)[j] \in Entry
    BY <2>1, ElementOfSeq
  <2>4. \A j \in 1..Len(Erased(k)) : Erased(k)[j].key # k
    BY <2>1, <2>2, <2>3, NodesAssumption DEF Linked, Entry
  <2> QED
    BY <2>1, <2>4, ErasedShown
<1>4. entries' = Cons(e, Erased(k))
  BY DEF GetHit, SplicedToFront
<1> HIDE DEF e
<1>5. Shows(entries', Promise!With(Promise!Without(heldHere, k), k, Kept(e)))
  BY <1>2, <1>3, <1>4, PushShown
<1>6. Promise!With(Promise!Without(heldHere, k), k, Kept(e)) = heldHere
  <2>1. heldHere = [x \in Keys |-> heldHere[x]] /\ DOMAIN heldHere = Keys
    BY DEF heldHere
  <2> QED
    BY <1>1, <2>1 DEF Promise!With, Promise!Without
<1>7. heldHere' = heldHere
  BY <1>5, <1>6, HeldHereNext
<1>8. Promise!Live(heldHere, k) /\ heldHere[k].value = e.value
  BY <1>1 DEF GetHit, Expired, Kept, Promise!Live, Promise!Expired, e
<1> QED
  BY <1>7, <1>8
     DEF GetHit, Callable, Returns, life, Promise!Get, Promise!AfterGet, Promise!Found, e

LEMMA PutShown ==
  ASSUME IInv, IInv', NEW k \in Keys, NEW v \in Values, Put(k, v)
  PROVE  Promise!Put(k, v)
<1>1. PICK n \in UnusedNodes(Erased(k)) :
        Evict(Cons(NewEntry(n, k, v), Erased(k)), [index EXCEPT ![k] = n])
  BY DEF Put
<1> DEFINE e == NewEntry(n, k, v)
           rest == Erased(k)
           without == [index EXCEPT ![k] = NoNode]
           pushed == Cons(e, rest)
           pointing == [index EXCEPT ![k] = n]
           stored == Promise!With(heldHere, k, [value |-> v, age |-> 0])
<1>2. TypeOK /\ IndexMatchesEntries /\ Len(entries) \in Nat
  BY LenProperties DEF IInv, TypeOK
<1>3. /\ rest \in Seq(Entry) /\ without \in Index /\ Linked(rest, without)
      /\ Len(rest) \in Nat /\ Len(rest) <= Len(entries)
      /\ \A j \in 1..Len(rest) : \E h \in 1..Len(entries) : rest[j] = entries[h]
  BY <1>2, ErasedFacts, LenProperties
<1>4. e \in Entry /\ e.key = k /\ e.node = n /\ Kept(e) = [value |-> v, age |-> 0]
  BY AgeCapAssumption DEF NewEntry, UnusedNodes, Entry, Ages, Kept
<1>5. without[k] = NoNode /\ [without EXCEPT ![k] = n] = pointing
  BY <1>2 DEF TypeOK
<1>6. \A j \in 1..Len(rest) : rest[j].node # n /\ rest[j].key # k /\ rest[j] \in Entry
  <2>1. \A j \in 1..Len(rest) : rest[j].node # n
    BY <1>1, <1>3, LenProperties DEF UnusedNodes
  <2>2. \A j \in 1..Len(rest) : rest[j] \in Entry
    BY <1>3, ElementOfSeq
  <2>3. \A j \in 1..Len(rest) : rest[j].key # k
    BY <1>3, <1>5, <2>2, NodesAssumption DEF Linked, Entry
  <2> QED
    BY <1>3, <2>1, <2>2, <2>3
<1>7. Shows(rest, Promise!Without(heldHere, k))
  BY ErasedShown
<1> HIDE DEF e, rest, without
<1>8. Linked(pushed, pointing)
  <2>1. without[e.key] = NoNode /\ \A j \in 1..Len(rest) : rest[j].node # e.node
    BY <1>4, <1>5, <1>6
  <2>2. Linked(Cons(e, rest), [without EXCEPT ![e.key] = e.node])
    BY <2>1, <1>3, <1>4, PushKeepsLinked
  <2> QED
    BY <2>2, <1>4, <1>5
<1>9. /\ pushed \in Seq(Entry) /\ Len(pushed) = Len(rest) + 1
      /\ \A j \in 1..Len(rest) : pushed[j + 1] = rest[j]
  BY <1>3, <1>4, ConsEntryFacts
<1>10. heldHere = [x \in Keys |-> heldHere[x]] /\ DOMAIN heldHere = Keys
  BY DEF heldHere
<1>11. Promise!With(Promise!Without(heldHere, k), k, [value |-> v, age |-> 0]) = stored
  BY <1>10 DEF Promise!With, Promise!Without
<1>12. Shows(pushed, stored)
  <2>1. Shows(Cons(e, rest), Promise!With(Promise!Without(heldHere, k), e.key, Kept(e)))
    BY <1>3, <1>4, <1>6, <1>7, PushShown
  <2> QED
    BY <1>4, <1>11, <2>1
<1>13. Cardinality(Promise!Held(stored)) = Len(pushed)
  BY <1>8, <1>9, <1>12, HeldCount
<1>14. Evict(pushed, pointing)
  BY <1>1 DEF e, rest
<1> HIDE DEF pushed, pointing, stored
<1>15. heldHere' \in Promise!AfterPut(heldHere, k, v)
  <2>1. CASE Len(pushed) <= MaxElements
    <3>1. entries' = pushed
      BY <1>9, <1>3, <1>14, <2>1, MaxElementsAssumption DEF Evict
    <3>2. heldHere' = stored
      BY <1>12, <3>1, HeldHereNext
    <3>3. Promise!AfterPut(heldHere, k, v) = {stored}
      BY <1>13, <2>1, PromisedCardinality DEF Promise!AfterPut, stored
    <3> QED
      BY <3>2, <3>3
  <2>2. CASE ~(Len(pushed) <= MaxElements)
    <3> DEFINE last == Len(pushed)
               other == pushed[last].key
    <3>1. /\ last \in Nat /\ last > MaxElements /\ last >= 2 /\ last \in 1..Len(pushed)
          /\ Len(pushed) > 0
      BY <1>3, <1>9, <2>2, MaxElementsAssumption
    <3>2. entries' = SubSeq(pushed, 1, Len(pushed) - 1)
      BY <1>14, <3>1 DEF Evict
    <3>3. entries' = RemoveAt(pushed, last)
      BY <1>9, <3>1, <3>2, PopBackIsRemoveAt
    <3>4. Shows(entries', Promise!Without(stored, other))
      BY <1>8, <1>9, <1>12, <3>1, <3>3, EraseShown
    <3>5. heldHere' = Promise!Without(stored, other)
      BY <3>4, HeldHereNext
    <3>6. last - 1 \in 1..Len(rest) /\ pushed[last] = rest[last - 1]
      BY <1>3, <1>9, <3>1
    <3>7. other # k
      BY <1>6, <3>6
    <3>8. other \in Promise!Held(heldHere)
      <4>1. PICK h \in 1..Len(entries) : rest[last - 1] = entries[h]
        BY <1>3, <3>6
      <4>2. heldHere[entries[h].key] = Kept(entries[h]) /\ Kept(entries[h]) # Nullopt
            /\ entries[h].key \in Keys
        BY <1>2, HeldHereShown, EntriesAreEntries DEF Shows, TypeOK
      <4> QED
        BY <1>10, <3>6, <4>1, <4>2 DEF Promise!Held
    <3> HIDE DEF other
    <3>9. ~(Cardinality(Promise!Held(stored)) <= MaxElements)
      BY <1>13, <2>2
    <3>10. Promise!AfterPut(heldHere, k, v)
             = {Promise!Without(stored, o) : o \in Promise!Held(heldHere) \ {k}}
      BY <3>9, PromisedCardinality DEF Promise!AfterPut, stored
    <3> QED
      BY <3>5, <3>7, <3>8, <3>10
  <2> QED
    BY <2>1, <2>2
<1> QED
  BY <1>15 DEF Put, Callable, life, Promise!Put

LEMMA SweepRemovesShown ==
  ASSUME IInv, IInv', SweepRemoves
  PROVE  \E k \in Keys : Promise!Reclaim(k)
<1> DEFINE i == Position(it)
           k == entries[i].key
<1>1. /\ entries \in Seq(Entry) /\ Linked(entries, index) /\ Shows(entries, heldHere)
  BY LinkedIsMatching, HeldHereShown DEF IInv, TypeOK
<1>2. i \in 1..Len(entries)
  BY PositionFacts DEF IInv, SweepRemoves, SweepIteratorValid
<1>3. entries' = RemoveAt(entries, i) /\ Expired(entries[i].age)
      /\ answer' = NoAnswer /\ UNCHANGED life
  BY DEF SweepRemoves, Silent
<1> HIDE DEF i
<1>4. k \in Keys /\ heldHere[k] = Kept(entries[i]) /\ heldHere[k] # Nullopt
  BY <1>1, <1>2, EntriesAreEntries DEF Shows
<1>5. heldHere' = Promise!Without(heldHere, k)
  BY <1>1, <1>2, <1>3, EraseShown, HeldHereNext
<1>6. ~Promise!Live(heldHere, k)
  BY <1>3, <1>4 DEF Expired, Kept, Promise!Live, Promise!Expired
<1>7. Promise!Reclaim(k)
  BY <1>3, <1>4, <1>5, <1>6 DEF Promise!Reclaim, life
<1> QED
  BY <1>4, <1>7

LEMMA TickShown ==
  ASSUME IInv, IInv', Tick
  PROVE  Promise!Tick
<1>1. /\ entries \in Seq(Entry) /\ Shows(entries, heldHere)
      /\ DOMAIN entries = 1..Len(entries) /\ Len(entries) \in Nat
  BY HeldHereShown, LenProperties DEF IInv, TypeOK
<1>2. entries' = [i \in 1..Len(entries) |-> [entries[i] EXCEPT !.age = Older(@)]]
  BY <1>1 DEF Tick
<1>3. Len(entries') = Len(entries)
  <2>1. entries' \in Seq(Entry)
    BY DEF IInv, TypeOK
  <2>2. DOMAIN entries' = 1..Len(entries)
    BY <1>2
  <2> QED
    BY <1>1, <2>1, <2>2, LenProperties
<1>4. \A i \in 1..Len(entries) :
        /\ entries[i] \in Entry /\ entries[i].key \in Keys /\ Kept(entries[i]) # Nullopt
        /\ entries'[i].key = entries[i].key
        /\ Kept(entries'[i]) = [value |-> entries[i].value, age |-> Older(entries[i].age)]
  <2> TAKE i \in 1..Len(entries)
  <2>1. entries[i] \in Entry /\ entries[i].key \in Keys /\ Kept(entries[i]) # Nullopt
    BY <1>1, EntriesAreEntries
  <2> QED
    BY <1>2, <2>1 DEF Entry, Kept
<1>5. DOMAIN heldHere = Keys
  BY DEF heldHere
<1>6. \A age : Promise!Older(age) = Older(age)
  BY DEF Promise!Older, Older
<1>7. Shows(entries', Promise!Aged(heldHere))
  <2>1. \A k \in Keys : Promise!Aged(heldHere)[k] =
          IF heldHere[k] = Nullopt
          THEN Nullopt
          ELSE [value |-> heldHere[k].value, age |-> Older(heldHere[k].age)]
    BY <1>5, <1>6 DEF Promise!Aged
  <2>2. ASSUME NEW i \in 1..Len(entries')
        PROVE  Promise!Aged(heldHere)[entries'[i].key] = Kept(entries'[i])
    <3>1. heldHere[entries[i].key] = Kept(entries[i])
      BY <1>1, <1>3 DEF Shows
    <3>2. entries[i].key \in Keys /\ heldHere[entries[i].key] # Nullopt
      BY <1>3, <1>4, <3>1
    <3>3. Promise!Aged(heldHere)[entries[i].key]
            = [value |-> Kept(entries[i]).value, age |-> Older(Kept(entries[i]).age)]
      BY <2>1, <3>1, <3>2
    <3>4. Kept(entries[i]).value = entries[i].value /\ Kept(entries[i]).age = entries[i].age
      BY DEF Kept
    <3>5. entries'[i].key = entries[i].key
          /\ Kept(entries'[i]) = [value |-> entries[i].value, age |-> Older(entries[i].age)]
      BY <1>3, <1>4
    <3> QED
      BY <3>3, <3>4, <3>5
  <2>3. ASSUME NEW k \in Keys, \A i \in 1..Len(entries') : entries'[i].key # k
        PROVE  Promise!Aged(heldHere)[k] = Nullopt
    <3>1. heldHere[k] = Nullopt
      BY <1>1, <1>3, <1>4, <2>3 DEF Shows
    <3> QED
      BY <2>1, <3>1
  <2>4. Promise!Aged(heldHere) = [k \in Keys |-> Promise!Aged(heldHere)[k]]
    BY <1>5 DEF Promise!Aged
  <2> QED
    BY <2>2, <2>3, <2>4 DEF Shows
<1>8. heldHere' = Promise!Aged(heldHere)
  BY <1>7, HeldHereNext
<1> QED
  BY <1>8 DEF Tick, Silent, life, Promise!Tick

LEMMA JoinShown ==
  ASSUME Join
  PROVE  Promise!Discard
<1>1. DOMAIN entries' = {}
  BY EmptySeq DEF Join
<1>2. heldHere' = [k \in Keys |-> Nullopt]
  BY <1>1 DEF heldHere
<1> QED
  BY <1>2 DEF Join, Silent, Promise!Discard

\* Whatever leaves the list and the answer's caller alone is a return.
LEMMA QuietShown ==
  ASSUME QuietStep
  PROVE  \/ \E k \in Keys : GetAbsent(k)
         \/ Promise!Return \/ Promise!Close
         \/ UNCHANGED Promise!vars
<1>1. CASE \/ LoopTest \/ TestPredicate \/ Block \/ Timeout \/ CheckStop
           \/ LockForSweep \/ SweepKeeps \/ EndSweep \/ SpuriousWakeup
  <2>1. entries' = entries /\ answer' = NoAnswer /\ UNCHANGED life
    BY <1>1 DEF LoopTest, TestPredicate, Block, Timeout, CheckStop, LockForSweep,
                SweepKeeps, EndSweep, SpuriousWakeup, Silent, list
  <2> QED
    BY <2>1, ListStays DEF Promise!Return, life
<1>2. CASE RequestStop
  BY <1>2, ListStays DEF RequestStop, Silent, list, Promise!Close
<1>3. CASE NotifyAll
  BY <1>3, ListStays DEF NotifyAll, Silent, list, Promise!Return
<1>4. CASE UNCHANGED vars
  BY <1>4, ListStays DEF vars, Promise!vars
<1> QED
  BY <1>1, <1>2, <1>3, <1>4 DEF QuietStep

LEMMA StepShown ==
  ASSUME IInv, IInv', [Next]_vars
  PROVE  [Promise!Next]_(Promise!vars)
<1>1. ASSUME NEW k \in Keys, Get(k) PROVE Promise!Next
  BY <1>1, GetAbsentShown, GetExpiredShown, GetHitShown DEF Get, Promise!Next
<1>2. ASSUME NEW k \in Keys, NEW v \in Values, Put(k, v) PROVE Promise!Next
  BY <1>2, PutShown DEF Promise!Next
<1>3. CASE SweepRemoves
  BY <1>3, SweepRemovesShown DEF Promise!Next
<1>4. CASE Tick
  BY <1>4, TickShown DEF Promise!Next
<1>5. CASE Join
  BY <1>5, JoinShown DEF Promise!Next
<1>6. CASE QuietStep
  BY <1>1, <1>6, QuietShown DEF Promise!Next, Get
<1> QED
  BY <1>1, <1>2, <1>3, <1>4, <1>5, <1>6
     DEF Next, Call, SweeperStep, OwnerStep, QuietStep

-----------------------------------------------------------------------------
\* What callers see of TimeAndSizeBoundedCache is a map that forgets: get
\* answers with what was put last or not at all, never with what has
\* expired, and nothing is lost but by age, by lack of room or at the end.
THEOREM CacheIsTheMap == Spec => ImplementsICache
<1>1. IInv /\ IInv' /\ [Next]_vars => [Promise!Next]_(Promise!vars)
  BY StepShown
<1> QED
  BY <1>1, InitShown, IInvAlways, PTL DEF Spec, ImplementsICache, Promise!Spec

=============================================================================
