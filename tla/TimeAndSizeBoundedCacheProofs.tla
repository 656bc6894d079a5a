-------------------- MODULE TimeAndSizeBoundedCacheProofs --------------------
(***************************************************************************)
(* Proofs about TimeAndSizeBoundedCache, for any keys, values, capacity    *)
(* and maximum age.                                                        *)
(***************************************************************************)
EXTENDS TimeAndSizeBoundedCache, SequenceTheorems, TLAPS

-----------------------------------------------------------------------------
(* What the operations on the list do to a sequence. *)

\* erase takes one element out and keeps the order of the others.
LEMMA RemoveAtFacts ==
  ASSUME NEW S, NEW s \in Seq(S), NEW i \in 1..Len(s)
  PROVE  /\ RemoveAt(s, i) \in Seq(S)
         /\ Len(RemoveAt(s, i)) = Len(s) - 1
         /\ \A j \in 1..(Len(s) - 1) :
              RemoveAt(s, i)[j] = IF j < i THEN s[j] ELSE s[j + 1]
<1> DEFINE front == SubSeq(s, 1, i - 1)
           rest == SubSeq(s, i + 1, Len(s))
<1>1. /\ front \in Seq(S) /\ Len(front) = i - 1
      /\ \A j \in 1..(i - 1) : front[j] = s[j]
  <2>1. \A j \in 1..(i - 1) : s[j] \in S
    BY ElementOfSeq
  <2> QED
    BY <2>1, SubSeqProperties, LenProperties
<1>2. /\ rest \in Seq(S) /\ Len(rest) = Len(s) - i
      /\ \A j \in 1..(Len(s) - i) : rest[j] = s[i + j]
  <2>1. \A j \in (i + 1)..Len(s) : s[j] \in S
    BY ElementOfSeq
  <2>2. /\ rest \in Seq(S)
        /\ Len(rest) = IF i + 1 <= Len(s) THEN Len(s) - (i + 1) + 1 ELSE 0
        /\ \A j \in 1..(Len(s) - (i + 1) + 1) : rest[j] = s[i + 1 + j - 1]
    BY <2>1, SubSeqProperties, LenProperties
  <2> QED
    BY <2>2, LenProperties
<1>3. /\ front \o rest \in Seq(S)
      /\ Len(front \o rest) = Len(front) + Len(rest)
      /\ \A j \in 1..(Len(front) + Len(rest)) :
           (front \o rest)[j] = IF j <= Len(front) THEN front[j] ELSE rest[j - Len(front)]
  BY <1>1, <1>2, ConcatProperties
<1>4. RemoveAt(s, i) = front \o rest
  BY DEF RemoveAt
<1>5. Len(s) \in Nat
  BY LenProperties
<1> HIDE DEF front, rest
<1>6. Len(RemoveAt(s, i)) = Len(s) - 1
  <2>1. Len(RemoveAt(s, i)) = Len(front) + Len(rest)
    BY <1>3, <1>4
  <2>2. Len(RemoveAt(s, i)) = (i - 1) + (Len(s) - i)
    BY <2>1, <1>1, <1>2
  <2> QED
    BY <2>2, <1>5
<1>7. ASSUME NEW j \in 1..(Len(s) - 1)
      PROVE  RemoveAt(s, i)[j] = IF j < i THEN s[j] ELSE s[j + 1]
  <2>1. RemoveAt(s, i)[j] = IF j <= i - 1 THEN front[j] ELSE rest[j - (i - 1)]
    BY <1>1, <1>2, <1>3, <1>4, <1>5
  <2>2. CASE j < i
    BY <2>1, <2>2, <1>1, <1>5
  <2>3. CASE j >= i
    BY <2>1, <2>3, <1>2, <1>5
  <2> QED
    BY <2>2, <2>3, <1>5
<1> QED
  BY <1>3, <1>4, <1>6, <1>7

\* push_front puts one element before the others.
LEMMA ConsFacts ==
  ASSUME NEW S, NEW s \in Seq(S), NEW e \in S
  PROVE  /\ Cons(e, s) \in Seq(S)
         /\ Len(Cons(e, s)) = Len(s) + 1
         /\ Cons(e, s)[1] = e
         /\ \A j \in 1..Len(s) : Cons(e, s)[j + 1] = s[j]
<1>1. <<e>> \in Seq(S) /\ Len(<<e>>) = 1 /\ <<e>>[1] = e
  OBVIOUS
<1>2. /\ <<e>> \o s \in Seq(S)
      /\ Len(<<e>> \o s) = Len(<<e>>) + Len(s)
      /\ \A j \in 1..(Len(<<e>>) + Len(s)) :
           (<<e>> \o s)[j] = IF j <= Len(<<e>>) THEN <<e>>[j] ELSE s[j - Len(<<e>>)]
  BY <1>1, ConcatProperties
<1> QED
  BY <1>1, <1>2, LenProperties DEF Cons

\* push_front of an entry to a list of entries.
LEMMA ConsEntryFacts ==
  ASSUME NEW es \in Seq(Entry), NEW e \in Entry
  PROVE  /\ Cons(e, es) \in Seq(Entry)
         /\ Len(Cons(e, es)) = Len(es) + 1
         /\ Cons(e, es)[1] = e
         /\ \A j \in 1..Len(es) : Cons(e, es)[j + 1] = es[j]
<1> QED
  BY ConsFacts, SMTT(20)

\* pop_back is erasing the last element.
LEMMA PopBackIsRemoveAt ==
  ASSUME NEW S, NEW s \in Seq(S), Len(s) > 0
  PROVE  SubSeq(s, 1, Len(s) - 1) = RemoveAt(s, Len(s))
<1> DEFINE a == SubSeq(s, 1, Len(s) - 1)
           b == RemoveAt(s, Len(s))
<1>1. a \in Seq(S) /\ Len(a) = Len(s) - 1 /\ \A j \in 1..(Len(s) - 1) : a[j] = s[j]
  <2>1. \A j \in 1..(Len(s) - 1) : s[j] \in S
    BY ElementOfSeq
  <2>2. Len(s) \in Nat
    BY LenProperties
  <2>3. /\ a \in Seq(S)
        /\ Len(a) = IF 1 <= Len(s) - 1 THEN Len(s) - 1 - 1 + 1 ELSE 0
        /\ \A j \in 1..(Len(s) - 1 - 1 + 1) : a[j] = s[1 + j - 1]
    BY <2>1, <2>2, SubSeqProperties
  <2>4. \A j \in 1..(Len(s) - 1) : j \in 1..(Len(s) - 1 - 1 + 1) /\ 1 + j - 1 = j
    BY <2>2
  <2>5. Len(a) = Len(s) - 1
    <3> DEFINE n == Len(s)
    <3>1. n \in Nat /\ n > 0 /\ Len(a) = IF 1 <= n - 1 THEN n - 1 - 1 + 1 ELSE 0
      BY <2>2, <2>3
    <3> HIDE DEF n, a
    <3>2. Len(a) = n - 1
      BY <3>1
    <3> QED
      BY <3>2 DEF n
  <2> QED
    BY <2>3, <2>4, <2>5
<1>2. b \in Seq(S) /\ Len(b) = Len(s) - 1 /\ \A j \in 1..(Len(s) - 1) : b[j] = s[j]
  BY RemoveAtFacts, LenProperties
<1> QED
  BY <1>1, <1>2, SeqEqual

-----------------------------------------------------------------------------
(* A list and an index that describe the same map, and what keeps them so. *)

Linked(es, ix) ==
  /\ \A i \in 1..Len(es) : ix[es[i].key] = es[i].node
  /\ \A k \in Keys : ix[k] # NoNode =>
       \E i \in 1..Len(es) : es[i].node = ix[k] /\ es[i].key = k
  /\ \A i, j \in 1..Len(es) : es[i].node = es[j].node => i = j

Index == [Keys -> Nodes \union {NoNode}]

\* Linked, stated of a list and an index, is IndexMatchesEntries of the
\* variables.
LEMMA LinkedIsMatching ==
  ASSUME entries \in Seq(Entry)
  PROVE  IndexMatchesEntries <=> Linked(entries, index)
<1>1. DOMAIN entries = 1..Len(entries)
  BY LenProperties
<1> QED
  BY <1>1 DEF IndexMatchesEntries, IndexOfEntries, EntriesOfIndex, DistinctNodes, Linked

\* The same of the next state.
LEMMA LinkedIsMatchingNext ==
  ASSUME entries' \in Seq(Entry)
  PROVE  IndexMatchesEntries' <=> Linked(entries', index')
<1>1. DOMAIN entries' = 1..Len(entries')
  BY LenProperties
<1> QED
  BY <1>1 DEF IndexMatchesEntries, IndexOfEntries, EntriesOfIndex, DistinctNodes, Linked

\* Erasing an entry from the list and its key from the index.
LEMMA EraseKeepsLinked ==
  ASSUME NEW es \in Seq(Entry), NEW ix \in Index, Linked(es, ix), NEW i \in 1..Len(es)
  PROVE  /\ Linked(RemoveAt(es, i), [ix EXCEPT ![es[i].key] = NoNode])
         /\ [ix EXCEPT ![es[i].key] = NoNode] \in Index
         /\ \A j \in 1..Len(RemoveAt(es, i)) :
              \E h \in 1..Len(es) : h # i /\ RemoveAt(es, i)[j] = es[h]
<1> DEFINE rest == RemoveAt(es, i)
           without == [ix EXCEPT ![es[i].key] = NoNode]
           n == Len(es)
           moved(j) == IF j < i THEN j ELSE j + 1
<1>1. n \in Nat /\ i \in 1..n
  BY LenProperties
<1>2. /\ Len(rest) = n - 1
      /\ \A j \in 1..(n - 1) : rest[j] = es[moved(j)]
  BY RemoveAtFacts, Zenon
<1>3. \A j \in 1..n : es[j] \in Entry
  BY ElementOfSeq
<1>4. /\ \A j \in 1..n : es[j].key \in Keys /\ es[j].node \in Nodes
      /\ \A j \in 1..n : ix[es[j].key] = es[j].node
      /\ \A k \in Keys : ix[k] # NoNode => \E j \in 1..n : es[j].node = ix[k] /\ es[j].key = k
      /\ \A j, h \in 1..n : es[j].node = es[h].node => j = h
  BY <1>3 DEF Linked, Entry
<1>5. /\ \A j \in 1..(n - 1) : moved(j) \in 1..n /\ moved(j) # i
      /\ \A j, h \in 1..(n - 1) : moved(j) = moved(h) => j = h
      /\ \A h \in 1..n : h # i => \E j \in 1..(n - 1) : moved(j) = h
  <2>1. \A j \in 1..(n - 1) : moved(j) \in 1..n /\ moved(j) # i
    BY <1>1
  <2>2. \A j, h \in 1..(n - 1) : moved(j) = moved(h) => j = h
    BY <1>1
  <2>3. ASSUME NEW h \in 1..n, h # i
        PROVE  \E j \in 1..(n - 1) : moved(j) = h
    <3>1. CASE h < i
      <4>1. h \in 1..(n - 1) /\ moved(h) = h
        BY <1>1, <3>1
      <4> QED
        BY <4>1
    <3>2. CASE h > i
      <4>1. h - 1 \in 1..(n - 1) /\ moved(h - 1) = h
        BY <1>1, <3>2
      <4> QED
        BY <4>1
    <3> QED
      BY <2>3, <3>1, <3>2, <1>1
  <2> QED
    BY <2>1, <2>2, <2>3
<1> HIDE DEF moved, rest, n
<1>6. /\ without \in Index
      /\ without[es[i].key] = NoNode
      /\ \A k \in Keys : k # es[i].key => without[k] = ix[k]
  BY <1>1, <1>4 DEF Index
<1> HIDE DEF without
<1>7. \A j \in 1..n : j # i => es[j].key # es[i].key
  BY <1>1, <1>4
<1>8. \A j \in 1..(n - 1) : without[rest[j].key] = rest[j].node
  <2> TAKE j \in 1..(n - 1)
  <2>1. moved(j) \in 1..n /\ moved(j) # i /\ rest[j] = es[moved(j)]
    BY <1>2, <1>5
  <2> QED
    BY <2>1, <1>4, <1>6, <1>7
<1>9. ASSUME NEW k \in Keys, without[k] # NoNode
      PROVE  \E j \in 1..(n - 1) : rest[j].node = without[k] /\ rest[j].key = k
  <2>1. k # es[i].key /\ without[k] = ix[k]
    BY <1>9, <1>6
  <2>2. PICK h \in 1..n : es[h].node = ix[k] /\ es[h].key = k
    BY <2>1, <1>9, <1>4
  <2>3. PICK j \in 1..(n - 1) : moved(j) = h
    BY <2>1, <2>2, <1>5
  <2> QED
    BY <2>1, <2>2, <2>3, <1>2
<1>10. \A j, h \in 1..(n - 1) : rest[j].node = rest[h].node => j = h
  BY <1>2, <1>4, <1>5
<1>11. \A j \in 1..(n - 1) : \E h \in 1..n : h # i /\ rest[j] = es[h]
  BY <1>2, <1>5
<1>12. Linked(rest, without)
  BY <1>2, <1>8, <1>9, <1>10 DEF Linked
<1> QED
  BY <1>2, <1>6, <1>11, <1>12 DEF rest, without, n

\* Pushing an entry to the front and pointing the index to it.
LEMMA PushKeepsLinked ==
  ASSUME NEW es \in Seq(Entry), NEW ix \in Index, Linked(es, ix), NEW e \in Entry,
         ix[e.key] = NoNode, \A j \in 1..Len(es) : es[j].node # e.node
  PROVE  /\ Linked(Cons(e, es), [ix EXCEPT ![e.key] = e.node])
         /\ [ix EXCEPT ![e.key] = e.node] \in Index
<1> DEFINE longer == Cons(e, es)
           pointing == [ix EXCEPT ![e.key] = e.node]
           n == Len(es)
<1>1. n \in Nat
  BY LenProperties
<1>2. Len(longer) = n + 1 /\ longer[1] = e /\ \A j \in 1..n : longer[j + 1] = es[j]
  BY ConsEntryFacts
<1>3. \A j \in 1..n : es[j] \in Entry
  BY ElementOfSeq
<1>4. /\ \A j \in 1..n : es[j].key \in Keys /\ es[j].node \in Nodes
      /\ \A j \in 1..n : ix[es[j].key] = es[j].node
      /\ \A k \in Keys : ix[k] # NoNode => \E j \in 1..n : es[j].node = ix[k] /\ es[j].key = k
      /\ \A j, h \in 1..n : es[j].node = es[h].node => j = h
      /\ \A j \in 1..n : es[j].node # e.node
      /\ e.key \in Keys /\ e.node \in Nodes
  BY <1>3 DEF Linked, Entry
<1>5. /\ pointing \in Index
      /\ pointing[e.key] = e.node
      /\ \A k \in Keys : k # e.key => pointing[k] = ix[k]
  BY <1>4 DEF Index
<1>6. \A j \in 1..n : es[j].key # e.key
  BY <1>4, NodesAssumption
<1> HIDE DEF longer, pointing, n
<1>7. \A j \in 1..(n + 1) : j = 1 \/ (\E h \in 1..n : j = h + 1)
  <2> TAKE j \in 1..(n + 1)
  <2>1. j # 1 => j - 1 \in 1..n /\ j = (j - 1) + 1
    BY <1>1
  <2> QED
    BY <2>1
<1>8. \A j \in 1..(n + 1) : pointing[longer[j].key] = longer[j].node
  <2> TAKE j \in 1..(n + 1)
  <2>1. CASE j = 1
    BY <2>1, <1>2, <1>5
  <2>2. ASSUME NEW h \in 1..n, j = h + 1
        PROVE  pointing[longer[j].key] = longer[j].node
    BY <2>2, <1>2, <1>4, <1>5, <1>6
  <2> QED
    BY <2>1, <2>2, <1>7
<1>9. ASSUME NEW k \in Keys, pointing[k] # NoNode
      PROVE  \E j \in 1..(n + 1) : longer[j].node = pointing[k] /\ longer[j].key = k
  <2>1. CASE k = e.key
    <3>1. 1 \in 1..(n + 1)
      BY <1>1
    <3> QED
      BY <2>1, <3>1, <1>2, <1>5
  <2>2. CASE k # e.key
    <3>1. PICK h \in 1..n : es[h].node = pointing[k] /\ es[h].key = k
      BY <2>2, <1>9, <1>4, <1>5
    <3>2. h + 1 \in 1..(n + 1)
      BY <1>1
    <3> QED
      BY <3>1, <3>2, <1>2
  <2> QED
    BY <2>1, <2>2
<1>10. ASSUME NEW i \in 1..(n + 1), NEW j \in 1..(n + 1), longer[i].node = longer[j].node
       PROVE  i = j
  <2>1. ASSUME NEW g \in 1..n, NEW h \in 1..n, i = g + 1, j = h + 1
        PROVE  i = j
    BY <2>1, <1>2, <1>4, <1>10
  <2>2. /\ \A h \in 1..n : ~(i = 1 /\ j = h + 1)
        /\ \A h \in 1..n : ~(j = 1 /\ i = h + 1)
    BY <1>2, <1>4, <1>10
  <2>3. i = 1 \/ (\E h \in 1..n : i = h + 1)
    BY <1>7
  <2>4. j = 1 \/ (\E h \in 1..n : j = h + 1)
    BY <1>7
  <2>5. CASE i = 1
    BY <2>2, <2>4, <2>5
  <2>6. ASSUME NEW h \in 1..n, i = h + 1
        PROVE  i = j
    BY <2>1, <2>2, <2>4, <2>6
  <2> QED
    BY <2>3, <2>5, <2>6
<1>11. Linked(longer, pointing)
  BY <1>2, <1>8, <1>9, <1>10 DEF Linked
<1> QED
  BY <1>5, <1>11 DEF longer, pointing

-----------------------------------------------------------------------------
(* The inductive invariant. *)

\* Capacity needs the types only, but an iterator of the index or of the
\* sweep is followed into the list: the three facts about them rest on each
\* other, and on mutex_ keeping get and put out of the sweep.
IInv ==
  /\ TypeOK
  /\ IndexMatchesEntries
  /\ WithinCapacity
  /\ SweepIteratorValid

\* The sweeper sleeps a number of ticks (interval in sweepLoop).
LEMMA IntervalType == Interval \in Nat
BY MaxAgeAssumption DEF Interval

\* An iterator that points into the list is found there.
LEMMA PositionFacts ==
  ASSUME TypeOK, NEW n, \E i \in DOMAIN entries : entries[i].node = n
  PROVE  /\ Position(n) \in 1..Len(entries)
         /\ entries[Position(n)].node = n
         /\ entries[Position(n)] \in Entry
<1>1. DOMAIN entries = 1..Len(entries)
  BY LenProperties DEF TypeOK
<1>2. Position(n) \in DOMAIN entries /\ entries[Position(n)].node = n
  BY DEF Position
<1> QED
  BY <1>1, <1>2, ElementOfSeq DEF TypeOK

\* The iterator index_ holds for a key points to the entry of that key.
LEMMA IndexedPosition ==
  ASSUME TypeOK, IndexMatchesEntries, NEW k \in Keys, index[k] # NoNode
  PROVE  /\ Position(index[k]) \in 1..Len(entries)
         /\ entries[Position(index[k])] \in Entry
         /\ entries[Position(index[k])].node = index[k]
         /\ entries[Position(index[k])].key = k
<1>1. PICK i \in DOMAIN entries : entries[i].node = index[k] /\ entries[i].key = k
  BY DEF IndexMatchesEntries, EntriesOfIndex
<1>2. /\ Position(index[k]) \in 1..Len(entries)
      /\ entries[Position(index[k])].node = index[k]
      /\ entries[Position(index[k])] \in Entry
  BY <1>1, PositionFacts
<1>3. Position(index[k]) = i
  BY <1>1, <1>2, LenProperties DEF IndexMatchesEntries, DistinctNodes, TypeOK
<1> QED
  BY <1>1, <1>2, <1>3

\* The list without the entry of k, with the index without k.
LEMMA ErasedFacts ==
  ASSUME TypeOK, IndexMatchesEntries, NEW k \in Keys
  PROVE  /\ Erased(k) \in Seq(Entry)
         /\ [index EXCEPT ![k] = NoNode] \in Index
         /\ Linked(Erased(k), [index EXCEPT ![k] = NoNode])
         /\ Len(Erased(k)) <= Len(entries)
         /\ index[k] # NoNode => Len(Erased(k)) < Len(entries)
         /\ \A j \in 1..Len(Erased(k)) :
              /\ Erased(k)[j].node # index[k]
              /\ \E h \in 1..Len(entries) : Erased(k)[j] = entries[h]
<1>1. entries \in Seq(Entry) /\ index \in Index /\ Linked(entries, index) /\ Len(entries) \in Nat
  BY LinkedIsMatching, LenProperties DEF TypeOK, Index
<1>2. CASE index[k] = NoNode
  <2>1. Erased(k) = entries /\ [index EXCEPT ![k] = NoNode] = index
    BY <1>1, <1>2 DEF Erased, Index
  <2>2. \A j \in 1..Len(entries) : entries[j].node \in Nodes
    <3>1. \A j \in 1..Len(entries) : entries[j] \in Entry
      BY <1>1, ElementOfSeq
    <3> QED
      BY <3>1 DEF Entry
  <2> QED
    BY <1>1, <1>2, <2>1, <2>2, NodesAssumption
<1>3. CASE index[k] # NoNode
  <2> DEFINE i == Position(index[k])
  <2>1. i \in 1..Len(entries) /\ entries[i].node = index[k] /\ entries[i].key = k
    BY <1>3, IndexedPosition
  <2>2. Erased(k) = RemoveAt(entries, i)
    BY <1>3 DEF Erased
  <2> HIDE DEF i
  <2>3. /\ RemoveAt(entries, i) \in Seq(Entry)
        /\ Len(RemoveAt(entries, i)) = Len(entries) - 1
    BY <1>1, <2>1, RemoveAtFacts
  <2>4. /\ Linked(RemoveAt(entries, i), [index EXCEPT ![k] = NoNode])
        /\ [index EXCEPT ![k] = NoNode] \in Index
        /\ \A j \in 1..Len(RemoveAt(entries, i)) :
             \E h \in 1..Len(entries) : h # i /\ RemoveAt(entries, i)[j] = entries[h]
    BY <1>1, <2>1, EraseKeepsLinked
  <2>5. \A h \in 1..Len(entries) : h # i => entries[h].node # index[k]
    BY <1>1, <2>1 DEF Linked
  <2>6. Len(RemoveAt(entries, i)) < Len(entries)
    BY <1>1, <2>3
  <2> QED
    BY <2>2, <2>3, <2>4, <2>5, <2>6, <1>1
<1> QED
  BY <1>2, <1>3

\* The constructor leaves the invariant true.
LEMMA InitIInv == Init => IInv
<1> SUFFICES ASSUME Init PROVE IInv
  OBVIOUS
<1>1. entries \in Seq(Entry) /\ DOMAIN entries = {} /\ Len(entries) = 0
  BY EmptySeq DEF Init
<1>2. TypeOK
  <2>1. remaining \in 0..Interval
    BY IntervalType DEF Init
  <2>2. index \in [Keys -> Nodes \union {NoNode}]
    BY DEF Init
  <2> QED
    BY <1>1, <2>1, <2>2 DEF Init, TypeOK, SweeperPlaces, OwnerPlaces
<1>3. IndexMatchesEntries
  BY <1>1 DEF Init, IndexMatchesEntries, IndexOfEntries, EntriesOfIndex, DistinctNodes
<1>4. WithinCapacity /\ SweepIteratorValid
  BY <1>1, MaxElementsAssumption DEF Init, WithinCapacity, SweepIteratorValid
<1> QED
  BY <1>2, <1>3, <1>4 DEF IInv

\* A step that leaves the list and the index alone disturbs nothing but,
\* perhaps, the iterator of the sweep.
LEMMA ListUntouched ==
  ASSUME IInv, UNCHANGED list
  PROVE  /\ entries' \in Seq(Entry)
         /\ index' \in [Keys -> Nodes \union {NoNode}]
         /\ IndexMatchesEntries'
         /\ WithinCapacity'
BY DEF IInv, TypeOK, list, IndexMatchesEntries, IndexOfEntries, EntriesOfIndex,
       DistinctNodes, WithinCapacity

\* get moves a hit to the front: the splice only permutes the list.
LEMMA GetHitKeepsIInv ==
  ASSUME IInv, NEW k \in Keys, GetHit(k)
  PROVE  IInv'
<1> DEFINE i == Position(index[k])
           without == [index EXCEPT ![k] = NoNode]
<1>1. TypeOK /\ IndexMatchesEntries /\ WithinCapacity /\ Len(entries) \in Nat
  BY LenProperties DEF IInv, TypeOK
<1>2. /\ i \in 1..Len(entries) /\ entries[i] \in Entry
      /\ entries[i].node = index[k] /\ entries[i].key = k
  BY <1>1, IndexedPosition DEF GetHit
<1>3. /\ Erased(k) \in Seq(Entry) /\ without \in Index /\ Linked(Erased(k), without)
      /\ Len(Erased(k)) < Len(entries)
      /\ \A j \in 1..Len(Erased(k)) : Erased(k)[j].node # index[k]
  BY <1>1, ErasedFacts DEF GetHit
<1>4. entries' = Cons(entries[i], Erased(k)) /\ index' = index
  BY DEF GetHit, SplicedToFront
<1>5. without[k] = NoNode /\ [without EXCEPT ![k] = index[k]] = index
  BY <1>1 DEF TypeOK
<1> HIDE DEF i, without
<1>6. Linked(Cons(entries[i], Erased(k)), index)
  <2>1. without[entries[i].key] = NoNode
    BY <1>2, <1>5
  <2>2. \A j \in 1..Len(Erased(k)) : Erased(k)[j].node # entries[i].node
    BY <1>2, <1>3
  <2>3. Linked(Cons(entries[i], Erased(k)), [without EXCEPT ![entries[i].key] = entries[i].node])
    BY <1>2, <1>3, <2>1, <2>2, PushKeepsLinked
  <2> QED
    BY <2>3, <1>2, <1>5
<1>7. Cons(entries[i], Erased(k)) \in Seq(Entry) /\ Len(Cons(entries[i], Erased(k))) = Len(Erased(k)) + 1
  BY <1>2, <1>3, ConsEntryFacts
<1>8. TypeOK'
  <2>1. entries[i].value \in Values
    BY <1>2 DEF Entry
  <2> QED
    BY <1>1, <1>4, <1>7, <2>1 DEF GetHit, i, TypeOK, Returns, thread, life
<1>9. IndexMatchesEntries'
  <2>1. entries' \in Seq(Entry) /\ Linked(entries', index')
    BY <1>4, <1>5, <1>6, <1>7
  <2> QED
    BY <2>1, LinkedIsMatchingNext
<1>10. WithinCapacity'
  BY <1>1, <1>3, <1>4, <1>7, LenProperties, MaxElementsAssumption DEF WithinCapacity
<1>11. SweepIteratorValid'
  BY DEF GetHit, Callable, MutexFree, thread, SweepIteratorValid
<1> QED
  BY <1>8, <1>9, <1>10, <1>11 DEF IInv

\* get erases an expired entry from the list and from the index.
LEMMA GetExpiredKeepsIInv ==
  ASSUME IInv, NEW k \in Keys, GetExpired(k)
  PROVE  IInv'
<1>1. TypeOK /\ IndexMatchesEntries /\ WithinCapacity /\ Len(entries) \in Nat
  BY LenProperties DEF IInv, TypeOK
<1>2. /\ entries' \in Seq(Entry) /\ index' \in Index /\ Linked(entries', index')
      /\ Len(entries') <= Len(entries)
  BY <1>1, ErasedFacts DEF GetExpired
<1>3. TypeOK'
  BY <1>1, <1>2 DEF GetExpired, TypeOK, Returns, thread, life, Index
<1>4. IndexMatchesEntries'
  BY <1>2, LinkedIsMatchingNext
<1>5. WithinCapacity'
  BY <1>1, <1>2, LenProperties, MaxElementsAssumption DEF WithinCapacity
<1>6. SweepIteratorValid'
  BY DEF GetExpired, Callable, MutexFree, thread, SweepIteratorValid
<1> QED
  BY <1>3, <1>4, <1>5, <1>6 DEF IInv

\* put erases the old entry, pushes the new one and evicts the last if the
\* list is one too long.
LEMMA PutKeepsIInv ==
  ASSUME IInv, NEW k \in Keys, NEW v \in Values, Put(k, v)
  PROVE  IInv'
<1>1. TypeOK /\ IndexMatchesEntries /\ WithinCapacity /\ Len(entries) \in Nat
  BY LenProperties DEF IInv, TypeOK
<1>2. PICK n \in UnusedNodes(Erased(k)) :
        Evict(Cons(NewEntry(n, k, v), Erased(k)), [index EXCEPT ![k] = n])
  BY DEF Put
<1> DEFINE e == NewEntry(n, k, v)
           rest == Erased(k)
           without == [index EXCEPT ![k] = NoNode]
           pushed == Cons(e, rest)
           pointing == [index EXCEPT ![k] = n]
<1>3. /\ rest \in Seq(Entry) /\ without \in Index /\ Linked(rest, without)
      /\ Len(rest) <= Len(entries) /\ Len(rest) \in Nat
      /\ \A j \in 1..Len(rest) : \E h \in 1..Len(entries) : rest[j] = entries[h]
  BY <1>1, ErasedFacts, LenProperties
<1>4. e \in Entry /\ e.key = k /\ e.node = n
  BY AgeCapAssumption DEF NewEntry, UnusedNodes, Entry, Ages
<1>5. without[k] = NoNode /\ [without EXCEPT ![k] = n] = pointing
  BY <1>1 DEF TypeOK
<1>6. \A j \in 1..Len(rest) : rest[j].node # n
  BY <1>2, <1>3, LenProperties DEF UnusedNodes
<1> HIDE DEF e, rest, without
<1>7. /\ pushed \in Seq(Entry) /\ Len(pushed) = Len(rest) + 1
      /\ Linked(pushed, pointing) /\ pointing \in Index
  <2>1. /\ Linked(Cons(e, rest), [without EXCEPT ![e.key] = e.node])
        /\ [without EXCEPT ![e.key] = e.node] \in Index
    <3>1. without[e.key] = NoNode /\ \A j \in 1..Len(rest) : rest[j].node # e.node
      BY <1>4, <1>5, <1>6
    <3> QED
      BY <3>1, <1>3, <1>4, PushKeepsLinked
  <2>2. [without EXCEPT ![e.key] = e.node] = pointing
    BY <1>4, <1>5
  <2>3. Cons(e, rest) \in Seq(Entry) /\ Len(Cons(e, rest)) = Len(rest) + 1
    BY <1>3, <1>4, ConsEntryFacts
  <2> QED
    BY <2>1, <2>2, <2>3
<1>8. Evict(pushed, pointing)
  BY <1>2 DEF e, rest
<1>9. Len(pushed) <= MaxElements + 1 /\ Len(pushed) \in Nat
  BY <1>1, <1>3, <1>7, MaxElementsAssumption DEF WithinCapacity
<1> HIDE DEF pushed, pointing
<1>10. /\ entries' \in Seq(Entry) /\ index' \in Index
       /\ Linked(entries', index') /\ Len(entries') <= MaxElements
  <2>1. CASE Len(pushed) > MaxElements
    <3> DEFINE last == Len(pushed)
    <3>1. /\ index' = [pointing EXCEPT ![pushed[last].key] = NoNode]
          /\ entries' = SubSeq(pushed, 1, Len(pushed) - 1)
      BY <1>8, <2>1 DEF Evict
    <3>2. last \in 1..Len(pushed) /\ Len(pushed) > 0
      BY <1>9, <2>1, MaxElementsAssumption
    <3>3. entries' = RemoveAt(pushed, last)
      BY <3>1, <3>2, <1>7, PopBackIsRemoveAt
    <3>4. RemoveAt(pushed, last) \in Seq(Entry) /\ Len(RemoveAt(pushed, last)) = Len(pushed) - 1
      BY <3>2, <1>7, RemoveAtFacts
    <3>5. /\ Linked(RemoveAt(pushed, last), [pointing EXCEPT ![pushed[last].key] = NoNode])
          /\ [pointing EXCEPT ![pushed[last].key] = NoNode] \in Index
      BY <3>2, <1>7, EraseKeepsLinked
    <3>6. Len(pushed) - 1 <= MaxElements
      BY <1>9, MaxElementsAssumption
    <3> QED
      BY <3>1, <3>3, <3>4, <3>5, <3>6
  <2>2. CASE ~(Len(pushed) > MaxElements)
    <3>1. index' = pointing /\ entries' = pushed
      BY <1>8, <2>2 DEF Evict
    <3>2. Len(pushed) <= MaxElements
      BY <1>9, <2>2, MaxElementsAssumption
    <3> QED
      BY <3>1, <3>2, <1>7
  <2> QED
    BY <2>1, <2>2
<1>11. TypeOK'
  BY <1>1, <1>10 DEF Put, TypeOK, thread, life, Index
<1>12. IndexMatchesEntries'
  BY <1>10, LinkedIsMatchingNext
<1>13. SweepIteratorValid'
  BY DEF Put, Callable, MutexFree, thread, SweepIteratorValid
<1> QED
  BY <1>10, <1>11, <1>12, <1>13 DEF IInv, WithinCapacity

\* The sweep erases the entry its iterator points to and goes on to the next.
LEMMA SweepRemovesKeepsIInv ==
  ASSUME IInv, SweepRemoves
  PROVE  IInv'
<1> DEFINE i == Position(it)
           n == Len(entries)
<1>1. /\ TypeOK /\ IndexMatchesEntries /\ WithinCapacity /\ SweepIteratorValid
      /\ n \in Nat /\ entries \in Seq(Entry) /\ index \in Index /\ Linked(entries, index)
  BY LenProperties, LinkedIsMatching DEF IInv, TypeOK, Index
<1>2. i \in 1..n
  BY <1>1, PositionFacts DEF SweepRemoves, SweepIteratorValid
<1>3. /\ entries' = RemoveAt(entries, i)
      /\ index' = [index EXCEPT ![entries[i].key] = NoNode]
      /\ it' = Following(i) /\ UNCHANGED <<sweeper, remaining, life>> /\ Silent
  BY DEF SweepRemoves
<1> HIDE DEF i
<1>4. /\ entries' \in Seq(Entry) /\ Len(entries') = n - 1
      /\ \A j \in 1..(n - 1) : entries'[j] = IF j < i THEN entries[j] ELSE entries[j + 1]
  BY <1>1, <1>2, <1>3, RemoveAtFacts
<1>5. index' \in Index /\ Linked(entries', index')
  BY <1>1, <1>2, <1>3, EraseKeepsLinked
<1>6. \/ i = n /\ it' = NoNode
      \/ i < n /\ it' = entries[i + 1].node /\ i + 1 \in 1..n
  BY <1>1, <1>2, <1>3 DEF Following
<1>7. it' \in Nodes \union {NoNode}
  <2>1. \A j \in 1..n : entries[j] \in Entry
    BY <1>1, ElementOfSeq
  <2> QED
    BY <1>6, <2>1 DEF Entry
<1>8. TypeOK'
  BY <1>1, <1>3, <1>4, <1>5, <1>7 DEF TypeOK, Silent, life, Index
<1>9. IndexMatchesEntries'
  BY <1>4, <1>5, LinkedIsMatchingNext
<1>10. WithinCapacity'
  BY <1>1, <1>4, MaxElementsAssumption DEF WithinCapacity
<1>11. SweepIteratorValid'
  <2>1. SUFFICES ASSUME it' # NoNode
                 PROVE  \E j \in DOMAIN entries' : entries'[j].node = it'
    BY DEF SweepIteratorValid
  <2>2. i \in 1..(n - 1) /\ it' = entries[i + 1].node
    BY <1>1, <1>2, <1>6, <2>1
  <2>3. entries'[i] = entries[i + 1]
    BY <1>4, <2>2
  <2>4. i \in DOMAIN entries'
    BY <1>4, <2>2, LenProperties
  <2> QED
    BY <2>2, <2>3, <2>4
<1> QED
  BY <1>8, <1>9, <1>10, <1>11 DEF IInv

\* Time makes the entries older and nothing else.
LEMMA TickKeepsIInv ==
  ASSUME IInv, Tick
  PROVE  IInv'
<1> DEFINE n == Len(entries)
<1>1. /\ TypeOK /\ IndexMatchesEntries /\ WithinCapacity /\ SweepIteratorValid
      /\ n \in Nat /\ DOMAIN entries = 1..n /\ entries \in Seq(Entry)
  BY LenProperties DEF IInv, TypeOK
<1>2. \A i \in 1..n : entries[i] \in Entry
  BY <1>1, ElementOfSeq
<1>3. \A age \in Ages : Older(age) \in Ages
  BY AgeCapAssumption DEF Ages, Older
<1>4. /\ entries' = [i \in 1..n |-> [entries[i] EXCEPT !.age = Older(@)]]
      /\ UNCHANGED <<index, it, sweeper, life>> /\ Silent
  BY <1>1 DEF Tick
<1>5. \A i \in 1..n : /\ entries'[i] \in Entry
                      /\ entries'[i].node = entries[i].node
                      /\ entries'[i].key = entries[i].key
  BY <1>2, <1>3, <1>4 DEF Entry
<1>6. entries' \in [1..n -> Entry]
  BY <1>4, <1>5
<1>7. entries' \in Seq(Entry) /\ Len(entries') = n /\ DOMAIN entries' = 1..n
  <2>1. entries' \in Seq(Entry)
    BY <1>1, <1>6, SeqDef
  <2>2. DOMAIN entries' = 1..n
    BY <1>6
  <2> QED
    BY <2>1, <2>2, <1>1, LenProperties
<1>8. remaining' \in 0..Interval
  BY <1>1, IntervalType DEF Tick, TypeOK
<1>9. TypeOK'
  BY <1>1, <1>4, <1>7, <1>8 DEF TypeOK, Silent, life
<1>10. IndexMatchesEntries'
  BY <1>1, <1>4, <1>5, <1>7
     DEF IndexMatchesEntries, IndexOfEntries, EntriesOfIndex, DistinctNodes
<1>11. WithinCapacity' /\ SweepIteratorValid'
  BY <1>1, <1>4, <1>5, <1>7 DEF WithinCapacity, SweepIteratorValid
<1> QED
  BY <1>9, <1>10, <1>11 DEF IInv

\* The members are destroyed after the sweeper has ended.
LEMMA JoinKeepsIInv ==
  ASSUME IInv, Join
  PROVE  IInv'
<1>1. entries' \in Seq(Entry) /\ DOMAIN entries' = {} /\ Len(entries') = 0
  BY EmptySeq DEF Join
<1>2. TypeOK'
  BY <1>1 DEF IInv, Join, TypeOK, Silent, thread, OwnerPlaces
<1>3. IndexMatchesEntries'
  BY <1>1 DEF Join, IndexMatchesEntries, IndexOfEntries, EntriesOfIndex, DistinctNodes
<1>4. WithinCapacity' /\ SweepIteratorValid'
  BY <1>1, MaxElementsAssumption DEF Join, thread, WithinCapacity, SweepIteratorValid
<1> QED
  BY <1>2, <1>3, <1>4 DEF IInv

\* The steps that leave the list alone.
QuietStep ==
  \/ \E k \in Keys : GetAbsent(k)
  \/ LoopTest \/ TestPredicate \/ Block \/ Timeout \/ CheckStop
  \/ LockForSweep \/ SweepKeeps \/ EndSweep
  \/ SpuriousWakeup \/ RequestStop \/ NotifyAll
  \/ UNCHANGED vars

\* The steps that touch neither list nor index keep the invariant.
LEMMA QuietStepKeepsIInv ==
  ASSUME IInv, QuietStep
  PROVE  IInv'
<1>1. UNCHANGED list
  BY DEF QuietStep, GetAbsent, LoopTest, TestPredicate, Block, Timeout, CheckStop,
         LockForSweep, SweepKeeps, EndSweep, SpuriousWakeup, RequestStop, NotifyAll, vars, list
<1>2. /\ entries' \in Seq(Entry) /\ index' \in [Keys -> Nodes \union {NoNode}]
      /\ IndexMatchesEntries' /\ WithinCapacity'
      /\ UNCHANGED <<entries, index>>
  BY <1>1, ListUntouched DEF list
<1>3. TypeOK /\ SweepIteratorValid
  BY DEF IInv
<1>4. /\ DOMAIN entries = 1..Len(entries) /\ Len(entries) \in Nat
      /\ \A i \in 1..Len(entries) : entries[i] \in Entry
  BY <1>3, LenProperties, ElementOfSeq DEF TypeOK
<1>5. TypeOK' /\ SweepIteratorValid'
  <2>1. CASE \E k \in Keys : GetAbsent(k)
    <3>1. PICK k \in Keys : GetAbsent(k)
      BY <2>1
    <3>2. answer' \in [key : Keys, value : Values \union {Nullopt}]
      BY <3>1 DEF GetAbsent, Returns
    <3> QED
      BY <3>1, <3>2, <1>2, <1>3 DEF GetAbsent, thread, life, TypeOK, SweepIteratorValid
  <2>2. CASE LoopTest
    <3>1. remaining' \in 0..Interval
      BY <2>2, <1>3, IntervalType DEF LoopTest, TypeOK
    <3> QED
      BY <2>2, <3>1, <1>2, <1>3
         DEF LoopTest, Silent, life, TypeOK, SweepIteratorValid, SweeperPlaces
  <2>3. CASE TestPredicate
    BY <2>3, <1>2, <1>3
       DEF TestPredicate, Silent, life, TypeOK, SweepIteratorValid, SweeperPlaces
  <2>4. CASE Block
    BY <2>4, <1>2, <1>3 DEF Block, Silent, life, TypeOK, SweepIteratorValid, SweeperPlaces
  <2>5. CASE Timeout
    BY <2>5, <1>2, <1>3 DEF Timeout, Silent, life, TypeOK, SweepIteratorValid, SweeperPlaces
  <2>6. CASE CheckStop
    BY <2>6, <1>2, <1>3 DEF CheckStop, Silent, life, TypeOK, SweepIteratorValid, SweeperPlaces
  <2>7. CASE LockForSweep
    <3>1. it' = IF entries = <<>> THEN NoNode ELSE entries[1].node
      BY <2>7 DEF LockForSweep, Begin
    <3>2. entries # <<>> => 1 \in DOMAIN entries /\ entries[1] \in Entry
      BY <1>3, <1>4, EmptySeq DEF TypeOK
    <3>3. it' \in Nodes \union {NoNode}
      BY <3>1, <3>2 DEF Entry
    <3>4. it' # NoNode => \E i \in DOMAIN entries : entries[i].node = it'
      BY <3>1, <3>2
    <3> QED
      BY <2>7, <3>3, <3>4, <1>2, <1>3
         DEF LockForSweep, Silent, life, TypeOK, SweepIteratorValid, SweeperPlaces
  <2>8. CASE SweepKeeps
    <3> DEFINE i == Position(it)
    <3>1. i \in 1..Len(entries)
      BY <2>8, <1>3, PositionFacts DEF SweepKeeps, SweepIteratorValid
    <3>2. it' = IF i < Len(entries) THEN entries[i + 1].node ELSE NoNode
      BY <2>8 DEF SweepKeeps, Following
    <3> HIDE DEF i
    <3>3. i < Len(entries) => i + 1 \in 1..Len(entries) /\ entries[i + 1] \in Entry
      BY <3>1, <1>4
    <3>4. it' \in Nodes \union {NoNode}
      BY <3>2, <3>3 DEF Entry
    <3>5. it' # NoNode => \E j \in DOMAIN entries : entries[j].node = it'
      BY <3>2, <3>3, <1>4
    <3> QED
      BY <2>8, <3>4, <3>5, <1>2, <1>3
         DEF SweepKeeps, Silent, life, TypeOK, SweepIteratorValid
  <2>9. CASE EndSweep
    BY <2>9, <1>2, <1>3 DEF EndSweep, Silent, life, TypeOK, SweepIteratorValid, SweeperPlaces
  <2>10. CASE SpuriousWakeup
    BY <2>10, <1>2, <1>3
       DEF SpuriousWakeup, Silent, life, TypeOK, SweepIteratorValid, SweeperPlaces
  <2>11. CASE RequestStop
    BY <2>11, <1>2, <1>3
       DEF RequestStop, Silent, thread, TypeOK, SweepIteratorValid, OwnerPlaces
  <2>12. CASE NotifyAll
    BY <2>12, <1>2, <1>3
       DEF NotifyAll, Silent, TypeOK, SweepIteratorValid, SweeperPlaces, OwnerPlaces
  <2>13. CASE UNCHANGED vars
    BY <2>13, <1>2, <1>3 DEF vars, TypeOK, SweepIteratorValid
  <2> QED
    BY <2>1, <2>2, <2>3, <2>4, <2>5, <2>6, <2>7, <2>8, <2>9, <2>10, <2>11, <2>12, <2>13
       DEF QuietStep
<1> QED
  BY <1>2, <1>5 DEF IInv

\* Every step keeps the invariant: one case for each step that touches the
\* list, one for all that do not.
LEMMA NextKeepsIInv == IInv /\ [Next]_vars => IInv'
<1> SUFFICES ASSUME IInv, [Next]_vars PROVE IInv'
  OBVIOUS
<1>1. ASSUME NEW k \in Keys, GetHit(k) PROVE IInv'
  BY <1>1, GetHitKeepsIInv
<1>2. ASSUME NEW k \in Keys, GetExpired(k) PROVE IInv'
  BY <1>2, GetExpiredKeepsIInv
<1>3. ASSUME NEW k \in Keys, NEW v \in Values, Put(k, v) PROVE IInv'
  BY <1>3, PutKeepsIInv
<1>4. CASE SweepRemoves
  BY <1>4, SweepRemovesKeepsIInv
<1>5. CASE Tick
  BY <1>5, TickKeepsIInv
<1>6. CASE Join
  BY <1>6, JoinKeepsIInv
<1>7. CASE QuietStep
  BY <1>7, QuietStepKeepsIInv
<1> QED
  BY <1>1, <1>2, <1>3, <1>4, <1>5, <1>6, <1>7
     DEF Next, Call, Get, SweeperStep, OwnerStep, QuietStep

\* The inductive invariant holds in every reachable state.
THEOREM IInvAlways == Spec => []IInv
<1>1. QED
  BY InitIInv, NextKeepsIInv, PTL DEF Spec

-----------------------------------------------------------------------------
(* The results. *)

\* Every variable keeps to its type.
THEOREM TypesCorrect == Spec => []TypeOK
<1>1. IInv => TypeOK
  BY DEF IInv
<1> QED
  BY <1>1, IInvAlways, PTL

\* The list and the index describe the same map in every reachable state: no
\* iterator in index_ dangles and no key is listed twice.
THEOREM ListAndIndexAgree == Spec => []IndexMatchesEntries
<1>1. IInv => IndexMatchesEntries
  BY DEF IInv
<1> QED
  BY <1>1, IInvAlways, PTL

\* The cache never holds more than max_elements entries once put returns.
THEOREM CapacityKept == Spec => []WithinCapacity
<1>1. IInv => WithinCapacity
  BY DEF IInv
<1> QED
  BY <1>1, IInvAlways, PTL

\* The sweep never follows an iterator to a node that was freed.
THEOREM SweepNeverDangles == Spec => []SweepIteratorValid
<1>1. IInv => SweepIteratorValid
  BY DEF IInv
<1> QED
  BY <1>1, IInvAlways, PTL

\* After stopping_ is set the sweeper only gets closer to its end: it is
\* through after at most four steps of its own besides those of a sweep
\* already begun, whatever the other threads do.
THEOREM StopIsFinal == Spec => StopOnlyApproachesExit
<1>1. ASSUME TypeOK, [Next]_vars, stopping, sweeper' # sweeper
      PROVE  ExitDistance[sweeper'] < ExitDistance[sweeper]
  <2>1. \/ sweeper = "loop" /\ sweeper' = "done"
        \/ sweeper = "wait" /\ sweeper' = "check"
        \/ sweeper = "block" /\ sweeper' = "blocked"
        \/ sweeper = "blocked" /\ sweeper' \in {"check", "wait"}
        \/ sweeper = "check" /\ sweeper' = "done"
        \/ sweeper = "lock" /\ sweeper' = "sweeping"
        \/ sweeper = "sweeping" /\ sweeper' = "loop"
    BY <1>1 DEF Next, Call, Get, GetAbsent, GetExpired, GetHit, Put, SweeperStep, LoopTest,
                TestPredicate, Block, Timeout, CheckStop, LockForSweep, SweepKeeps,
                SweepRemoves, EndSweep, SpuriousWakeup, RequestStop, OwnerStep, NotifyAll,
                Join, Tick, thread, vars
  <2>2. /\ ExitDistance["done"] = 0 /\ ExitDistance["loop"] = 1
        /\ ExitDistance["check"] = 1 /\ ExitDistance["sweeping"] = 2
        /\ ExitDistance["wait"] = 2 /\ ExitDistance["lock"] = 3
        /\ ExitDistance["blocked"] = 3 /\ ExitDistance["block"] = 4
    BY DEF ExitDistance, SweeperPlaces
  <2> QED
    BY <2>1, <2>2
<1>2. TypeOK /\ [Next]_vars =>
        [stopping /\ sweeper' # sweeper => ExitDistance[sweeper'] < ExitDistance[sweeper]]_vars
  BY <1>1
<1> QED
  BY <1>2, TypesCorrect, PTL DEF Spec, StopOnlyApproachesExit

-----------------------------------------------------------------------------
(* The bound on ages, which moves with the deadline of the sweeper. *)

\* The oldest an entry is that a sweep leaves behind.
Good == IF MaxAge > 0 THEN MaxAge ELSE 0

NoneOlder(es, age) == \A i \in 1..Len(es) : es[i].age <= age

\* What the sweep has passed is good.
PassedAreGood(es, node) ==
  /\ node = NoNode => NoneOlder(es, Good)
  /\ \A i, j \in 1..Len(es) : es[j].node = node /\ i < j => es[i].age <= Good

OnTime ==
  owner = "serving" =>
    /\ ~stopping
    /\ sweeper # "done"
    /\ NoneOlder(entries, LongestStay - remaining)
    /\ sweeper = "loop" => NoneOlder(entries, Good)
    /\ sweeper = "sweeping" => PassedAreGood(entries, it)

LEMMA Numbers ==
  /\ Good \in Nat /\ Interval \in Nat /\ LongestStay = Good + Interval
  /\ \A age \in Ages : ~Expired(age) => age <= Good
  /\ Ages \subseteq Nat
BY MaxAgeAssumption, AgeCapAssumption, IntervalType DEF Good, LongestStay, Ages, Expired

LEMMA LongestStayNumber == LongestStay \in Nat
<1>1. Good + Interval \in Nat
  BY Numbers
<1> QED
  BY <1>1, Numbers

LEMMA ListFacts ==
  ASSUME IInv
  PROVE  /\ entries \in Seq(Entry) /\ DOMAIN entries = 1..Len(entries) /\ Len(entries) \in Nat
         /\ \A i \in 1..Len(entries) :
              /\ entries[i] \in Entry /\ entries[i].age \in Ages
              /\ entries[i].node \in Nodes /\ entries[i].node # NoNode
         /\ \A i, j \in 1..Len(entries) : entries[i].node = entries[j].node => i = j
         /\ remaining \in Nat /\ remaining <= Interval
<1>1. /\ entries \in Seq(Entry) /\ DOMAIN entries = 1..Len(entries) /\ Len(entries) \in Nat
      /\ DistinctNodes /\ remaining \in 0..Interval
  BY LenProperties DEF IInv, TypeOK, IndexMatchesEntries
<1>2. \A i \in 1..Len(entries) : entries[i] \in Entry
  BY <1>1, ElementOfSeq
<1>3. \A i \in 1..Len(entries) :
        entries[i].age \in Ages /\ entries[i].node \in Nodes /\ entries[i].node # NoNode
  BY <1>2, NodesAssumption DEF Entry
<1> QED
  BY <1>1, <1>2, <1>3, IntervalType DEF DistinctNodes

-----------------------------------------------------------------------------
(* The steps. *)

\* get and put move entries about, drop some and add fresh ones.
NoneAged ==
  \A j \in 1..Len(entries') :
    \/ entries'[j].age = 0
    \/ \E h \in 1..Len(entries) : entries'[j] = entries[h]

LEMMA CallAgesNone ==
  ASSUME IInv, Call
  PROVE  NoneAged
<1>1. /\ TypeOK /\ IndexMatchesEntries
  BY DEF IInv
<1>2. ASSUME NEW k \in Keys
      PROVE  /\ Erased(k) \in Seq(Entry) /\ Len(Erased(k)) \in Nat
             /\ \A j \in 1..Len(Erased(k)) :
                  \E h \in 1..Len(entries) : Erased(k)[j] = entries[h]
  BY <1>1, ErasedFacts, LenProperties
<1>3. ASSUME NEW k \in Keys, GetAbsent(k) PROVE NoneAged
  BY <1>3 DEF GetAbsent, list, NoneAged
<1>4. ASSUME NEW k \in Keys, GetExpired(k) PROVE NoneAged
  BY <1>2, <1>4 DEF GetExpired, NoneAged
<1>5. ASSUME NEW k \in Keys, NEW e \in Entry, NEW pushed, pushed = Cons(e, Erased(k)),
             \/ e.age = 0
             \/ \E h \in 1..Len(entries) : e = entries[h]
      PROVE  \A j \in 1..Len(pushed) :
               \/ pushed[j].age = 0
               \/ \E h \in 1..Len(entries) : pushed[j] = entries[h]
  <2>1. /\ Len(pushed) = Len(Erased(k)) + 1 /\ pushed[1] = e
        /\ \A j \in 1..Len(Erased(k)) : pushed[j + 1] = Erased(k)[j]
    <3>1. Erased(k) \in Seq(Entry) /\ pushed = Cons(e, Erased(k))
      BY <1>2, <1>5
    <3> DEFINE rest == Erased(k)
    <3> HIDE DEF rest
    <3>2. rest \in Seq(Entry) /\ pushed = Cons(e, rest)
      BY <3>1 DEF rest
    <3>3. /\ Len(pushed) = Len(rest) + 1 /\ pushed[1] = e
          /\ \A j \in 1..Len(rest) : pushed[j + 1] = rest[j]
      BY <3>2, ConsEntryFacts
    <3> QED
      BY <3>3 DEF rest
  <2> TAKE j \in 1..Len(pushed)
  <2>2. CASE j = 1
    BY <1>5, <2>1, <2>2
  <2>3. CASE j # 1
    <3>1. j - 1 \in 1..Len(Erased(k)) /\ (j - 1) + 1 = j
      BY <1>2, <2>1, <2>3
    <3>2. pushed[j] = Erased(k)[j - 1]
      BY <2>1, <3>1
    <3> QED
      BY <1>2, <3>1, <3>2
  <2> QED
    BY <2>2, <2>3
<1>6. ASSUME NEW k \in Keys, GetHit(k) PROVE NoneAged
  <2> DEFINE e == entries[Position(index[k])]
  <2>1. e \in Entry /\ \E h \in 1..Len(entries) : e = entries[h]
    BY <1>1, <1>6, IndexedPosition DEF GetHit
  <2>2. entries' = Cons(e, Erased(k))
    BY <1>6 DEF GetHit, SplicedToFront
  <2> HIDE DEF e
  <2> QED
    BY <1>5, <2>1, <2>2 DEF NoneAged
<1>7. ASSUME NEW k \in Keys, NEW v \in Values, Put(k, v) PROVE NoneAged
  <2>1. PICK n \in UnusedNodes(Erased(k)) :
          Evict(Cons(NewEntry(n, k, v), Erased(k)), [index EXCEPT ![k] = n])
    BY <1>7 DEF Put
  <2> DEFINE e == NewEntry(n, k, v)
             pushed == Cons(e, Erased(k))
  <2>2. e \in Entry /\ e.age = 0
    BY AgeCapAssumption DEF NewEntry, UnusedNodes, Entry, Ages
  <2>3. Evict(pushed, [index EXCEPT ![k] = n])
    BY <2>1
  <2> HIDE DEF e
  <2>4. \A j \in 1..Len(pushed) :
          \/ pushed[j].age = 0
          \/ \E h \in 1..Len(entries) : pushed[j] = entries[h]
    BY <1>5, <2>2
  <2>5. pushed \in Seq(Entry) /\ Len(pushed) \in Nat
    BY <1>2, <2>2, ConsEntryFacts, LenProperties
  <2> HIDE DEF pushed
  <2>6. CASE Len(pushed) > MaxElements
    <3>1. Len(pushed) > 0 /\ Len(pushed) \in 1..Len(pushed)
      BY <2>5, <2>6, MaxElementsAssumption
    <3>2. entries' = RemoveAt(pushed, Len(pushed))
      BY <2>3, <2>5, <2>6, <3>1, PopBackIsRemoveAt DEF Evict
    <3>3. /\ Len(entries') = Len(pushed) - 1
          /\ \A j \in 1..(Len(pushed) - 1) :
               entries'[j] = IF j < Len(pushed) THEN pushed[j] ELSE pushed[j + 1]
      BY <2>5, <3>1, <3>2, RemoveAtFacts
    <3>4. \A j \in 1..(Len(pushed) - 1) : j < Len(pushed) /\ j \in 1..Len(pushed)
      BY <2>5
    <3>5. \A j \in 1..Len(entries') : j \in 1..Len(pushed) /\ entries'[j] = pushed[j]
      BY <3>3, <3>4
    <3> QED
      BY <2>4, <3>5 DEF NoneAged
  <2>7. CASE ~(Len(pushed) > MaxElements)
    <3>1. entries' = pushed
      BY <2>3, <2>7 DEF Evict
    <3> QED
      BY <2>4, <3>1 DEF NoneAged
  <2> QED
    BY <2>6, <2>7
<1> QED
  BY <1>3, <1>4, <1>6, <1>7 DEF Call, Get

LEMMA CallOnTime ==
  ASSUME IInv, OnTime, Call
  PROVE  OnTime'
<1>1. /\ owner = "serving" /\ sweeper # "sweeping"
      /\ UNCHANGED <<sweeper, remaining, it, stopping, owner>>
  BY DEF Call, Get, GetAbsent, GetExpired, GetHit, Put, Callable, MutexFree, thread, life
<1>2. NoneAged
  BY CallAgesNone
<1>3. ASSUME NEW age \in Nat, NoneOlder(entries, age) PROVE NoneOlder(entries', age)
  BY <1>2, <1>3 DEF NoneAged, NoneOlder
<1>4. LongestStay - remaining \in Nat /\ Good \in Nat
  BY Numbers, ListFacts
<1> QED
  BY <1>1, <1>3, <1>4 DEF OnTime, LongestStay

LEMMA SweepKeepsOnTime ==
  ASSUME IInv, OnTime, SweepKeeps
  PROVE  OnTime'
<1> SUFFICES ASSUME owner = "serving" PROVE OnTime'
  BY DEF OnTime, SweepKeeps, life
<1> DEFINE i == Position(it)
<1>1. /\ i \in 1..Len(entries) /\ entries[i].node = it
  BY PositionFacts DEF IInv, SweepKeeps, SweepIteratorValid
<1>2. /\ it' = IF i < Len(entries) THEN entries[i + 1].node ELSE NoNode
      /\ ~Expired(entries[i].age)
      /\ UNCHANGED <<entries, index, sweeper, remaining, stopping, owner>>
      /\ sweeper = "sweeping"
  BY DEF SweepKeeps, Following, list, life
<1> HIDE DEF i
<1>3. \A g \in 1..i : entries[g].age <= Good
  <2> TAKE g \in 1..i
  <2>1. CASE g = i
    BY <1>1, <1>2, <2>1, ListFacts, Numbers
  <2>2. CASE g # i
    <3>1. g \in 1..Len(entries) /\ g < i
      BY <1>1, <2>2, ListFacts
    <3> QED
      BY <1>1, <1>2, <3>1 DEF OnTime, PassedAreGood
  <2> QED
    BY <2>1, <2>2
<1>4. PassedAreGood(entries, it')
  <2>1. CASE i < Len(entries)
    <3>1. i + 1 \in 1..Len(entries) /\ it' = entries[i + 1].node
      BY <1>1, <1>2, <2>1, ListFacts
    <3>2. it' # NoNode
      BY <3>1, ListFacts
    <3>3. ASSUME NEW g \in 1..Len(entries), NEW h \in 1..Len(entries),
                 entries[h].node = it', g < h
          PROVE  entries[g].age <= Good
      <4>1. h = i + 1
        BY <3>1, <3>3, ListFacts
      <4>2. g \in 1..i
        BY <1>1, <3>3, <4>1
      <4> QED
        BY <1>3, <4>2
    <3> QED
      BY <3>2, <3>3 DEF PassedAreGood
  <2>2. CASE ~(i < Len(entries))
    <3>1. i = Len(entries)
      <4>1. Len(entries) \in Nat
        BY ListFacts
      <4> QED
        BY <1>1, <2>2, <4>1
    <3>2. it' = NoNode
      BY <1>2, <2>2
    <3> QED
      <4>1. \A h \in 1..Len(entries) : entries[h].node # it'
        BY <3>2, ListFacts
      <4> QED
        BY <1>3, <3>1, <4>1 DEF PassedAreGood, NoneOlder
  <2> QED
    BY <2>1, <2>2
<1> QED
  BY <1>2, <1>4 DEF OnTime, LongestStay

LEMMA SweepRemovesOnTime ==
  ASSUME IInv, OnTime, SweepRemoves
  PROVE  OnTime'
<1> SUFFICES ASSUME owner = "serving" PROVE OnTime'
  BY DEF OnTime, SweepRemoves, life
<1> DEFINE i == Position(it)
           n == Len(entries)
<1>1. i \in 1..n /\ entries[i].node = it /\ n \in Nat
  BY PositionFacts, ListFacts DEF IInv, SweepRemoves, SweepIteratorValid
<1>2. /\ it' = IF i < n THEN entries[i + 1].node ELSE NoNode
      /\ entries' = RemoveAt(entries, i)
      /\ UNCHANGED <<sweeper, remaining, stopping, owner>>
      /\ sweeper = "sweeping"
  BY DEF SweepRemoves, Following, life
<1> HIDE DEF i
<1>3. /\ Len(entries') = n - 1
      /\ \A j \in 1..(n - 1) :
           entries'[j] = IF j < i THEN entries[j] ELSE entries[j + 1]
  BY <1>1, <1>2, ListFacts, RemoveAtFacts
<1>4. \A g \in 1..n : g < i => entries[g].age <= Good
  BY <1>1, <1>2 DEF OnTime, PassedAreGood
<1>5. \A j \in 1..(n - 1) : \E h \in 1..n : entries'[j] = entries[h]
  <2> TAKE j \in 1..(n - 1)
  <2>1. j \in 1..n /\ j + 1 \in 1..n
    BY <1>1
  <2> QED
    BY <1>3, <2>1
<1>6. NoneOlder(entries', LongestStay - remaining)
  <2>1. NoneOlder(entries, LongestStay - remaining)
    BY DEF OnTime
  <2> QED
    BY <1>3, <1>5, <2>1 DEF NoneOlder
<1>7. \A j \in 1..(n - 1) : j < i => entries'[j].age <= Good
  <2> TAKE j \in 1..(n - 1)
  <2> HAVE j < i
  <2>1. j \in 1..n /\ entries'[j] = entries[j]
    BY <1>1, <1>3
  <2> QED
    BY <1>4, <2>1
<1>8. PassedAreGood(entries', it')
  <2>1. CASE i < n
    <3>1. i + 1 \in 1..n /\ it' = entries[i + 1].node
      BY <1>1, <1>2, <2>1
    <3>2. it' # NoNode
      BY <3>1, ListFacts
    <3>3. ASSUME NEW g \in 1..(n - 1), NEW h \in 1..(n - 1), entries'[h].node = it', g < h
          PROVE  entries'[g].age <= Good
      <4>1. h <= i
        <5>1. CASE h < i
          BY <1>1, <5>1
        <5>2. CASE ~(h < i)
          <6>1. h + 1 \in 1..n /\ entries'[h] = entries[h + 1]
            BY <1>1, <1>3, <5>2
          <6>2. entries[h + 1].node = entries[i + 1].node
            BY <3>1, <3>3, <6>1
          <6>3. h + 1 = i + 1
            BY <3>1, <6>1, <6>2, ListFacts
          <6> QED
            BY <1>1, <6>3
        <5> QED
          BY <5>1, <5>2
      <4>2. g < i
        BY <1>1, <3>3, <4>1
      <4> QED
        BY <1>7, <4>2
    <3> QED
      BY <1>3, <3>2, <3>3 DEF PassedAreGood
  <2>2. CASE ~(i < n)
    <3>1. it' = NoNode /\ \A j \in 1..(n - 1) : j < i
      BY <1>1, <1>2, <2>2
    <3> HIDE DEF n
    <3>2. \A j \in 1..Len(entries') : entries'[j].age <= Good
      BY <1>3, <1>7, <3>1
    <3> QED
      BY <3>2 DEF PassedAreGood, NoneOlder
  <2> QED
    BY <2>1, <2>2
<1> QED
  BY <1>2, <1>6, <1>8 DEF OnTime, LongestStay

LEMMA LockForSweepOnTime ==
  ASSUME IInv, OnTime, LockForSweep
  PROVE  OnTime'
<1> SUFFICES ASSUME owner = "serving" PROVE OnTime'
  BY DEF OnTime, LockForSweep, life
<1>1. /\ it' = IF entries = <<>> THEN NoNode ELSE entries[1].node
      /\ UNCHANGED <<entries, remaining, stopping, owner>> /\ sweeper' = "sweeping"
  BY DEF LockForSweep, Begin, list, life
<1>2. PassedAreGood(entries, it')
  <2>1. CASE entries = <<>>
    <3>1. Len(entries) = 0
      BY <2>1
    <3> QED
      BY <3>1 DEF PassedAreGood, NoneOlder
  <2>2. CASE entries # <<>>
    <3>1. 1 \in 1..Len(entries) /\ it' = entries[1].node
      BY <1>1, <2>2, ListFacts, EmptySeq
    <3>2. it' # NoNode
      BY <3>1, ListFacts
    <3>3. \A g, h \in 1..Len(entries) : ~(entries[h].node = it' /\ g < h)
      <4> SUFFICES ASSUME NEW g \in 1..Len(entries), NEW h \in 1..Len(entries),
                          entries[h].node = it', g < h
                   PROVE  FALSE
        OBVIOUS
      <4>1. h = 1
        BY <3>1, ListFacts
      <4> QED
        BY <4>1
    <3> QED
      BY <3>2, <3>3 DEF PassedAreGood
  <2> QED
    BY <2>1, <2>2
<1> QED
  BY <1>1, <1>2 DEF OnTime, LongestStay

LEMMA TickOnTime ==
  ASSUME IInv, IInv', OnTime, PunctualTick
  PROVE  OnTime'
<1> SUFFICES ASSUME owner = "serving" PROVE OnTime'
  BY DEF OnTime, PunctualTick, Tick, life
<1>1. /\ sweeper = "blocked" /\ remaining > 0
      /\ entries' = [i \in 1..Len(entries) |-> [entries[i] EXCEPT !.age = Older(@)]]
      /\ remaining' = remaining - 1
      /\ UNCHANGED <<sweeper, stopping, owner>>
  BY ListFacts DEF OnTime, PunctualTick, Tick, life
<1>2. Len(entries') = Len(entries)
  <2>1. entries' \in Seq(Entry) /\ DOMAIN entries' = 1..Len(entries)
    BY <1>1 DEF IInv, TypeOK
  <2> QED
    BY <2>1, ListFacts, LenProperties
<1>3. ASSUME NEW i \in 1..Len(entries)
      PROVE  entries'[i].age <= LongestStay - remaining'
  <2>1. entries[i] \in Entry /\ entries[i].age \in Ages
    BY ListFacts
  <2>2. entries'[i].age = Older(entries[i].age)
    BY <1>1, <2>1 DEF Entry
  <2>3. entries[i].age <= LongestStay - remaining
    BY DEF OnTime, NoneOlder
  <2>4. entries[i].age \in Nat /\ AgeCap \in Nat
    BY <2>1, Numbers, AgeCapAssumption
  <2>5. Older(entries[i].age) \in Nat /\ Older(entries[i].age) <= entries[i].age + 1
    BY <2>4 DEF Older
  <2>6. remaining \in Nat /\ LongestStay \in Nat
    BY ListFacts, LongestStayNumber
  <2> QED
    BY <1>1, <2>2, <2>3, <2>4, <2>5, <2>6
<1> QED
  BY <1>1, <1>2, <1>3 DEF OnTime, NoneOlder, LongestStay

\* The steps between two sweeps.
LEMMA SleepOnTime ==
  ASSUME IInv, OnTime,
         \/ LoopTest \/ TestPredicate \/ Block \/ Timeout \/ CheckStop \/ EndSweep
         \/ SpuriousWakeup
  PROVE  OnTime'
<1> SUFFICES ASSUME owner = "serving" PROVE OnTime'
  BY DEF OnTime, LoopTest, TestPredicate, Block, Timeout, CheckStop, EndSweep,
         SpuriousWakeup, life
<1>1. ~stopping /\ entries' = entries /\ UNCHANGED <<stopping, owner>>
  BY DEF OnTime, LoopTest, TestPredicate, Block, Timeout, CheckStop, EndSweep,
         SpuriousWakeup, list, life
<1>2. CASE LoopTest
  <2>1. /\ sweeper = "loop" /\ sweeper' = "wait" /\ remaining' = Interval
    BY <1>1, <1>2 DEF LoopTest
  <2>2. LongestStay - remaining' = Good
    BY <2>1, Numbers
  <2> QED
    BY <1>1, <2>1, <2>2 DEF OnTime, LongestStay
<1>3. CASE EndSweep
  BY <1>1, <1>3 DEF EndSweep, OnTime, PassedAreGood, LongestStay
<1>4. CASE TestPredicate \/ Block \/ Timeout \/ CheckStop \/ SpuriousWakeup
  <2>1. sweeper' \notin {"done", "loop", "sweeping"} /\ remaining' = remaining
    BY <1>1, <1>4 DEF TestPredicate, Block, Timeout, CheckStop, SpuriousWakeup
  <2> QED
    BY <1>1, <2>1 DEF OnTime, LongestStay
<1> QED
  BY <1>2, <1>3, <1>4

LEMMA OnTimeStep ==
  ASSUME IInv, IInv', OnTime, [PunctualNext]_vars
  PROVE  OnTime'
<1>1. CASE RequestStop \/ OwnerStep
  BY <1>1 DEF RequestStop, OwnerStep, NotifyAll, Join, OnTime
<1>2. CASE UNCHANGED vars
  BY <1>2 DEF vars, list, thread, life, OnTime, LongestStay
<1> QED
  BY <1>1, <1>2, CallOnTime, SweepKeepsOnTime, SweepRemovesOnTime, LockForSweepOnTime,
     TickOnTime, SleepOnTime DEF PunctualNext, SweeperStep

-----------------------------------------------------------------------------
\* An entry is gone at the latest one interval of the sweeper after it
\* expired, whatever wake-ups and calls come in between: the deadline of
\* wait_for does not drift (sweepLoop).
THEOREM GoneInTime == PunctualSpec => []ReclaimedInTime
<1>1. Init => OnTime
  <2>1. ASSUME Init PROVE Len(entries) = 0
    BY <2>1, EmptySeq DEF Init
  <2> QED
    BY <2>1 DEF Init, OnTime, NoneOlder
<1>2. [PunctualNext]_vars => [Next]_vars
  BY DEF PunctualNext, PunctualTick, Next
<1>3. IInv /\ OnTime => ReclaimedInTime
  <2> SUFFICES ASSUME IInv, OnTime, owner = "serving"
               PROVE  \A i \in DOMAIN entries : entries[i].age <= LongestStay
    BY DEF ReclaimedInTime
  <2> TAKE i \in DOMAIN entries
  <2>1. i \in 1..Len(entries) /\ entries[i].age \in Nat /\ remaining \in Nat
        /\ LongestStay \in Nat
    <3>1. i \in 1..Len(entries) /\ remaining \in Nat
      BY ListFacts
    <3>2. entries[i].age \in Nat
      BY <3>1, ListFacts, Numbers
    <3> QED
      BY <3>1, <3>2, LongestStayNumber
  <2>2. entries[i].age <= LongestStay - remaining
    BY <2>1 DEF OnTime, NoneOlder
  <2> QED
    BY <2>1, <2>2
<1>4. IInv /\ [PunctualNext]_vars => IInv'
  BY <1>2, NextKeepsIInv
<1>5. IInv /\ IInv' /\ OnTime /\ [PunctualNext]_vars => OnTime'
  BY OnTimeStep
<1> QED
  BY <1>1, <1>3, <1>4, <1>5, InitIInv, PTL DEF PunctualSpec

=============================================================================
