------------------------- MODULE CacheRecencyProofs -------------------------
(***************************************************************************)
(* What the cache evicts is what was used longest ago: a proof about       *)
(* CacheRecency, for any keys, values, capacity and maximum age.           *)
(***************************************************************************)
EXTENDS CacheRecency, TimeAndSizeBoundedCacheProofs

\* The last use of every entry came after those of the entries behind it.
InUseOrder(es, order) ==
  \A i, j \in 1..Len(es) : i < j => <<es[j].key, es[i].key>> \in order

\* Taking an entry out leaves the others in their order.
LEMMA EraseInOrder ==
  ASSUME NEW es \in Seq(Entry), NEW order, InUseOrder(es, order), NEW i \in 1..Len(es)
  PROVE  InUseOrder(RemoveAt(es, i), order)
<1> DEFINE rest == RemoveAt(es, i)
           n == Len(es)
           moved(j) == IF j < i THEN j ELSE j + 1
<1>1. n \in Nat /\ i \in 1..n
  BY LenProperties
<1>2. Len(rest) = n - 1 /\ \A j \in 1..(n - 1) : rest[j] = es[moved(j)]
  BY RemoveAtFacts, Zenon
<1>3. ASSUME NEW g \in 1..(n - 1), NEW h \in 1..(n - 1), g < h
      PROVE  <<rest[h].key, rest[g].key>> \in order
  <2>1. moved(g) \in 1..n /\ moved(h) \in 1..n /\ moved(g) < moved(h)
    BY <1>1, <1>3
  <2>2. <<es[moved(h)].key, es[moved(g)].key>> \in order
    BY <2>1 DEF InUseOrder
  <2>3. rest[g] = es[moved(g)] /\ rest[h] = es[moved(h)]
    BY <1>2
  <2> HIDE DEF rest, moved
  <2> QED
    BY <2>2, <2>3
<1> HIDE DEF rest, n
<1> QED
  BY <1>2, <1>3 DEF InUseOrder, rest

\* What is used goes to the front of the list and to the end of the order.
LEMMA PushInOrder ==
  ASSUME NEW es \in Seq(Entry), NEW order, InUseOrder(es, order),
         NEW e \in Entry, \A j \in 1..Len(es) : es[j].key # e.key
  PROVE  InUseOrder(Cons(e, es), MovedLast(order, e.key))
<1> DEFINE longer == Cons(e, es)
           n == Len(es)
<1>1. n \in Nat
  BY LenProperties
<1>2. Len(longer) = n + 1 /\ longer[1] = e /\ \A j \in 1..n : longer[j + 1] = es[j]
  BY ConsEntryFacts
<1>3. \A j \in 1..n : es[j].key \in Keys \ {e.key}
  <2>1. \A j \in 1..n : es[j] \in Entry
    BY ElementOfSeq
  <2> QED
    BY <2>1 DEF Entry
<1>4. ASSUME NEW g \in 1..(n + 1), NEW h \in 1..(n + 1), g < h
      PROVE  <<longer[h].key, longer[g].key>> \in MovedLast(order, e.key)
  <2>1. h - 1 \in 1..n /\ longer[h] = es[h - 1]
    <3>1. h - 1 \in 1..n /\ (h - 1) + 1 = h
      BY <1>1, <1>4
    <3> QED
      BY <3>1, <1>2
  <2>2. CASE g = 1
    BY <1>2, <1>3, <2>1, <2>2 DEF MovedLast
  <2>3. CASE g # 1
    <3>1. g - 1 \in 1..n /\ (g - 1) + 1 = g /\ g - 1 < h - 1
      BY <1>1, <1>4, <2>3
    <3>2. longer[g] = es[g - 1]
      BY <3>1, <1>2
    <3>3. <<es[h - 1].key, es[g - 1].key>> \in order
      BY <2>1, <3>1 DEF InUseOrder
    <3>4. e.key \notin {es[h - 1].key, es[g - 1].key}
      BY <1>3, <2>1, <3>1
    <3>5. <<es[h - 1].key, es[g - 1].key>> \in MovedLast(order, e.key)
      BY <3>3, <3>4 DEF MovedLast
    <3> QED
      BY <2>1, <3>2, <3>5
  <2> QED
    BY <2>2, <2>3
<1> HIDE DEF longer, n
<1> QED
  BY <1>2, <1>4 DEF InUseOrder, longer

-----------------------------------------------------------------------------
(* The list of the cache. *)

RInv == IInv /\ InUseOrder(entries, usedBefore)

\* Erasing a key takes out the one entry it has.
LEMMA ErasedInOrder ==
  ASSUME IInv, NEW order, InUseOrder(entries, order), NEW k \in Keys
  PROVE  /\ Erased(k) \in Seq(Entry) /\ Len(Erased(k)) \in Nat
         /\ InUseOrder(Erased(k), order)
         /\ \A j \in 1..Len(Erased(k)) : Erased(k)[j].key # k
         /\ \A h \in 1..Len(entries) : entries[h].key # k =>
              \E j \in 1..Len(Erased(k)) : Erased(k)[j] = entries[h]
<1>1. /\ TypeOK /\ IndexMatchesEntries /\ entries \in Seq(Entry) /\ Len(entries) \in Nat
      /\ index \in Index
  BY LenProperties DEF IInv, TypeOK, Index
<1>2. Erased(k) \in Seq(Entry) /\ Linked(Erased(k), [index EXCEPT ![k] = NoNode])
  BY <1>1, ErasedFacts
<1>3. \A j \in 1..Len(Erased(k)) : Erased(k)[j].key # k
  <2>1. \A j \in 1..Len(Erased(k)) : Erased(k)[j] \in Entry
    BY <1>2, ElementOfSeq
  <2>2. \A j \in 1..Len(Erased(k)) : Erased(k)[j].node # NoNode
    BY <2>1, NodesAssumption DEF Entry
  <2>3. [index EXCEPT ![k] = NoNode][k] = NoNode
    BY <1>1 DEF Index
  <2> QED
    BY <1>2, <2>2, <2>3 DEF Linked
<1>4. CASE index[k] = NoNode
  BY <1>1, <1>2, <1>3, <1>4 DEF Erased
<1>5. CASE index[k] # NoNode
  <2> DEFINE i == Position(index[k])
             n == Len(entries)
  <2>1. i \in 1..n /\ entries[i].key = k /\ Erased(k) = RemoveAt(entries, i)
    BY <1>1, <1>5, IndexedPosition DEF Erased
  <2> HIDE DEF i
  <2>2. InUseOrder(Erased(k), order)
    BY <1>1, <2>1, EraseInOrder
  <2>3. /\ Len(Erased(k)) = n - 1
        /\ \A j \in 1..(n - 1) :
             Erased(k)[j] = IF j < i THEN entries[j] ELSE entries[j + 1]
    BY <1>1, <2>1, RemoveAtFacts
  <2>4. ASSUME NEW h \in 1..n, entries[h].key # k
        PROVE  \E j \in 1..Len(Erased(k)) : Erased(k)[j] = entries[h]
    <3>1. h # i /\ n \in Nat
      BY <1>1, <2>1, <2>4
    <3> HIDE DEF n
    <3>2. CASE h < i
      <4>1. h \in 1..(n - 1)
        BY <2>1, <3>1, <3>2
      <4> QED
        BY <2>3, <3>2, <4>1
    <3>3. CASE ~(h < i)
      <4>1. h - 1 \in 1..(n - 1) /\ ~(h - 1 < i) /\ (h - 1) + 1 = h
        BY <2>1, <3>1, <3>3
      <4> QED
        BY <2>3, <4>1
    <3> QED
      BY <3>2, <3>3
  <2>5. Len(Erased(k)) \in Nat
    BY <1>2, LenProperties
  <2> QED
    BY <1>2, <1>3, <2>2, <2>4, <2>5
<1> QED
  BY <1>4, <1>5

\* put: the entry of k before those of the other keys, and the last entry
\* gone if there were too many.
LEMMA PutInOrder ==
  ASSUME RInv, NEW k \in Keys, NEW v \in Values, Put(k, v)
  PROVE  \E pushed \in Seq(Entry) :
           /\ Len(pushed) = Len(Erased(k)) + 1
           /\ pushed[1].key = k
           /\ \A j \in 1..Len(Erased(k)) : pushed[j + 1] = Erased(k)[j]
           /\ InUseOrder(pushed, MovedLast(usedBefore, k))
           /\ \/ entries' = pushed
              \/ Len(pushed) > 1 /\ entries' = RemoveAt(pushed, Len(pushed))
<1>1. PICK n \in UnusedNodes(Erased(k)) :
        Evict(Cons(NewEntry(n, k, v), Erased(k)), [index EXCEPT ![k] = n])
  BY DEF Put
<1> DEFINE e == NewEntry(n, k, v)
           pushed == Cons(e, Erased(k))
<1>2. /\ Erased(k) \in Seq(Entry) /\ Len(Erased(k)) \in Nat
      /\ InUseOrder(Erased(k), usedBefore)
      /\ \A j \in 1..Len(Erased(k)) : Erased(k)[j].key # k
  BY ErasedInOrder DEF RInv
<1>3. e \in Entry /\ e.key = k
  BY AgeCapAssumption DEF NewEntry, UnusedNodes, Entry, Ages
<1>4. Evict(pushed, [index EXCEPT ![k] = n])
  BY <1>1
<1> HIDE DEF e
<1>5. /\ pushed \in Seq(Entry) /\ Len(pushed) = Len(Erased(k)) + 1
      /\ pushed[1] = e
      /\ \A j \in 1..Len(Erased(k)) : pushed[j + 1] = Erased(k)[j]
  BY <1>2, <1>3, ConsEntryFacts
<1>6. InUseOrder(pushed, MovedLast(usedBefore, k))
  <2>1. InUseOrder(pushed, MovedLast(usedBefore, e.key))
    BY <1>2, <1>3, PushInOrder
  <2> QED
    BY <1>3, <2>1
<1> HIDE DEF pushed
<1>7. \/ entries' = pushed
      \/ Len(pushed) > 1 /\ entries' = RemoveAt(pushed, Len(pushed))
  <2>1. CASE Len(pushed) > MaxElements
    <3>1. Len(pushed) > 1 /\ Len(pushed) > 0
      BY <1>2, <1>5, <2>1, MaxElementsAssumption
    <3>2. entries' = SubSeq(pushed, 1, Len(pushed) - 1)
      BY <1>4, <2>1 DEF Evict
    <3>3. SubSeq(pushed, 1, Len(pushed) - 1) = RemoveAt(pushed, Len(pushed))
      BY <1>5, <3>1, PopBackIsRemoveAt
    <3> QED
      BY <3>1, <3>2, <3>3
  <2>2. CASE ~(Len(pushed) > MaxElements)
    BY <1>4, <2>2 DEF Evict
  <2> QED
    BY <2>1, <2>2
<1> QED
  BY <1>3, <1>5, <1>6, <1>7

LEMMA OrderKept == RInv /\ [RecencyNext]_rvars => InUseOrder(entries, usedBefore)'
<1> SUFFICES ASSUME RInv, [RecencyNext]_rvars
             PROVE  InUseOrder(entries', usedBefore')
  OBVIOUS
<1>1. /\ IInv /\ InUseOrder(entries, usedBefore) /\ TypeOK /\ IndexMatchesEntries
      /\ entries \in Seq(Entry) /\ DOMAIN entries = 1..Len(entries) /\ Len(entries) \in Nat
  BY LenProperties DEF RInv, IInv, TypeOK
<1>2. ASSUME NEW k \in Keys, UsingGet(k) PROVE InUseOrder(entries', usedBefore')
  <2> DEFINE i == Position(index[k])
  <2>1. /\ entries' = Cons(entries[i], Erased(k)) /\ index[k] # NoNode
        /\ usedBefore' = MovedLast(usedBefore, k)
    BY <1>2 DEF UsingGet, GetHit, SplicedToFront
  <2>2. entries[i] \in Entry /\ entries[i].key = k
    BY <1>1, <2>1, IndexedPosition
  <2> HIDE DEF i
  <2>3. /\ Erased(k) \in Seq(Entry) /\ InUseOrder(Erased(k), usedBefore)
        /\ \A j \in 1..Len(Erased(k)) : Erased(k)[j].key # entries[i].key
    BY <1>1, <2>2, ErasedInOrder
  <2>4. InUseOrder(Cons(entries[i], Erased(k)), MovedLast(usedBefore, entries[i].key))
    BY <2>2, <2>3, PushInOrder
  <2> QED
    BY <2>1, <2>2, <2>4
<1>3. ASSUME NEW k \in Keys, UsingPut(k) PROVE InUseOrder(entries', usedBefore')
  <2>1. PICK v \in Values : Put(k, v)
    BY <1>3 DEF UsingPut
  <2>2. PICK pushed \in Seq(Entry) :
          /\ InUseOrder(pushed, MovedLast(usedBefore, k))
          /\ \/ entries' = pushed
             \/ Len(pushed) > 1 /\ entries' = RemoveAt(pushed, Len(pushed))
    BY <2>1, PutInOrder
  <2>3. InUseOrder(entries', MovedLast(usedBefore, k))
    <3>1. CASE entries' = pushed
      BY <2>2, <3>1
    <3>2. CASE Len(pushed) > 1 /\ entries' = RemoveAt(pushed, Len(pushed))
      <4>1. Len(pushed) \in 1..Len(pushed)
        BY <3>2, LenProperties
      <4> QED
        BY <2>2, <3>2, <4>1, EraseInOrder
    <3> QED
      BY <2>2, <3>1, <3>2
  <2> QED
    BY <1>3, <2>3 DEF UsingPut
<1>4. ASSUME entries' = entries, usedBefore' = usedBefore
      PROVE  InUseOrder(entries', usedBefore')
  BY <1>1, <1>4
<1>5. ASSUME NEW k \in Keys, GetExpired(k), usedBefore' = usedBefore
      PROVE  InUseOrder(entries', usedBefore')
  <2>1. InUseOrder(Erased(k), usedBefore)
    BY <1>1, ErasedInOrder
  <2> QED
    BY <1>5, <2>1 DEF GetExpired
<1>6. ASSUME SweepRemoves, usedBefore' = usedBefore
      PROVE  InUseOrder(entries', usedBefore')
  <2>1. Position(it) \in 1..Len(entries)
    BY <1>1, <1>6, PositionFacts DEF SweepRemoves, SweepIteratorValid, IInv
  <2>2. InUseOrder(RemoveAt(entries, Position(it)), usedBefore)
    BY <1>1, <2>1, EraseInOrder
  <2> QED
    BY <1>6, <2>2 DEF SweepRemoves
<1>7. ASSUME Tick, usedBefore' = usedBefore PROVE InUseOrder(entries', usedBefore')
  <2>1. entries' = [i \in 1..Len(entries) |-> [entries[i] EXCEPT !.age = Older(@)]]
    BY <1>1, <1>7 DEF Tick
  <2>2. Len(entries') = Len(entries)
    <3>1. IInv'
      BY <1>1, <1>7, TickKeepsIInv
    <3>2. entries' \in Seq(Entry) /\ DOMAIN entries' = 1..Len(entries)
      BY <2>1, <3>1 DEF IInv, TypeOK
    <3> QED
      BY <1>1, <3>2, LenProperties
  <2>3. \A i \in 1..Len(entries) : entries'[i].key = entries[i].key
    <3> TAKE i \in 1..Len(entries)
    <3>1. entries[i] \in Entry
      BY <1>1, ElementOfSeq
    <3> QED
      BY <2>1, <3>1 DEF Entry
  <2> QED
    BY <1>1, <1>7, <2>2, <2>3 DEF InUseOrder
<1>8. CASE Join
  <2>1. Len(entries') = 0
    BY <1>8, EmptySeq DEF Join
  <2> QED
    BY <2>1 DEF InUseOrder
<1>9. CASE OtherStep
  <2>1. usedBefore' = usedBefore
    BY <1>9 DEF OtherStep
  <2>2. ASSUME QuietStep PROVE entries' = entries
    BY <2>2 DEF QuietStep, GetAbsent, LoopTest, TestPredicate, Block, Timeout, CheckStop,
         LockForSweep, SweepKeeps, EndSweep, SpuriousWakeup, RequestStop, NotifyAll, vars, list
  <2> QED
    BY <1>4, <1>5, <1>6, <1>7, <1>8, <1>9, <2>1, <2>2
       DEF OtherStep, SweeperStep, OwnerStep, QuietStep
<1>10. CASE UNCHANGED rvars
  BY <1>4, <1>10 DEF rvars, vars, list
<1> QED
  BY <1>2, <1>3, <1>9, <1>10 DEF RecencyNext

LEMMA RInvAlways == RecencySpec => []RInv
<1>1. RecencyInit => RInv
  <2>1. ASSUME RecencyInit PROVE Len(entries) = 0
    BY <2>1, EmptySeq DEF RecencyInit, Init
  <2> QED
    BY <2>1, InitIInv DEF RecencyInit, RInv, InUseOrder
<1>2. [RecencyNext]_rvars => [Next]_vars
  BY DEF RecencyNext, UsingGet, UsingPut, OtherStep, rvars, Next, Call, Get
<1>3. RInv /\ [RecencyNext]_rvars => RInv'
  BY <1>2, NextKeepsIInv, OrderKept DEF RInv
<1> QED
  BY <1>1, <1>3, PTL DEF RecencySpec

-----------------------------------------------------------------------------
\* put evicts, of all the keys held, the one whose last use by get or put
\* lies furthest back, after any mixture of hits, replacements, expiries and
\* sweeps.
THEOREM OldestUseGoes == RecencySpec => EvictsLeastRecentlyUsed
<1>1. ASSUME RInv, RInv', NEW k \in Keys, UsingPut(k),
             NEW gone \in Evicted, NEW kept \in HeldKeys' \ {k}
      PROVE  <<gone, kept>> \in usedBefore
  <2>1. PICK v \in Values : Put(k, v)
    BY <1>1 DEF UsingPut
  <2> DEFINE rest == Erased(k)
  <2>2. PICK pushed \in Seq(Entry) :
          /\ Len(pushed) = Len(rest) + 1
          /\ pushed[1].key = k
          /\ \A j \in 1..Len(rest) : pushed[j + 1] = rest[j]
          /\ InUseOrder(pushed, MovedLast(usedBefore, k))
          /\ \/ entries' = pushed
             \/ Len(pushed) > 1 /\ entries' = RemoveAt(pushed, Len(pushed))
    BY <1>1, <2>1, PutInOrder
  <2>3. /\ Len(rest) \in Nat
        /\ \A h \in 1..Len(entries) : entries[h].key # k =>
             \E j \in 1..Len(rest) : rest[j] = entries[h]
    BY <1>1, ErasedInOrder DEF RInv
  <2> HIDE DEF rest
  <2> DEFINE last == Len(pushed)
  <2>4. last \in Nat /\ last >= 1
    BY <2>2, <2>3
  <2>5. /\ DOMAIN entries = 1..Len(entries) /\ DOMAIN entries' = 1..Len(entries')
    BY <1>1, LenProperties DEF RInv, IInv, TypeOK
  <2>6. /\ Len(entries') \in {last, last - 1} /\ Len(entries') >= 1
        /\ \A j \in 1..Len(entries') : j \in 1..last /\ entries'[j] = pushed[j]
    <3>1. CASE entries' = pushed
      <4>1. Len(entries') = last
        BY <3>1
      <4> QED
        BY <2>4, <3>1, <4>1
    <3>2. CASE Len(pushed) > 1 /\ entries' = RemoveAt(pushed, Len(pushed))
      <4>1. last \in 1..Len(pushed) /\ last > 1
        BY <2>4, <3>2
      <4>2. /\ Len(entries') = last - 1
            /\ \A j \in 1..(last - 1) :
                 entries'[j] = IF j < last THEN pushed[j] ELSE pushed[j + 1]
        BY <2>2, <3>2, <4>1, RemoveAtFacts
      <4>3. \A j \in 1..(last - 1) : j < last /\ j \in 1..last
        BY <2>4
      <4>4. Len(entries') >= 1
        BY <2>4, <4>1, <4>2
      <4>5. \A j \in 1..(last - 1) : entries'[j] = pushed[j]
        BY <4>2, <4>3
      <4> HIDE DEF last
      <4> QED
        BY <4>2, <4>3, <4>4, <4>5
    <3> QED
      BY <2>2, <3>1, <3>2
  <2> HIDE DEF last
  <2>7. \A j \in 1..last : j # last => pushed[j].key \in HeldKeys'
    <3> SUFFICES ASSUME NEW j \in 1..last, j # last PROVE pushed[j].key \in HeldKeys'
      OBVIOUS
    <3>1. j \in 1..Len(entries')
      BY <2>4, <2>6
    <3>2. j \in DOMAIN entries' /\ entries'[j] = pushed[j]
      BY <2>5, <2>6, <3>1
    <3> QED
      BY <3>2 DEF HeldKeys
  <2>8. k \in HeldKeys'
    <3>1. 1 \in 1..Len(entries')
      BY <2>4, <2>6
    <3>2. 1 \in DOMAIN entries' /\ entries'[1] = pushed[1]
      BY <2>5, <2>6, <3>1
    <3> QED
      BY <2>2, <3>2 DEF HeldKeys
  <2>9. PICK g \in 1..last : pushed[g].key = gone
    <3>1. gone \in HeldKeys /\ gone \notin HeldKeys'
      BY <1>1 DEF Evicted
    <3>2. PICK h \in 1..Len(entries) : entries[h].key = gone
      BY <2>5, <3>1 DEF HeldKeys
    <3>3. PICK j \in 1..Len(rest) : rest[j] = entries[h]
      BY <2>3, <2>8, <3>1, <3>2
    <3>4. j + 1 \in 1..last /\ pushed[j + 1] = rest[j]
      BY <2>2, <2>3 DEF last
    <3> QED
      BY <3>2, <3>3, <3>4
  <2>10. g = last
    BY <1>1, <2>7, <2>9 DEF Evicted
  <2>11. PICK h \in 1..last : h # last /\ pushed[h].key = kept
    <3>1. PICK j \in DOMAIN entries' : entries'[j].key = kept
      BY <1>1 DEF HeldKeys
    <3>2. j \in 1..last /\ entries'[j] = pushed[j]
      BY <2>5, <2>6, <3>1
    <3>3. pushed[j].key # gone
      BY <1>1, <3>1, <3>2 DEF Evicted
    <3> QED
      BY <2>9, <2>10, <3>1, <3>2, <3>3
  <2>12. <<gone, kept>> \in MovedLast(usedBefore, k)
    <3>1. h < g
      BY <2>4, <2>10, <2>11
    <3> QED
      BY <2>2, <2>9, <2>11, <3>1 DEF InUseOrder, last
  <2>13. k \notin {gone, kept}
    BY <1>1, <2>8 DEF Evicted
  <2> QED
    BY <2>12, <2>13 DEF MovedLast
<1>2. RInv /\ RInv' =>
        [\A k \in Keys : UsingPut(k) =>
           \A gone \in Evicted, kept \in HeldKeys' \ {k} : <<gone, kept>> \in usedBefore]_rvars
  BY <1>1
<1> QED
  BY <1>2, RInvAlways, PTL DEF EvictsLeastRecentlyUsed

=============================================================================
