---------------------------- MODULE CacheRecency ----------------------------
(***************************************************************************)
(* TimeAndSizeBoundedCache with a history the code does not keep: in which *)
(* order the keys were last used.  What the cache evicts is judged by it.  *)
(***************************************************************************)
EXTENDS TimeAndSizeBoundedCache

VARIABLE
  usedBefore  \* <<a, b>>: the last use of a came before the last use of b

rvars == <<vars, usedBefore>>

\* k comes last in the order.
MovedLast(order, k) ==
  {p \in order : k \notin {p[1], p[2]}} \union {<<other, k>> : other \in Keys \ {k}}

RecencyInit == Init /\ usedBefore = {}

\* A get that returns a value and a put are uses; the get of an absent or
\* expired key leaves nothing to order.
UsingGet(k) ==
  /\ GetHit(k)
  /\ usedBefore' = MovedLast(usedBefore, k)

UsingPut(k) ==
  /\ \E v \in Values : Put(k, v)
  /\ usedBefore' = MovedLast(usedBefore, k)

OtherStep ==
  /\ \/ \E k \in Keys : GetAbsent(k) \/ GetExpired(k)
     \/ SweeperStep \/ SpuriousWakeup \/ RequestStop \/ OwnerStep \/ Tick
  /\ UNCHANGED usedBefore

RecencyNext == (\E k \in Keys : UsingGet(k) \/ UsingPut(k)) \/ OtherStep

RecencySpec == RecencyInit /\ [][RecencyNext]_rvars

-----------------------------------------------------------------------------
HeldKeys == {entries[i].key : i \in DOMAIN entries}

Evicted == HeldKeys \ HeldKeys'

\* When put makes room, what goes is the key whose last use, by get or put,
\* lies furthest back of all that were held: expiries and sweeps in between
\* do not upset the order of the list.
EvictsLeastRecentlyUsed ==
  [][\A k \in Keys : UsingPut(k) =>
       \A gone \in Evicted, kept \in HeldKeys' \ {k} : <<gone, kept>> \in usedBefore]_rvars
=============================================================================
