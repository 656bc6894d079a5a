----------------------- MODULE TimeAndSizeBoundedCache -----------------------
(***************************************************************************)
(* backend/src/cache/TimeAndSizeBoundedCache.h: an LRU list with an index  *)
(* of iterators into it, entries that expire, a thread that sweeps the     *)
(* expired ones out, and a destructor that stops the thread.               *)
(*                                                                         *)
(* get and put hold mutex_ from their first line to their last, so each is *)
(* one action; the sweep holds it too but reads the clock anew for every   *)
(* entry, so it is one action per entry and callers wait meanwhile.        *)
(* std::list iterators are modelled by the node they point to: a node that *)
(* was freed may be the one the next push_front allocates.                 *)
(*                                                                         *)
(* A definition marked "Fault" is not part of the specification: it is the *)
(* next definition with a slip in it, kept to show that a property fails   *)
(* when the code is wrong in that way.                                     *)
(***************************************************************************)
EXTENDS TtlMap, SequencesExt

CONSTANTS
  Keys, Values,
  Nodes,        \* the list nodes that can be allocated
  NoNode,       \* index_ has nothing under the key
  NoAnswer      \* the last step was not a get

ASSUME NodesAssumption ==
  /\ IsFiniteSet(Nodes)
  /\ Cardinality(Nodes) > MaxElements
  /\ NoNode \notin Nodes

Ages == 0..AgeCap

Entry == [node : Nodes, key : Keys, value : Values, age : Ages]

\* An entry of the list and a record of the map must not be taken for
\* Nullopt, nor an answer for NoAnswer.
ASSUME NulloptAssumption ==
  /\ Nullopt \notin [value : Values, age : Ages]
  /\ Nullopt \notin Values
  /\ NoAnswer \notin [key : Keys, value : Values \union {Nullopt}]

\* How long the sweeper sleeps, in ticks.
Interval == IF MaxAge \div 2 > 1 THEN MaxAge \div 2 ELSE 1

VARIABLES
  entries,    \* entries_, front first; age stands for now - insertedAt
  index,      \* index_: key -> the node its iterator points to
  it,         \* the sweep's iterator, NoNode standing for end()
  sweeper,    \* where the sweeper thread is
  remaining,  \* ticks until the deadline of wait_for
  stopping,   \* stopping_
  owner,      \* where the thread that owns the cache is
  answer      \* what a get returned in the last step

list == <<entries, index>>
thread == <<it, sweeper, remaining>>
life == <<stopping, owner>>
vars == <<entries, index, it, sweeper, remaining, stopping, owner, answer>>

SweeperPlaces ==
  {"loop", "wait", "block", "blocked", "check", "lock", "sweeping", "done"}

OwnerPlaces == {"serving", "notifying", "joining", "destroyed"}

Init ==
  /\ entries = <<>>
  /\ index = [k \in Keys |-> NoNode]
  /\ it = NoNode
  /\ sweeper = "loop"
  /\ remaining = 0
  /\ stopping = FALSE
  /\ owner = "serving"
  /\ answer = NoAnswer

-----------------------------------------------------------------------------
(* The list and its index. *)

\* Where in the list the iterator of node n points.
Position(n) == CHOOSE i \in DOMAIN entries : entries[i].node = n

Erased(k) ==
  IF index[k] = NoNode THEN entries ELSE RemoveAt(entries, Position(index[k]))

\* Fault: a hit does not move the entry.
HitStaysInPlace(k) == entries

SplicedToFront(k) == Cons(entries[Position(index[k])], Erased(k))

\* The nodes push_front may allocate for a list.
UnusedNodes(es) == Nodes \ {es[i].node : i \in DOMAIN es}

Begin == IF entries = <<>> THEN NoNode ELSE entries[1].node

Following(i) == IF i < Len(entries) THEN entries[i + 1].node ELSE NoNode

\* Fault: get and put do not lock.
MutexNotTaken == TRUE

\* The lock_guard of get and put waits for a sweep to end.
MutexFree == sweeper # "sweeping"

Callable == owner = "serving" /\ MutexFree

-----------------------------------------------------------------------------
(* The calls of the owner's worker threads. *)

Returns(k, v) == answer' = [key |-> k, value |-> v]

GetAbsent(k) ==
  /\ Callable
  /\ index[k] = NoNode
  /\ Returns(k, Nullopt)
  /\ UNCHANGED <<list, thread, life>>

\* Fault: the expired entry is erased from the list only.
GetExpiredLeavesIndex(k) ==
  /\ Callable
  /\ index[k] # NoNode
  /\ Expired(entries[Position(index[k])].age)
  /\ entries' = Erased(k)
  /\ Returns(k, Nullopt)
  /\ UNCHANGED <<index, thread, life>>

GetExpired(k) ==
  /\ Callable
  /\ index[k] # NoNode
  /\ Expired(entries[Position(index[k])].age)
  /\ entries' = Erased(k)
  /\ index' = [index EXCEPT ![k] = NoNode]
  /\ Returns(k, Nullopt)
  /\ UNCHANGED <<thread, life>>

\* Fault: an entry the sweep has not got to yet is served, expired or not.
GetHitUnchecked(k) ==
  /\ Callable
  /\ index[k] # NoNode
  /\ entries' = SplicedToFront(k)
  /\ Returns(k, entries[Position(index[k])].value)
  /\ UNCHANGED <<index, thread, life>>

GetHit(k) ==
  /\ Callable
  /\ index[k] # NoNode
  /\ ~Expired(entries[Position(index[k])].age)
  /\ entries' = SplicedToFront(k)
  /\ Returns(k, entries[Position(index[k])].value)
  /\ UNCHANGED <<index, thread, life>>

Get(k) == GetAbsent(k) \/ GetExpired(k) \/ GetHit(k)

\* Fault: one more than max_elements is let in.
EvictLate(pushed, pointing) ==
  LET oldest == pushed[Len(pushed)]
  IN  IF Len(pushed) > MaxElements + 1
      THEN /\ index' = [pointing EXCEPT ![oldest.key] = NoNode]
           /\ entries' = SubSeq(pushed, 1, Len(pushed) - 1)
      ELSE /\ index' = pointing
           /\ entries' = pushed

\* push_front has been done, the list is what pushed says, and the index
\* points to it: the last entry goes if there are too many.
Evict(pushed, pointing) ==
  LET oldest == pushed[Len(pushed)]
  IN  IF Len(pushed) > MaxElements
      THEN /\ index' = [pointing EXCEPT ![oldest.key] = NoNode]
           /\ entries' = SubSeq(pushed, 1, Len(pushed) - 1)
      ELSE /\ index' = pointing
           /\ entries' = pushed

NewEntry(n, k, v) == [node |-> n, key |-> k, value |-> v, age |-> 0]

Put(k, v) ==
  /\ Callable
  /\ \E n \in UnusedNodes(Erased(k)) :
       Evict(Cons(NewEntry(n, k, v), Erased(k)), [index EXCEPT ![k] = n])
  /\ answer' = NoAnswer
  /\ UNCHANGED <<thread, life>>

-----------------------------------------------------------------------------
(* The sweeper thread. *)

Silent == answer' = NoAnswer

\* Fault: the sweeper sleeps for max_age, not for half of it.
SleepsMaxAge ==
  /\ sweeper = "loop"
  /\ IF stopping
     THEN sweeper' = "done" /\ UNCHANGED remaining
     ELSE sweeper' = "wait" /\ remaining' = MaxAge
  /\ Silent
  /\ UNCHANGED <<list, it, life>>

LoopTest ==
  /\ sweeper = "loop"
  /\ IF stopping
     THEN sweeper' = "done" /\ UNCHANGED remaining
     ELSE sweeper' = "wait" /\ remaining' = Interval
  /\ Silent
  /\ UNCHANGED <<list, it, life>>

\* wait_for asks its predicate before it sleeps and after every wake-up.
TestPredicate ==
  /\ sweeper = "wait"
  /\ sweeper' = IF stopping THEN "check" ELSE "block"
  /\ Silent
  /\ UNCHANGED <<list, it, remaining, life>>

\* Only from here on does a notification reach the thread.
Block ==
  /\ sweeper = "block"
  /\ sweeper' = "blocked"
  /\ Silent
  /\ UNCHANGED <<list, it, remaining, life>>

\* Fault: wait in place of wait_for.
WaitsForNotification == FALSE

Timeout ==
  /\ sweeper = "blocked"
  /\ remaining = 0
  /\ sweeper' = "check"
  /\ Silent
  /\ UNCHANGED <<list, it, remaining, life>>

\* Fault: the duration is waited for anew after every wake-up.
WakeupRestartsWait ==
  /\ sweeper = "blocked"
  /\ remaining > 0
  /\ sweeper' = "wait"
  /\ remaining' = Interval
  /\ Silent
  /\ UNCHANGED <<list, it, life>>

SpuriousWakeup ==
  /\ sweeper = "blocked"
  /\ remaining > 0
  /\ sweeper' = "wait"
  /\ Silent
  /\ UNCHANGED <<list, it, remaining, life>>

\* Fault: stopping_ is not asked again after the wait.
SweepsInAnyCase ==
  /\ sweeper = "check"
  /\ sweeper' = "lock"
  /\ Silent
  /\ UNCHANGED <<list, it, remaining, life>>

CheckStop ==
  /\ sweeper = "check"
  /\ sweeper' = IF stopping THEN "done" ELSE "lock"
  /\ Silent
  /\ UNCHANGED <<list, it, remaining, life>>

LockForSweep ==
  /\ sweeper = "lock"
  /\ sweeper' = "sweeping"
  /\ it' = Begin
  /\ Silent
  /\ UNCHANGED <<list, remaining, life>>

SweepKeeps ==
  /\ sweeper = "sweeping"
  /\ it # NoNode
  /\ ~Expired(entries[Position(it)].age)
  /\ it' = Following(Position(it))
  /\ Silent
  /\ UNCHANGED <<list, sweeper, remaining, life>>

SweepRemoves ==
  /\ sweeper = "sweeping"
  /\ it # NoNode
  /\ Expired(entries[Position(it)].age)
  /\ index' = [index EXCEPT ![entries[Position(it)].key] = NoNode]
  /\ entries' = RemoveAt(entries, Position(it))
  /\ it' = Following(Position(it))
  /\ Silent
  /\ UNCHANGED <<sweeper, remaining, life>>

EndSweep ==
  /\ sweeper = "sweeping"
  /\ it = NoNode
  /\ sweeper' = "loop"
  /\ Silent
  /\ UNCHANGED <<list, it, remaining, life>>

SweeperStep ==
  \/ LoopTest \/ TestPredicate \/ Block \/ Timeout
  \/ CheckStop \/ LockForSweep \/ SweepKeeps \/ SweepRemoves \/ EndSweep

-----------------------------------------------------------------------------
(* The destructor, in the thread that owns the cache. *)

RequestStop ==
  /\ owner = "serving"
  /\ stopping' = TRUE
  /\ owner' = "notifying"
  /\ Silent
  /\ UNCHANGED <<list, thread>>

\* sweeperMutex_ is not held: a thread that has tested the predicate and
\* is not blocked yet does not hear of it.
NotifyAll ==
  /\ owner = "notifying"
  /\ owner' = "joining"
  /\ sweeper' = IF sweeper = "blocked" THEN "wait" ELSE sweeper
  /\ Silent
  /\ UNCHANGED <<list, it, remaining, stopping>>

\* The thread is joined, then the members are destroyed.
Join ==
  /\ owner = "joining"
  /\ sweeper = "done"
  /\ owner' = "destroyed"
  /\ entries' = <<>>
  /\ index' = [k \in Keys |-> NoNode]
  /\ Silent
  /\ UNCHANGED <<thread, stopping>>

OwnerStep == NotifyAll \/ Join

-----------------------------------------------------------------------------
\* steady_clock advances by one tick.
Tick ==
  /\ entries' = [i \in DOMAIN entries |-> [entries[i] EXCEPT !.age = Older(@)]]
  /\ remaining' = IF remaining > 0 THEN remaining - 1 ELSE 0
  /\ Silent
  /\ UNCHANGED <<index, it, sweeper, life>>

Call == \E k \in Keys : Get(k) \/ \E v \in Values : Put(k, v)

Next ==
  \/ Call
  \/ SweeperStep
  \/ SpuriousWakeup
  \/ RequestStop
  \/ OwnerStep
  \/ Tick

\* The two threads run and the clock advances; nobody has to call, to wake
\* the sweeper early, or to destroy the cache.
Fairness == WF_vars(SweeperStep) /\ WF_vars(OwnerStep) /\ WF_vars(Tick)

Spec == Init /\ [][Next]_vars

FairSpec == Spec /\ Fairness

\* Threads that are quick compared with a minute: time passes only while
\* the sweeper sleeps, and not beyond its deadline, or after its end.
PunctualTick ==
  /\ sweeper \in {"blocked", "done"}
  /\ sweeper = "blocked" => remaining > 0
  /\ Tick

PunctualNext ==
  \/ Call
  \/ SweeperStep
  \/ SpuriousWakeup
  \/ RequestStop
  \/ OwnerStep
  \/ PunctualTick

PunctualSpec == Init /\ [][PunctualNext]_vars

-----------------------------------------------------------------------------
(* Properties. *)

\* Every variable keeps to its type.
TypeOK ==
  /\ entries \in Seq(Entry)
  /\ index \in [Keys -> Nodes \union {NoNode}]
  /\ it \in Nodes \union {NoNode}
  /\ sweeper \in SweeperPlaces
  /\ remaining \in 0..Interval
  /\ stopping \in BOOLEAN
  /\ owner \in OwnerPlaces
  /\ answer \in [key : Keys, value : Values \union {Nullopt}] \union {NoAnswer}

IndexOfEntries ==
  \A i \in DOMAIN entries : index[entries[i].key] = entries[i].node

EntriesOfIndex ==
  \A k \in Keys : index[k] # NoNode =>
    \E i \in DOMAIN entries : entries[i].node = index[k] /\ entries[i].key = k

DistinctNodes ==
  \A i, j \in DOMAIN entries : entries[i].node = entries[j].node => i = j

\* The list and the index describe the same map: every entry is found under
\* its key, no iterator of index_ dangles, and no key has two entries, after
\* any mixture of hits, expiries, replacements, evictions and sweeps
\* (get, put and sweepExpired erase from both).
IndexMatchesEntries == IndexOfEntries /\ EntriesOfIndex /\ DistinctNodes

\* put leaves at most max_elements entries behind (the loop-free eviction of
\* one entry is enough).
WithinCapacity == Len(entries) <= MaxElements

\* While the sweep runs nobody frees the node its iterator points to
\* (sweepExpired advances through the return value of erase, and mutex_
\* keeps get and put out).
SweepIteratorValid ==
  sweeper = "sweeping" /\ it # NoNode =>
    \E i \in DOMAIN entries : entries[i].node = it

\* How far the sweeper still has to go once stopping_ is set.
ExitDistance ==
  [p \in SweeperPlaces |->
     CASE p = "done" -> 0
       [] p \in {"loop", "check"} -> 1
       [] p \in {"sweeping", "wait"} -> 2
       [] p \in {"lock", "blocked"} -> 3
       [] p = "block" -> 4]

\* After the destructor has set stopping_, every step of the sweeper brings
\* it closer to its end: it finishes the sweep it is in or about to begin, or
\* sleeps to the deadline it missed the notification of, and begins nothing
\* new (the two tests of stopping_ in sweepLoop).
StopOnlyApproachesExit ==
  [][stopping /\ sweeper' # sweeper =>
       ExitDistance[sweeper'] < ExitDistance[sweeper]]_vars

\* ~TimeAndSizeBoundedCache returns, even when its notify_all comes between
\* the sweeper's test of the predicate and its going to sleep.
DestructorReturns == owner = "notifying" ~> owner = "destroyed"

\* An entry that has expired and is never asked for again goes all the same.
EventuallyReclaimed ==
  \A k \in Keys :
    (\E i \in DOMAIN entries : entries[i].key = k /\ Expired(entries[i].age))
      ~> (\A i \in DOMAIN entries : entries[i].key = k => ~Expired(entries[i].age))

\* The age no entry gets beyond: it was fresh when a sweep passed it, and
\* the next sweep comes one interval later.
LongestStay == Interval + (IF MaxAge > 0 THEN MaxAge ELSE 0)

\* With threads that are quick, an entry is gone at the latest one sweep
\* interval after it expired: the deadline of wait_for does not drift, by
\* wake-ups or by calls (sweepLoop, "wake up at roughly half the TTL").
ReclaimedInTime ==
  owner = "serving" => \A i \in DOMAIN entries : entries[i].age <= LongestStay

-----------------------------------------------------------------------------
(* What callers are promised. *)

Entered(k) == CHOOSE i \in DOMAIN entries : entries[i].key = k

heldHere ==
  [k \in Keys |->
     IF \E i \in DOMAIN entries : entries[i].key = k
     THEN [value |-> entries[Entered(k)].value, age |-> entries[Entered(k)].age]
     ELSE Nullopt]

Promise == INSTANCE ICache WITH held <- heldHere, open <- owner = "serving"

\* Seen through get and put this is the map of ICache: what a get returns is
\* the last value put under the key and never one that has expired, and only
\* age or lack of room removes anything ("an expired entry is removed
\* outright, never served stale").
ImplementsICache == Promise!Spec
=============================================================================
