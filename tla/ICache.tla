------------------------------- MODULE ICache -------------------------------
(***************************************************************************)
(* The cache as its callers see it (cache/ICache.h): a map that forgets.   *)
(*                                                                         *)
(* get answers with the last value put under the key as long as that value *)
(* is at most MaxAge old and was not pushed out for room, and with Nullopt *)
(* otherwise.  Nothing but age, room and the end of the cache removes an   *)
(* entry.  TimeAndSizeBoundedCache implements this specification.          *)
(***************************************************************************)
EXTENDS TtlMap

CONSTANTS Keys, Values, NoAnswer

VARIABLES
  held,    \* what each key maps to
  open,    \* callers may still call
  answer   \* what a get returned in the last step, NoAnswer after any other

vars == <<held, open, answer>>

Init ==
  /\ held = [k \in Keys |-> Nullopt]
  /\ open = TRUE
  /\ answer = NoAnswer

Get(k) ==
  /\ open
  /\ held' = AfterGet(held, k)
  /\ answer' = [key |-> k, value |-> Found(held, k)]
  /\ UNCHANGED open

Put(k, v) ==
  /\ open
  /\ held' \in AfterPut(held, k, v)
  /\ answer' = NoAnswer
  /\ UNCHANGED open

\* In its own time, the cache forgets an entry that has expired.
Reclaim(k) ==
  /\ held[k] # Nullopt /\ ~Live(held, k)
  /\ held' = Without(held, k)
  /\ answer' = NoAnswer
  /\ UNCHANGED open

Tick ==
  /\ held' = Aged(held)
  /\ answer' = NoAnswer
  /\ UNCHANGED open

\* The call is over: its answer is the caller's.
Return ==
  /\ answer' = NoAnswer
  /\ UNCHANGED <<held, open>>

Close ==
  /\ open' = FALSE
  /\ answer' = NoAnswer
  /\ UNCHANGED held

Discard ==
  /\ ~open
  /\ held' = [k \in Keys |-> Nullopt]
  /\ answer' = NoAnswer
  /\ UNCHANGED open

Next ==
  \/ \E k \in Keys : Get(k) \/ Reclaim(k) \/ \E v \in Values : Put(k, v)
  \/ Tick \/ Return \/ Close \/ Discard

Spec == Init /\ [][Next]_vars
=============================================================================
