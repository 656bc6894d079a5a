---------------------------- MODULE HandlerCourse ----------------------------
(***************************************************************************)
(* The course of the handlers of grpc/CurrencyServiceImpl.cpp, as far as   *)
(* it matters to the rest of the process: which of them are at a cache and *)
(* which at frankfurter.dev.  A request has up to three lookups; each is a *)
(* get and, after a miss, a call to frankfurter.dev and a put.             *)
(*                                                                         *)
(* CurrencyServerApp composes these handlers with the life of the process; *)
(* those of CurrencyServer keep to this course.                            *)
(***************************************************************************)

CONSTANT Workers  \* handlers that may run at once

VARIABLE place    \* where each of them is

Init == place = [w \in Workers |-> "idle"]

Moves(w, from, to) == place[w] = from /\ place' = [place EXCEPT ![w] = to]

Receive(w) == Moves(w, "idle", "lookup")
Miss(w) == Moves(w, "lookup", "fetch")
Answer(w) == Moves(w, "fetch", "store")
LookupNext(w) == Moves(w, "store", "lookup")
Reply(w) == \E p \in {"lookup", "fetch", "store"} : Moves(w, p, "idle")

Next ==
  \E w \in Workers : Receive(w) \/ Miss(w) \/ Answer(w) \/ LookupNext(w) \/ Reply(w)

Spec == Init /\ [][Next]_place
=============================================================================
