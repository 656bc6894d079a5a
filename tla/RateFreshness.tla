---------------------------- MODULE RateFreshness ----------------------------
(***************************************************************************)
(* CurrencyServer with a history the code does not keep: how long ago the  *)
(* rates of each day were published.  How far behind frankfurter.dev a     *)
(* reply may be is judged by it.                                           *)
(***************************************************************************)
EXTENDS CurrencyServer

\* Below zero nothing is ever served from a cache (Entry::isExpired).
ASSUME MaxAgesAssumption == {RateMaxAge, HistoryMaxAge} \subseteq Nat

VARIABLE
  publishedFor  \* ticks since the rates of each day were published

fvars == <<vars, publishedFor>>

\* Bound on publishedFor, beyond the reach of every cache.
LongAgo == Max({RateMaxAge, HistoryMaxAge}) + 1

FreshInit == Init /\ publishedFor = [d \in Days |-> 0]

\* A worker puts what frankfurter.dev answered before the next tick.
PromptTick ==
  /\ \A w \in Workers : place[w] \notin {"store"} \X Uses
  /\ Tick
  /\ publishedFor' = [d \in Days |->
       IF d \in published /\ publishedFor[d] < LongAgo
       THEN publishedFor[d] + 1
       ELSE publishedFor[d]]

OtherStep ==
  /\ \/ Arrival
     \/ \E w \in Workers : WorkerStep(w)
     \/ Sweep \/ Midnight \/ Publish
  /\ UNCHANGED publishedFor

FreshNext == PromptTick \/ OtherStep

FreshSpec == FreshInit /\ [][FreshNext]_fvars

-----------------------------------------------------------------------------
\* A conversion uses the latest rates published when it is replied to, or
\* rates that were the latest no more than max_age ago: two requests that
\* fetch the same rate and put it in either order do not stretch that
\* (convert: get, latestRate, put).
RateAtMostMaxAgeBehind ==
  reply # Nothing /\ reply.status = "OK" /\ reply.request.rpc = "Convert" =>
    \A d \in published : d > reply.payload.date => publishedFor[d] <= RateMaxAge

\* A history has every day of its range that quotes the target and was
\* published more than max_age ago, even if the range ends today and was
\* first asked for before today's rates were there (getHistory).
HistoryAtMostMaxAgeBehind ==
  reply # Nothing /\ reply.status = "OK" /\ reply.request.rpc = "GetHistory" =>
    \A d \in published \intersect QuotedOn[reply.payload.quote] :
      reply.request.start <= d /\ d <= reply.request.end /\ publishedFor[d] > HistoryMaxAge
        => d \in reply.payload.days
=============================================================================
