--------------------------- MODULE CurrencyServer ---------------------------
(***************************************************************************)
(* The backend between its gRPC boundary and frankfurter.dev:              *)
(* grpc/CurrencyServiceImpl.cpp, the services of application/, their three *)
(* caches and external/FrankfurterClient.cpp, with several requests in     *)
(* progress at once.                                                       *)
(*                                                                         *)
(* A handler is cut where it touches what others share: each get, each     *)
(* put, and the moment frankfurter.dev answers are steps; what it computes *)
(* in between belongs to the step before.  The caches are the maps of      *)
(* ICache, which TimeAndSizeBoundedCache implements.  Dates are day        *)
(* numbers, a rate is told by its two currencies and its date.             *)
(*                                                                         *)
(* A definition marked "Fault" is not part of the specification: it is the *)
(* next definition with a slip in it, kept to show that a property fails   *)
(* when the code is wrong in that way.                                     *)
(***************************************************************************)
EXTENDS RequestChecks, FiniteSetsExt

CONSTANTS
  Workers,    \* gRPC threads with a request in hand
  Requests,   \* the requests clients send
  Upper,      \* toUpper, as a function on the codes clients send
  Listed,     \* the codes in frankfurter.dev's currency list
  QuotedOn,   \* the days for which it quotes each listed code
  LastDay,    \* bound on the calendar
  CatalogMaxAge, RateMaxAge, HistoryMaxAge,
  RateMaxElements, HistoryMaxElements,
  Nullopt, Nothing

Days == 0..LastDay

ASSUME CalendarAssumption == LastDay \in Nat /\ FirstDay \in Days

\* The messages of currency.proto.
RequestMessages ==
  [rpc : {"ListCurrencies", "GetConstraints"}]
    \union [rpc : {"Convert"}, source : DOMAIN Upper, target : DOMAIN Upper,
            amount : Int \union {NotFinite}]
    \union [rpc : {"GetHistory"}, source : DOMAIN Upper, target : DOMAIN Upper,
            start : Int \union {NotADate}, end : Int \union {NotADate}]

ASSUME RequestsAssumption == Requests \subseteq RequestMessages

\* -1 stands for every max_age below zero: nothing is ever served.
ASSUME AgesAssumption ==
  {CatalogMaxAge, RateMaxAge, HistoryMaxAge} \subseteq Nat \union {-1}

CatalogMaxElements == 8

Pairs == Listed \X Listed
Queries == Listed \X Listed \X Days \X Days

Catalogs == INSTANCE TtlMap WITH
  MaxAge <- CatalogMaxAge, MaxElements <- CatalogMaxElements, AgeCap <- CatalogMaxAge + 1
Rates == INSTANCE TtlMap WITH
  MaxAge <- RateMaxAge, MaxElements <- RateMaxElements, AgeCap <- RateMaxAge + 1
Histories == INSTANCE TtlMap WITH
  MaxAge <- HistoryMaxAge, MaxElements <- HistoryMaxElements, AgeCap <- HistoryMaxAge + 1

VARIABLES
  currencyCache, latestRateCache, historyCache,
  place,      \* where each worker is in its handler
  request,    \* the request each worker has in hand
  fetched,    \* what frankfurter.dev answered and is not in a cache yet
  reply,      \* the reply sent in the last step, Nothing after any other
  today,      \* the date of system_clock
  published,  \* the days frankfurter.dev has published rates for
  receivedOn  \* the day each request in hand came in

caches == <<currencyCache, latestRateCache, historyCache>>
handlers == <<place, request, fetched, receivedOn>>
outside == <<today, published>>
vars == <<caches, handlers, reply, outside>>

\* What a worker looks up, first in a cache and then at frankfurter.dev: the
\* currency list, for itself or to check the source or the target in it, and
\* the rate or the history asked for.
CatalogUses == {"list", "source", "target"}
Uses == CatalogUses \union {"data"}

Idle == <<"idle", "none">>

\* lookup: about to get from the cache; fetch: the request is with
\* frankfurter.dev; store: about to put the answer.
Places == {Idle} \union ({"lookup", "fetch", "store"} \X Uses)

Init ==
  /\ currencyCache = [k \in {"currencies"} |-> Nullopt]
  /\ latestRateCache = [k \in Pairs |-> Nullopt]
  /\ historyCache = [k \in Queries |-> Nullopt]
  /\ place = [w \in Workers |-> Idle]
  /\ request = [w \in Workers |-> Nothing]
  /\ fetched = [w \in Workers |-> Nothing]
  /\ receivedOn = [w \in Workers |-> Nothing]
  /\ reply = Nothing
  /\ today = FirstDay
  /\ published = {FirstDay}

-----------------------------------------------------------------------------
(* Sources and targets, keys, checks. *)

Source(r) == Upper[r.source]
Target(r) == Upper[r.target]

RateKey(r) == <<Source(r), Target(r)>>
\* Fault: the end date is left out of the key.
HistoryKeyWithoutEnd(r) == <<Source(r), Target(r), r.start, r.start>>

HistoryKey(r) == <<Source(r), Target(r), r.start, r.end>>

\* What the services check of a request once both its codes are known.
Admissible(r) ==
  IF r.rpc = "Convert"
  THEN IsConvertible(Source(r), Target(r), r.amount)
  ELSE Selectable(r.start, r.end, today)

-----------------------------------------------------------------------------
(* Moving on. *)

MoveTo(w, p) == place' = [place EXCEPT ![w] = p]

GoesOn(w, p) ==
  /\ MoveTo(w, p)
  /\ reply' = Nothing
  /\ UNCHANGED <<request, receivedOn, outside>>

\* The exceptions of domain/Errors.h.
UpstreamExceptions == {"ExternalApiUnavailable", "ExternalApiUnexpectedResponse"}
DomainExceptions == {"InvalidArgument", "CurrencyNotFound"} \union UpstreamExceptions

\* Whatever else is thrown ends up in the last line.
toStatus ==
  [ex \in DomainExceptions \union {"other"} |->
     CASE ex = "InvalidArgument" -> "INVALID_ARGUMENT"
       [] ex = "CurrencyNotFound" -> "NOT_FOUND"
       [] ex = "ExternalApiUnavailable" -> "UNAVAILABLE"
       [] OTHER -> "INTERNAL"]

\* handle returns the status to gRPC, and the worker is free.
Replies(w, status, payload) ==
  /\ reply' = [request |-> request[w], receivedOn |-> receivedOn[w],
               status |-> status, payload |-> payload]
  /\ MoveTo(w, Idle)
  /\ request' = [request EXCEPT ![w] = Nothing]
  /\ receivedOn' = [receivedOn EXCEPT ![w] = Nothing]
  /\ UNCHANGED outside


\* handle has caught an exception.
Throws(w, ex) == Replies(w, toStatus[ex], Nothing)

\* A handler begins, up to the first cache it asks.  The date range is built
\* before the service is called.
Receive(w, r) ==
  /\ place[w] = Idle
  /\ r.rpc \in {"ListCurrencies", "Convert", "GetHistory"}
  /\ r.rpc = "GetHistory" => IsDateRange(r.start, r.end)
  /\ MoveTo(w, <<"lookup", IF r.rpc = "ListCurrencies" THEN "list" ELSE "source">>)
  /\ request' = [request EXCEPT ![w] = r]
  /\ receivedOn' = [receivedOn EXCEPT ![w] = today]
  /\ reply' = Nothing
  /\ UNCHANGED <<caches, fetched, outside>>

ImmediateReply(r, status, payload) ==
  /\ reply' = [request |-> r, receivedOn |-> today, status |-> status, payload |-> payload]
  /\ UNCHANGED <<caches, handlers, outside>>

RejectRange(w, r) ==
  /\ place[w] = Idle
  /\ r.rpc = "GetHistory"
  /\ ~IsDateRange(r.start, r.end)
  /\ ImmediateReply(r, toStatus["InvalidArgument"], Nothing)

GetConstraints(w, r) ==
  /\ place[w] = Idle
  /\ r.rpc = "GetConstraints"
  /\ ImmediateReply(r, "OK", [minDate |-> FirstDay, maxDate |-> today])

-----------------------------------------------------------------------------
(* CurrencyCatalogService: listCurrencies, and isKnownCurrency of it. *)

\* The currency list is there: what becomes of the request.
WithList(w, use, list) ==
  LET r == request[w]
      code == IF use = "source" THEN Source(r) ELSE Target(r)
  IN  \/ use = "list" /\ Replies(w, "OK", list)
      \/ use # "list" /\ code \notin list /\ Throws(w, "CurrencyNotFound")
      \/ use = "source" /\ code \in list /\ GoesOn(w, <<"lookup", "target">>)
      \/ use = "target" /\ code \in list /\ Admissible(r) /\ GoesOn(w, <<"lookup", "data">>)
      \/ use = "target" /\ code \in list /\ ~Admissible(r) /\ Throws(w, "InvalidArgument")

LookupCatalog(w, use) ==
  /\ place[w] = <<"lookup", use>>
  /\ currencyCache' = Catalogs!AfterGet(currencyCache, "currencies")
  /\ LET list == Catalogs!Found(currencyCache, "currencies")
     IN  IF list = Nullopt
         THEN GoesOn(w, <<"fetch", use>>)
         ELSE WithList(w, use, list)
  /\ UNCHANGED <<latestRateCache, historyCache, fetched>>

\* Fault: the list is used and not put.
CatalogAnswerUncached(w, use) ==
  /\ place[w] = <<"fetch", use>>
  /\ WithList(w, use, Listed)
  /\ UNCHANGED <<caches, fetched>>

CatalogAnswer(w, use) ==
  /\ place[w] = <<"fetch", use>>
  /\ fetched' = [fetched EXCEPT ![w] = Listed]
  /\ GoesOn(w, <<"store", use>>)
  /\ UNCHANGED caches

\* Fault: an empty list is taken for an answer.
EmptyCatalogBelieved(w, use) ==
  /\ place[w] = <<"fetch", use>>
  /\ fetched' = [fetched EXCEPT ![w] = {}]
  /\ GoesOn(w, <<"store", use>>)
  /\ UNCHANGED caches

\* Fault: an empty list is asked for again, and again.
EmptyCatalogRetried(w, use) ==
  /\ place[w] = <<"fetch", use>>
  /\ GoesOn(w, <<"lookup", use>>)
  /\ UNCHANGED <<caches, fetched>>

\* A list without a currency in it is not believed.
EmptyCatalogAnswer(w, use) ==
  /\ place[w] = <<"fetch", use>>
  /\ Throws(w, "ExternalApiUnexpectedResponse")
  /\ UNCHANGED <<caches, fetched>>

StoreCatalog(w, use) ==
  /\ place[w] = <<"store", use>>
  /\ currencyCache' \in Catalogs!AfterPut(currencyCache, "currencies", fetched[w])
  /\ fetched' = [fetched EXCEPT ![w] = Nothing]
  /\ WithList(w, use, fetched[w])
  /\ UNCHANGED <<latestRateCache, historyCache>>

-----------------------------------------------------------------------------
(* ConversionService and HistoryService: the cached query. *)

\* Fault: a hit is put again, as if it came from frankfurter.dev.
QueryRateRenewing(w) ==
  /\ place[w] = <<"lookup", "data">>
  /\ request[w].rpc = "Convert"
  /\ LET rate == Rates!Found(latestRateCache, RateKey(request[w]))
     IN  IF rate = Nullopt
         THEN /\ GoesOn(w, <<"fetch", "data">>)
              /\ latestRateCache' = Rates!AfterGet(latestRateCache, RateKey(request[w]))
         ELSE /\ Replies(w, "OK", rate)
              /\ latestRateCache' \in Rates!AfterPut(latestRateCache, RateKey(request[w]), rate)
  /\ UNCHANGED <<currencyCache, historyCache, fetched>>

QueryRate(w) ==
  /\ place[w] = <<"lookup", "data">>
  /\ request[w].rpc = "Convert"
  /\ latestRateCache' = Rates!AfterGet(latestRateCache, RateKey(request[w]))
  /\ LET rate == Rates!Found(latestRateCache, RateKey(request[w]))
     IN  IF rate = Nullopt THEN GoesOn(w, <<"fetch", "data">>) ELSE Replies(w, "OK", rate)
  /\ UNCHANGED <<currencyCache, historyCache, fetched>>

\* Fault: what the cache still holds is served, expired or not.
QueryHistoryUnchecked(w) ==
  /\ place[w] = <<"lookup", "data">>
  /\ request[w].rpc = "GetHistory"
  /\ LET kept == historyCache[HistoryKey(request[w])]
     IN  IF kept = Nullopt THEN GoesOn(w, <<"fetch", "data">>) ELSE Replies(w, "OK", kept.value)
  /\ UNCHANGED <<caches, fetched>>

QueryHistory(w) ==
  /\ place[w] = <<"lookup", "data">>
  /\ request[w].rpc = "GetHistory"
  /\ historyCache' = Histories!AfterGet(historyCache, HistoryKey(request[w]))
  /\ LET points == Histories!Found(historyCache, HistoryKey(request[w]))
     IN  IF points = Nullopt THEN GoesOn(w, <<"fetch", "data">>) ELSE Replies(w, "OK", points)
  /\ UNCHANGED <<currencyCache, latestRateCache, fetched>>

LatestDay == Max(published)

\* latestRate insists on a rate for the target.
RateAnswer(w) ==
  /\ place[w] = <<"fetch", "data">>
  /\ request[w].rpc = "Convert"
  /\ LatestDay \in QuotedOn[Target(request[w])]
  /\ fetched' = [fetched EXCEPT ![w] =
       [base |-> Source(request[w]), quote |-> Target(request[w]), date |-> LatestDay]]
  /\ GoesOn(w, <<"store", "data">>)
  /\ UNCHANGED caches

NoRateAnswer(w) ==
  /\ place[w] = <<"fetch", "data">>
  /\ request[w].rpc = "Convert"
  /\ LatestDay \notin QuotedOn[Target(request[w])]
  /\ Throws(w, "ExternalApiUnexpectedResponse")
  /\ UNCHANGED <<caches, fetched>>

\* frankfurter.dev adds the closest earlier day when it has no rates for the
\* first one.
DaysSent(start, end) ==
  {d \in published : start <= d /\ d <= end}
    \union (IF start \in published THEN {}
            ELSE {d \in published : d < start /\ \A e \in published : e < start => e <= d})

\* Fault: every day sent is kept.
AllPointsOf(r) == DaysSent(r.start, r.end) \intersect QuotedOn[Target(r)]

\* history keeps the days in the range that quote the target.
PointsOf(r) ==
  {d \in DaysSent(r.start, r.end) :
     r.start <= d /\ d <= r.end /\ d \in QuotedOn[Target(r)]}

HistoryAnswer(w) ==
  /\ place[w] = <<"fetch", "data">>
  /\ request[w].rpc = "GetHistory"
  /\ fetched' = [fetched EXCEPT ![w] =
       [base |-> Source(request[w]), quote |-> Target(request[w]),
        days |-> PointsOf(request[w])]]
  /\ GoesOn(w, <<"store", "data">>)
  /\ UNCHANGED caches

StoreRate(w) ==
  /\ place[w] = <<"store", "data">>
  /\ request[w].rpc = "Convert"
  /\ latestRateCache' \in Rates!AfterPut(latestRateCache, RateKey(request[w]), fetched[w])
  /\ fetched' = [fetched EXCEPT ![w] = Nothing]
  /\ Replies(w, "OK", fetched[w])
  /\ UNCHANGED <<currencyCache, historyCache>>

StoreHistory(w) ==
  /\ place[w] = <<"store", "data">>
  /\ request[w].rpc = "GetHistory"
  /\ historyCache' \in Histories!AfterPut(historyCache, HistoryKey(request[w]), fetched[w])
  /\ fetched' = [fetched EXCEPT ![w] = Nothing]
  /\ Replies(w, "OK", fetched[w])
  /\ UNCHANGED <<currencyCache, latestRateCache>>

\* No connection, a timeout or a status other than 200; a body that is not
\* what was expected; no session to send with, which get does not catch.
UpstreamFails(w) ==
  /\ place[w] \in {"fetch"} \X Uses
  /\ \E ex \in UpstreamExceptions \union {"other"} : Throws(w, ex)
  /\ UNCHANGED <<caches, fetched>>

-----------------------------------------------------------------------------
(* What happens by itself. *)

Outside == reply' = Nothing /\ UNCHANGED handlers

\* Each cache drops what has expired, in its own time.
Sweep ==
  /\ \/ /\ \E k \in Catalogs!Held(currencyCache) :
             ~Catalogs!Live(currencyCache, k) /\ currencyCache' = Catalogs!Without(currencyCache, k)
        /\ UNCHANGED <<latestRateCache, historyCache>>
     \/ /\ \E k \in Rates!Held(latestRateCache) :
             ~Rates!Live(latestRateCache, k) /\ latestRateCache' = Rates!Without(latestRateCache, k)
        /\ UNCHANGED <<currencyCache, historyCache>>
     \/ /\ \E k \in Histories!Held(historyCache) :
             ~Histories!Live(historyCache, k) /\ historyCache' = Histories!Without(historyCache, k)
        /\ UNCHANGED <<currencyCache, latestRateCache>>
  /\ Outside
  /\ UNCHANGED outside

\* steady_clock advances by a tick.
Tick ==
  /\ currencyCache' = Catalogs!Aged(currencyCache)
  /\ latestRateCache' = Rates!Aged(latestRateCache)
  /\ historyCache' = Histories!Aged(historyCache)
  /\ Outside
  /\ UNCHANGED outside

Midnight ==
  /\ today < LastDay
  /\ today' = today + 1
  /\ Outside
  /\ UNCHANGED <<caches, published>>

Publish ==
  /\ today \notin published
  /\ published' = published \union {today}
  /\ Outside
  /\ UNCHANGED <<caches, today>>

-----------------------------------------------------------------------------
WorkerStep(w) ==
  \/ \E use \in CatalogUses :
       LookupCatalog(w, use) \/ CatalogAnswer(w, use)
         \/ EmptyCatalogAnswer(w, use) \/ StoreCatalog(w, use)
  \/ QueryRate(w) \/ RateAnswer(w) \/ NoRateAnswer(w) \/ StoreRate(w)
  \/ QueryHistory(w) \/ HistoryAnswer(w) \/ StoreHistory(w)
  \/ UpstreamFails(w)

Arrival ==
  \E w \in Workers, r \in Requests : Receive(w, r) \/ RejectRange(w, r) \/ GetConstraints(w, r)

Next ==
  \/ Arrival
  \/ \E w \in Workers : WorkerStep(w)
  \/ Sweep \/ Tick \/ Midnight \/ Publish

Spec == Init /\ [][Next]_vars

\* Every thread is scheduled, and a call to frankfurter.dev ends: the session
\* has a timeout.
FairSpec == Spec /\ \A w \in Workers : WF_vars(WorkerStep(w))

-----------------------------------------------------------------------------
(* Properties. *)

Rate == [base : Listed, quote : Listed, date : Days]
Points == [base : Listed, quote : Listed, days : SUBSET Days]

\* The marker for nothing is no request and no answer.
ASSUME NothingAssumption ==
  /\ Nothing \notin Requests /\ Nothing # Listed
  /\ Nothing \notin Rate /\ Nothing \notin Points

Kept(values, maxAge) == [value : values, age : 0..maxAge + 1] \union {Nullopt}

\* Every variable keeps to its type.
TypeOK ==
  /\ currencyCache \in [{"currencies"} -> Kept({Listed}, CatalogMaxAge)]
  /\ latestRateCache \in [Pairs -> Kept(Rate, RateMaxAge)]
  /\ historyCache \in [Queries -> Kept(Points, HistoryMaxAge)]
  /\ \A w \in Workers :
       /\ place[w] \in Places
       /\ (place[w] = Idle) <=> (request[w] = Nothing)
       /\ (place[w] \in {"store"} \X Uses) <=> (fetched[w] # Nothing)
  /\ today \in Days
  /\ published \subseteq Days

Known(r) == {Source(r), Target(r)} \subseteq Listed

\* What docs/api.md asks of a request that is served on a day.
Deserves(r, day) ==
  CASE r.rpc = "Convert" ->
         Known(r) /\ Source(r) # Target(r) /\ r.amount \in MinAmount..MaxAmount
    [] r.rpc = "GetHistory" ->
         Known(r) /\ {r.start, r.end} \subseteq FirstDay..day /\ r.start <= r.end
    [] OTHER -> TRUE

\* The status of a reply is the one its request has coming, whatever the
\* caches held, whichever lookups went to frankfurter.dev and however the
\* day changed on the way: OK only for requests that pass every check,
\* NOT_FOUND only for codes that are not listed, INVALID_ARGUMENT only for
\* another fault in the request (convert, getHistory, toStatus).
StatusReflectsRequest ==
  reply # Nothing =>
    /\ reply.status = "OK" => Deserves(reply.request, today)
    /\ reply.status = "INVALID_ARGUMENT" => ~Deserves(reply.request, reply.receivedOn)
    /\ reply.status = "NOT_FOUND" => ~Known(reply.request)

\* frankfurter.dev is asked for nothing but what passed every check (the
\* bounds are there to keep degenerate inputs from the external API).
OnlyCheckedQueriesLeave ==
  \A w \in Workers : place[w] = <<"fetch", "data">> => Deserves(request[w], today)

\* What is in hand or in a cache under a key was published for that key: for
\* its two currencies, days of its range, and only days that quote the
\* target.  No failed, empty or foreign answer gets in (put comes after the
\* last throw).
CachesHoldWhatWasPublished ==
  /\ \A k \in Rates!Held(latestRateCache) :
       LET rate == latestRateCache[k].value
       IN  /\ k = <<rate.base, rate.quote>> /\ rate.base # rate.quote
           /\ rate.date \in published \intersect QuotedOn[rate.quote]
  /\ \A k \in Histories!Held(historyCache) :
       LET points == historyCache[k].value
       IN  /\ <<points.base, points.quote>> = <<k[1], k[2]>>
           /\ points.days \subseteq published \intersect QuotedOn[points.quote] \intersect (k[3]..k[4])

\* A reply carries what its own request asked for, also when another worker
\* put it (Convert, GetHistory).
ReplyAnswersItsRequest ==
  reply # Nothing /\ reply.status = "OK" =>
    LET r == reply.request
        answer == reply.payload
    IN  /\ r.rpc \in {"Convert", "GetHistory"} =>
             <<answer.base, answer.quote>> = <<Source(r), Target(r)>>
        /\ r.rpc = "GetHistory" => answer.days \subseteq r.start..r.end

\* What CurrencyServerApp takes a handler for is what these handlers are:
\* between two calls to frankfurter.dev one goes back to a cache with the
\* answer, and to the next lookup only from there (listCurrencies, convert,
\* getHistory).
Course == INSTANCE HandlerCourse WITH place <- [w \in Workers |-> place[w][1]]

TakesItsCourse == Course!Spec

\* How many steps a handler has before it at most, by where it is.
LookupsToCome ==
  [use \in Uses |-> CASE use = "source" -> 2 [] use = "target" -> 1 [] OTHER -> 0]

StepsLeft(p) ==
  IF p = Idle THEN 0
  ELSE 3 * LookupsToCome[p[2]] +
       (CASE p[1] = "lookup" -> 3 [] p[1] = "fetch" -> 2 [] p[1] = "store" -> 1)

\* Every step of a handler brings it nearer to its reply, whatever others
\* evict or put and however often frankfurter.dev is asked: nothing is
\* tried again, no lookup repeated, and no request costs more than three
\* calls upstream (listCurrencies, convert, getHistory).
NearsItsReply ==
  [][\A w \in Workers : place[w] # Idle /\ place'[w] # place[w] =>
       StepsLeft(place'[w]) < StepsLeft(place[w])]_vars

\* Every request is replied to, failing upstream or not.
EveryRequestAnswered ==
  \A w \in Workers : place[w] # Idle ~> place[w] = Idle

\* docs/api.md, Convert and GetHistory: unknown codes are to return
\* INVALID_ARGUMENT.
UnknownCodeIsInvalidArgument ==
  reply # Nothing /\ reply.request.rpc \in {"Convert", "GetHistory"} =>
    (~Known(reply.request) => reply.status \in {"INVALID_ARGUMENT", "UNAVAILABLE", "INTERNAL"})

\* docs/architecture.md: UNAVAILABLE stands for "frankfurter.dev unreachable /
\* times out, no usable cache entry".
UnavailableOnlyWithoutCachedHistory ==
  reply # Nothing /\ reply.status = "UNAVAILABLE" /\ reply.request.rpc = "GetHistory"
    /\ Deserves(reply.request, today) =>
      ~Histories!Live(historyCache, HistoryKey(reply.request))
=============================================================================
