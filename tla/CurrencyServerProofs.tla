------------------------ MODULE CurrencyServerProofs ------------------------
(***************************************************************************)
(* Proofs about CurrencyServer, for any number of gRPC threads, any        *)
(* requests, currencies and quotes, and any ages and sizes of the caches.  *)
(***************************************************************************)
EXTENDS CurrencyServer, TLAPS

-----------------------------------------------------------------------------
(* What the operations of a cache do to what it holds. *)

\* n holds nothing but what m holds.
NothingNew(m, n) ==
  /\ DOMAIN n = DOMAIN m
  /\ \A k \in DOMAIN m : n[k] # Nullopt => m[k] # Nullopt /\ n[k].value = m[k].value

\* n holds nothing but what m holds and v under k.
NothingNewBut(m, n, k, v) ==
  /\ DOMAIN n = DOMAIN m
  /\ \A x \in DOMAIN m : n[x] # Nullopt =>
       \/ x = k /\ n[x].value = v
       \/ m[x] # Nullopt /\ n[x].value = m[x].value

LEMMA CatalogOperations ==
  ASSUME NEW m, NEW k
  PROVE  /\ NothingNew(m, Catalogs!AfterGet(m, k))
         /\ NothingNew(m, Catalogs!Without(m, k))
         /\ NothingNew(m, Catalogs!Aged(m))
         /\ \A v : \A n \in Catalogs!AfterPut(m, k, v) : NothingNewBut(m, n, k, v)
         /\ Catalogs!Found(m, k) # Nullopt =>
              m[k] # Nullopt /\ Catalogs!Found(m, k) = m[k].value
<1>1. NothingNew(m, Catalogs!Without(m, k))
  BY DEF NothingNew, Catalogs!Without, Catalogs!With
<1>2. NothingNew(m, Catalogs!AfterGet(m, k))
  BY <1>1 DEF NothingNew, Catalogs!AfterGet
<1>3. NothingNew(m, Catalogs!Aged(m))
  BY DEF NothingNew, Catalogs!Aged
<1>4. \A v : \A n \in Catalogs!AfterPut(m, k, v) : NothingNewBut(m, n, k, v)
  BY DEF NothingNewBut, Catalogs!AfterPut, Catalogs!Without, Catalogs!With
<1>5. Catalogs!Found(m, k) # Nullopt => m[k] # Nullopt /\ Catalogs!Found(m, k) = m[k].value
  BY DEF Catalogs!Found, Catalogs!Live
<1> QED
  BY <1>1, <1>2, <1>3, <1>4, <1>5

LEMMA RateOperations ==
  ASSUME NEW m, NEW k
  PROVE  /\ NothingNew(m, Rates!AfterGet(m, k))
         /\ NothingNew(m, Rates!Without(m, k))
         /\ NothingNew(m, Rates!Aged(m))
         /\ \A v : \A n \in Rates!AfterPut(m, k, v) : NothingNewBut(m, n, k, v)
         /\ Rates!Found(m, k) # Nullopt =>
              m[k] # Nullopt /\ Rates!Found(m, k) = m[k].value
<1>1. NothingNew(m, Rates!Without(m, k))
  BY DEF NothingNew, Rates!Without, Rates!With
<1>2. NothingNew(m, Rates!AfterGet(m, k))
  BY <1>1 DEF NothingNew, Rates!AfterGet
<1>3. NothingNew(m, Rates!Aged(m))
  BY DEF NothingNew, Rates!Aged
<1>4. \A v : \A n \in Rates!AfterPut(m, k, v) : NothingNewBut(m, n, k, v)
  BY DEF NothingNewBut, Rates!AfterPut, Rates!Without, Rates!With
<1>5. Rates!Found(m, k) # Nullopt => m[k] # Nullopt /\ Rates!Found(m, k) = m[k].value
  BY DEF Rates!Found, Rates!Live
<1> QED
  BY <1>1, <1>2, <1>3, <1>4, <1>5

LEMMA HistoryOperations ==
  ASSUME NEW m, NEW k
  PROVE  /\ NothingNew(m, Histories!AfterGet(m, k))
         /\ NothingNew(m, Histories!Without(m, k))
         /\ NothingNew(m, Histories!Aged(m))
         /\ \A v : \A n \in Histories!AfterPut(m, k, v) : NothingNewBut(m, n, k, v)
         /\ Histories!Found(m, k) # Nullopt =>
              m[k] # Nullopt /\ Histories!Found(m, k) = m[k].value
<1>1. NothingNew(m, Histories!Without(m, k))
  BY DEF NothingNew, Histories!Without, Histories!With
<1>2. NothingNew(m, Histories!AfterGet(m, k))
  BY <1>1 DEF NothingNew, Histories!AfterGet
<1>3. NothingNew(m, Histories!Aged(m))
  BY DEF NothingNew, Histories!Aged
<1>4. \A v : \A n \in Histories!AfterPut(m, k, v) : NothingNewBut(m, n, k, v)
  BY DEF NothingNewBut, Histories!AfterPut, Histories!Without, Histories!With
<1>5. Histories!Found(m, k) # Nullopt => m[k] # Nullopt /\ Histories!Found(m, k) = m[k].value
  BY DEF Histories!Found, Histories!Live
<1> QED
  BY <1>1, <1>2, <1>3, <1>4, <1>5

-----------------------------------------------------------------------------
(* The inductive invariant: what a handler knows at each of its places, and *)
(* what the caches hold.                                                    *)

\* A day is at hand, and frankfurter.dev has published up to some day.
CalendarOK ==
  /\ today \in Days /\ FirstDay <= today
  /\ published \subseteq 0..today
  /\ \E last \in published : \A d \in published : d <= last

RateFor(k, rate, days) ==
  /\ k = <<rate.base, rate.quote>> /\ rate.base # rate.quote
  /\ rate.date \in days /\ rate.date \in QuotedOn[rate.quote]

HistoryFor(k, points, days) ==
  /\ points.base = k[1] /\ points.quote = k[2]
  /\ points.days \subseteq days
  /\ points.days \subseteq QuotedOn[points.quote]
  /\ points.days \subseteq k[3]..k[4]

CatalogRight ==
  /\ DOMAIN currencyCache = {"currencies"}
  /\ currencyCache["currencies"] # Nullopt => currencyCache["currencies"].value = Listed

RatesRight ==
  /\ DOMAIN latestRateCache = Pairs
  /\ \A k \in Pairs : latestRateCache[k] # Nullopt =>
       RateFor(k, latestRateCache[k].value, published)

HistoriesRight ==
  /\ DOMAIN historyCache = Queries
  /\ \A k \in Queries : historyCache[k] # Nullopt =>
       HistoryFor(k, historyCache[k].value, published)

WellFormed(r) == r.rpc = "GetHistory" => IsDateRange(r.start, r.end)

\* r passed every check, on day or before.
Checked(r, day) ==
  /\ Known(r)
  /\ r.rpc = "Convert" => IsConvertible(Source(r), Target(r), r.amount)
  /\ r.rpc = "GetHistory" => Selectable(r.start, r.end, day)

AtUse(w, uses) == place[w] \in {"lookup", "fetch", "store"} \X uses

HandlerOK(w) ==
  /\ place[w] \in Places
  /\ place[w] # Idle =>
       /\ request[w] \in Requests /\ WellFormed(request[w])
       /\ receivedOn[w] \in Days /\ receivedOn[w] <= today
  /\ AtUse(w, {"list"}) => request[w].rpc = "ListCurrencies"
  /\ AtUse(w, {"source", "target", "data"}) => request[w].rpc \in {"Convert", "GetHistory"}
  /\ AtUse(w, {"target", "data"}) => Source(request[w]) \in Listed
  /\ AtUse(w, {"data"}) => Checked(request[w], today)
  /\ place[w] \in {"store"} \X CatalogUses => fetched[w] = Listed
  /\ place[w] = <<"store", "data">> =>
       /\ request[w].rpc = "Convert" => RateFor(RateKey(request[w]), fetched[w], published)
       /\ request[w].rpc = "GetHistory" =>
            HistoryFor(HistoryKey(request[w]), fetched[w], published)

OfWorkers(f) == f = [w \in Workers |-> f[w]]

Shapes == OfWorkers(place) /\ OfWorkers(request) /\ OfWorkers(fetched) /\ OfWorkers(receivedOn)

IInv ==
  /\ CalendarOK
  /\ CatalogRight /\ RatesRight /\ HistoriesRight
  /\ Shapes
  /\ \A w \in Workers : HandlerOK(w)

LEMMA InitIInv == Init => IInv
<1> SUFFICES ASSUME Init PROVE IInv
  OBVIOUS
<1>1. CalendarOK
  BY CalendarAssumption DEF Init, CalendarOK, Days
<1>2. CatalogRight /\ RatesRight /\ HistoriesRight
  BY DEF Init, CatalogRight, RatesRight, HistoriesRight
<1>3. Shapes
  BY DEF Init, Shapes, OfWorkers
<1>4. \A w \in Workers : HandlerOK(w)
  BY DEF Init, HandlerOK, AtUse, Idle, Places
<1> QED
  BY <1>1, <1>2, <1>3, <1>4 DEF IInv

-----------------------------------------------------------------------------
(* The caches. *)

LEMMA RatesStay ==
  ASSUME RatesRight, NothingNew(latestRateCache, latestRateCache'),
         published \subseteq published'
  PROVE  RatesRight'
  BY DEF RatesRight, NothingNew, RateFor

LEMMA RatesGain ==
  ASSUME RatesRight, NEW k, NEW v, NothingNewBut(latestRateCache, latestRateCache', k, v),
         RateFor(k, v, published), published' = published
  PROVE  RatesRight'
  BY DEF RatesRight, NothingNewBut, RateFor

LEMMA HistoriesStay ==
  ASSUME HistoriesRight, NothingNew(historyCache, historyCache'),
         published \subseteq published'
  PROVE  HistoriesRight'
  BY DEF HistoriesRight, NothingNew, HistoryFor

LEMMA HistoriesGain ==
  ASSUME HistoriesRight, NEW k, NEW v, NothingNewBut(historyCache, historyCache', k, v),
         HistoryFor(k, v, published), published' = published
  PROVE  HistoriesRight'
  BY DEF HistoriesRight, NothingNewBut, HistoryFor

LEMMA CatalogStays ==
  ASSUME CatalogRight, NothingNew(currencyCache, currencyCache')
  PROVE  CatalogRight'
  BY DEF CatalogRight, NothingNew

LEMMA CatalogGains ==
  ASSUME CatalogRight, NEW k, NothingNewBut(currencyCache, currencyCache', k, Listed)
  PROVE  CatalogRight'
  BY DEF CatalogRight, NothingNewBut

-----------------------------------------------------------------------------
(* The handlers. *)

\* An assignment for one worker.
LEMMA ExceptOfWorkers ==
  ASSUME NEW f, OfWorkers(f), NEW w \in Workers, NEW v
  PROVE  /\ OfWorkers([f EXCEPT ![w] = v])
         /\ [f EXCEPT ![w] = v][w] = v
         /\ \A x \in Workers : x # w => [f EXCEPT ![w] = v][x] = f[x]
<1> DEFINE g == [x \in Workers |-> IF x = w THEN v ELSE f[x]]
<1>1. [f EXCEPT ![w] = v] = g
  BY DEF OfWorkers
<1>2. OfWorkers(g)
  BY DEF OfWorkers
<1> QED
  BY <1>1, <1>2

LEMMA RequestFields ==
  ASSUME NEW r \in Requests
  PROVE  /\ r.rpc \in {"ListCurrencies", "GetConstraints", "Convert", "GetHistory"}
         /\ r.rpc = "Convert" => r.amount \in Int \union {NotFinite}
         /\ r.rpc = "GetHistory" =>
              r.start \in Int \union {NotADate} /\ r.end \in Int \union {NotADate}
<1>1. r \in RequestMessages
  BY RequestsAssumption
<1>2. CASE r \in [rpc : {"ListCurrencies", "GetConstraints"}]
  BY <1>2
<1>3. CASE r \in [rpc : {"Convert"}, source : DOMAIN Upper, target : DOMAIN Upper,
                  amount : Int \union {NotFinite}]
  BY <1>3
<1>4. CASE r \in [rpc : {"GetHistory"}, source : DOMAIN Upper, target : DOMAIN Upper,
                  start : Int \union {NotADate}, end : Int \union {NotADate}]
  BY <1>4
<1> QED
  BY <1>1, <1>2, <1>3, <1>4 DEF RequestMessages

\* A range that was built is one of days.
LEMMA RangeOfDays ==
  ASSUME NEW r \in Requests, WellFormed(r), r.rpc = "GetHistory"
  PROVE  r.start \in Int /\ r.end \in Int /\ r.start <= r.end
  BY RequestFields DEF WellFormed, IsDateRange

\* What was let through stays so.
LEMMA CheckedStays ==
  ASSUME NEW r \in Requests, WellFormed(r), NEW day \in Int, NEW later \in Int, day <= later,
         Checked(r, day)
  PROVE  Checked(r, later)
<1>1. r.rpc = "GetHistory" => Selectable(r.start, r.end, later)
  BY RangeOfDays DEF Checked, Selectable
<1> QED
  BY <1>1 DEF Checked

\* A handler is undisturbed by what others do, by days that pass and by new
\* rates.
LEMMA HandlerStays ==
  ASSUME NEW w \in Workers, HandlerOK(w), CalendarOK,
         place'[w] = place[w], request'[w] = request[w], fetched'[w] = fetched[w],
         receivedOn'[w] = receivedOn[w],
         today' \in Days, today <= today', published \subseteq published'
  PROVE  HandlerOK(w)'
<1>1. today \in Int /\ today' \in Int
  BY DEF CalendarOK, Days
<1>2. place[w] # Idle =>
        /\ request'[w] \in Requests /\ WellFormed(request'[w])
        /\ receivedOn'[w] \in Days /\ receivedOn'[w] <= today'
  BY <1>1 DEF HandlerOK, Days
<1>3. ASSUME AtUse(w, {"data"}) PROVE Checked(request'[w], today')
  <2>1. place[w] # Idle
    BY <1>3 DEF AtUse, Idle
  <2> QED
    BY <1>1, <1>2, <1>3, <2>1, CheckedStays DEF HandlerOK
<1>4. ASSUME place[w] = <<"store", "data">>
      PROVE  /\ request'[w].rpc = "Convert" =>
                  RateFor(RateKey(request'[w]), fetched'[w], published')
             /\ request'[w].rpc = "GetHistory" =>
                  HistoryFor(HistoryKey(request'[w]), fetched'[w], published')
  BY <1>4 DEF HandlerOK, RateFor, HistoryFor
<1>5. \A uses : AtUse(w, uses)' <=> place[w] \in {"lookup", "fetch", "store"} \X uses
  BY DEF AtUse
<1>6. /\ place'[w] \in Places
      /\ AtUse(w, {"list"})' => request'[w].rpc = "ListCurrencies"
      /\ AtUse(w, {"source", "target", "data"})' => request'[w].rpc \in {"Convert", "GetHistory"}
      /\ AtUse(w, {"target", "data"})' => Source(request'[w]) \in Listed
      /\ place'[w] \in {"store"} \X CatalogUses => fetched'[w] = Listed
  BY <1>5 DEF HandlerOK, AtUse
<1> QED
  BY <1>2, <1>3, <1>4, <1>5, <1>6 DEF HandlerOK, AtUse

\* Where a step of one handler leaves it.
LEMMA HandlerMoves ==
  ASSUME NEW w \in Workers, NEW phase \in {"lookup", "fetch", "store"}, NEW use \in Uses,
         Shapes, CalendarOK, HandlerOK(w), place[w] # Idle, UNCHANGED outside,
         place' = [place EXCEPT ![w] = <<phase, use>>],
         UNCHANGED <<request, receivedOn>>,
         IF use = "list" THEN request[w].rpc = "ListCurrencies"
                         ELSE request[w].rpc \in {"Convert", "GetHistory"},
         use \in {"target", "data"} => Source(request[w]) \in Listed,
         use = "data" => Checked(request[w], today),
         phase = "store" /\ use \in CatalogUses => fetched'[w] = Listed,
         phase = "store" /\ use = "data" =>
           /\ request[w].rpc = "Convert" => RateFor(RateKey(request[w]), fetched'[w], published)
           /\ request[w].rpc = "GetHistory" =>
                HistoryFor(HistoryKey(request[w]), fetched'[w], published)
  PROVE  HandlerOK(w)'
<1>1. place'[w] = <<phase, use>> /\ <<phase, use>> \in Places
  BY ExceptOfWorkers DEF Shapes, Places
<1>2. today' = today /\ published' = published /\ request' = request /\ receivedOn' = receivedOn
  BY DEF outside
<1>3. \A uses : AtUse(w, uses)' <=> use \in uses
  BY <1>1 DEF AtUse
<1>4. request[w] \in Requests /\ WellFormed(request[w]) /\ receivedOn[w] \in Days
      /\ receivedOn[w] <= today
  BY DEF HandlerOK
<1> QED
  BY <1>1, <1>2, <1>3, <1>4 DEF HandlerOK, Uses, CatalogUses

\* A handler that has replied knows nothing.
LEMMA HandlerIdle ==
  ASSUME NEW w \in Workers, Shapes, place' = [place EXCEPT ![w] = Idle]
  PROVE  HandlerOK(w)'
<1>1. place'[w] = Idle
  BY ExceptOfWorkers DEF Shapes
<1> QED
  BY <1>1 DEF HandlerOK, AtUse, Idle, Places

-----------------------------------------------------------------------------
(* The steps. *)

FetchedBy(w) == fetched' = fetched \/ \E v : fetched' = [fetched EXCEPT ![w] = v]

LEMMA FetchedByOne ==
  ASSUME NEW w \in Workers, OfWorkers(fetched), FetchedBy(w)
  PROVE  OfWorkers(fetched') /\ \A x \in Workers : x # w => fetched'[x] = fetched[x]
<1>1. CASE fetched' = fetched
  BY <1>1
<1>2. CASE \E v : fetched' = [fetched EXCEPT ![w] = v]
  <2>1. PICK v : fetched' = [fetched EXCEPT ![w] = v]
    BY <1>2
  <2>2. /\ OfWorkers([fetched EXCEPT ![w] = v])
        /\ \A x \in Workers : x # w => [fetched EXCEPT ![w] = v][x] = fetched[x]
    BY ExceptOfWorkers
  <2> QED
    BY <2>1, <2>2, Zenon
<1> QED
  BY <1>1, <1>2 DEF FetchedBy

CachesRight == CatalogRight /\ RatesRight /\ HistoriesRight

LEMMA GoingOn ==
  ASSUME IInv, NEW w \in Workers, NEW phase \in {"lookup", "fetch", "store"}, NEW use \in Uses,
         GoesOn(w, <<phase, use>>), FetchedBy(w), CachesRight', HandlerOK(w)'
  PROVE  IInv'
<1>1. /\ place' = [place EXCEPT ![w] = <<phase, use>>]
      /\ request' = request /\ receivedOn' = receivedOn
      /\ today' = today /\ published' = published
  BY DEF GoesOn, MoveTo, outside
<1>2. Shapes'
  <2>1. OfWorkers(place') /\ OfWorkers(fetched')
    BY <1>1, ExceptOfWorkers, FetchedByOne DEF IInv, Shapes
  <2>2. OfWorkers(request') /\ OfWorkers(receivedOn')
    BY <1>1 DEF IInv, Shapes
  <2> QED
    BY <2>1, <2>2 DEF Shapes
<1>3. CalendarOK'
  BY <1>1 DEF IInv, CalendarOK
<1>4. ASSUME NEW x \in Workers, x # w PROVE HandlerOK(x)'
  <2>1. place'[x] = place[x] /\ request'[x] = request[x] /\ receivedOn'[x] = receivedOn[x]
        /\ fetched'[x] = fetched[x]
    BY <1>1, <1>4, ExceptOfWorkers, FetchedByOne DEF IInv, Shapes
  <2>2. today' \in Days /\ today <= today' /\ published \subseteq published'
    BY <1>1 DEF IInv, CalendarOK, Days
  <2> QED
    BY <2>1, <2>2, HandlerStays DEF IInv
<1> QED
  BY <1>2, <1>3, <1>4 DEF IInv, CachesRight

LEMMA Replying ==
  ASSUME IInv, NEW w \in Workers, NEW status, NEW payload,
         Replies(w, status, payload), FetchedBy(w), CachesRight'
  PROVE  IInv'
<1>1. /\ place' = [place EXCEPT ![w] = Idle]
      /\ request' = [request EXCEPT ![w] = Nothing]
      /\ receivedOn' = [receivedOn EXCEPT ![w] = Nothing]
      /\ today' = today /\ published' = published
  BY DEF Replies, MoveTo, outside
<1>2. Shapes'
  <2>1. OfWorkers(place') /\ OfWorkers(fetched')
    BY <1>1, ExceptOfWorkers, FetchedByOne DEF IInv, Shapes
  <2>2. OfWorkers(request') /\ OfWorkers(receivedOn')
    BY <1>1, ExceptOfWorkers DEF IInv, Shapes
  <2> QED
    BY <2>1, <2>2 DEF Shapes
<1>3. CalendarOK'
  BY <1>1 DEF IInv, CalendarOK
<1>4. ASSUME NEW x \in Workers, x # w PROVE HandlerOK(x)'
  <2>1. place'[x] = place[x] /\ request'[x] = request[x] /\ receivedOn'[x] = receivedOn[x]
        /\ fetched'[x] = fetched[x]
    BY <1>1, <1>4, ExceptOfWorkers, FetchedByOne DEF IInv, Shapes
  <2>2. today' \in Days /\ today <= today' /\ published \subseteq published'
    BY <1>1 DEF IInv, CalendarOK, Days
  <2> QED
    BY <2>1, <2>2, HandlerStays DEF IInv
<1>5. HandlerOK(w)'
  BY <1>1, HandlerIdle DEF IInv
<1> QED
  BY <1>2, <1>3, <1>4, <1>5 DEF IInv, CachesRight

\* With the list in hand a request goes on only if its code is on it, and to
\* its query only if it passes every check.
LEMMA WithListStep ==
  ASSUME IInv, NEW w \in Workers, NEW use \in CatalogUses, AtUse(w, {use}),
         WithList(w, use, Listed), FetchedBy(w), CachesRight'
  PROVE  IInv'
<1>1. place[w] # Idle /\ HandlerOK(w) /\ Shapes /\ CalendarOK
  BY DEF AtUse, Idle, IInv
<1>2. request[w] \in Requests
  BY <1>1 DEF HandlerOK
<1>3. ASSUME NEW status, NEW payload, Replies(w, status, payload) PROVE IInv'
  BY <1>3, Replying
<1>4. CASE use = "source" /\ Source(request[w]) \in Listed /\ GoesOn(w, <<"lookup", "target">>)
  <2>1. place' = [place EXCEPT ![w] = <<"lookup", "target">>]
        /\ UNCHANGED outside /\ UNCHANGED <<request, receivedOn>>
    BY <1>4 DEF GoesOn, MoveTo
  <2>2. request[w].rpc \in {"Convert", "GetHistory"}
    BY <1>1, <1>4 DEF HandlerOK, AtUse
  <2>3. "lookup" \in {"lookup", "fetch", "store"} /\ "target" \in Uses
    BY DEF Uses, CatalogUses
  <2>4. HandlerOK(w)'
    BY <1>1, <1>4, <2>1, <2>2, <2>3, HandlerMoves
  <2> QED
    BY <1>4, <2>3, <2>4, GoingOn
<1>5. CASE /\ use = "target" /\ Target(request[w]) \in Listed /\ Admissible(request[w])
           /\ GoesOn(w, <<"lookup", "data">>)
  <2>1. place' = [place EXCEPT ![w] = <<"lookup", "data">>]
        /\ UNCHANGED outside /\ UNCHANGED <<request, receivedOn>>
    BY <1>5 DEF GoesOn, MoveTo
  <2>2. request[w].rpc \in {"Convert", "GetHistory"} /\ Source(request[w]) \in Listed
    BY <1>1, <1>5 DEF HandlerOK, AtUse
  <2>3. Checked(request[w], today)
    BY <1>5, <2>2 DEF Checked, Known, Admissible
  <2>4. "lookup" \in {"lookup", "fetch", "store"} /\ "data" \in Uses
    BY DEF Uses
  <2>5. HandlerOK(w)'
    BY <1>1, <2>1, <2>2, <2>3, <2>4, HandlerMoves
  <2> QED
    BY <1>5, <2>4, <2>5, GoingOn
<1> QED
  BY <1>3, <1>4, <1>5 DEF WithList, Throws

LEMMA LookupCatalogStep ==
  ASSUME IInv, NEW w \in Workers, NEW use \in CatalogUses, LookupCatalog(w, use)
  PROVE  IInv'
<1>1. place[w] = <<"lookup", use>> /\ AtUse(w, {use}) /\ place[w] # Idle
  BY DEF LookupCatalog, AtUse, Idle
<1>2. NothingNew(currencyCache, currencyCache')
  BY CatalogOperations DEF LookupCatalog
<1>3. UNCHANGED <<latestRateCache, historyCache, fetched>>
  BY DEF LookupCatalog
<1>4. CatalogRight'
  BY <1>2, CatalogStays DEF IInv
<1>5. ASSUME published' = published PROVE CachesRight'
  BY <1>3, <1>4, <1>5 DEF CachesRight, IInv, RatesRight, HistoriesRight
<1>6. CASE Catalogs!Found(currencyCache, "currencies") = Nullopt
  <2>1. GoesOn(w, <<"fetch", use>>)
    BY <1>6 DEF LookupCatalog
  <2>2. place' = [place EXCEPT ![w] = <<"fetch", use>>] /\ UNCHANGED outside
        /\ UNCHANGED <<request, receivedOn>> /\ published' = published
    BY <2>1 DEF GoesOn, MoveTo, outside
  <2>3. /\ use = "list" => request[w].rpc = "ListCurrencies"
        /\ use # "list" => request[w].rpc \in {"Convert", "GetHistory"}
        /\ use = "target" => Source(request[w]) \in Listed
    BY <1>1 DEF IInv, HandlerOK, AtUse, CatalogUses
  <2>4. use \in Uses /\ use # "data" /\ "fetch" \in {"lookup", "fetch", "store"}
    BY DEF Uses, CatalogUses
  <2>5. HandlerOK(w)'
    BY <1>1, <2>2, <2>3, <2>4, HandlerMoves DEF IInv
  <2> QED
    BY <1>3, <1>5, <2>1, <2>2, <2>4, <2>5, GoingOn DEF FetchedBy
<1>7. CASE Catalogs!Found(currencyCache, "currencies") # Nullopt
  <2>1. WithList(w, use, Catalogs!Found(currencyCache, "currencies"))
    BY <1>7 DEF LookupCatalog
  <2>2. Catalogs!Found(currencyCache, "currencies") = Listed
    <3>1. /\ currencyCache["currencies"] # Nullopt
          /\ Catalogs!Found(currencyCache, "currencies") = currencyCache["currencies"].value
      BY <1>7, CatalogOperations
    <3> QED
      BY <3>1 DEF IInv, CatalogRight
  <2>3. published' = published
    BY <2>1 DEF WithList, Throws, Replies, GoesOn, outside
  <2> QED
    BY <1>1, <1>3, <1>5, <2>1, <2>2, <2>3, WithListStep DEF FetchedBy
<1> QED
  BY <1>6, <1>7

LEMMA CatalogAnswerStep ==
  ASSUME IInv, NEW w \in Workers, NEW use \in CatalogUses,
         CatalogAnswer(w, use) \/ EmptyCatalogAnswer(w, use)
  PROVE  IInv'
<1>1. place[w] = <<"fetch", use>> /\ AtUse(w, {use}) /\ place[w] # Idle
  BY DEF CatalogAnswer, EmptyCatalogAnswer, AtUse, Idle
<1>2. UNCHANGED <<caches, outside>>
  BY DEF CatalogAnswer, EmptyCatalogAnswer, GoesOn, Throws, Replies
<1>3. CachesRight'
  BY <1>2 DEF CachesRight, IInv, CatalogRight, RatesRight, HistoriesRight, caches, outside
<1>4. CASE CatalogAnswer(w, use)
  <2>1. /\ fetched' = [fetched EXCEPT ![w] = Listed]
        /\ GoesOn(w, <<"store", use>>)
    BY <1>4 DEF CatalogAnswer
  <2>2. place' = [place EXCEPT ![w] = <<"store", use>>] /\ UNCHANGED <<request, receivedOn>>
    BY <2>1 DEF GoesOn, MoveTo
  <2>3. /\ use = "list" => request[w].rpc = "ListCurrencies"
        /\ use # "list" => request[w].rpc \in {"Convert", "GetHistory"}
        /\ use = "target" => Source(request[w]) \in Listed
    BY <1>1 DEF IInv, HandlerOK, AtUse, CatalogUses
  <2>4. use \in Uses /\ use # "data" /\ "store" \in {"lookup", "fetch", "store"}
    BY DEF Uses, CatalogUses
  <2>5. fetched'[w] = Listed
    BY <2>1, ExceptOfWorkers DEF IInv, Shapes
  <2>6. HandlerOK(w)'
    BY <1>1, <1>2, <2>2, <2>3, <2>4, <2>5, HandlerMoves DEF IInv
  <2> QED
    BY <1>3, <2>1, <2>4, <2>6, GoingOn DEF FetchedBy
<1>5. CASE EmptyCatalogAnswer(w, use)
  BY <1>3, <1>5, Replying DEF EmptyCatalogAnswer, Throws, FetchedBy
<1> QED
  BY <1>4, <1>5

LEMMA StoreCatalogStep ==
  ASSUME IInv, NEW w \in Workers, NEW use \in CatalogUses, StoreCatalog(w, use)
  PROVE  IInv'
<1>1. place[w] = <<"store", use>> /\ AtUse(w, {use})
  BY DEF StoreCatalog, AtUse
<1>2. fetched[w] = Listed
  <2>1. place[w] \in {"store"} \X CatalogUses
    BY <1>1
  <2> QED
    BY <2>1 DEF IInv, HandlerOK
<1>3. WithList(w, use, Listed) /\ FetchedBy(w) /\ UNCHANGED <<latestRateCache, historyCache>>
  BY <1>2 DEF StoreCatalog, FetchedBy
<1>4. published' = published
  BY <1>3 DEF WithList, Throws, Replies, GoesOn, outside
<1>5. NothingNewBut(currencyCache, currencyCache', "currencies", Listed)
  BY <1>2, CatalogOperations DEF StoreCatalog
<1>6. CatalogRight'
  BY <1>5, CatalogGains DEF IInv
<1>7. CachesRight'
  BY <1>3, <1>4, <1>6 DEF CachesRight, IInv, RatesRight, HistoriesRight
<1> QED
  BY <1>1, <1>3, <1>7, WithListStep

\* The keys of queries that passed every check are keys of the caches.
LEMMA KeysOfChecked ==
  ASSUME IInv, NEW w \in Workers, AtUse(w, {"data"})
  PROVE  /\ request[w] \in Requests /\ WellFormed(request[w]) /\ Checked(request[w], today)
         /\ request[w].rpc = "Convert" => RateKey(request[w]) \in Pairs
         /\ request[w].rpc = "GetHistory" => HistoryKey(request[w]) \in Queries
<1> DEFINE r == request[w]
<1>1. r \in Requests /\ WellFormed(r) /\ Checked(r, today)
  BY DEF IInv, HandlerOK, AtUse, Idle
<1> HIDE DEF r
<1>2. Source(r) \in Listed /\ Target(r) \in Listed
  BY <1>1 DEF Checked, Known
<1>3. ASSUME r.rpc = "GetHistory" PROVE r.start \in Days /\ r.end \in Days
  <2>1. r.start \in Int /\ r.end \in Int /\ r.start <= r.end
    BY <1>1, <1>3, RangeOfDays
  <2>2. FirstDay <= r.start /\ r.end <= today
    BY <1>1, <1>3 DEF Checked, Selectable
  <2> QED
    BY <2>1, <2>2, CalendarAssumption DEF IInv, CalendarOK, Days
<1>4. r.rpc = "Convert" => RateKey(r) \in Pairs
  BY <1>2 DEF RateKey, Pairs
<1>5. r.rpc = "GetHistory" => HistoryKey(r) \in Queries
  BY <1>2, <1>3 DEF HistoryKey, Queries
<1> QED
  BY <1>1, <1>4, <1>5 DEF r

\* From the lookup of a checked query to its fetch.
LEMMA QueryGoesOut ==
  ASSUME IInv, NEW w \in Workers, place[w] = <<"lookup", "data">>,
         GoesOn(w, <<"fetch", "data">>), fetched' = fetched, CachesRight'
  PROVE  IInv'
<1>1. AtUse(w, {"data"}) /\ place[w] # Idle
  BY DEF AtUse, Idle
<1>2. place' = [place EXCEPT ![w] = <<"fetch", "data">>] /\ UNCHANGED outside
      /\ UNCHANGED <<request, receivedOn>>
  BY DEF GoesOn, MoveTo
<1>3. /\ request[w].rpc \in {"Convert", "GetHistory"} /\ Source(request[w]) \in Listed
      /\ Checked(request[w], today)
  BY <1>1 DEF IInv, HandlerOK, AtUse
<1>4. "data" \in Uses /\ "fetch" \in {"lookup", "fetch", "store"}
  BY DEF Uses
<1>5. HandlerOK(w)'
  BY <1>1, <1>2, <1>3, <1>4, HandlerMoves DEF IInv
<1> QED
  BY <1>4, <1>5, GoingOn DEF FetchedBy

LEMMA QueryStep ==
  ASSUME IInv, NEW w \in Workers, QueryRate(w) \/ QueryHistory(w)
  PROVE  IInv'
<1>1. place[w] = <<"lookup", "data">> /\ fetched' = fetched /\ currencyCache' = currencyCache
  BY DEF QueryRate, QueryHistory
<1>2. \/ GoesOn(w, <<"fetch", "data">>)
      \/ \E payload : Replies(w, "OK", payload)
  BY DEF QueryRate, QueryHistory
<1>3. published' = published
  BY <1>2 DEF GoesOn, Replies, outside
<1>4. \/ NothingNew(latestRateCache, latestRateCache') /\ historyCache' = historyCache
      \/ NothingNew(historyCache, historyCache') /\ latestRateCache' = latestRateCache
  BY RateOperations, HistoryOperations DEF QueryRate, QueryHistory
<1>5. CatalogRight'
  BY <1>1 DEF IInv, CatalogRight
<1>6. RatesRight'
  <2>1. CASE NothingNew(latestRateCache, latestRateCache')
    BY <1>3, <2>1, RatesStay DEF IInv
  <2>2. CASE latestRateCache' = latestRateCache
    BY <1>3, <2>2 DEF IInv, RatesRight
  <2> QED
    BY <1>4, <2>1, <2>2
<1>7. HistoriesRight'
  <2>1. CASE NothingNew(historyCache, historyCache')
    BY <1>3, <2>1, HistoriesStay DEF IInv
  <2>2. CASE historyCache' = historyCache
    BY <1>3, <2>2 DEF IInv, HistoriesRight
  <2> QED
    BY <1>4, <2>1, <2>2
<1>8. CachesRight'
  BY <1>5, <1>6, <1>7 DEF CachesRight
<1>9. CASE GoesOn(w, <<"fetch", "data">>)
  BY <1>1, <1>8, <1>9, QueryGoesOut
<1>10. CASE \E payload : Replies(w, "OK", payload)
  BY <1>1, <1>8, <1>10, Replying DEF FetchedBy
<1> QED
  BY <1>2, <1>9, <1>10

LEMMA LatestDayPublished ==
  ASSUME CalendarOK
  PROVE  LatestDay \in published
<1>1. \E last \in published : \A d \in published : last >= d
  BY DEF CalendarOK, Days
<1> QED
  BY <1>1 DEF LatestDay, Max

\* frankfurter.dev's answer to a checked query is of its currencies and days.
LEMMA DataAnswerStep ==
  ASSUME IInv, NEW w \in Workers, RateAnswer(w) \/ HistoryAnswer(w)
  PROVE  IInv'
<1>1. place[w] = <<"fetch", "data">> /\ AtUse(w, {"data"}) /\ place[w] # Idle
  BY DEF RateAnswer, HistoryAnswer, AtUse, Idle
<1>2. GoesOn(w, <<"store", "data">>) /\ UNCHANGED caches /\ UNCHANGED outside
  BY DEF RateAnswer, HistoryAnswer, GoesOn
<1>3. CachesRight'
  BY <1>2 DEF CachesRight, IInv, CatalogRight, RatesRight, HistoriesRight, caches, outside
<1>4. place' = [place EXCEPT ![w] = <<"store", "data">>] /\ UNCHANGED <<request, receivedOn>>
  BY <1>2 DEF GoesOn, MoveTo
<1>5. /\ request[w].rpc \in {"Convert", "GetHistory"} /\ Source(request[w]) \in Listed
      /\ Checked(request[w], today)
  BY <1>1 DEF IInv, HandlerOK, AtUse
<1>6. "data" \in Uses /\ "data" \notin CatalogUses /\ "store" \in {"lookup", "fetch", "store"}
  BY DEF Uses, CatalogUses
<1>7. FetchedBy(w)
  BY DEF RateAnswer, HistoryAnswer, FetchedBy
<1>8. /\ request[w].rpc = "Convert" => RateFor(RateKey(request[w]), fetched'[w], published)
      /\ request[w].rpc = "GetHistory" =>
           HistoryFor(HistoryKey(request[w]), fetched'[w], published)
  <2>1. CASE RateAnswer(w)
    <3>1. fetched'[w] = [base |-> Source(request[w]), quote |-> Target(request[w]),
                         date |-> LatestDay]
          /\ LatestDay \in QuotedOn[Target(request[w])] /\ request[w].rpc = "Convert"
      BY <2>1, ExceptOfWorkers DEF RateAnswer, IInv, Shapes
    <3>2. LatestDay \in published
      BY LatestDayPublished DEF IInv
    <3>3. Source(request[w]) # Target(request[w])
      BY <1>5, <3>1 DEF Checked, IsConvertible
    <3> QED
      BY <3>1, <3>2, <3>3 DEF RateFor, RateKey
  <2>2. CASE HistoryAnswer(w)
    <3>1. fetched'[w] = [base |-> Source(request[w]), quote |-> Target(request[w]),
                         days |-> PointsOf(request[w])] /\ request[w].rpc = "GetHistory"
      BY <2>2, ExceptOfWorkers DEF HistoryAnswer, IInv, Shapes
    <3>2. /\ PointsOf(request[w]) \subseteq published
          /\ PointsOf(request[w]) \subseteq QuotedOn[Target(request[w])]
          /\ \A d \in PointsOf(request[w]) : request[w].start <= d /\ d <= request[w].end
      BY DEF PointsOf, DaysSent
    <3>3. request[w].start \in Int /\ request[w].end \in Int
      BY <1>1, <3>1, KeysOfChecked, RangeOfDays
    <3>4. PointsOf(request[w]) \subseteq Int
      <4>1. published \subseteq 0..today /\ today \in Int
        BY DEF IInv, CalendarOK, Days
      <4>2. published \subseteq Int
        BY <4>1
      <4> QED
        BY <3>2, <4>2
    <3>5. PointsOf(request[w]) \subseteq request[w].start..request[w].end
      BY <3>2, <3>3, <3>4
    <3>6. /\ HistoryKey(request[w])[1] = Source(request[w])
          /\ HistoryKey(request[w])[2] = Target(request[w])
          /\ HistoryKey(request[w])[3] = request[w].start
          /\ HistoryKey(request[w])[4] = request[w].end
      BY DEF HistoryKey
    <3> QED
      BY <3>1, <3>2, <3>5, <3>6 DEF HistoryFor
  <2> QED
    BY <2>1, <2>2
<1>9. HandlerOK(w)'
  BY <1>1, <1>2, <1>4, <1>5, <1>6, <1>8, HandlerMoves DEF IInv
<1> QED
  BY <1>2, <1>3, <1>6, <1>7, <1>9, GoingOn

LEMMA StoreStep ==
  ASSUME IInv, NEW w \in Workers, StoreRate(w) \/ StoreHistory(w)
  PROVE  IInv'
<1>1. place[w] = <<"store", "data">>
  BY DEF StoreRate, StoreHistory
<1>2. Replies(w, "OK", fetched[w]) /\ FetchedBy(w) /\ currencyCache' = currencyCache
  BY DEF StoreRate, StoreHistory, FetchedBy
<1>3. published' = published
  BY <1>2 DEF Replies, outside
<1>4. CatalogRight'
  BY <1>2 DEF IInv, CatalogRight
<1>5. CASE StoreRate(w)
  <2>1. RateFor(RateKey(request[w]), fetched[w], published)
    BY <1>1, <1>5 DEF StoreRate, IInv, HandlerOK
  <2>2. NothingNewBut(latestRateCache, latestRateCache', RateKey(request[w]), fetched[w])
    BY <1>5, RateOperations DEF StoreRate
  <2>3. RatesRight'
    BY <1>3, <2>1, <2>2, RatesGain DEF IInv
  <2>4. HistoriesRight'
    BY <1>3, <1>5 DEF StoreRate, IInv, HistoriesRight
  <2> QED
    BY <1>2, <1>4, <2>3, <2>4, Replying DEF CachesRight
<1>6. CASE StoreHistory(w)
  <2>1. HistoryFor(HistoryKey(request[w]), fetched[w], published)
    BY <1>1, <1>6 DEF StoreHistory, IInv, HandlerOK
  <2>2. NothingNewBut(historyCache, historyCache', HistoryKey(request[w]), fetched[w])
    BY <1>6, HistoryOperations DEF StoreHistory
  <2>3. HistoriesRight'
    BY <1>3, <2>1, <2>2, HistoriesGain DEF IInv
  <2>4. RatesRight'
    BY <1>3, <1>6 DEF StoreHistory, IInv, RatesRight
  <2> QED
    BY <1>2, <1>4, <2>3, <2>4, Replying DEF CachesRight
<1> QED
  BY <1>5, <1>6

LEMMA FailureStep ==
  ASSUME IInv, NEW w \in Workers, NoRateAnswer(w) \/ UpstreamFails(w)
  PROVE  IInv'
<1>1. \E status : Replies(w, status, Nothing)
  BY DEF NoRateAnswer, UpstreamFails, Throws
<1>2. UNCHANGED <<caches, fetched, outside>>
  BY <1>1 DEF NoRateAnswer, UpstreamFails, Replies
<1>3. CachesRight'
  BY <1>2 DEF CachesRight, IInv, CatalogRight, RatesRight, HistoriesRight, caches, outside
<1> QED
  BY <1>1, <1>2, <1>3, Replying DEF FetchedBy

\* Steps that leave the handlers alone.
LEMMA HandlersUntouched ==
  ASSUME IInv, UNCHANGED handlers, CalendarOK', CachesRight', today <= today',
         published \subseteq published'
  PROVE  IInv'
<1>1. /\ place' = place /\ request' = request
      /\ fetched' = fetched /\ receivedOn' = receivedOn
  BY DEF handlers
<1>2. Shapes'
  BY <1>1 DEF IInv, Shapes
<1>3. today' \in Days
  BY DEF CalendarOK, Days
<1>4. ASSUME NEW x \in Workers PROVE HandlerOK(x)'
  BY <1>1, <1>3, HandlerStays DEF IInv
<1> QED
  BY <1>2, <1>4 DEF IInv, CachesRight

LEMMA NothingMoves ==
  ASSUME IInv, UNCHANGED <<caches, handlers, outside>>
  PROVE  IInv'
<1>1. CalendarOK' /\ today' = today /\ published' = published
  BY DEF outside, IInv, CalendarOK
<1>2. CachesRight'
  BY <1>1 DEF CachesRight, IInv, CatalogRight, RatesRight, HistoriesRight, caches
<1>3. today <= today'
  BY <1>1 DEF IInv, CalendarOK, Days
<1> QED
  BY <1>1, <1>2, <1>3, HandlersUntouched

LEMMA ReceiveStep ==
  ASSUME IInv, NEW w \in Workers, NEW r \in Requests, Receive(w, r)
  PROVE  IInv'
<1>1. /\ request' = [request EXCEPT ![w] = r]
      /\ receivedOn' = [receivedOn EXCEPT ![w] = today]
      /\ fetched' = fetched /\ today' = today /\ published' = published
  BY DEF Receive, outside
<1>2. \E use \in {"list", "source"} :
         /\ place' = [place EXCEPT ![w] = <<"lookup", use>>]
         /\ use = "list" => r.rpc = "ListCurrencies"
         /\ use = "source" => r.rpc \in {"Convert", "GetHistory"}
  BY DEF Receive, MoveTo
<1>3. PICK use \in {"list", "source"} :
         /\ place' = [place EXCEPT ![w] = <<"lookup", use>>]
         /\ use = "list" => r.rpc = "ListCurrencies"
         /\ use = "source" => r.rpc \in {"Convert", "GetHistory"}
  BY <1>2
<1>4. /\ place'[w] = <<"lookup", use>> /\ request'[w] = r /\ receivedOn'[w] = today
      /\ \A x \in Workers : x # w =>
           place'[x] = place[x] /\ request'[x] = request[x] /\ receivedOn'[x] = receivedOn[x]
      /\ OfWorkers(place') /\ OfWorkers(request') /\ OfWorkers(receivedOn')
  <2>1. /\ place'[w] = <<"lookup", use>> /\ OfWorkers(place')
        /\ \A x \in Workers : x # w => place'[x] = place[x]
    <3>1. OfWorkers(place)
      BY DEF IInv, Shapes
    <3>2. /\ OfWorkers([place EXCEPT ![w] = <<"lookup", use>>])
          /\ [place EXCEPT ![w] = <<"lookup", use>>][w] = <<"lookup", use>>
          /\ \A x \in Workers : x # w => [place EXCEPT ![w] = <<"lookup", use>>][x] = place[x]
      BY <3>1, ExceptOfWorkers
    <3> QED
      BY <1>3, <3>2, Zenon
  <2>2. /\ request'[w] = r /\ OfWorkers(request')
        /\ \A x \in Workers : x # w => request'[x] = request[x]
    <3>1. OfWorkers(request)
      BY DEF IInv, Shapes
    <3>2. /\ OfWorkers([request EXCEPT ![w] = r])
          /\ [request EXCEPT ![w] = r][w] = r
          /\ \A x \in Workers : x # w => [request EXCEPT ![w] = r][x] = request[x]
      BY <3>1, ExceptOfWorkers
    <3> QED
      BY <1>1, <3>2, Zenon
  <2>3. /\ receivedOn'[w] = today /\ OfWorkers(receivedOn')
        /\ \A x \in Workers : x # w => receivedOn'[x] = receivedOn[x]
    <3>1. OfWorkers(receivedOn)
      BY DEF IInv, Shapes
    <3>2. /\ OfWorkers([receivedOn EXCEPT ![w] = today])
          /\ [receivedOn EXCEPT ![w] = today][w] = today
          /\ \A x \in Workers : x # w => [receivedOn EXCEPT ![w] = today][x] = receivedOn[x]
      BY <3>1, ExceptOfWorkers
    <3> QED
      BY <1>1, <3>2, Zenon
  <2> QED
    BY <2>1, <2>2, <2>3
<1>5. Shapes'
  BY <1>1, <1>4 DEF IInv, Shapes
<1>6. CalendarOK' /\ CachesRight'
  BY <1>1 DEF Receive, caches, IInv, CalendarOK, CachesRight, CatalogRight, RatesRight,
              HistoriesRight
<1>7. today \in Days /\ today <= today /\ published \subseteq published
  BY DEF IInv, CalendarOK, Days
<1>8. ASSUME NEW x \in Workers, x # w PROVE HandlerOK(x)'
  BY <1>1, <1>4, <1>7, <1>8, HandlerStays DEF IInv
<1>9. HandlerOK(w)'
  <2>1. WellFormed(r)
    BY DEF Receive, WellFormed
  <2>2. <<"lookup", use>> \in Places
    BY DEF Places, Uses, CatalogUses
  <2>3. \A uses : AtUse(w, uses)' <=> use \in uses
    BY <1>4 DEF AtUse
  <2>4. place'[w] \notin {"store"} \X CatalogUses /\ place'[w] # <<"store", "data">>
    BY <1>4
  <2> QED
    BY <1>1, <1>3, <1>4, <1>7, <2>1, <2>2, <2>3, <2>4 DEF HandlerOK
<1> QED
  BY <1>5, <1>6, <1>8, <1>9 DEF IInv, CachesRight

\* Sweeping and ageing bring nothing new.
LEMMA AgeingStep ==
  ASSUME IInv, Sweep \/ Tick
  PROVE  IInv'
<1>1. UNCHANGED handlers /\ UNCHANGED outside /\ today' = today /\ published' = published
  BY DEF Sweep, Tick, Outside, outside
<1>2. /\ NothingNew(currencyCache, currencyCache') \/ currencyCache' = currencyCache
      /\ NothingNew(latestRateCache, latestRateCache') \/ latestRateCache' = latestRateCache
      /\ NothingNew(historyCache, historyCache') \/ historyCache' = historyCache
  <2>1. CASE Tick
    BY <2>1, CatalogOperations, RateOperations, HistoryOperations DEF Tick
  <2>2. CASE Sweep
    BY <2>2, CatalogOperations, RateOperations, HistoryOperations DEF Sweep
  <2> QED
    BY <2>1, <2>2
<1>3. CatalogRight'
  BY <1>2, CatalogStays DEF IInv, CatalogRight
<1>4. RatesRight'
  BY <1>1, <1>2, RatesStay DEF IInv, RatesRight
<1>5. HistoriesRight'
  BY <1>1, <1>2, HistoriesStay DEF IInv, HistoriesRight
<1>6. CalendarOK' /\ today <= today'
  BY <1>1 DEF IInv, CalendarOK, Days
<1> QED
  BY <1>1, <1>3, <1>4, <1>5, <1>6, HandlersUntouched DEF CachesRight

LEMMA CalendarStep ==
  ASSUME IInv, Midnight \/ Publish
  PROVE  IInv'
<1>1. UNCHANGED handlers /\ UNCHANGED caches
  BY DEF Midnight, Publish, Outside
<1>2. /\ today \in Nat /\ today <= LastDay /\ LastDay \in Nat /\ FirstDay \in Nat
      /\ FirstDay <= today /\ published \subseteq 0..today
  BY CalendarAssumption DEF IInv, CalendarOK, Days
<1>3. published \subseteq published'
  BY DEF Midnight, Publish
<1>4. CalendarOK' /\ today <= today'
  <2>1. CASE Midnight
    <3>1. today' = today + 1 /\ today < LastDay /\ published' = published
      BY <2>1 DEF Midnight
    <3>2. 0..today \subseteq 0..today'
      BY <1>2, <3>1
    <3>3. today' \in Days /\ FirstDay <= today' /\ today <= today'
      BY <1>2, <3>1 DEF Days
    <3>4. \E last \in published' : \A d \in published' : d <= last
      BY <3>1 DEF IInv, CalendarOK
    <3> QED
      BY <1>2, <3>1, <3>2, <3>3, <3>4 DEF CalendarOK
  <2>2. CASE Publish
    <3>1. published' = published \union {today} /\ today' = today
      BY <2>2 DEF Publish
    <3>2. published' \subseteq 0..today'
      BY <1>2, <3>1
    <3>3. \A d \in published' : d <= today
      BY <1>2, <3>1, <3>2
    <3>4. today \in published'
      BY <3>1
    <3>5. today' \in Days /\ FirstDay <= today' /\ today <= today'
      BY <1>2, <3>1 DEF Days
    <3> QED
      BY <3>2, <3>3, <3>4, <3>5 DEF CalendarOK
  <2> QED
    BY <2>1, <2>2
<1>5. CachesRight'
  BY <1>1, <1>3, RatesStay, HistoriesStay
     DEF IInv, CachesRight, CatalogRight, RatesRight, HistoriesRight, NothingNew, caches
<1> QED
  BY <1>1, <1>3, <1>4, <1>5, HandlersUntouched

LEMMA WorkerPreserves ==
  ASSUME IInv, NEW w \in Workers, WorkerStep(w)
  PROVE  IInv'
<1>1. ASSUME NEW use \in CatalogUses,
             LookupCatalog(w, use) \/ CatalogAnswer(w, use)
               \/ EmptyCatalogAnswer(w, use) \/ StoreCatalog(w, use)
      PROVE  IInv'
  BY <1>1, LookupCatalogStep, CatalogAnswerStep, StoreCatalogStep
<1>2. CASE QueryRate(w) \/ QueryHistory(w)
  BY <1>2, QueryStep
<1>3. CASE RateAnswer(w) \/ HistoryAnswer(w)
  BY <1>3, DataAnswerStep
<1>4. CASE StoreRate(w) \/ StoreHistory(w)
  BY <1>4, StoreStep
<1>5. CASE NoRateAnswer(w) \/ UpstreamFails(w)
  BY <1>5, FailureStep
<1> QED
  BY <1>1, <1>2, <1>3, <1>4, <1>5 DEF WorkerStep

LEMMA NextPreserves == IInv /\ [Next]_vars => IInv'
<1> SUFFICES ASSUME IInv, [Next]_vars PROVE IInv'
  OBVIOUS
<1>1. CASE Arrival
  <2>1. ASSUME NEW w \in Workers, NEW r \in Requests, RejectRange(w, r) \/ GetConstraints(w, r)
        PROVE  IInv'
    BY <2>1, NothingMoves DEF RejectRange, GetConstraints, ImmediateReply
  <2> QED
    BY <1>1, <2>1, ReceiveStep DEF Arrival
<1>2. CASE \E w \in Workers : WorkerStep(w)
  BY <1>2, WorkerPreserves
<1>3. CASE Sweep \/ Tick
  BY <1>3, AgeingStep
<1>4. CASE Midnight \/ Publish
  BY <1>4, CalendarStep
<1>5. CASE UNCHANGED vars
  BY <1>5, NothingMoves DEF vars
<1> QED
  BY <1>1, <1>2, <1>3, <1>4, <1>5 DEF Next

LEMMA Inductive == Spec => []IInv
BY InitIInv, NextPreserves, PTL DEF Spec

-----------------------------------------------------------------------------
(* What follows from the invariant alone. *)

\* What passed the checks of the code is what docs/api.md asks for.
LEMMA CheckedDeserves ==
  ASSUME NEW r \in Requests, WellFormed(r), NEW day \in Int, Checked(r, day)
  PROVE  Deserves(r, day)
<1>1. CASE r.rpc = "Convert"
  <2>1. Source(r) # Target(r) /\ r.amount # NotFinite
        /\ MinAmount <= r.amount /\ r.amount <= MaxAmount
    BY <1>1 DEF Checked, IsConvertible, AmountAllowed
  <2>2. r.amount \in MinAmount..MaxAmount
    BY <1>1, <2>1, RequestFields, BoundsAssumption
  <2> QED
    BY <1>1, <2>1, <2>2 DEF Deserves, Checked
<1>2. CASE r.rpc = "GetHistory"
  <2>1. r.start \in Int /\ r.end \in Int /\ r.start <= r.end
    BY <1>2, RangeOfDays
  <2>2. FirstDay <= r.start /\ r.end <= day
    BY <1>2 DEF Checked, Selectable
  <2>3. {r.start, r.end} \subseteq FirstDay..day
    BY <2>1, <2>2, BoundsAssumption
  <2> QED
    BY <1>2, <2>1, <2>3 DEF Deserves, Checked
<1> QED
  BY <1>1, <1>2 DEF Deserves

\* A checked query leaves for frankfurter.dev, and no other.
THEOREM CheckedQueriesOnly == Spec => []OnlyCheckedQueriesLeave
<1>1. IInv => OnlyCheckedQueriesLeave
  <2> SUFFICES ASSUME IInv, NEW w \in Workers, place[w] = <<"fetch", "data">>
               PROVE  Deserves(request[w], today)
    BY DEF OnlyCheckedQueriesLeave
  <2>1. AtUse(w, {"data"}) /\ today \in Int
    BY DEF AtUse, IInv, CalendarOK, Days
  <2> QED
    BY <2>1, KeysOfChecked, CheckedDeserves
<1> QED
  BY <1>1, Inductive, PTL

\* The caches hold what frankfurter.dev published for their keys.
THEOREM CachesTrue == Spec => []CachesHoldWhatWasPublished
<1>1. IInv => CachesHoldWhatWasPublished
  <2> SUFFICES ASSUME IInv PROVE CachesHoldWhatWasPublished
    OBVIOUS
  <2>1. \A k \in Rates!Held(latestRateCache) :
          RateFor(k, latestRateCache[k].value, published)
    BY DEF IInv, RatesRight, Rates!Held
  <2>2. \A k \in Histories!Held(historyCache) :
          HistoryFor(k, historyCache[k].value, published)
    BY DEF IInv, HistoriesRight, Histories!Held
  <2> QED
    BY <2>1, <2>2 DEF CachesHoldWhatWasPublished, RateFor, HistoryFor
<1> QED
  BY <1>1, Inductive, PTL

-----------------------------------------------------------------------------
(* Replies. *)

LEMMA Statuses ==
  /\ toStatus["InvalidArgument"] = "INVALID_ARGUMENT"
  /\ toStatus["CurrencyNotFound"] = "NOT_FOUND"
  /\ \A ex \in UpstreamExceptions \union {"other"} :
       toStatus[ex] \in {"UNAVAILABLE", "INTERNAL"}
BY DEF toStatus, DomainExceptions, UpstreamExceptions

RepliesRight == StatusReflectsRequest /\ ReplyAnswersItsRequest

\* What the reply to r, received on some day, has to be.
Fits(r, day, status, payload) ==
  /\ status = "OK" => Deserves(r, today)
  /\ status = "INVALID_ARGUMENT" => ~Deserves(r, day)
  /\ status = "NOT_FOUND" => ~Known(r)
  /\ status = "OK" /\ r.rpc \in {"Convert", "GetHistory"} =>
       <<payload.base, payload.quote>> = <<Source(r), Target(r)>>
  /\ status = "OK" /\ r.rpc = "GetHistory" => payload.days \subseteq r.start..r.end

LEMMA FittingReply ==
  ASSUME NEW r, NEW day, NEW status, NEW payload, today' = today,
         reply' = [request |-> r, receivedOn |-> day, status |-> status, payload |-> payload],
         Fits(r, day, status, payload)
  PROVE  RepliesRight'
<1>1. /\ reply'.request = r /\ reply'.receivedOn = day
      /\ reply'.status = status /\ reply'.payload = payload
  OBVIOUS
<1>2. StatusReflectsRequest'
  BY <1>1 DEF StatusReflectsRequest, Fits, Deserves, Known, Source, Target
<1>3. ReplyAnswersItsRequest'
  BY <1>1 DEF ReplyAnswersItsRequest, Fits, Source, Target
<1> QED
  BY <1>2, <1>3 DEF RepliesRight

LEMMA FittingReplies ==
  ASSUME NEW w \in Workers, NEW status, NEW payload, Replies(w, status, payload),
         Fits(request[w], receivedOn[w], status, payload)
  PROVE  RepliesRight'
<1>1. today' = today
      /\ reply' = [request |-> request[w], receivedOn |-> receivedOn[w],
                   status |-> status, payload |-> payload]
  BY DEF Replies, outside
<1> QED
  BY <1>1, FittingReply

LEMMA NoReply == ASSUME reply' = Nothing PROVE RepliesRight'
BY DEF RepliesRight, StatusReflectsRequest, ReplyAnswersItsRequest

\* What docs/api.md asks for passes the checks, on that day and later.
LEMMA DeservingIsAdmissible ==
  ASSUME NEW r \in Requests, r.rpc \in {"Convert", "GetHistory"},
         NEW day \in Int, day <= today, today \in Int, Deserves(r, day)
  PROVE  Admissible(r)
<1>1. CASE r.rpc = "Convert"
  <2>1. Source(r) # Target(r) /\ r.amount \in MinAmount..MaxAmount
    BY <1>1 DEF Deserves
  <2>2. r.amount # NotFinite /\ MinAmount <= r.amount /\ r.amount <= MaxAmount
    BY <2>1, BoundsAssumption, MarkersAssumption
  <2> QED
    BY <1>1, <2>1, <2>2 DEF Admissible, IsConvertible, AmountAllowed
<1>2. CASE r.rpc = "GetHistory"
  <2>1. r.start \in FirstDay..day /\ r.end \in FirstDay..day
    BY <1>2 DEF Deserves
  <2>2. FirstDay <= r.start /\ r.end <= today
    BY <2>1, BoundsAssumption
  <2> QED
    BY <1>2, <2>2 DEF Admissible, Selectable
<1> QED
  BY <1>1, <1>2

LEMMA WithListFits ==
  ASSUME IInv, NEW w \in Workers, NEW use \in CatalogUses, AtUse(w, {use}),
         WithList(w, use, Listed)
  PROVE  RepliesRight'
<1> DEFINE r == request[w]
<1>1. /\ r \in Requests /\ receivedOn[w] \in Int /\ receivedOn[w] <= today /\ today \in Int
      /\ use = "list" => r.rpc = "ListCurrencies"
      /\ use # "list" => r.rpc \in {"Convert", "GetHistory"}
  BY DEF IInv, CalendarOK, Days, HandlerOK, AtUse, Idle, CatalogUses
<1>2. CASE use = "list" /\ Replies(w, "OK", Listed)
  <2>1. Fits(r, receivedOn[w], "OK", Listed)
    BY <1>1, <1>2 DEF Fits, Deserves
  <2> QED
    BY <1>2, <2>1, FittingReplies
<1>3. CASE /\ (IF use = "source" THEN Source(r) ELSE Target(r)) \notin Listed
           /\ Throws(w, "CurrencyNotFound")
  <2>1. Replies(w, "NOT_FOUND", Nothing)
    BY <1>3, Statuses DEF Throws
  <2>2. Fits(r, receivedOn[w], "NOT_FOUND", Nothing)
    BY <1>3 DEF Fits, Known
  <2> QED
    BY <2>1, <2>2, FittingReplies
<1>4. CASE use = "target" /\ ~Admissible(r) /\ Throws(w, "InvalidArgument")
  <2>1. Replies(w, "INVALID_ARGUMENT", Nothing)
    BY <1>4, Statuses DEF Throws
  <2>2. ~Deserves(r, receivedOn[w])
    BY <1>1, <1>4, DeservingIsAdmissible
  <2>3. Fits(r, receivedOn[w], "INVALID_ARGUMENT", Nothing)
    BY <2>2 DEF Fits
  <2> QED
    BY <2>1, <2>3, FittingReplies
<1>5. CASE GoesOn(w, <<"lookup", "target">>) \/ GoesOn(w, <<"lookup", "data">>)
  BY <1>5, NoReply DEF GoesOn
<1> QED
  BY <1>2, <1>3, <1>4, <1>5 DEF WithList

\* What is at hand for a checked query answers it.
LEMMA AnswerFits ==
  ASSUME IInv, NEW w \in Workers, AtUse(w, {"data"}), NEW payload,
         Replies(w, "OK", payload),
         request[w].rpc = "Convert" => RateFor(RateKey(request[w]), payload, published),
         request[w].rpc = "GetHistory" => HistoryFor(HistoryKey(request[w]), payload, published)
  PROVE  RepliesRight'
<1> DEFINE r == request[w]
<1>1. Deserves(r, today)
  BY KeysOfChecked, CheckedDeserves DEF IInv, CalendarOK, Days
<1>2. r.rpc \in {"Convert", "GetHistory"} =>
        <<payload.base, payload.quote>> = <<Source(r), Target(r)>>
  BY DEF RateFor, RateKey, HistoryFor, HistoryKey
<1>3. r.rpc = "GetHistory" => payload.days \subseteq r.start..r.end
  BY DEF HistoryFor, HistoryKey
<1>4. Fits(r, receivedOn[w], "OK", payload)
  BY <1>1, <1>2, <1>3 DEF Fits
<1> QED
  BY <1>4, FittingReplies

LEMMA CatalogRepliesFit ==
  ASSUME IInv, NEW w \in Workers, NEW use \in CatalogUses,
         LookupCatalog(w, use) \/ StoreCatalog(w, use)
  PROVE  RepliesRight'
<1>1. AtUse(w, {use})
  BY DEF LookupCatalog, StoreCatalog, AtUse
<1>2. CASE LookupCatalog(w, use)
  <2>1. CASE Catalogs!Found(currencyCache, "currencies") = Nullopt
    BY <1>2, <2>1, NoReply DEF LookupCatalog, GoesOn
  <2>2. CASE Catalogs!Found(currencyCache, "currencies") # Nullopt
    <3>1. Catalogs!Found(currencyCache, "currencies") = Listed
      BY <2>2, CatalogOperations DEF IInv, CatalogRight
    <3> QED
      BY <1>1, <1>2, <2>2, <3>1, WithListFits DEF LookupCatalog
  <2> QED
    BY <2>1, <2>2
<1>3. CASE StoreCatalog(w, use)
  <2>1. place[w] \in {"store"} \X CatalogUses
    BY <1>3 DEF StoreCatalog
  <2>2. fetched[w] = Listed
    BY <2>1 DEF IInv, HandlerOK
  <2> QED
    BY <1>1, <1>3, <2>2, WithListFits DEF StoreCatalog
<1> QED
  BY <1>2, <1>3

LEMMA DataRepliesFit ==
  ASSUME IInv, NEW w \in Workers,
         QueryRate(w) \/ QueryHistory(w) \/ StoreRate(w) \/ StoreHistory(w)
  PROVE  RepliesRight'
<1>1. AtUse(w, {"data"})
  BY DEF QueryRate, QueryHistory, StoreRate, StoreHistory, AtUse
<1>2. CASE QueryRate(w)
  <2>1. CASE Rates!Found(latestRateCache, RateKey(request[w])) = Nullopt
    BY <1>2, <2>1, NoReply DEF QueryRate, GoesOn
  <2>2. CASE Rates!Found(latestRateCache, RateKey(request[w])) # Nullopt
    <3>1. RateKey(request[w]) \in Pairs
      BY <1>1, <1>2, KeysOfChecked DEF QueryRate
    <3>2. RateFor(RateKey(request[w]), Rates!Found(latestRateCache, RateKey(request[w])),
                  published)
      BY <2>2, <3>1, RateOperations DEF IInv, RatesRight
    <3>3. Replies(w, "OK", Rates!Found(latestRateCache, RateKey(request[w])))
          /\ request[w].rpc = "Convert"
      BY <1>2, <2>2 DEF QueryRate
    <3> QED
      BY <1>1, <3>2, <3>3, AnswerFits
  <2> QED
    BY <2>1, <2>2
<1>3. CASE QueryHistory(w)
  <2>1. CASE Histories!Found(historyCache, HistoryKey(request[w])) = Nullopt
    BY <1>3, <2>1, NoReply DEF QueryHistory, GoesOn
  <2>2. CASE Histories!Found(historyCache, HistoryKey(request[w])) # Nullopt
    <3>1. HistoryKey(request[w]) \in Queries
      BY <1>1, <1>3, KeysOfChecked DEF QueryHistory
    <3>2. HistoryFor(HistoryKey(request[w]),
                     Histories!Found(historyCache, HistoryKey(request[w])), published)
      BY <2>2, <3>1, HistoryOperations DEF IInv, HistoriesRight
    <3>3. Replies(w, "OK", Histories!Found(historyCache, HistoryKey(request[w])))
          /\ request[w].rpc = "GetHistory"
      BY <1>3, <2>2 DEF QueryHistory
    <3> QED
      BY <1>1, <3>2, <3>3, AnswerFits
  <2> QED
    BY <2>1, <2>2
<1>4. CASE StoreRate(w) \/ StoreHistory(w)
  <2>1. place[w] = <<"store", "data">> /\ Replies(w, "OK", fetched[w])
    BY <1>4 DEF StoreRate, StoreHistory
  <2>2. /\ request[w].rpc = "Convert" => RateFor(RateKey(request[w]), fetched[w], published)
        /\ request[w].rpc = "GetHistory" =>
             HistoryFor(HistoryKey(request[w]), fetched[w], published)
    BY <2>1 DEF IInv, HandlerOK
  <2> QED
    BY <1>1, <2>1, <2>2, AnswerFits
<1> QED
  BY <1>2, <1>3, <1>4

LEMMA FailuresFit ==
  ASSUME IInv, NEW w \in Workers,
         \/ \E use \in CatalogUses : EmptyCatalogAnswer(w, use)
         \/ NoRateAnswer(w) \/ UpstreamFails(w)
  PROVE  RepliesRight'
<1>1. \E ex \in UpstreamExceptions \union {"other"} : Throws(w, ex)
  BY DEF EmptyCatalogAnswer, NoRateAnswer, UpstreamFails, UpstreamExceptions
<1>2. PICK status \in {"UNAVAILABLE", "INTERNAL"} : Replies(w, status, Nothing)
  BY <1>1, Statuses DEF Throws
<1>3. Fits(request[w], receivedOn[w], status, Nothing)
  BY DEF Fits
<1> QED
  BY <1>2, <1>3, FittingReplies

LEMMA ImmediateRepliesFit ==
  ASSUME IInv, NEW w \in Workers, NEW r \in Requests, RejectRange(w, r) \/ GetConstraints(w, r)
  PROVE  RepliesRight'
<1>1. today' = today
  BY DEF RejectRange, GetConstraints, ImmediateReply, outside
<1>2. CASE RejectRange(w, r)
  <2>1. reply' = [request |-> r, receivedOn |-> today, status |-> "INVALID_ARGUMENT",
                  payload |-> Nothing]
        /\ r.rpc = "GetHistory" /\ ~IsDateRange(r.start, r.end)
    BY <1>2, Statuses DEF RejectRange, ImmediateReply
  <2>2. ~Deserves(r, today)
    <3> SUFFICES ASSUME Deserves(r, today) PROVE FALSE
      OBVIOUS
    <3>1. r.start \in FirstDay..today /\ r.end \in FirstDay..today /\ r.start <= r.end
      BY <2>1 DEF Deserves
    <3>2. r.start # NotADate /\ r.end # NotADate
      BY <3>1, MarkersAssumption
    <3> QED
      BY <2>1, <3>1, <3>2 DEF IsDateRange
  <2>3. Fits(r, today, "INVALID_ARGUMENT", Nothing)
    BY <2>2 DEF Fits
  <2> QED
    BY <1>1, <2>1, <2>3, FittingReply
<1>3. CASE GetConstraints(w, r)
  <2>1. reply' = [request |-> r, receivedOn |-> today, status |-> "OK",
                  payload |-> [minDate |-> FirstDay, maxDate |-> today]]
        /\ r.rpc = "GetConstraints"
    BY <1>3 DEF GetConstraints, ImmediateReply
  <2>2. Fits(r, today, "OK", [minDate |-> FirstDay, maxDate |-> today])
    BY <2>1 DEF Fits, Deserves
  <2> QED
    BY <1>1, <2>1, <2>2, FittingReply
<1> QED
  BY <1>2, <1>3

LEMMA NextReplies == IInv /\ RepliesRight /\ [Next]_vars => RepliesRight'
<1> SUFFICES ASSUME IInv, RepliesRight, [Next]_vars PROVE RepliesRight'
  OBVIOUS
<1>1. CASE Arrival
  BY <1>1, ImmediateRepliesFit, NoReply DEF Arrival, Receive
<1>2. ASSUME NEW w \in Workers, WorkerStep(w) PROVE RepliesRight'
  <2>1. CASE \/ \E use \in CatalogUses : CatalogAnswer(w, use)
             \/ RateAnswer(w) \/ HistoryAnswer(w)
    BY <2>1, NoReply DEF CatalogAnswer, RateAnswer, HistoryAnswer, GoesOn
  <2> QED
    BY <1>2, <2>1, CatalogRepliesFit, DataRepliesFit, FailuresFit DEF WorkerStep
<1>3. CASE Sweep \/ Tick \/ Midnight \/ Publish
  BY <1>3, NoReply DEF Sweep, Tick, Midnight, Publish, Outside
<1>4. CASE UNCHANGED vars
  BY <1>4 DEF vars, outside, RepliesRight, StatusReflectsRequest, ReplyAnswersItsRequest,
              Deserves, Known, Source, Target
<1> QED
  BY <1>1, <1>2, <1>3, <1>4 DEF Next

LEMMA RepliesAlwaysRight == Spec => []RepliesRight
<1>1. Init => RepliesRight
  BY DEF Init, RepliesRight, StatusReflectsRequest, ReplyAnswersItsRequest
<1> QED
  BY <1>1, Inductive, NextReplies, PTL DEF Spec

\* A status says of its request what is so.
THEOREM StatusRight == Spec => []StatusReflectsRequest
BY RepliesAlwaysRight, PTL DEF RepliesRight

\* A reply is to the request it answers.
THEOREM RepliesToTheirRequests == Spec => []ReplyAnswersItsRequest
BY RepliesAlwaysRight, PTL DEF RepliesRight

-----------------------------------------------------------------------------
(* Types.                                                                  *)

LEMMA CatalogKeeps ==
  ASSUME NEW S, NEW V, NEW m \in [S -> Kept(V, CatalogMaxAge)], NEW k
  PROVE  /\ Catalogs!AfterGet(m, k) \in [S -> Kept(V, CatalogMaxAge)]
         /\ Catalogs!Without(m, k) \in [S -> Kept(V, CatalogMaxAge)]
         /\ Catalogs!Aged(m) \in [S -> Kept(V, CatalogMaxAge)]
         /\ \A v \in V : Catalogs!AfterPut(m, k, v) \subseteq [S -> Kept(V, CatalogMaxAge)]
<1> DEFINE K == Kept(V, CatalogMaxAge)
<1>1. Nullopt \in K /\ \A v \in V : [value |-> v, age |-> 0] \in K
  BY AgesAssumption DEF Kept
<1>2. \A x : \A f \in [S -> K] : \A e \in K : Catalogs!With(f, x, e) \in [S -> K]
  BY DEF Catalogs!With
<1>3. \A x : \A f \in [S -> K] : Catalogs!Without(f, x) \in [S -> K]
  BY <1>1, <1>2 DEF Catalogs!Without
<1>4. Catalogs!Aged(m) \in [S -> K]
  <2>1. ASSUME NEW e \in K, e # Nullopt
        PROVE  [value |-> e.value, age |-> Catalogs!Older(e.age)] \in K
    <3>1. e.value \in V /\ e.age \in 0..CatalogMaxAge + 1
      BY <2>1 DEF Kept
    <3>2. Catalogs!Older(e.age) \in 0..CatalogMaxAge + 1
      BY <3>1, AgesAssumption DEF Catalogs!Older
    <3> QED
      BY <3>1, <3>2 DEF Kept
  <2> QED
    BY <1>1, <2>1 DEF Catalogs!Aged
<1>5. ASSUME NEW v \in V PROVE Catalogs!AfterPut(m, k, v) \subseteq [S -> K]
  <2> DEFINE stored == Catalogs!With(m, k, [value |-> v, age |-> 0])
  <2>1. stored \in [S -> K]
    BY <1>1, <1>2
  <2>2. \A other : Catalogs!Without(stored, other) \in [S -> K]
    BY <1>3, <2>1
  <2> QED
    BY <2>1, <2>2 DEF Catalogs!AfterPut
<1>6. Catalogs!AfterGet(m, k) \in [S -> K] /\ Catalogs!Without(m, k) \in [S -> K]
  BY <1>3 DEF Catalogs!AfterGet
<1> QED
  BY <1>4, <1>5, <1>6

LEMMA RateKeeps ==
  ASSUME NEW S, NEW V, NEW m \in [S -> Kept(V, RateMaxAge)], NEW k
  PROVE  /\ Rates!AfterGet(m, k) \in [S -> Kept(V, RateMaxAge)]
         /\ Rates!Without(m, k) \in [S -> Kept(V, RateMaxAge)]
         /\ Rates!Aged(m) \in [S -> Kept(V, RateMaxAge)]
         /\ \A v \in V : Rates!AfterPut(m, k, v) \subseteq [S -> Kept(V, RateMaxAge)]
<1> DEFINE K == Kept(V, RateMaxAge)
<1>1. Nullopt \in K /\ \A v \in V : [value |-> v, age |-> 0] \in K
  BY AgesAssumption DEF Kept
<1>2. \A x : \A f \in [S -> K] : \A e \in K : Rates!With(f, x, e) \in [S -> K]
  BY DEF Rates!With
<1>3. \A x : \A f \in [S -> K] : Rates!Without(f, x) \in [S -> K]
  BY <1>1, <1>2 DEF Rates!Without
<1>4. Rates!Aged(m) \in [S -> K]
  <2>1. ASSUME NEW e \in K, e # Nullopt
        PROVE  [value |-> e.value, age |-> Rates!Older(e.age)] \in K
    <3>1. e.value \in V /\ e.age \in 0..RateMaxAge + 1
      BY <2>1 DEF Kept
    <3>2. Rates!Older(e.age) \in 0..RateMaxAge + 1
      BY <3>1, AgesAssumption DEF Rates!Older
    <3> QED
      BY <3>1, <3>2 DEF Kept
  <2> QED
    BY <1>1, <2>1 DEF Rates!Aged
<1>5. ASSUME NEW v \in V PROVE Rates!AfterPut(m, k, v) \subseteq [S -> K]
  <2> DEFINE stored == Rates!With(m, k, [value |-> v, age |-> 0])
  <2>1. stored \in [S -> K]
    BY <1>1, <1>2
  <2>2. \A other : Rates!Without(stored, other) \in [S -> K]
    BY <1>3, <2>1
  <2> QED
    BY <2>1, <2>2 DEF Rates!AfterPut
<1>6. Rates!AfterGet(m, k) \in [S -> K] /\ Rates!Without(m, k) \in [S -> K]
  BY <1>3 DEF Rates!AfterGet
<1> QED
  BY <1>4, <1>5, <1>6

LEMMA HistoryKeeps ==
  ASSUME NEW S, NEW V, NEW m \in [S -> Kept(V, HistoryMaxAge)], NEW k
  PROVE  /\ Histories!AfterGet(m, k) \in [S -> Kept(V, HistoryMaxAge)]
         /\ Histories!Without(m, k) \in [S -> Kept(V, HistoryMaxAge)]
         /\ Histories!Aged(m) \in [S -> Kept(V, HistoryMaxAge)]
         /\ \A v \in V : Histories!AfterPut(m, k, v) \subseteq [S -> Kept(V, HistoryMaxAge)]
<1> DEFINE K == Kept(V, HistoryMaxAge)
<1>1. Nullopt \in K /\ \A v \in V : [value |-> v, age |-> 0] \in K
  BY AgesAssumption DEF Kept
<1>2. \A x : \A f \in [S -> K] : \A e \in K : Histories!With(f, x, e) \in [S -> K]
  BY DEF Histories!With
<1>3. \A x : \A f \in [S -> K] : Histories!Without(f, x) \in [S -> K]
  BY <1>1, <1>2 DEF Histories!Without
<1>4. Histories!Aged(m) \in [S -> K]
  <2>1. ASSUME NEW e \in K, e # Nullopt
        PROVE  [value |-> e.value, age |-> Histories!Older(e.age)] \in K
    <3>1. e.value \in V /\ e.age \in 0..HistoryMaxAge + 1
      BY <2>1 DEF Kept
    <3>2. Histories!Older(e.age) \in 0..HistoryMaxAge + 1
      BY <3>1, AgesAssumption DEF Histories!Older
    <3> QED
      BY <3>1, <3>2 DEF Kept
  <2> QED
    BY <1>1, <2>1 DEF Histories!Aged
<1>5. ASSUME NEW v \in V PROVE Histories!AfterPut(m, k, v) \subseteq [S -> K]
  <2> DEFINE stored == Histories!With(m, k, [value |-> v, age |-> 0])
  <2>1. stored \in [S -> K]
    BY <1>1, <1>2
  <2>2. \A other : Histories!Without(stored, other) \in [S -> K]
    BY <1>3, <2>1
  <2> QED
    BY <2>1, <2>2 DEF Histories!AfterPut
<1>6. Histories!AfterGet(m, k) \in [S -> K] /\ Histories!Without(m, k) \in [S -> K]
  BY <1>3 DEF Histories!AfterGet
<1> QED
  BY <1>4, <1>5, <1>6

LEMMA PublishedAreDays ==
  ASSUME CalendarOK
  PROVE  published \subseteq Days /\ published \subseteq Int
<1>1. published \subseteq 0..today /\ today \in 0..LastDay /\ LastDay \in Nat
  BY CalendarAssumption DEF CalendarOK, Days
<1> QED
  BY <1>1 DEF Days

LEMMA PlaceOfOne ==
  ASSUME OfWorkers(place), NEW w \in Workers, NEW p, place' = [place EXCEPT ![w] = p]
  PROVE  place'[w] = p /\ \A x \in Workers : x # w => place'[x] = place[x]
<1>1. /\ [place EXCEPT ![w] = p][w] = p
      /\ \A x \in Workers : x # w => [place EXCEPT ![w] = p][x] = place[x]
  BY ExceptOfWorkers
<1> QED
  BY <1>1, Zenon

LEMMA RequestOfOne ==
  ASSUME OfWorkers(request), NEW w \in Workers, NEW r, request' = [request EXCEPT ![w] = r]
  PROVE  request'[w] = r /\ \A x \in Workers : x # w => request'[x] = request[x]
<1>1. /\ [request EXCEPT ![w] = r][w] = r
      /\ \A x \in Workers : x # w => [request EXCEPT ![w] = r][x] = request[x]
  BY ExceptOfWorkers
<1> QED
  BY <1>1, Zenon

\* A handler has a request in hand unless it is idle, and an answer in hand
\* when it is about to put it.
HandlerTyped(w) ==
  /\ (place[w] = Idle) <=> (request[w] = Nothing)
  /\ (place[w] \in {"store"} \X Uses) <=> (fetched[w] # Nothing)
  /\ place[w] = <<"store", "data">> =>
       /\ request[w].rpc = "Convert" => fetched[w] \in Rate
       /\ request[w].rpc = "GetHistory" => fetched[w] \in Points

CachesTyped ==
  /\ currencyCache \in [{"currencies"} -> Kept({Listed}, CatalogMaxAge)]
  /\ latestRateCache \in [Pairs -> Kept(Rate, RateMaxAge)]
  /\ historyCache \in [Queries -> Kept(Points, HistoryMaxAge)]

Typed == CachesTyped /\ \A w \in Workers : HandlerTyped(w)

LEMMA TypedInitially == Init => Typed
<1> SUFFICES ASSUME Init PROVE Typed
  OBVIOUS
<1>1. CachesTyped
  BY DEF Init, CachesTyped, Kept
<1>2. \A w \in Workers : HandlerTyped(w)
  BY DEF Init, HandlerTyped, Idle
<1> QED
  BY <1>1, <1>2 DEF Typed

\* The others are as they were.
LEMMA TypedButOne ==
  ASSUME NEW w \in Workers, \A x \in Workers : HandlerTyped(x), HandlerTyped(w)',
         \A x \in Workers : x # w =>
           place'[x] = place[x] /\ request'[x] = request[x] /\ fetched'[x] = fetched[x]
  PROVE  \A x \in Workers : HandlerTyped(x)'
<1> SUFFICES ASSUME NEW x \in Workers, x # w PROVE HandlerTyped(x)'
  OBVIOUS
<1> QED
  BY DEF HandlerTyped

LEMMA GoingOnTyped ==
  ASSUME IInv, Typed, NEW w \in Workers, place[w] # Idle,
         NEW phase \in {"lookup", "fetch", "store"}, NEW use \in Uses,
         GoesOn(w, <<phase, use>>), FetchedBy(w),
         (phase = "store") <=> (fetched'[w] # Nothing),
         phase = "store" /\ use = "data" =>
           /\ request[w].rpc = "Convert" => fetched'[w] \in Rate
           /\ request[w].rpc = "GetHistory" => fetched'[w] \in Points
  PROVE  \A x \in Workers : HandlerTyped(x)'
<1>1. /\ place' = [place EXCEPT ![w] = <<phase, use>>]
      /\ request' = request
  BY DEF GoesOn, MoveTo
<1>2. OfWorkers(place) /\ OfWorkers(fetched)
  BY DEF IInv, Shapes
<1>4. place'[w] = <<phase, use>> /\ \A x \in Workers : x # w => place'[x] = place[x]
  BY <1>1, <1>2, PlaceOfOne
<1>5. \A x \in Workers : x # w => request'[x] = request[x] /\ fetched'[x] = fetched[x]
  BY <1>1, <1>2, FetchedByOne
<1>6. HandlerTyped(w)'
  BY <1>1, <1>4 DEF HandlerTyped, Typed, Idle
<1> QED
  BY <1>4, <1>5, <1>6, TypedButOne DEF Typed

LEMMA ReplyingTyped ==
  ASSUME IInv, Typed, NEW w \in Workers, NEW status, NEW payload,
         Replies(w, status, payload), FetchedBy(w), fetched'[w] = Nothing
  PROVE  \A x \in Workers : HandlerTyped(x)'
<1>1. /\ place' = [place EXCEPT ![w] = Idle]
      /\ request' = [request EXCEPT ![w] = Nothing]
  BY DEF Replies, MoveTo
<1>2. OfWorkers(place) /\ OfWorkers(request) /\ OfWorkers(fetched)
  BY DEF IInv, Shapes
<1>5. place'[w] = Idle /\ \A x \in Workers : x # w => place'[x] = place[x]
  BY <1>1, <1>2, PlaceOfOne
<1>6. request'[w] = Nothing /\ \A x \in Workers : x # w => request'[x] = request[x]
  BY <1>1, <1>2, RequestOfOne
<1>7. \A x \in Workers : x # w => fetched'[x] = fetched[x]
  BY <1>2, FetchedByOne
<1>8. HandlerTyped(w)'
  BY <1>5, <1>6 DEF HandlerTyped, Idle
<1> QED
  BY <1>5, <1>6, <1>7, <1>8, TypedButOne DEF Typed

\* Whoever puts or gives up has nothing in hand any more.
LEMMA WithListTyped ==
  ASSUME IInv, Typed, NEW w \in Workers, place[w] # Idle, NEW use, NEW list,
         WithList(w, use, list), FetchedBy(w), fetched'[w] = Nothing
  PROVE  \A x \in Workers : HandlerTyped(x)'
<1>1. \/ \E status, payload : Replies(w, status, payload)
      \/ \E next \in {"target", "data"} : GoesOn(w, <<"lookup", next>>)
  BY DEF WithList, Throws
<1>2. {"target", "data"} \subseteq Uses /\ "lookup" \in {"lookup", "fetch", "store"}
  BY DEF Uses, CatalogUses
<1>3. ASSUME NEW next \in {"target", "data"}, GoesOn(w, <<"lookup", next>>)
      PROVE  \A x \in Workers : HandlerTyped(x)'
  BY <1>2, <1>3, GoingOnTyped
<1> QED
  BY <1>1, <1>3, ReplyingTyped

\* What an assignment to fetched leaves in hand.
LEMMA InHand ==
  ASSUME IInv, Typed, NEW w \in Workers
  PROVE  /\ fetched' = fetched /\ place[w] \notin {"store"} \X Uses => fetched'[w] = Nothing
         /\ \A v : fetched' = [fetched EXCEPT ![w] = v] => fetched'[w] = v
<1>1. OfWorkers(fetched) /\ HandlerTyped(w)
  BY DEF IInv, Shapes, Typed
<1>2. ASSUME NEW v, fetched' = [fetched EXCEPT ![w] = v] PROVE fetched'[w] = v
  <2>1. w \in DOMAIN fetched
    BY <1>1 DEF OfWorkers
  <2> QED
    BY <1>2, <2>1
<1> QED
  BY <1>1, <1>2 DEF HandlerTyped

LEMMA CatalogTyped ==
  ASSUME IInv, Typed, NEW w \in Workers, NEW use \in CatalogUses,
         LookupCatalog(w, use) \/ CatalogAnswer(w, use)
           \/ EmptyCatalogAnswer(w, use) \/ StoreCatalog(w, use)
  PROVE  Typed'
<1>1. use \in Uses /\ use # "data" /\ place[w] # Idle
  BY DEF Uses, CatalogUses, Idle, LookupCatalog, CatalogAnswer, EmptyCatalogAnswer, StoreCatalog
<1>2. FetchedBy(w) /\ CachesTyped
  BY DEF FetchedBy, LookupCatalog, CatalogAnswer, EmptyCatalogAnswer, StoreCatalog, Typed
<1>3. CASE LookupCatalog(w, use)
  <2>1. CachesTyped'
    BY <1>2, <1>3, CatalogKeeps DEF LookupCatalog, CachesTyped
  <2>2. fetched'[w] = Nothing
    BY <1>3, InHand DEF LookupCatalog
  <2>3. "fetch" \in {"lookup", "fetch", "store"} /\ "fetch" # "store"
    OBVIOUS
  <2>4. CASE GoesOn(w, <<"fetch", use>>)
    BY <1>1, <1>2, <2>1, <2>2, <2>3, <2>4, GoingOnTyped DEF Typed
  <2>5. CASE WithList(w, use, Catalogs!Found(currencyCache, "currencies"))
    BY <1>1, <1>2, <2>1, <2>2, <2>5, WithListTyped DEF Typed
  <2> QED
    BY <1>3, <2>4, <2>5 DEF LookupCatalog
<1>4. CASE CatalogAnswer(w, use)
  <2>1. CachesTyped' /\ fetched'[w] = Listed /\ Listed # Nothing
    BY <1>2, <1>4, InHand, NothingAssumption DEF CatalogAnswer, CachesTyped, caches
  <2>2. "store" \in {"lookup", "fetch", "store"} /\ GoesOn(w, <<"store", use>>)
    BY <1>4 DEF CatalogAnswer
  <2> QED
    BY <1>1, <1>2, <2>1, <2>2, GoingOnTyped DEF Typed
<1>5. CASE EmptyCatalogAnswer(w, use)
  <2>1. CachesTyped' /\ fetched'[w] = Nothing
    BY <1>2, <1>5, InHand DEF EmptyCatalogAnswer, CachesTyped, caches
  <2> QED
    BY <1>2, <1>5, <2>1, ReplyingTyped DEF Typed, EmptyCatalogAnswer, Throws
<1>6. CASE StoreCatalog(w, use)
  <2>1. fetched[w] = Listed
    <3>1. place[w] \in {"store"} \X CatalogUses
      BY <1>6 DEF StoreCatalog
    <3> QED
      BY <3>1 DEF IInv, HandlerOK
  <2>2. CachesTyped'
    BY <1>2, <1>6, <2>1, CatalogKeeps DEF StoreCatalog, CachesTyped
  <2>3. fetched'[w] = Nothing
    BY <1>6, InHand DEF StoreCatalog
  <2>4. WithList(w, use, fetched[w])
    BY <1>6 DEF StoreCatalog
  <2> QED
    BY <1>1, <1>2, <2>2, <2>3, <2>4, WithListTyped DEF Typed
<1> QED
  BY <1>3, <1>4, <1>5, <1>6

LEMMA DataTyped ==
  ASSUME IInv, Typed, NEW w \in Workers,
         QueryRate(w) \/ QueryHistory(w) \/ RateAnswer(w) \/ HistoryAnswer(w)
  PROVE  Typed'
<1>1. place[w] # Idle /\ AtUse(w, {"data"}) /\ "data" \in Uses
  BY DEF QueryRate, QueryHistory, RateAnswer, HistoryAnswer, Idle, AtUse, Uses
<1>2. FetchedBy(w) /\ CachesTyped
  BY DEF FetchedBy, QueryRate, QueryHistory, RateAnswer, HistoryAnswer, Typed
<1>3. CASE QueryRate(w) \/ QueryHistory(w)
  <2>1. CachesTyped'
    <3>1. CASE QueryRate(w)
      BY <1>2, <3>1, RateKeeps DEF QueryRate, CachesTyped
    <3>2. CASE QueryHistory(w)
      BY <1>2, <3>2, HistoryKeeps DEF QueryHistory, CachesTyped
    <3> QED
      BY <1>3, <3>1, <3>2
  <2>2. fetched'[w] = Nothing
    BY <1>3, InHand DEF QueryRate, QueryHistory
  <2>3. \/ GoesOn(w, <<"fetch", "data">>)
        \/ \E payload : Replies(w, "OK", payload)
    BY <1>3 DEF QueryRate, QueryHistory
  <2>4. "fetch" \in {"lookup", "fetch", "store"} /\ "fetch" # "store"
    OBVIOUS
  <2>5. \A x \in Workers : HandlerTyped(x)'
    BY <1>1, <1>2, <2>2, <2>3, <2>4, GoingOnTyped, ReplyingTyped
  <2> QED
    BY <2>1, <2>5 DEF Typed
<1>4. CASE RateAnswer(w) \/ HistoryAnswer(w)
  <2>1. CachesTyped' /\ GoesOn(w, <<"store", "data">>)
    BY <1>2, <1>4 DEF RateAnswer, HistoryAnswer, CachesTyped, caches
  <2>2. Source(request[w]) \in Listed /\ Target(request[w]) \in Listed
    BY <1>1, KeysOfChecked DEF Checked, Known
  <2>3. published \subseteq Days /\ LatestDay \in published
    BY PublishedAreDays, LatestDayPublished DEF IInv
  <2>4. \/ RateAnswer(w) /\ request[w].rpc = "Convert" /\ fetched'[w] \in Rate
        \/ HistoryAnswer(w) /\ request[w].rpc = "GetHistory" /\ fetched'[w] \in Points
    <3>1. CASE RateAnswer(w)
      <4>1. fetched'[w] = [base |-> Source(request[w]), quote |-> Target(request[w]),
                           date |-> LatestDay]
        BY <3>1, InHand DEF RateAnswer
      <4> QED
        BY <2>2, <2>3, <3>1, <4>1 DEF RateAnswer, Rate
    <3>2. CASE HistoryAnswer(w)
      <4>1. fetched'[w] = [base |-> Source(request[w]), quote |-> Target(request[w]),
                           days |-> PointsOf(request[w])]
        BY <3>2, InHand DEF HistoryAnswer
      <4>2. PointsOf(request[w]) \in SUBSET Days
        BY <2>3 DEF PointsOf, DaysSent
      <4> QED
        BY <2>2, <3>2, <4>1, <4>2 DEF HistoryAnswer, Points
    <3> QED
      BY <1>4, <3>1, <3>2
  <2>5. fetched'[w] # Nothing
    BY <2>4, NothingAssumption
  <2>6. "store" \in {"lookup", "fetch", "store"} /\ "Convert" # "GetHistory"
    OBVIOUS
  <2>7. \A x \in Workers : HandlerTyped(x)'
    BY <1>1, <1>2, <2>1, <2>4, <2>5, <2>6, GoingOnTyped
  <2> QED
    BY <2>1, <2>7 DEF Typed
<1> QED
  BY <1>3, <1>4

LEMMA EndsTyped ==
  ASSUME IInv, Typed, NEW w \in Workers,
         StoreRate(w) \/ StoreHistory(w) \/ NoRateAnswer(w) \/ UpstreamFails(w)
  PROVE  Typed'
<1>1. FetchedBy(w) /\ CachesTyped /\ HandlerTyped(w)
  BY DEF FetchedBy, StoreRate, StoreHistory, NoRateAnswer, UpstreamFails, Typed
<1>2. \E status, payload : Replies(w, status, payload)
  BY DEF StoreRate, StoreHistory, NoRateAnswer, UpstreamFails, Throws
<1>3. CachesTyped'
  <2>1. CASE StoreRate(w)
    <3>1. fetched[w] \in Rate
      BY <1>1, <2>1 DEF StoreRate, HandlerTyped
    <3> QED
      BY <1>1, <2>1, <3>1, RateKeeps DEF StoreRate, CachesTyped
  <2>2. CASE StoreHistory(w)
    <3>1. fetched[w] \in Points
      BY <1>1, <2>2 DEF StoreHistory, HandlerTyped
    <3> QED
      BY <1>1, <2>2, <3>1, HistoryKeeps DEF StoreHistory, CachesTyped
  <2>3. CASE NoRateAnswer(w) \/ UpstreamFails(w)
    BY <1>1, <2>3 DEF NoRateAnswer, UpstreamFails, CachesTyped, caches
  <2> QED
    BY <2>1, <2>2, <2>3
<1>4. fetched'[w] = Nothing
  BY InHand DEF StoreRate, StoreHistory, NoRateAnswer, UpstreamFails
<1> QED
  BY <1>1, <1>2, <1>3, <1>4, ReplyingTyped DEF Typed

LEMMA ReceivingTyped ==
  ASSUME IInv, Typed, NEW w \in Workers, NEW r \in Requests, Receive(w, r)
  PROVE  Typed'
<1>1. /\ request' = [request EXCEPT ![w] = r] /\ fetched' = fetched
      /\ \E use \in {"list", "source"} : place' = [place EXCEPT ![w] = <<"lookup", use>>]
      /\ CachesTyped' /\ place[w] = Idle
  BY DEF Receive, MoveTo, caches, Typed, CachesTyped
<1>2. PICK use \in {"list", "source"} : place' = [place EXCEPT ![w] = <<"lookup", use>>]
  BY <1>1
<1>3. OfWorkers(place) /\ OfWorkers(request) /\ HandlerTyped(w)
  BY DEF IInv, Shapes, Typed
<1>6. place'[w] = <<"lookup", use>> /\ \A x \in Workers : x # w => place'[x] = place[x]
  BY <1>2, <1>3, PlaceOfOne
<1>7. request'[w] = r /\ \A x \in Workers : x # w => request'[x] = request[x]
  BY <1>1, <1>3, RequestOfOne
<1>8. fetched'[w] = Nothing /\ r # Nothing
  BY <1>1, <1>3, NothingAssumption DEF HandlerTyped, Idle
<1>9. HandlerTyped(w)'
  BY <1>6, <1>7, <1>8 DEF HandlerTyped, Idle
<1> QED
  BY <1>1, <1>6, <1>7, <1>9, TypedButOne DEF Typed

LEMMA NextTyped == IInv /\ Typed /\ [Next]_vars => Typed'
<1> SUFFICES ASSUME IInv, Typed, [Next]_vars PROVE Typed'
  OBVIOUS
<1>1. ASSUME UNCHANGED <<place, request, fetched>>, CachesTyped' PROVE Typed'
  BY <1>1 DEF Typed, HandlerTyped
<1>2. CASE Arrival
  <2>1. ASSUME NEW w \in Workers, NEW r \in Requests, RejectRange(w, r) \/ GetConstraints(w, r)
        PROVE  Typed'
    BY <1>1, <2>1 DEF RejectRange, GetConstraints, ImmediateReply, handlers, caches, Typed,
                      CachesTyped
  <2> QED
    BY <1>2, <2>1, ReceivingTyped DEF Arrival
<1>3. CASE \E w \in Workers : WorkerStep(w)
  BY <1>3, CatalogTyped, DataTyped, EndsTyped DEF WorkerStep
<1>4. CASE Sweep \/ Tick
  <2>1. CASE Tick
    <3>1. /\ Catalogs!Aged(currencyCache) \in [{"currencies"} -> Kept({Listed}, CatalogMaxAge)]
          /\ Rates!Aged(latestRateCache) \in [Pairs -> Kept(Rate, RateMaxAge)]
          /\ Histories!Aged(historyCache) \in [Queries -> Kept(Points, HistoryMaxAge)]
      <4>1. CachesTyped
        BY DEF Typed
      <4>2. Catalogs!Aged(currencyCache) \in [{"currencies"} -> Kept({Listed}, CatalogMaxAge)]
        BY <4>1, CatalogKeeps DEF CachesTyped
      <4>3. Rates!Aged(latestRateCache) \in [Pairs -> Kept(Rate, RateMaxAge)]
        BY <4>1, RateKeeps DEF CachesTyped
      <4>4. Histories!Aged(historyCache) \in [Queries -> Kept(Points, HistoryMaxAge)]
        BY <4>1, HistoryKeeps DEF CachesTyped
      <4> QED
        BY <4>2, <4>3, <4>4
    <3>2. CachesTyped'
      BY <2>1, <3>1 DEF Tick, CachesTyped
    <3> QED
      BY <1>1, <2>1, <3>2 DEF Tick, Outside, handlers
  <2>2. CASE Sweep
    <3>1. CachesTyped
      BY DEF Typed
    <3>2. ASSUME /\ \E k : currencyCache' = Catalogs!Without(currencyCache, k)
                 /\ UNCHANGED <<latestRateCache, historyCache>>
          PROVE  CachesTyped'
      <4>1. \A k : Catalogs!Without(currencyCache, k)
                    \in [{"currencies"} -> Kept({Listed}, CatalogMaxAge)]
        BY <3>1, CatalogKeeps DEF CachesTyped
      <4> QED
        BY <3>1, <3>2, <4>1 DEF CachesTyped
    <3>3. ASSUME /\ \E k : latestRateCache' = Rates!Without(latestRateCache, k)
                 /\ UNCHANGED <<currencyCache, historyCache>>
          PROVE  CachesTyped'
      <4>1. \A k : Rates!Without(latestRateCache, k) \in [Pairs -> Kept(Rate, RateMaxAge)]
        BY <3>1, RateKeeps DEF CachesTyped
      <4> QED
        BY <3>1, <3>3, <4>1 DEF CachesTyped
    <3>4. ASSUME /\ \E k : historyCache' = Histories!Without(historyCache, k)
                 /\ UNCHANGED <<currencyCache, latestRateCache>>
          PROVE  CachesTyped'
      <4>1. \A k : Histories!Without(historyCache, k) \in [Queries -> Kept(Points, HistoryMaxAge)]
        BY <3>1, HistoryKeeps DEF CachesTyped
      <4> QED
        BY <3>1, <3>4, <4>1 DEF CachesTyped
    <3>5. CachesTyped'
      BY <2>2, <3>2, <3>3, <3>4 DEF Sweep
    <3> QED
      BY <1>1, <2>2, <3>5 DEF Sweep, Outside, handlers
  <2> QED
    BY <1>4, <2>1, <2>2
<1>5. CASE Midnight \/ Publish \/ UNCHANGED vars
  BY <1>1, <1>5 DEF Midnight, Publish, Outside, handlers, vars, caches, Typed, CachesTyped
<1> QED
  BY <1>2, <1>3, <1>4, <1>5 DEF Next

\* Every variable of the services keeps to its type.
THEOREM ServerTypesCorrect == Spec => []TypeOK
<1>1. IInv /\ Typed => TypeOK
  <2> SUFFICES ASSUME IInv, Typed PROVE TypeOK
    OBVIOUS
  <2>1. published \subseteq Days /\ today \in Days
    BY PublishedAreDays DEF IInv, CalendarOK
  <2>2. \A w \in Workers : place[w] \in Places /\ HandlerTyped(w)
    BY DEF IInv, HandlerOK, Typed
  <2> QED
    BY <2>1, <2>2 DEF TypeOK, Typed, CachesTyped, HandlerTyped
<1> QED
  BY <1>1, TypedInitially, Inductive, NextTyped, PTL DEF Spec
-----------------------------------------------------------------------------
(* The course of a handler. *)

\* From p to q a handler keeps to its course and comes nearer to its reply.
Advances(p, q) ==
  /\ \/ p[1] = "lookup" /\ q[1] \in {"lookup", "fetch", "idle"}
     \/ p[1] = "fetch" /\ q[1] \in {"store", "idle"}
     \/ p[1] = "store" /\ q[1] \in {"lookup", "idle"}
  /\ StepsLeft(q) < StepsLeft(p)

\* The steps before a handler in numbers.
LEMMA StepsCounted ==
  ASSUME NEW use \in Uses
  PROVE  /\ LookupsToCome[use] \in Nat
         /\ StepsLeft(<<"lookup", use>>) = 3 * LookupsToCome[use] + 3
         /\ StepsLeft(<<"fetch", use>>) = 3 * LookupsToCome[use] + 2
         /\ StepsLeft(<<"store", use>>) = 3 * LookupsToCome[use] + 1
         /\ StepsLeft(Idle) = 0
<1>1. LookupsToCome[use] \in Nat
  BY DEF LookupsToCome
<1>2. \A phase \in {"lookup", "fetch", "store"} : <<phase, use>> # Idle
  BY DEF Idle
<1> QED
  BY <1>1, <1>2 DEF StepsLeft

LEMMA ReplyAdvances ==
  ASSUME NEW phase \in {"lookup", "fetch", "store"}, NEW use \in Uses
  PROVE  Advances(<<phase, use>>, Idle)
<1>1. StepsLeft(Idle) < StepsLeft(<<phase, use>>)
  <2>1. PICK n \in Nat : n = LookupsToCome[use]
    BY StepsCounted, Zenon
  <2>2. /\ StepsLeft(<<"lookup", use>>) = 3 * n + 3 /\ StepsLeft(<<"fetch", use>>) = 3 * n + 2
        /\ StepsLeft(<<"store", use>>) = 3 * n + 1 /\ StepsLeft(Idle) = 0
    BY <2>1, StepsCounted, Zenon
  <2> QED
    BY <2>2
<1>2. Idle[1] = "idle" /\ <<phase, use>>[1] = phase
  BY DEF Idle
<1> QED
  BY <1>1, <1>2 DEF Advances

LEMMA PhaseAdvances ==
  ASSUME NEW use \in Uses
  PROVE  /\ Advances(<<"lookup", use>>, <<"fetch", use>>)
         /\ Advances(<<"fetch", use>>, <<"store", use>>)
<1>1. /\ StepsLeft(<<"fetch", use>>) < StepsLeft(<<"lookup", use>>)
      /\ StepsLeft(<<"store", use>>) < StepsLeft(<<"fetch", use>>)
  BY StepsCounted
<1> QED
  BY <1>1 DEF Advances

\* With the list there a handler replies or goes on to the lookup after it.
LEMMA WithListAdvances ==
  ASSUME NEW w \in Workers, NEW phase \in {"lookup", "store"}, NEW use \in CatalogUses,
         NEW list, WithList(w, use, list)
  PROVE  \E p : MoveTo(w, p) /\ Advances(<<phase, use>>, p)
<1>1. /\ CatalogUses \subseteq Uses /\ {"source", "target", "data"} \subseteq Uses
      /\ LookupsToCome["source"] = 2 /\ LookupsToCome["target"] = 1
      /\ LookupsToCome["data"] = 0
  BY DEF CatalogUses, Uses, LookupsToCome
<1>2. CASE \E status, payload : Replies(w, status, payload)
  <2>1. MoveTo(w, Idle)
    BY <1>2 DEF Replies
  <2>2. Advances(<<phase, use>>, Idle)
    BY <1>1, ReplyAdvances
  <2> QED
    BY <2>1, <2>2
<1>3. CASE use = "source" /\ GoesOn(w, <<"lookup", "target">>)
  <2>1. StepsLeft(<<"lookup", "target">>) < StepsLeft(<<phase, use>>)
    <3>1. /\ StepsLeft(<<"lookup", "target">>) = 3 * 1 + 3
          /\ StepsLeft(<<"lookup", use>>) = 3 * 2 + 3 /\ StepsLeft(<<"store", use>>) = 3 * 2 + 1
      BY <1>1, <1>3, StepsCounted, Zenon
    <3> QED
      BY <3>1
  <2> QED
    BY <1>3, <2>1 DEF GoesOn, Advances
<1>4. CASE use = "target" /\ GoesOn(w, <<"lookup", "data">>)
  <2>1. StepsLeft(<<"lookup", "data">>) < StepsLeft(<<phase, use>>)
    <3>1. /\ StepsLeft(<<"lookup", "data">>) = 3 * 0 + 3
          /\ StepsLeft(<<"lookup", use>>) = 3 * 1 + 3 /\ StepsLeft(<<"store", use>>) = 3 * 1 + 1
      BY <1>1, <1>4, StepsCounted, Zenon
    <3> QED
      BY <3>1
  <2> QED
    BY <1>4, <2>1 DEF GoesOn, Advances
<1> QED
  BY <1>2, <1>3, <1>4 DEF WithList, Throws

LEMMA WorkerAdvances ==
  ASSUME NEW w \in Workers, WorkerStep(w)
  PROVE  \E p : MoveTo(w, p) /\ Advances(place[w], p)
<1>1. CatalogUses \subseteq Uses /\ "data" \in Uses
  BY DEF Uses
<1>2. ASSUME NEW phase \in {"lookup", "fetch", "store"}, NEW use \in Uses,
             place[w] = <<phase, use>>, NEW status, NEW payload, Replies(w, status, payload)
      PROVE  \E p : MoveTo(w, p) /\ Advances(place[w], p)
  <2>1. MoveTo(w, Idle)
    BY <1>2 DEF Replies
  <2> QED
    BY <1>2, <2>1, ReplyAdvances
<1>3. ASSUME NEW use \in CatalogUses,
             LookupCatalog(w, use) \/ CatalogAnswer(w, use)
               \/ EmptyCatalogAnswer(w, use) \/ StoreCatalog(w, use)
      PROVE  \E p : MoveTo(w, p) /\ Advances(place[w], p)
  <2>1. CASE LookupCatalog(w, use)
    <3>1. /\ place[w] = <<"lookup", use>>
          /\ GoesOn(w, <<"fetch", use>>) \/ \E list : WithList(w, use, list)
      BY <2>1 DEF LookupCatalog
    <3> QED
      BY <1>1, <3>1, PhaseAdvances, WithListAdvances DEF GoesOn
  <2>2. CASE CatalogAnswer(w, use)
    BY <1>1, <2>2, PhaseAdvances DEF CatalogAnswer, GoesOn
  <2>3. CASE EmptyCatalogAnswer(w, use)
    BY <1>1, <1>2, <2>3 DEF EmptyCatalogAnswer, Throws
  <2>4. CASE StoreCatalog(w, use)
    <3>1. place[w] = <<"store", use>> /\ WithList(w, use, fetched[w])
      BY <2>4 DEF StoreCatalog
    <3> QED
      BY <3>1, WithListAdvances
  <2> QED
    BY <1>3, <2>1, <2>2, <2>3, <2>4
<1>4. CASE QueryRate(w) \/ QueryHistory(w)
  <2>1. /\ place[w] = <<"lookup", "data">>
        /\ GoesOn(w, <<"fetch", "data">>) \/ \E payload : Replies(w, "OK", payload)
    BY <1>4 DEF QueryRate, QueryHistory
  <2> QED
    BY <1>1, <1>2, <2>1, PhaseAdvances DEF GoesOn
<1>5. CASE RateAnswer(w) \/ HistoryAnswer(w)
  BY <1>1, <1>5, PhaseAdvances DEF RateAnswer, HistoryAnswer, GoesOn
<1>6. CASE NoRateAnswer(w) \/ StoreRate(w) \/ StoreHistory(w)
  <2>1. /\ place[w] \in {<<"fetch", "data">>, <<"store", "data">>}
        /\ \E status, payload : Replies(w, status, payload)
    BY <1>6 DEF NoRateAnswer, StoreRate, StoreHistory, Throws
  <2> QED
    BY <1>1, <1>2, <2>1
<1>7. CASE UpstreamFails(w)
  <2>1. PICK use \in Uses : place[w] = <<"fetch", use>>
    BY <1>7 DEF UpstreamFails
  <2>2. \E status, payload : Replies(w, status, payload)
    BY <1>7 DEF UpstreamFails, Throws
  <2> QED
    BY <1>2, <2>1, <2>2
<1> QED
  BY <1>3, <1>4, <1>5, <1>6, <1>7 DEF WorkerStep

\* What a step does to the places.
LEMMA PlacesMove ==
  ASSUME [Next]_vars
  PROVE  \/ place' = place
         \/ \E w \in Workers : \E p :
              /\ MoveTo(w, p)
              /\ Advances(place[w], p) \/ (place[w] = Idle /\ p[1] = "lookup")
<1>1. ASSUME NEW w \in Workers, NEW r \in Requests, Receive(w, r)
      PROVE  place[w] = Idle /\ \E p : MoveTo(w, p) /\ p[1] = "lookup"
  <2>1. PICK use \in {"list", "source"} : MoveTo(w, <<"lookup", use>>)
    BY <1>1 DEF Receive
  <2>2. <<"lookup", use>>[1] = "lookup"
    OBVIOUS
  <2> QED
    BY <1>1, <2>1, <2>2 DEF Receive
<1>2. CASE Arrival
  BY <1>1, <1>2 DEF Arrival, RejectRange, GetConstraints, ImmediateReply, handlers
<1>3. CASE \E w \in Workers : WorkerStep(w)
  <2>1. PICK w \in Workers : WorkerStep(w)
    BY <1>3
  <2>2. PICK p : MoveTo(w, p) /\ Advances(place[w], p)
    BY <2>1, WorkerAdvances
  <2> QED
    BY <2>2
<1>4. CASE Sweep \/ Tick \/ Midnight \/ Publish \/ UNCHANGED vars
  BY <1>4 DEF Sweep, Tick, Midnight, Publish, Outside, vars, handlers
<1> QED
  BY <1>2, <1>3, <1>4 DEF Next

\* Handlers keep to the course CurrencyServerApp composes with main
\* (TakesItsCourse; listCurrencies, convert, getHistory).
THEOREM HandlersTakeTheirCourse == Spec => TakesItsCourse
<1> DEFINE course == [w \in Workers |-> place[w][1]]
<1>1. Init => Course!Init
  BY DEF Init, Course!Init, Idle
<1>2. IInv /\ [Next]_vars => [Course!Next]_course
  <2> SUFFICES ASSUME IInv, [Next]_vars PROVE Course!Next \/ UNCHANGED course
    OBVIOUS
  <2>1. CASE place' = place
    BY <2>1
  <2>2. ASSUME NEW w \in Workers, NEW p, MoveTo(w, p),
               Advances(place[w], p) \/ (place[w] = Idle /\ p[1] = "lookup")
        PROVE  Course!Next \/ UNCHANGED course
    <3>1. place'[w] = p /\ \A x \in Workers : x # w => place'[x] = place[x]
      BY <2>2, PlaceOfOne DEF MoveTo, IInv, Shapes
    <3>2. course' = [course EXCEPT ![w] = p[1]]
      BY <3>1
    <3>3. course[w] = place[w][1]
      OBVIOUS
    <3>4. CASE course[w] = p[1]
      BY <3>1, <3>3, <3>4
    <3>5. CASE course[w] # p[1]
      <4>1. \/ course[w] = "idle" /\ p[1] = "lookup"
            \/ course[w] = "lookup" /\ p[1] \in {"fetch", "idle"}
            \/ course[w] = "fetch" /\ p[1] \in {"store", "idle"}
            \/ course[w] = "store" /\ p[1] \in {"lookup", "idle"}
        BY <2>2, <3>3, <3>5 DEF Advances, Idle
      <4> HIDE DEF course
      <4>2. \/ Course!Receive(w) \/ Course!Miss(w) \/ Course!Answer(w)
            \/ Course!LookupNext(w) \/ Course!Reply(w)
        BY <3>2, <4>1 DEF Course!Receive, Course!Miss, Course!Answer, Course!LookupNext,
                          Course!Reply, Course!Moves, course
      <4> QED
        BY <4>2 DEF Course!Next
    <3> QED
      BY <3>4, <3>5
  <2> QED
    BY <2>1, <2>2, PlacesMove
<1> QED
  BY <1>1, <1>2, Inductive, PTL DEF Spec, TakesItsCourse, Course!Spec

\* Every step of a handler brings it nearer to its reply, so no request costs
\* more than three calls to frankfurter.dev, with any number of handlers and
\* whatever the caches lose meanwhile (NearsItsReply).
THEOREM RepliesComeNearer == Spec => NearsItsReply
<1>1. IInv /\ [Next]_vars =>
        [\A w \in Workers : place[w] # Idle /\ place'[w] # place[w] =>
           StepsLeft(place'[w]) < StepsLeft(place[w])]_vars
  <2> SUFFICES ASSUME IInv, [Next]_vars,
                      NEW w \in Workers, place[w] # Idle, place'[w] # place[w]
               PROVE  StepsLeft(place'[w]) < StepsLeft(place[w])
    OBVIOUS
  <2>1. PICK x \in Workers : \E p :
          /\ MoveTo(x, p)
          /\ Advances(place[x], p) \/ (place[x] = Idle /\ p[1] = "lookup")
    BY PlacesMove
  <2>2. PICK p :
          /\ MoveTo(x, p)
          /\ Advances(place[x], p) \/ (place[x] = Idle /\ p[1] = "lookup")
    BY <2>1
  <2>3. place'[x] = p /\ \A y \in Workers : y # x => place'[y] = place[y]
    BY <2>2, PlaceOfOne DEF MoveTo, IInv, Shapes
  <2> QED
    BY <2>2, <2>3 DEF Advances
<1> QED
  BY <1>1, Inductive, PTL DEF Spec, NearsItsReply
=============================================================================
