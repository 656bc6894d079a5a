------------------------- MODULE RateFreshnessProofs -------------------------
(***************************************************************************)
(* Proofs about RateFreshness: how far behind a reply may be, for any      *)
(* number of gRPC threads, any requests and any max_age from zero up.      *)
(***************************************************************************)
EXTENDS RateFreshness, CurrencyServerProofs

-----------------------------------------------------------------------------
(* What the operations of a cache do to its entries. *)

\* Every entry of n is one of m.
Survive(m, n) == \A k \in DOMAIN n : n[k] # Nullopt => n[k] = m[k]

\* Every entry of n is one of m, or v put just now under key.
SurviveBut(m, n, key, v) ==
  \A k \in DOMAIN n : n[k] # Nullopt =>
    \/ n[k] = m[k]
    \/ k = key /\ n[k] = [value |-> v, age |-> 0]

LEMMA RateEntries ==
  ASSUME NEW m, NEW k
  PROVE  /\ Survive(m, Rates!AfterGet(m, k))
         /\ Survive(m, Rates!Without(m, k))
         /\ \A v : \A n \in Rates!AfterPut(m, k, v) : SurviveBut(m, n, k, v)
         /\ Rates!Found(m, k) # Nullopt =>
              /\ m[k] # Nullopt /\ Rates!Found(m, k) = m[k].value
              /\ ~(m[k].age > RateMaxAge)
<1>1. Survive(m, Rates!Without(m, k))
  BY DEF Survive, Rates!Without, Rates!With
<1>2. Survive(m, Rates!AfterGet(m, k))
  BY <1>1 DEF Survive, Rates!AfterGet
<1>3. \A v : \A n \in Rates!AfterPut(m, k, v) : SurviveBut(m, n, k, v)
  BY DEF SurviveBut, Rates!AfterPut, Rates!Without, Rates!With
<1>4. Rates!Found(m, k) # Nullopt =>
        /\ m[k] # Nullopt /\ Rates!Found(m, k) = m[k].value
        /\ ~(m[k].age > RateMaxAge)
  BY DEF Rates!Found, Rates!Live, Rates!Expired
<1> QED
  BY <1>1, <1>2, <1>3, <1>4

LEMMA HistoryEntries ==
  ASSUME NEW m, NEW k
  PROVE  /\ Survive(m, Histories!AfterGet(m, k))
         /\ Survive(m, Histories!Without(m, k))
         /\ \A v : \A n \in Histories!AfterPut(m, k, v) : SurviveBut(m, n, k, v)
         /\ Histories!Found(m, k) # Nullopt =>
              /\ m[k] # Nullopt /\ Histories!Found(m, k) = m[k].value
              /\ ~(m[k].age > HistoryMaxAge)
<1>1. Survive(m, Histories!Without(m, k))
  BY DEF Survive, Histories!Without, Histories!With
<1>2. Survive(m, Histories!AfterGet(m, k))
  BY <1>1 DEF Survive, Histories!AfterGet
<1>3. \A v : \A n \in Histories!AfterPut(m, k, v) : SurviveBut(m, n, k, v)
  BY DEF SurviveBut, Histories!AfterPut, Histories!Without, Histories!With
<1>4. Histories!Found(m, k) # Nullopt =>
        /\ m[k] # Nullopt /\ Histories!Found(m, k) = m[k].value
        /\ ~(m[k].age > HistoryMaxAge)
  BY DEF Histories!Found, Histories!Live, Histories!Expired
<1> QED
  BY <1>1, <1>2, <1>3, <1>4

-----------------------------------------------------------------------------
(* The inductive invariant: what a rate or a history lacks was published   *)
(* no longer ago than it was put, and after it was fetched if it has not   *)
(* been put yet.                                                           *)

Recorded ==
  /\ publishedFor \in [Days -> Int]
  /\ \A d \in Days : d \notin published => publishedFor[d] = 0

RateBehind(rate, n) == \A d \in published : d > rate.date => publishedFor[d] <= n

HistoryBehind(k, points, n) ==
  \A d \in published \intersect QuotedOn[k[2]] :
    k[3] <= d /\ d <= k[4] /\ d \notin points.days => publishedFor[d] <= n

RateEntryFresh(e) == e.age \in Nat /\ (e.age <= RateMaxAge => RateBehind(e.value, e.age))

HistoryEntryFresh(k, e) ==
  e.age \in Nat /\ (e.age <= HistoryMaxAge => HistoryBehind(k, e.value, e.age))

FetchedFresh(w) ==
  place[w] = <<"store", "data">> =>
    /\ request[w].rpc = "Convert" => RateBehind(fetched[w], 0)
    /\ request[w].rpc = "GetHistory" => HistoryBehind(HistoryKey(request[w]), fetched[w], 0)

Fresh ==
  /\ Recorded
  /\ \A k \in Pairs : latestRateCache[k] # Nullopt => RateEntryFresh(latestRateCache[k])
  /\ \A k \in Queries : historyCache[k] # Nullopt => HistoryEntryFresh(k, historyCache[k])
  /\ \A w \in Workers : FetchedFresh(w)

LEMMA FreshInitially == FreshInit => Fresh
<1> SUFFICES ASSUME FreshInit PROVE Fresh
  OBVIOUS
<1>1. Recorded
  BY DEF FreshInit, Recorded
<1>2. /\ \A k \in Pairs : latestRateCache[k] = Nullopt
      /\ \A k \in Queries : historyCache[k] = Nullopt
      /\ \A w \in Workers : place[w] = Idle
  BY DEF FreshInit, Init
<1> QED
  BY <1>1, <1>2 DEF Fresh, FetchedFresh, Idle

-----------------------------------------------------------------------------
(* A tick: whatever is in a cache ages by it, as what was published does.  *)

\* What was so n ticks after a put is so one tick later.
LEMMA RateBehindOneMore ==
  ASSUME CalendarOK, Recorded, PromptTick, NEW rate, NEW n \in Nat, RateBehind(rate, n)
  PROVE  \A d \in published' : d > rate.date => publishedFor'[d] <= n + 1
<1>1. published' = published
  BY DEF PromptTick, Tick, outside
<1> SUFFICES ASSUME NEW d \in published, d > rate.date PROVE publishedFor'[d] <= n + 1
  BY <1>1
<1>2. d \in Days /\ publishedFor[d] \in Int
  BY PublishedAreDays DEF Recorded
<1>3. publishedFor'[d] = publishedFor[d] + 1 \/ publishedFor'[d] = publishedFor[d]
  BY <1>2 DEF PromptTick
<1>4. publishedFor[d] <= n
  BY DEF RateBehind
<1> QED
  BY <1>2, <1>3, <1>4

LEMMA HistoryBehindOneMore ==
  ASSUME CalendarOK, Recorded, PromptTick, NEW k, NEW points, NEW n \in Nat,
         HistoryBehind(k, points, n)
  PROVE  \A d \in published' \intersect QuotedOn[k[2]] :
           k[3] <= d /\ d <= k[4] /\ d \notin points.days => publishedFor'[d] <= n + 1
<1>1. published' = published
  BY DEF PromptTick, Tick, outside
<1> SUFFICES ASSUME NEW d \in published, d \in QuotedOn[k[2]],
                    k[3] <= d, d <= k[4], d \notin points.days
             PROVE  publishedFor'[d] <= n + 1
  BY <1>1
<1>2. d \in Days /\ publishedFor[d] \in Int
  BY PublishedAreDays DEF Recorded
<1>3. publishedFor'[d] = publishedFor[d] + 1 \/ publishedFor'[d] = publishedFor[d]
  BY <1>2 DEF PromptTick
<1>4. publishedFor[d] <= n
  BY DEF HistoryBehind
<1> QED
  BY <1>2, <1>3, <1>4

LEMMA TickKeepsFresh ==
  ASSUME IInv, Fresh, PromptTick
  PROVE  Fresh'
<1>1. /\ CalendarOK /\ Recorded /\ published' = published
      /\ place' = place /\ request' = request /\ fetched' = fetched
  BY DEF IInv, Fresh, PromptTick, Tick, Outside, outside, handlers
<1>2. Recorded'
  <2>1. \A d \in Days : d \notin published => publishedFor'[d] = 0
    BY DEF PromptTick, Fresh, Recorded
  <2>2. publishedFor' \in [Days -> Int]
    BY DEF PromptTick, Fresh, Recorded
  <2> QED
    BY <1>1, <2>1, <2>2 DEF Recorded
<1>3. ASSUME NEW k \in Pairs, latestRateCache'[k] # Nullopt
      PROVE  RateEntryFresh(latestRateCache[k])'
  <2> DEFINE e == latestRateCache[k]
             n == latestRateCache'[k]
  <2>1. DOMAIN latestRateCache = Pairs
    BY DEF IInv, RatesRight
  <2>2. e # Nullopt /\ n = [value |-> e.value, age |-> Rates!Older(e.age)]
    BY <1>3, <2>1 DEF PromptTick, Tick, Rates!Aged
  <2>3. RateEntryFresh(e)
    BY <2>2 DEF Fresh
  <2>4. RateMaxAge \in Nat
    BY MaxAgesAssumption
  <2>5. n.value = e.value /\ n.age = (IF e.age < RateMaxAge + 1 THEN e.age + 1 ELSE e.age)
    BY <2>2 DEF Rates!Older
  <2>6. e.age \in Nat /\ (e.age <= RateMaxAge => RateBehind(e.value, e.age))
    BY <2>3 DEF RateEntryFresh
  <2> HIDE DEF e, n
  <2>7. n.age \in Nat
    BY <2>4, <2>5, <2>6
  <2>8. ASSUME n.age <= RateMaxAge
        PROVE  \A d \in published' : d > n.value.date => publishedFor'[d] <= n.age
    <3>1. e.age <= RateMaxAge /\ n.age = e.age + 1
      BY <2>4, <2>5, <2>6, <2>8
    <3>2. \A d \in published' : d > e.value.date => publishedFor'[d] <= e.age + 1
      BY <1>1, <2>6, <3>1, RateBehindOneMore
    <3> QED
      BY <2>5, <3>1, <3>2
  <2> QED
    BY <2>7, <2>8 DEF RateEntryFresh, RateBehind, n
<1>4. ASSUME NEW k \in Queries, historyCache'[k] # Nullopt
      PROVE  HistoryEntryFresh(k, historyCache[k])'
  <2> DEFINE e == historyCache[k]
             n == historyCache'[k]
  <2>1. DOMAIN historyCache = Queries
    BY DEF IInv, HistoriesRight
  <2>2. e # Nullopt /\ n = [value |-> e.value, age |-> Histories!Older(e.age)]
    BY <1>4, <2>1 DEF PromptTick, Tick, Histories!Aged
  <2>3. HistoryEntryFresh(k, e)
    BY <2>2 DEF Fresh
  <2>4. HistoryMaxAge \in Nat
    BY MaxAgesAssumption
  <2>5. n.value = e.value /\ n.age = (IF e.age < HistoryMaxAge + 1 THEN e.age + 1 ELSE e.age)
    BY <2>2 DEF Histories!Older
  <2>6. e.age \in Nat /\ (e.age <= HistoryMaxAge => HistoryBehind(k, e.value, e.age))
    BY <2>3 DEF HistoryEntryFresh
  <2> HIDE DEF e, n
  <2>7. n.age \in Nat
    BY <2>4, <2>5, <2>6
  <2>8. ASSUME n.age <= HistoryMaxAge
        PROVE  \A d \in published' \intersect QuotedOn[k[2]] :
                 k[3] <= d /\ d <= k[4] /\ d \notin n.value.days => publishedFor'[d] <= n.age
    <3>1. e.age <= HistoryMaxAge /\ n.age = e.age + 1
      BY <2>4, <2>5, <2>6, <2>8
    <3>2. \A d \in published' \intersect QuotedOn[k[2]] :
            k[3] <= d /\ d <= k[4] /\ d \notin e.value.days => publishedFor'[d] <= e.age + 1
      BY <1>1, <2>6, <3>1, HistoryBehindOneMore
    <3> QED
      BY <2>5, <3>1, <3>2
  <2> QED
    BY <2>7, <2>8 DEF HistoryEntryFresh, HistoryBehind, n
\* The tick waits for whoever is about to put.
<1>5. ASSUME NEW w \in Workers PROVE FetchedFresh(w)'
  <2>1. place[w] # <<"store", "data">>
    BY DEF PromptTick, Uses
  <2> QED
    BY <1>1, <2>1 DEF FetchedFresh
<1> QED
  BY <1>2, <1>3, <1>4, <1>5 DEF Fresh

-----------------------------------------------------------------------------
(* Any other step: what is newly published was published just now.         *)

NewJustNow ==
  /\ publishedFor' = publishedFor
  /\ published \subseteq published'
  /\ \A d \in published' : d \notin published => publishedFor[d] = 0

LEMMA OtherStepsPublishNow ==
  ASSUME CalendarOK, Recorded, OtherStep
  PROVE  NewJustNow /\ Recorded'
<1>1. publishedFor' = publishedFor
  BY DEF OtherStep
<1>2. published' = published \/ published' = published \union {today}
  <2>1. CASE Arrival
    BY <2>1 DEF Arrival, Receive, RejectRange, GetConstraints, ImmediateReply, outside
  <2>2. CASE Sweep \/ Midnight \/ Publish
    BY <2>2 DEF Sweep, Midnight, Publish, outside
  <2>3. ASSUME NEW w \in Workers, WorkerStep(w) PROVE published' = published
    <3>1. ASSUME NEW use \in CatalogUses,
                 LookupCatalog(w, use) \/ CatalogAnswer(w, use)
                   \/ EmptyCatalogAnswer(w, use) \/ StoreCatalog(w, use)
          PROVE  published' = published
      BY <3>1 DEF LookupCatalog, CatalogAnswer, EmptyCatalogAnswer, StoreCatalog, WithList,
                  GoesOn, Throws, Replies, outside
    <3>2. CASE QueryRate(w) \/ RateAnswer(w) \/ NoRateAnswer(w) \/ StoreRate(w)
      BY <3>2 DEF QueryRate, RateAnswer, NoRateAnswer, StoreRate, GoesOn, Throws, Replies, outside
    <3>3. CASE QueryHistory(w) \/ HistoryAnswer(w) \/ StoreHistory(w) \/ UpstreamFails(w)
      BY <3>3 DEF QueryHistory, HistoryAnswer, StoreHistory, UpstreamFails, GoesOn, Throws,
                  Replies, outside
    <3> QED
      BY <2>3, <3>1, <3>2, <3>3 DEF WorkerStep
  <2> QED
    BY <2>1, <2>2, <2>3 DEF OtherStep
<1>3. \A d \in published' : d \notin published => publishedFor[d] = 0
  BY <1>2, PublishedAreDays DEF Recorded, CalendarOK
<1>4. Recorded'
  BY <1>1, <1>2 DEF Recorded
<1> QED
  BY <1>1, <1>2, <1>3, <1>4 DEF NewJustNow

LEMMA RateBehindStays ==
  ASSUME NewJustNow, NEW rate, NEW n \in Nat, RateBehind(rate, n)
  PROVE  \A d \in published' : d > rate.date => publishedFor'[d] <= n
BY DEF NewJustNow, RateBehind

LEMMA HistoryBehindStays ==
  ASSUME NewJustNow, NEW k, NEW points, NEW n \in Nat, HistoryBehind(k, points, n)
  PROVE  \A d \in published' \intersect QuotedOn[k[2]] :
           k[3] <= d /\ d <= k[4] /\ d \notin points.days => publishedFor'[d] <= n
BY DEF NewJustNow, HistoryBehind

-----------------------------------------------------------------------------
(* Who puts what. *)

PutsRate(w) ==
  /\ place[w] = <<"store", "data">> /\ request[w].rpc = "Convert"
  /\ SurviveBut(latestRateCache, latestRateCache', RateKey(request[w]), fetched[w])

PutsHistory(w) ==
  /\ place[w] = <<"store", "data">> /\ request[w].rpc = "GetHistory"
  /\ SurviveBut(historyCache, historyCache', HistoryKey(request[w]), fetched[w])

LEMMA SameSurvive == \A m : Survive(m, m)
BY DEF Survive

LEMMA EntriesOfOtherStep ==
  ASSUME OtherStep
  PROVE  /\ Survive(latestRateCache, latestRateCache') \/ \E w \in Workers : PutsRate(w)
         /\ Survive(historyCache, historyCache') \/ \E w \in Workers : PutsHistory(w)
<1>1. CASE UNCHANGED <<latestRateCache, historyCache>>
  BY <1>1, SameSurvive
<1>2. CASE Arrival
  BY <1>1, <1>2 DEF Arrival, Receive, RejectRange, GetConstraints, ImmediateReply, caches
<1>3. CASE Midnight \/ Publish
  BY <1>1, <1>3 DEF Midnight, Publish, caches
<1>4. CASE Sweep
  BY <1>4, SameSurvive, RateEntries, HistoryEntries DEF Sweep
<1>5. ASSUME NEW w \in Workers, WorkerStep(w)
      PROVE  /\ Survive(latestRateCache, latestRateCache') \/ \E x \in Workers : PutsRate(x)
             /\ Survive(historyCache, historyCache') \/ \E x \in Workers : PutsHistory(x)
  <2>1. ASSUME NEW use \in CatalogUses,
               LookupCatalog(w, use) \/ CatalogAnswer(w, use)
                 \/ EmptyCatalogAnswer(w, use) \/ StoreCatalog(w, use)
        PROVE  UNCHANGED <<latestRateCache, historyCache>>
    BY <2>1 DEF LookupCatalog, CatalogAnswer, EmptyCatalogAnswer, StoreCatalog, caches
  <2>2. CASE RateAnswer(w) \/ NoRateAnswer(w) \/ HistoryAnswer(w) \/ UpstreamFails(w)
    BY <1>1, <2>2 DEF RateAnswer, NoRateAnswer, HistoryAnswer, UpstreamFails, caches
  <2>3. CASE QueryRate(w)
    BY <2>3, SameSurvive, RateEntries DEF QueryRate
  <2>4. CASE QueryHistory(w)
    BY <2>4, SameSurvive, HistoryEntries DEF QueryHistory
  <2>5. CASE StoreRate(w)
    <3>1. PutsRate(w) /\ historyCache' = historyCache
      BY <2>5, RateEntries DEF StoreRate, PutsRate
    <3> QED
      BY <3>1, SameSurvive
  <2>6. CASE StoreHistory(w)
    <3>1. PutsHistory(w) /\ latestRateCache' = latestRateCache
      BY <2>6, HistoryEntries DEF StoreHistory, PutsHistory
    <3> QED
      BY <3>1, SameSurvive
  <2> QED
    BY <1>1, <1>5, <2>1, <2>2, <2>3, <2>4, <2>5, <2>6 DEF WorkerStep
<1> QED
  BY <1>2, <1>3, <1>4, <1>5 DEF OtherStep

LEMMA RatesStayFresh ==
  ASSUME IInv, IInv', Fresh, OtherStep, NewJustNow,
         NEW k \in Pairs, latestRateCache'[k] # Nullopt
  PROVE  RateEntryFresh(latestRateCache[k])'
<1> DEFINE n == latestRateCache'[k]
<1>1. DOMAIN latestRateCache = Pairs /\ DOMAIN latestRateCache' = Pairs
  BY DEF IInv, RatesRight
<1>2. n.age \in Nat /\ (n.age <= RateMaxAge => RateBehind(n.value, n.age))
  <2>1. CASE n = latestRateCache[k]
    BY <2>1 DEF Fresh, RateEntryFresh
  <2>2. CASE \E w \in Workers : PutsRate(w) /\ n = [value |-> fetched[w], age |-> 0]
    <3>1. PICK w \in Workers : PutsRate(w) /\ n = [value |-> fetched[w], age |-> 0]
      BY <2>2
    <3>2. RateBehind(fetched[w], 0)
      BY <3>1 DEF Fresh, FetchedFresh, PutsRate
    <3>3. n.age = 0 /\ n.value = fetched[w]
      BY <3>1
    <3> QED
      BY <3>2, <3>3
  <2> QED
    BY <1>1, <2>1, <2>2, EntriesOfOtherStep DEF Survive, SurviveBut, PutsRate
<1> HIDE DEF n
<1>3. n.age <= RateMaxAge => \A d \in published' : d > n.value.date => publishedFor'[d] <= n.age
  BY <1>2, RateBehindStays
<1> QED
  BY <1>2, <1>3 DEF RateEntryFresh, RateBehind, n

LEMMA HistoriesStayFresh ==
  ASSUME IInv, IInv', Fresh, OtherStep, NewJustNow,
         NEW k \in Queries, historyCache'[k] # Nullopt
  PROVE  HistoryEntryFresh(k, historyCache[k])'
<1> DEFINE n == historyCache'[k]
<1>1. DOMAIN historyCache = Queries /\ DOMAIN historyCache' = Queries
  BY DEF IInv, HistoriesRight
<1>2. n.age \in Nat /\ (n.age <= HistoryMaxAge => HistoryBehind(k, n.value, n.age))
  <2>1. CASE n = historyCache[k]
    BY <2>1 DEF Fresh, HistoryEntryFresh
  <2>2. CASE \E w \in Workers : /\ PutsHistory(w) /\ k = HistoryKey(request[w])
                                /\ n = [value |-> fetched[w], age |-> 0]
    <3>1. PICK w \in Workers : /\ PutsHistory(w) /\ k = HistoryKey(request[w])
                               /\ n = [value |-> fetched[w], age |-> 0]
      BY <2>2
    <3>2. HistoryBehind(k, fetched[w], 0)
      BY <3>1 DEF Fresh, FetchedFresh, PutsHistory
    <3>3. n.age = 0 /\ n.value = fetched[w]
      BY <3>1
    <3> QED
      BY <3>2, <3>3
  <2> QED
    BY <1>1, <2>1, <2>2, EntriesOfOtherStep DEF Survive, SurviveBut, PutsHistory
<1> HIDE DEF n
<1>3. n.age <= HistoryMaxAge =>
        \A d \in published' \intersect QuotedOn[k[2]] :
          k[3] <= d /\ d <= k[4] /\ d \notin n.value.days => publishedFor'[d] <= n.age
  BY <1>2, HistoryBehindStays
<1> QED
  BY <1>2, <1>3 DEF HistoryEntryFresh, HistoryBehind, n

-----------------------------------------------------------------------------
(* What frankfurter.dev answers is up to date. *)

LEMMA LatestDayIsLast ==
  ASSUME CalendarOK
  PROVE  \A d \in published : ~(d > LatestDay)
<1>1. \E last \in published : \A d \in published : last >= d
  BY DEF CalendarOK, Days
<1>2. LatestDay \in published /\ \A d \in published : LatestDay >= d
  BY <1>1 DEF LatestDay, Max
<1>3. published \subseteq Int
  BY PublishedAreDays
<1> QED
  BY <1>2, <1>3

LEMMA AllPointsSent ==
  ASSUME NEW r, NEW d \in published, r.start <= d, d <= r.end, d \in QuotedOn[Target(r)]
  PROVE  d \in PointsOf(r)
BY DEF PointsOf, DaysSent

Answers(w) == RateAnswer(w) \/ HistoryAnswer(w)

LEMMA AnswerIsFresh ==
  ASSUME IInv, NEW w \in Workers, Answers(w)
  PROVE  FetchedFresh(w)'
<1>1. GoesOn(w, <<"store", "data">>)
  BY DEF Answers, RateAnswer, HistoryAnswer
<1>2. request' = request /\ published' = published
  BY <1>1 DEF GoesOn, outside
<1>3. OfWorkers(fetched) /\ CalendarOK
  BY DEF IInv, Shapes
<1>4. CASE RateAnswer(w)
  <2>1. request[w].rpc = "Convert" /\ fetched'[w].date = LatestDay
    BY <1>3, <1>4, ExceptOfWorkers DEF RateAnswer
  <2>2. \A d \in published' : ~(d > fetched'[w].date)
    BY <1>2, <1>3, <2>1, LatestDayIsLast
  <2> QED
    BY <1>2, <2>1, <2>2 DEF FetchedFresh, RateBehind
<1>5. CASE HistoryAnswer(w)
  <2> DEFINE r == request[w]
             k == HistoryKey(r)
  <2>1. r.rpc = "GetHistory" /\ fetched'[w].days = PointsOf(r)
    BY <1>3, <1>5, ExceptOfWorkers DEF HistoryAnswer
  <2>2. k[2] = Target(r) /\ k[3] = r.start /\ k[4] = r.end
    BY DEF HistoryKey
  <2>3. ~\E d \in published' \intersect QuotedOn[k[2]] :
           k[3] <= d /\ d <= k[4] /\ d \notin fetched'[w].days
    BY <1>2, <2>1, <2>2, AllPointsSent
  <2>4. HistoryKey(request[w])' = k /\ request'[w] = r
    BY <1>2 DEF HistoryKey, Source, Target
  <2> HIDE DEF k
  <2> QED
    BY <2>1, <2>3, <2>4 DEF FetchedFresh, HistoryBehind
<1> QED
  BY <1>4, <1>5 DEF Answers

\* Where a step of w leaves it, and what it leaves alone of the others.
Moves(w, p) ==
  /\ place' = [place EXCEPT ![w] = p]
  /\ FetchedBy(w)
  /\ \A x \in Workers : x # w => request'[x] = request[x]

LEMMA WorkerMoves ==
  ASSUME IInv, NEW w \in Workers,
         WorkerStep(w) \/ \E r \in Requests : Receive(w, r)
  PROVE  \/ Answers(w) /\ Moves(w, <<"store", "data">>)
         \/ \E p : p # <<"store", "data">> /\ Moves(w, p)
<1>1. /\ OfWorkers(request) /\ "data" \notin CatalogUses
      /\ Idle # <<"store", "data">>
  BY DEF IInv, Shapes, CatalogUses, Idle
<1>2. ASSUME NEW p, GoesOn(w, p), FetchedBy(w) PROVE Moves(w, p)
  BY <1>2 DEF GoesOn, MoveTo, Moves
<1>3. ASSUME NEW status, NEW payload, Replies(w, status, payload), FetchedBy(w)
      PROVE  Moves(w, Idle)
  <2>1. place' = [place EXCEPT ![w] = Idle] /\ request' = [request EXCEPT ![w] = Nothing]
    BY <1>3 DEF Replies, MoveTo
  <2>2. \A x \in Workers : x # w => [request EXCEPT ![w] = Nothing][x] = request[x]
    BY <1>1, ExceptOfWorkers
  <2>3. \A x \in Workers : x # w => request'[x] = request[x]
    BY <2>1, <2>2, Zenon
  <2> QED
    BY <1>3, <2>1, <2>3 DEF Moves
<1>4. ASSUME NEW r \in Requests, Receive(w, r)
      PROVE  \E p : p # <<"store", "data">> /\ Moves(w, p)
  <2>1. PICK use \in {"list", "source"} : place' = [place EXCEPT ![w] = <<"lookup", use>>]
    BY <1>4 DEF Receive, MoveTo
  <2>2. request' = [request EXCEPT ![w] = r] /\ fetched' = fetched
    BY <1>4 DEF Receive
  <2>3. \A x \in Workers : x # w => [request EXCEPT ![w] = r][x] = request[x]
    BY <1>1, ExceptOfWorkers
  <2>4. \A x \in Workers : x # w => request'[x] = request[x]
    BY <2>2, <2>3, Zenon
  <2>5. Moves(w, <<"lookup", use>>)
    BY <2>1, <2>2, <2>4 DEF Moves, FetchedBy
  <2>6. <<"lookup", use>> # <<"store", "data">>
    OBVIOUS
  <2> QED
    BY <2>5, <2>6
<1>5. ASSUME NEW use \in CatalogUses, NEW list, WithList(w, use, list), FetchedBy(w)
      PROVE  \E p : p # <<"store", "data">> /\ Moves(w, p)
  <2>1. \/ \E status, payload : Replies(w, status, payload)
        \/ \E u \in {"target", "data"} : GoesOn(w, <<"lookup", u>>)
    BY <1>5 DEF WithList, Throws
  <2>2. \A u : <<"lookup", u>> # <<"store", "data">>
    OBVIOUS
  <2> QED
    BY <1>1, <1>2, <1>3, <1>5, <2>1, <2>2
<1>6. ASSUME NEW use \in CatalogUses,
             LookupCatalog(w, use) \/ CatalogAnswer(w, use)
               \/ EmptyCatalogAnswer(w, use) \/ StoreCatalog(w, use)
      PROVE  \E p : p # <<"store", "data">> /\ Moves(w, p)
  <2>1. FetchedBy(w)
    BY <1>6 DEF LookupCatalog, CatalogAnswer, EmptyCatalogAnswer, StoreCatalog, FetchedBy
  <2>2. \/ \E list : WithList(w, use, list)
        \/ GoesOn(w, <<"fetch", use>>)
        \/ GoesOn(w, <<"store", use>>)
        \/ \E status, payload : Replies(w, status, payload)
    BY <1>6 DEF LookupCatalog, CatalogAnswer, EmptyCatalogAnswer, StoreCatalog, Throws
  <2>3. <<"fetch", use>> # <<"store", "data">> /\ <<"store", use>> # <<"store", "data">>
    BY <1>1
  <2> QED
    BY <1>1, <1>2, <1>3, <1>5, <2>1, <2>2, <2>3
<1>7. CASE Answers(w)
  <2>1. FetchedBy(w) /\ GoesOn(w, <<"store", "data">>)
    BY <1>7 DEF Answers, RateAnswer, HistoryAnswer, FetchedBy
  <2> QED
    BY <1>2, <1>7, <2>1
<1>8. CASE \/ QueryRate(w) \/ NoRateAnswer(w) \/ StoreRate(w)
           \/ QueryHistory(w) \/ StoreHistory(w) \/ UpstreamFails(w)
  <2>1. FetchedBy(w)
    BY <1>8 DEF QueryRate, NoRateAnswer, StoreRate, QueryHistory, StoreHistory, UpstreamFails,
                FetchedBy
  <2>2. \/ GoesOn(w, <<"fetch", "data">>)
        \/ \E status, payload : Replies(w, status, payload)
    BY <1>8 DEF QueryRate, NoRateAnswer, StoreRate, QueryHistory, StoreHistory, UpstreamFails,
                Throws
  <2>3. <<"fetch", "data">> # <<"store", "data">>
    OBVIOUS
  <2> QED
    BY <1>1, <1>2, <1>3, <2>1, <2>2, <2>3
<1> QED
  BY <1>4, <1>6, <1>7, <1>8 DEF WorkerStep, Answers

\* A handler that stays where it was has what it had.
LEMMA FetchedStaysFresh ==
  ASSUME NEW w \in Workers, FetchedFresh(w), NewJustNow,
         place'[w] = place[w], request'[w] = request[w], fetched'[w] = fetched[w]
  PROVE  FetchedFresh(w)'
<1> SUFFICES ASSUME place[w] = <<"store", "data">> PROVE FetchedFresh(w)'
  BY DEF FetchedFresh
<1>1. request[w].rpc = "Convert" =>
        \A d \in published' : d > fetched[w].date => publishedFor'[d] <= 0
  BY RateBehindStays DEF FetchedFresh
<1> DEFINE k == HistoryKey(request[w])
<1>2. request[w].rpc = "GetHistory" =>
        \A d \in published' \intersect QuotedOn[k[2]] :
          k[3] <= d /\ d <= k[4] /\ d \notin fetched[w].days => publishedFor'[d] <= 0
  BY HistoryBehindStays DEF FetchedFresh
<1>3. HistoryKey(request[w])' = k
  BY DEF HistoryKey, Source, Target
<1> HIDE DEF k
<1> QED
  BY <1>1, <1>2, <1>3 DEF FetchedFresh, RateBehind, HistoryBehind

LEMMA FetchedAllFresh ==
  ASSUME IInv, Fresh, OtherStep, NewJustNow, NEW x \in Workers
  PROVE  FetchedFresh(x)'
<1>1. FetchedFresh(x) /\ OfWorkers(place) /\ OfWorkers(fetched)
  BY DEF Fresh, IInv, Shapes
<1>2. CASE UNCHANGED handlers
  BY <1>1, <1>2, FetchedStaysFresh DEF handlers
<1>3. ASSUME NEW w \in Workers, WorkerStep(w) \/ \E r \in Requests : Receive(w, r)
      PROVE  FetchedFresh(x)'
  <2>1. CASE Answers(w) /\ x = w
    BY <2>1, AnswerIsFresh
  <2>2. ASSUME NEW p, Moves(w, p) PROVE (x = w => place'[x] = p) /\ (x # w => FetchedFresh(x)')
    <3>1. place'[w] = p /\ (x # w => place'[x] = place[x])
      BY <1>1, <2>2, PlaceOfOne DEF Moves
    <3>2. x # w => request'[x] = request[x] /\ fetched'[x] = fetched[x]
      BY <1>1, <2>2, FetchedByOne DEF Moves
    <3> QED
      BY <1>1, <3>1, <3>2, FetchedStaysFresh
  <2>3. ASSUME NEW p, p # <<"store", "data">>, Moves(w, p) PROVE FetchedFresh(x)'
    BY <2>2, <2>3 DEF FetchedFresh
  <2> QED
    BY <1>3, <2>1, <2>2, <2>3, WorkerMoves
<1>4. CASE Arrival
  BY <1>2, <1>3, <1>4 DEF Arrival, RejectRange, GetConstraints, ImmediateReply
<1>5. CASE Sweep \/ Midnight \/ Publish
  BY <1>2, <1>5 DEF Sweep, Midnight, Publish, Outside
<1> QED
  BY <1>3, <1>4, <1>5 DEF OtherStep

LEMMA FreshStep == IInv /\ Fresh /\ [FreshNext]_fvars => IInv' /\ Fresh'
<1> SUFFICES ASSUME IInv, Fresh, [FreshNext]_fvars PROVE IInv' /\ Fresh'
  OBVIOUS
<1>1. IInv'
  <2>1. [Next]_vars
    BY DEF FreshNext, PromptTick, OtherStep, fvars, Next
  <2> QED
    BY <2>1, NextPreserves
<1>2. CASE PromptTick
  BY <1>1, <1>2, TickKeepsFresh
<1>3. CASE OtherStep
  <2>1. NewJustNow /\ Recorded'
    BY <1>3, OtherStepsPublishNow DEF IInv, Fresh
  <2>2. \A k \in Pairs : latestRateCache'[k] # Nullopt => RateEntryFresh(latestRateCache[k])'
    BY <1>1, <1>3, <2>1, RatesStayFresh
  <2>3. \A k \in Queries : historyCache'[k] # Nullopt => HistoryEntryFresh(k, historyCache[k])'
    BY <1>1, <1>3, <2>1, HistoriesStayFresh
  <2>4. \A w \in Workers : FetchedFresh(w)'
    BY <1>3, <2>1, FetchedAllFresh
  <2> QED
    BY <1>1, <2>1, <2>2, <2>3, <2>4 DEF Fresh
<1>4. CASE UNCHANGED fvars
  BY <1>1, <1>4 DEF fvars, vars, caches, handlers, outside, Fresh, Recorded, RateEntryFresh,
                    HistoryEntryFresh, FetchedFresh, RateBehind, HistoryBehind, HistoryKey,
                    Source, Target
<1> QED
  BY <1>2, <1>3, <1>4 DEF FreshNext

LEMMA AlwaysFresh == FreshSpec => [](IInv /\ Fresh)
<1>1. FreshInit => IInv /\ Fresh
  BY InitIInv, FreshInitially DEF FreshInit
<1> QED
  BY <1>1, FreshStep, PTL DEF FreshSpec

-----------------------------------------------------------------------------
(* Replies. *)

UpToDate == RateAtMostMaxAgeBehind /\ HistoryAtMostMaxAgeBehind

LEMMA NothingSaid ==
  ASSUME \/ reply' = Nothing
         \/ reply'.status # "OK"
         \/ reply'.request.rpc \notin {"Convert", "GetHistory"}
  PROVE  UpToDate'
BY DEF UpToDate, RateAtMostMaxAgeBehind, HistoryAtMostMaxAgeBehind

LEMMA NotServed ==
  ASSUME NEW w \in Workers, NEW status, NEW payload, Replies(w, status, payload),
         status # "OK" \/ request[w].rpc \notin {"Convert", "GetHistory"}
  PROVE  UpToDate'
<1>1. reply' = [request |-> request[w], receivedOn |-> receivedOn[w],
                status |-> status, payload |-> payload]
  BY DEF Replies
<1>2. reply'.status = status /\ reply'.request = request[w]
  BY <1>1
<1> QED
  BY <1>2, NothingSaid

\* A rate no older than max_age is replied.
LEMMA RateServed ==
  ASSUME CalendarOK, Recorded, NEW w \in Workers, request[w].rpc = "Convert", NEW rate,
         Replies(w, "OK", rate), publishedFor' = publishedFor,
         NEW n \in Nat, n <= RateMaxAge, RateBehind(rate, n)
  PROVE  UpToDate'
<1>1. reply' = [request |-> request[w], receivedOn |-> receivedOn[w],
                status |-> "OK", payload |-> rate] /\ published' = published
  BY DEF Replies, outside
<1>2. reply'.request.rpc = "Convert" /\ reply'.payload = rate
  BY <1>1
<1>3. ASSUME NEW d \in published, d > rate.date PROVE publishedFor[d] <= RateMaxAge
  <2>1. publishedFor[d] \in Int /\ publishedFor[d] <= n
    BY <1>3, PublishedAreDays DEF Recorded, RateBehind
  <2>2. RateMaxAge \in Nat
    BY MaxAgesAssumption
  <2> QED
    BY <2>1, <2>2
<1> QED
  BY <1>1, <1>2, <1>3 DEF UpToDate, RateAtMostMaxAgeBehind, HistoryAtMostMaxAgeBehind

LEMMA HistoryServed ==
  ASSUME CalendarOK, Recorded, NEW w \in Workers, request[w].rpc = "GetHistory", NEW points,
         Replies(w, "OK", points), publishedFor' = publishedFor,
         points.quote = Target(request[w]),
         NEW n \in Nat, n <= HistoryMaxAge, HistoryBehind(HistoryKey(request[w]), points, n)
  PROVE  UpToDate'
<1> DEFINE r == request[w]
<1>1. reply' = [request |-> r, receivedOn |-> receivedOn[w],
                status |-> "OK", payload |-> points] /\ published' = published
  BY DEF Replies, outside
<1>2. reply'.request = r /\ reply'.payload = points
  BY <1>1
<1>3. ASSUME NEW d \in published, d \in QuotedOn[points.quote],
             r.start <= d, d <= r.end, d \notin points.days
      PROVE  ~(publishedFor[d] > HistoryMaxAge)
  <2>1. publishedFor[d] \in Int /\ publishedFor[d] <= n
    BY <1>3, PublishedAreDays DEF Recorded, HistoryBehind, HistoryKey
  <2>2. HistoryMaxAge \in Nat
    BY MaxAgesAssumption
  <2> QED
    BY <2>1, <2>2
<1> QED
  BY <1>1, <1>2, <1>3 DEF UpToDate, RateAtMostMaxAgeBehind, HistoryAtMostMaxAgeBehind

LEMMA CatalogReplies ==
  ASSUME IInv, NEW w \in Workers, NEW use \in CatalogUses,
         LookupCatalog(w, use) \/ CatalogAnswer(w, use)
           \/ EmptyCatalogAnswer(w, use) \/ StoreCatalog(w, use)
  PROVE  UpToDate'
<1>1. AtUse(w, {use})
  BY DEF LookupCatalog, CatalogAnswer, EmptyCatalogAnswer, StoreCatalog, AtUse
<1>2. use = "list" => request[w].rpc = "ListCurrencies"
  BY <1>1 DEF IInv, HandlerOK, AtUse
<1>3. ASSUME NEW list, WithList(w, use, list) PROVE UpToDate'
  <2>1. \A ex \in {"CurrencyNotFound", "InvalidArgument"} : toStatus[ex] # "OK"
    BY Statuses
  <2> QED
    BY <1>2, <1>3, <2>1, NotServed, NothingSaid DEF WithList, Throws, GoesOn
<1>4. CASE CatalogAnswer(w, use)
  BY <1>4, NothingSaid DEF CatalogAnswer, GoesOn
<1>5. CASE EmptyCatalogAnswer(w, use)
  <2>1. toStatus["ExternalApiUnexpectedResponse"] # "OK"
    BY Statuses DEF UpstreamExceptions
  <2> QED
    BY <1>5, <2>1, NotServed DEF EmptyCatalogAnswer, Throws
<1> QED
  BY <1>3, <1>4, <1>5, NothingSaid DEF LookupCatalog, StoreCatalog, GoesOn

LEMMA QueryReplies ==
  ASSUME IInv, Fresh, publishedFor' = publishedFor, NEW w \in Workers,
         QueryRate(w) \/ QueryHistory(w)
  PROVE  UpToDate'
<1>1. AtUse(w, {"data"}) /\ CalendarOK /\ Recorded
  BY DEF QueryRate, QueryHistory, AtUse, IInv, Fresh
<1>2. CASE QueryRate(w)
  <2> DEFINE k == RateKey(request[w])
             found == Rates!Found(latestRateCache, k)
  <2>1. request[w].rpc = "Convert"
        /\ IF found = Nullopt THEN GoesOn(w, <<"fetch", "data">>) ELSE Replies(w, "OK", found)
    BY <1>2 DEF QueryRate
  <2>2. CASE found = Nullopt
    BY <2>1, <2>2, NothingSaid DEF GoesOn
  <2>3. CASE found # Nullopt
    <3>1. k \in Pairs
      BY <1>1, <2>1, KeysOfChecked
    <3>2. /\ latestRateCache[k] # Nullopt /\ found = latestRateCache[k].value
          /\ ~(latestRateCache[k].age > RateMaxAge)
      BY <2>3, RateEntries
    <3>3. RateEntryFresh(latestRateCache[k]) /\ RateMaxAge \in Nat
      BY <3>1, <3>2, MaxAgesAssumption DEF Fresh
    <3>4. /\ latestRateCache[k].age \in Nat /\ latestRateCache[k].age <= RateMaxAge
          /\ RateBehind(found, latestRateCache[k].age)
      BY <3>2, <3>3 DEF RateEntryFresh
    <3> HIDE DEF k, found
    <3> QED
      BY <1>1, <2>1, <2>3, <3>4, RateServed
  <2> QED
    BY <2>2, <2>3
<1>3. CASE QueryHistory(w)
  <2> DEFINE k == HistoryKey(request[w])
             found == Histories!Found(historyCache, k)
  <2>1. request[w].rpc = "GetHistory"
        /\ IF found = Nullopt THEN GoesOn(w, <<"fetch", "data">>) ELSE Replies(w, "OK", found)
    BY <1>3 DEF QueryHistory
  <2>2. CASE found = Nullopt
    BY <2>1, <2>2, NothingSaid DEF GoesOn
  <2>3. CASE found # Nullopt
    <3>1. k \in Queries
      BY <1>1, <2>1, KeysOfChecked
    <3>2. /\ historyCache[k] # Nullopt /\ found = historyCache[k].value
          /\ ~(historyCache[k].age > HistoryMaxAge)
      BY <2>3, HistoryEntries
    <3>3. HistoryEntryFresh(k, historyCache[k]) /\ HistoryMaxAge \in Nat
      BY <3>1, <3>2, MaxAgesAssumption DEF Fresh
    <3>4. /\ historyCache[k].age \in Nat /\ historyCache[k].age <= HistoryMaxAge
          /\ HistoryBehind(k, found, historyCache[k].age)
      BY <3>2, <3>3 DEF HistoryEntryFresh
    <3>5. found.quote = Target(request[w])
      BY <3>1, <3>2 DEF IInv, HistoriesRight, HistoryFor, HistoryKey
    <3> HIDE DEF found
    <3> QED
      BY <1>1, <2>1, <2>3, <3>4, <3>5, HistoryServed
  <2> QED
    BY <2>2, <2>3
<1> QED
  BY <1>2, <1>3

LEMMA StoreReplies ==
  ASSUME IInv, Fresh, publishedFor' = publishedFor, NEW w \in Workers,
         StoreRate(w) \/ StoreHistory(w)
  PROVE  UpToDate'
<1>1. /\ place[w] = <<"store", "data">> /\ Replies(w, "OK", fetched[w])
      /\ CalendarOK /\ Recorded /\ FetchedFresh(w) /\ HandlerOK(w)
  BY DEF StoreRate, StoreHistory, IInv, Fresh
<1>2. 0 <= RateMaxAge /\ 0 <= HistoryMaxAge /\ 0 \in Nat
  BY MaxAgesAssumption
<1>3. CASE StoreRate(w)
  <2>1. request[w].rpc = "Convert" /\ RateBehind(fetched[w], 0)
    BY <1>1, <1>3 DEF StoreRate, FetchedFresh
  <2> QED
    BY <1>1, <1>2, <2>1, RateServed
<1>4. CASE StoreHistory(w)
  <2>1. request[w].rpc = "GetHistory" /\ HistoryBehind(HistoryKey(request[w]), fetched[w], 0)
    BY <1>1, <1>4 DEF StoreHistory, FetchedFresh
  <2>2. fetched[w].quote = Target(request[w])
    BY <1>1, <2>1 DEF HandlerOK, HistoryFor, HistoryKey
  <2> QED
    BY <1>1, <1>2, <2>1, <2>2, HistoryServed
<1> QED
  BY <1>3, <1>4

LEMMA FreshReplies == IInv /\ Fresh /\ UpToDate /\ [FreshNext]_fvars => UpToDate'
<1> SUFFICES ASSUME IInv, Fresh, UpToDate, [FreshNext]_fvars PROVE UpToDate'
  OBVIOUS
<1>1. CASE PromptTick
  BY <1>1, NothingSaid DEF PromptTick, Tick, Outside
<1>2. CASE Sweep \/ Midnight \/ Publish
  BY <1>2, NothingSaid DEF Sweep, Midnight, Publish, Outside
<1>3. CASE Arrival
  <2>1. ASSUME NEW w \in Workers, NEW r \in Requests, RejectRange(w, r) \/ GetConstraints(w, r)
        PROVE  reply'.status # "OK" \/ reply'.request.rpc \notin {"Convert", "GetHistory"}
    BY <2>1, Statuses DEF RejectRange, GetConstraints, ImmediateReply
  <2> QED
    BY <1>3, <2>1, NothingSaid DEF Arrival, Receive
<1>4. ASSUME NEW w \in Workers, WorkerStep(w), publishedFor' = publishedFor PROVE UpToDate'
  <2>1. CASE Answers(w)
    BY <2>1, NothingSaid DEF Answers, RateAnswer, HistoryAnswer, GoesOn
  <2>2. CASE NoRateAnswer(w) \/ UpstreamFails(w)
    <3>1. \E ex \in UpstreamExceptions \union {"other"} : Throws(w, ex)
      BY <2>2 DEF NoRateAnswer, UpstreamFails, UpstreamExceptions
    <3> QED
      BY <3>1, Statuses, NotServed DEF Throws
  <2> QED
    BY <1>4, <2>1, <2>2, CatalogReplies, QueryReplies, StoreReplies DEF WorkerStep, Answers
<1>5. CASE UNCHANGED fvars
  BY <1>5 DEF fvars, vars, outside, UpToDate, RateAtMostMaxAgeBehind, HistoryAtMostMaxAgeBehind
<1> QED
  BY <1>1, <1>2, <1>3, <1>4, <1>5 DEF FreshNext, OtherStep

LEMMA AlwaysUpToDate == FreshSpec => []UpToDate
<1>1. FreshInit => UpToDate
  BY DEF FreshInit, Init, UpToDate, RateAtMostMaxAgeBehind, HistoryAtMostMaxAgeBehind
<1> QED
  BY <1>1, AlwaysFresh, FreshReplies, PTL DEF FreshSpec

\* A rate that is replied was the latest no more than max_age ago.
THEOREM RatesUpToDate == FreshSpec => []RateAtMostMaxAgeBehind
BY AlwaysUpToDate, PTL DEF UpToDate

\* A history that is replied lacks no day published more than max_age ago.
THEOREM HistoriesUpToDate == FreshSpec => []HistoryAtMostMaxAgeBehind
BY AlwaysUpToDate, PTL DEF UpToDate

=============================================================================
