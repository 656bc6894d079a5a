# Currency converter: TLA+ models, checks and proofs

This directory holds TLA+ specifications of the currency converter: the backend's
cache, services, configuration and process life, and the form of the web page. TLC
configurations check them on small instances, and TLAPS proves theorems about each
of them for all instances. `PROJECT.json` lists the runs, the mutants, the hazards,
the findings, and the source lines each definition models.

    tlc -config cache_safety.cfg MC_Cache              # any run of the table below
    tlapm CurrencyServerProofs.tla                     # any module *Proofs

## 1. Inventory

| part | state it keeps | operations | correct means |
|---|---|---|---|
| cache (`cache/TimeAndSizeBoundedCache.h`, `ICache.h`) | an LRU list, an index of iterators into it, a stop flag, a sweeper thread with its condition variable | `get`, `put`, `sweepLoop`/`sweepExpired`, constructor, destructor | a map that never serves an expired entry and loses nothing but by age and room; list and index agree; bounded; expired entries are reclaimed unread; the destructor returns |
| application services (`application/*.cpp`) | none of their own; the three caches | `convert`, `getHistory`, `listCurrencies`, `isKnownCurrency`, `getConstraints` | checks before the query, in whatever way lookups interleave; what is cached belongs to its key; answers are for the question asked and no further behind than max_age |
| gRPC boundary (`grpc/CurrencyServiceImpl.cpp`) | none | the four RPCs, `handle`, `toStatus` | a status for every request, and the one the request has coming |
| frankfurter client (`external/FrankfurterClient.cpp`) | none | `listCurrencies`, `latestRate`, `history`, `get` | what it returns is of the range and the target asked for, failures become one of two exceptions |
| domain (`domain/*.h`) | none | `DateRange`, `toUpper`, exceptions | only well-formed, ordered ranges exist |
| configuration (`config/AppConfig.cpp`) | layers of Poco configurations | `loadJsonFile`, getters with defaults | arguments over file over defaults |
| lifecycle (`main.cpp`) | options, SSL, client, caches, services, server and its thread | `defineOptions`, `handleDefine`, `main`, the ends of its objects | nothing is used after it is gone, no thread is left, main never hangs |
| conversion form (`conversion.ts`, `.html`) | form, lookups, result, history, submitting | `loadLookups`, `submit`, editing, rendering | what is shown belongs to what was asked, what the form lets through is accepted, no failure is silent |
| currency overview, history chart, gRPC client, messages (`frontend/src/app`) | list, loading and error flags | `load`, filter, one call each | the state of one call |
| Envoy, containers, build, proto | configuration, generated code | | |

How they interact: `main` builds the client, the caches, the services and the server,
in that order, and their destructors run in the reverse one. A gRPC thread runs a
handler of `CurrencyServiceImpl`, which calls a service, which calls
`CurrencyCatalogService::isKnownCurrency` for the source and again for the target
(each a lookup of the currency list through its cache), checks the rest of the
request, and looks the rate or the history up through a second cache. Every miss is a
blocking HTTP call to frankfurter.dev made without any lock. Caches are shared by all
gRPC threads and by one sweeper thread each. Failures travel as exceptions to
`handle`, which makes a status of them. The page calls through gRPC-Web and Envoy;
JavaScript runs one callback at a time, but two calls are out at once.

What is hard: interleavings of callers, sweeper and destructor within one cache;
handlers that look up, fetch and put in separate critical sections, so that
entries expire, other handlers put, and midnight passes in between; an upstream
that fails at any of three calls of one request; the order the list of the cache
is left in by long sequences of calls; leaving `main` half way, with sweepers
running, or with handlers under way; answers to the page in any order, one of two
calls failing, days told as instants in time zones. Nothing is persisted, so there
is no recovery to check. All hazards are in `PROJECT.json`, each at its line with the
properties that cover it.

## 2. Modules

| module | models |
|---|---|
| `TtlMap` | operators on maps whose entries age: what a `get` finds and leaves, what a `put` may leave, what a tick does |
| `ICache` | the abstract cache: a map that forgets. State machine over `TtlMap` |
| `TimeAndSizeBoundedCache` | the class as written: list, index of iterators, sweeper thread, condition variable, destructor |
| `CacheRecency` | the same with a history variable, the order of uses, to judge evictions |
| `RequestChecks` | what the backend demands of a request's fields; shared by the services, which check it, and the page, which should satisfy it |
| `IsoDates` | dates as the backend has them, texts compared as strings: that they are judged as `RequestChecks` judges days |
| `CurrencyServer` | gRPC boundary, services, client and the three caches, several requests at a time |
| `RateFreshness` | the same with a history variable, the time since each day's rates were published, to judge staleness |
| `HandlerCourse` | where a handler may be and go, as far as the rest of the process can tell: the abstract specification of the handlers of `CurrencyServer` |
| `AppConfig` | the layers of the configuration, its defaults, the conversion to `size_t` |
| `CurrencyServerApp` | the life of the process, over `AppConfig` and `HandlerCourse` |
| `Conversion` | the form of the page, its calls and what it displays, over `RequestChecks` |
| `*Proofs` | theorems, see section 4 |
| `MC_*` | small instances |

The parts are composed through what each is shown to promise. `CurrencyServer` uses the
caches as the maps of `TtlMap`, one step for each call; `ICache` says the same as a
state machine, and `TimeAndSizeBoundedCache` implements it (run `cache_safety`,
theorem `CacheIsTheMap`): that is what justifies composing the services with maps and
not with lists, indexes and sweeper threads. The eviction order is open in the map
(any other key may make room), so what holds of the services holds for every eviction
policy. `CurrencyServerApp` composes the life of the process with handlers that keep to
`HandlerCourse`, and those of `CurrencyServer` do (`TakesItsCourse`, theorem
`HandlersTakeTheirCourse`, with the refinement mapping that drops what a lookup is
for); a sweeper it reduces to whether it runs. That both come to an end is
`EveryRequestAnswered` and `DestructorReturns`.
`CurrencyServer` and `Conversion`, over `RequestChecks`, have numbers for dates;
`IsoDates` shows that the strings of the code come to the same (`TextsJudgedAsDays`).
`Conversion` knows of the backend that it accepts what `RequestChecks` accepts and
refuses the rest, which is `StatusReflectsRequest`, and that it may fail for reasons
of its own.

### TimeAndSizeBoundedCache

* `entries` is `entries_`, front first, with the age of each entry in place of
  `insertedAt`; `index` is `index_`. An iterator is the list node it points to;
  a freed node may be allocated again, so a dangling iterator may come to point
  to a stranger.
* `get` and `put` hold `mutex_` throughout: an action each (`GetAbsent`,
  `GetExpired`, `GetHit`, `Put`). The sweep holds it too but reads the clock for
  every entry, and time may pass meanwhile: an action for each entry
  (`SweepKeeps`, `SweepRemoves`), with callers kept out (`MutexFree`).
* `sweepLoop` is cut at everything another thread can get between:
  the loop's test of `stopping_` (`LoopTest`), the predicate of `wait_for`
  (`TestPredicate`), falling asleep (`Block`), the deadline (`Timeout`), a
  spurious wake-up, the second test (`CheckStop`), taking `mutex_`
  (`LockForSweep`). `Block` is separate from `TestPredicate` because the
  destructor notifies without `sweeperMutex_`.
* The destructor is `RequestStop`, `NotifyAll`, `Join`.
* `Tick` is the steady clock. A tick stands for the code's minute; `Interval` is
  `max(maxAge / 2, 1)` in ticks. Integer halving of an odd `maxAge` loses half
  a minute, which is what `std::chrono::minutes` does.

### CurrencyServer

* A worker is a gRPC thread with a request in hand. `place` says which of its
  lookups it is at (`list`, `source`, `target`, `data`) and in which phase:
  about to `get`, waiting for frankfurter.dev, about to `put`. What a handler
  computes between two of these touches nothing shared and belongs to the step
  before it.
* Times and dates: `today` is `system_clock`'s date, `Midnight` moves it;
  `published` are the days frankfurter.dev has rates for, `Publish` adds today.
  The three caches age with `Tick`, on a clock of its own.
* frankfurter.dev answers with what it has at the moment of the answer, or
  fails with either exception, or the call throws something `get` does not
  catch. An empty currency list, a missing rate, the additional day before a
  range and days that do not quote the target occur.
* `reply` holds the reply of the step just taken with the request it is for and
  the day that request came in.
* Bodies, rates as numbers, names of currencies and log lines are left out. A
  rate is told by its currencies and its date, a history by its set of days.

### IsoDates

* A text is a sequence of bytes, `Precedes` is `operator<` of two. `start` and `end` are
  the dates of a request as they came, `today` is the date of `system_clock`, and
  `todayIsoDate` writes it as `{:%Y-%m-%d}` does.
* `MakesRange` is the constructor of `DateRange`, `WithinLimits` the check of
  `getHistory`. The reference is `DayOf`: a number for a text that has the form of a
  date, in the order of the calendar, and a marker for any other.
* A text such as `2024-02-30` has the form and lies between its neighbours;
  `isIsoDate` takes it on purpose, and so does the reference.
* `Midnight` goes through the calendar, leap years included.

### AppConfig and CurrencyServerApp

* `stage` is how far `main` has come: options one by one (`Help`, `Define`, `BadOption`),
  the file, logging, SSL, each object it constructs, serving, the stages of the shutdown,
  and `leave`, where the objects in `built` go, the last one first. A settings layer is a
  record with a priority; `setString` writes the application's own layer, the file is
  added at `PRIO_DEFAULT`, the getters ask the lowest number first. That -D wins although
  it is processed before the file is loaded follows from that and is not assumed.
* An exception anywhere in `main` is caught by Poco's `run`: `Throws` goes to `leave` with
  `EXIT_SOFTWARE`, with whatever was built so far. `uninitializeSSL` is not called on that
  way, only on the way out when the server does not start and at the normal end, as in the
  code. A -D argument without "=" and a second `--config` throw during `init`, before
  `main`: `EXIT_CONFIG`.
* `getInt` throws for a text that is no number and for a number that no `int` holds
  (`Ints`); `NotANumber` stands for that. `MaxSize` is the largest `size_t`: `ToSize` of
  -1 is `MaxSize`, of 0 is 0, at which the constructor of the cache throws.
* A handler works from the moment the server accepts until it has replied; up to then it
  goes, once for each of its lookups, to a cache and after a miss to frankfurter.dev and
  back to the cache to put the answer. `BeginShutdown` ends the accepting, `EndShutdown`
  waits for the handlers, then `Wait` of the server's thread returns. The destructor of a
  cache is `StopSweeper` and `DestroyCache`; that of a `std::thread` that was not joined
  aborts the process.

### Conversion

* One callback of JavaScript is one step: a lookup's answer (the second sets the
  form), `submit` up to its `await`, the answer of one of its two calls. `Promise.all`
  goes on with the last answer or the first failure.
* A `Date` is an instant in hours of universal time, seen from a time zone.
  `fromDateInput` makes local midnight of a day, `toDateInput` the local day of an
  instant; the validator compares local days. A day may have few hours.
* `buttonDisabled` is the button as last rendered: with event coalescing Angular renders a
  frame after the event, so a second click can come in between. `overlapped`
  records that a submit was made while another waited; it is history, not state.
* `today` is the backend's date and moves while the page is open.
* Only codes of the list can be selected, so `NOT_FOUND` does not arise; the
  amount the form begins with stands for any allowed one. `result` and
  `historyPoints` are the submits whose answers are shown. What frankfurter.dev
  makes of a call is one of `Failures`; so is Envoy's timeout.

## 3. Runs

| run | shows | bounds |
|---|---|---|
| `cache_safety` | types, `IndexMatchesEntries`, `WithinCapacity`, `SweepIteratorValid`, `StopOnlyApproachesExit`, `EvictsLeastRecentlyUsed`, `ImplementsICache` | 4 keys, 2 values, room for 3, 4 nodes, max_age 2 |
| `cache_liveness` | `DestructorReturns`, `EventuallyReclaimed` | 2 keys, room for 2, max_age 4 |
| `cache_punctual` | `ReclaimedInTime` | 3 keys, room for 2, max_age 4, ages to 8 |
| `server_safety` | types, `StatusReflectsRequest`, `OnlyCheckedQueriesLeave`, `CachesHoldWhatWasPublished`, `ReplyAnswersItsRequest` | 2 workers, 9 requests, 3 days, room for 1 rate and 1 history |
| `server_fresh` | `RateAtMostMaxAgeBehind`, `HistoryAtMostMaxAgeBehind` | 2 workers, 5 competing requests, max ages 1 |
| `server_liveness` | `EveryRequestAnswered`, `TakesItsCourse`, `NearsItsReply` | 2 workers, 4 requests |
| `iso_dates` | `TextsJudgedAsDays`, `LaterDaysLetMoreThrough` | 17 texts, 5 stretches of days |
| `app_lifecycle` | types, `HandlersUseWhatLives`, `ThreadsEndBeforeWhatTheyUse`, `WaitsOnlyForWhatEnds`, `SettingsInForce`, `ServesOrEnds` | 16 command lines, 2 files of 4 contents each, 2 handlers, integers of 16 bits |
| `conversion_page` | types, `FormHasItsLookups`, `ValidFormNotRefused`, `ResultWithItsHistory`, `LastSubmitShown`, `SpinnersTurnForACause`, `NeverSilent`, `PageComesBack` | 2 submits, 6 forms, days of 3 hours, zones an hour east and west, 2 days |
| `server_unknown_code` | violated: `UnknownCodeIsInvalidArgument` | 1 worker |
| `server_unavailable` | violated: `UnavailableOnlyWithoutCachedHistory` | 1 worker |
| `conversion_labels` | violated: `LabelsNameTheResult` | 2 submits, 2 forms |

Why the bounds are enough. *Cache*: with one key more than there is room for, eviction,
replacement, a hit at the back, in the middle and at the front, and a sweep that removes
one entry and keeps another all happen; nodes are the fewest `push_front` can do with, so
a freed node is reused at once, which is the worst case for dangling iterators. max_age is
2 or 4, so the interval of the sweeper is half of it as by default and sweeps pass entries
before they expire; 2 is long enough for a hit to bring an old entry to the front and one
behind it to expire first, and in the runs that watch the sweeper's sleep 4 makes the
interval longer than a tick. Ages beyond max_age are alike, so `AgeCap` need only exceed
it (`cache_punctual` measures ages and has more). *Server*: two workers are enough for one
to act between any two steps of another; max ages of 0 with free ticks let an entry expire
between any two steps; room for one makes every second query evict; three days are one
before the selectable range, its first and today's tomorrow. `server_safety` has requests
that pass and that fail each check but one: none begins before the first day, a case left
to `iso_dates` and `StatusRight`. `server_fresh` has those that compete for the same
entries and the calls without parameters. *Dates*: the texts are days at the limits, next
to them and in the future, a day no February has, the least and the greatest of the form,
and one text for each way not to have it; the days are around the ends of a year, of
September, when the month gets its second digit, of February in a leap year and in 2100,
and the last ones of four digits. *Process*: the command lines contain every option, the
same key or option twice, -D before and after `--config`, 0, -1, a number too large for an
int and texts that are no numbers; the files are missing, malformed, silent about a key or
not; 16 bits are the fewest C++ lets an `int` and a `size_t` have. Two handlers show that
shutdown waits for each. *Page*: two submits are the fewest that overlap; the forms are a
valid one, one whose start is on another day in the two zones, equal currencies, a
reversed range, an incomplete one, and one that ends on the second day, before and after
midnight.

Symmetry is declared where keys, nodes, values or workers are only compared, and only in
runs without liveness properties. Age counters stop at `AgeCap`, the calendar at `LastDay`
or on `LastDates`, `publishedFor` at `LongAgo`, submits at `MaxSubmits`; no state
constraint is used.

Deadlock is checked in all runs. In the cache and the server it says little, for the
clock can always tick: `DestructorReturns` and `EveryRequestAnswered` would find
threads stuck. The process may end (`Ended`) and the page may stay without its
lookups (`StaysUnusable`); both are steps that change nothing, any other stop is an
error.

### Fairness

`FairSpec` of the cache has weak fairness of the sweeper's steps, of the
destructor's steps once it has begun, and of the clock: the operating system runs
every thread that can run, `std::mutex` is held by callers for one call and by the
sweep for one walk, and the steady clock advances. No fairness is asked of callers,
of spurious wake-ups, or of the decision to destroy the cache. Lost
notifications are not excluded: `DestructorReturns` holds because `wait_for` has a
deadline, and its mutant, a wait without one, fails.

`FairSpec` of the server has weak fairness of each worker: gRPC's threads are
scheduled, and a call to frankfurter.dev ends, with an answer or a failure, since
the session has a timeout. Which of the two is open, so is when entries expire. The
timeout is one of each read, not of the call: an upstream that sends a byte now and
then defeats it, and the property with it.

`FairSpec` of the process has weak fairness of main, of the server's thread, of each
sweeper that was told to stop and of each handler's reply. The request to terminate is
not assumed, so `ServesOrEnds` says that main comes to wait for it or to its end.

`FairSpec` of the page: every call ends, since Envoy gives up after 60 s at most and
says so; the browser renders. The user need not do anything.

### Timing assumptions

`ReclaimedInTime` and the two freshness properties are bounds in ticks and hold
only when the code in between takes no time. `PunctualSpec` lets time pass while
the sweeper sleeps, not beyond its deadline; `PromptTick` lets none pass between
the answer of frankfurter.dev and its `put` (while a call is under way it may).
Without the latter, a handler may be suspended with an answer in hand for any time
and then cache it as new: an entry's age counts from its `put`, not from the moment
its data was current.

### What the violated runs say

1. `server_unknown_code`. `docs/api.md:115`: unknown codes return
   `INVALID_ARGUMENT`. The code returns `NOT_FOUND`, as `domain/Errors.h` says.
2. `server_unavailable`. `docs/architecture.md:298`: `UNAVAILABLE` when there is
   "no usable cache entry". A cached, live history cannot be had when the
   currency list has expired and frankfurter.dev is down, for the list is asked
   first. With the defaults the list lives 24 hours and so does a history,
   which is fetched after it.
3. `conversion_labels`. `docs/task.md:27` asks for the rates "between the selected
   currencies". Result line and chart name the currencies of the form as it is, the
   numbers are those of the last submit: select other currencies and the page shows
   the old numbers under the new names.

Disagreements that need no run. `docs/task.md:39` has "the oldest entry" deleted from a
full cache, while the code deletes the least recently used, as
`docs/architecture.md` decides. `docs/api.md:135-138` and `currency.proto:77` say that
`max_date` is a day with published rates, resolved once and cached;
`ConstraintsService.cpp:22` returns today, each time.

### Mutants

A definition marked "Fault" is the next definition with a slip in it: a missing
lock, a forgotten erase, a bound off by one, a wait that restarts, a key with a
part left out, a step of the shutdown out of order, an answer shown too early.
`PROJECT.json` pairs each property of a passing run with one of them that breaks it.
They are no part of any specification.

## 4. Proofs

Each theorem holds for every value of the constants that satisfies the named
assumptions of its modules, all of which TLC evaluates in some run.

| module | theorem | states |
|---|---|---|
| `TimeAndSizeBoundedCacheProofs` | `TypesCorrect` | `Spec => []TypeOK` |
| | `ListAndIndexAgree` | `Spec => []IndexMatchesEntries` |
| | `CapacityKept` | `Spec => []WithinCapacity` |
| | `SweepNeverDangles` | `Spec => []SweepIteratorValid` |
| | `StopIsFinal` | `Spec => StopOnlyApproachesExit` |
| | `GoneInTime` | `PunctualSpec => []ReclaimedInTime` |
| `CacheRefinementProofs` | `CacheIsTheMap` | `Spec => ImplementsICache` |
| `CacheRecencyProofs` | `OldestUseGoes` | `RecencySpec => EvictsLeastRecentlyUsed` |
| `CurrencyServerProofs` | `ServerTypesCorrect` | `Spec => []TypeOK` |
| | `CheckedQueriesOnly` | `Spec => []OnlyCheckedQueriesLeave` |
| | `CachesTrue` | `Spec => []CachesHoldWhatWasPublished` |
| | `StatusRight` | `Spec => []StatusReflectsRequest` |
| | `RepliesToTheirRequests` | `Spec => []ReplyAnswersItsRequest` |
| | `HandlersTakeTheirCourse` | `Spec => TakesItsCourse` |
| | `RepliesComeNearer` | `Spec => NearsItsReply` |
| `RateFreshnessProofs` | `RatesUpToDate` | `FreshSpec => []RateAtMostMaxAgeBehind` |
| | `HistoriesUpToDate` | `FreshSpec => []HistoryAtMostMaxAgeBehind` |
| `IsoDatesProofs` | `TextsAreDays` | `Spec => []TextsJudgedAsDays` |
| | `MidnightsHarmless` | `Spec => LaterDaysLetMoreThrough` |
| `CurrencyServerAppProofs` | `NothingGoneInUse` | `Spec => []HandlersUseWhatLives` |
| | `NoThreadLeftBehind` | `Spec => []ThreadsEndBeforeWhatTheyUse` |
| | `NoWaitInVain` | `Spec => []WaitsOnlyForWhatEnds` |
| | `SettingsObeyed` | `Spec => []SettingsInForce` |
| | `AppTypesCorrect` | `Spec => []TypeOK` |
| `ConversionProofs` | `FormTypesCorrect` | `Spec => []TypeOK` |
| | `ResultAndHistoryTogether` | `Spec => []ResultWithItsHistory` |
| | `DisplayFollowsLastSubmit` | `Spec => []LastSubmitShown` |
| | `SpinnersStop` | `Spec => []SpinnersTurnForACause` |
| | `FormNeverWithoutLookups` | `Spec => []FormHasItsLookups` |
| | `NoUndeservedRefusal` | `Spec => []ValidFormNotRefused` |

Assumptions. *Cache*: `MaxAge` is an integer, `MaxElements` a positive natural number (the
constructor throws otherwise), `AgeCap` a natural number above `MaxAge`; the nodes are
finitely many and more than `MaxElements`; the markers for "nothing" are not values.
*Services*: bounds of amounts and days are integers, the markers for no number, no date
and nothing are told apart from numbers, requests and answers; the calendar begins within
its bound; requests have the fields of `currency.proto`; max ages are natural numbers or
-1, which stands for all below zero (`RateFreshness`: natural numbers). *Dates*: texts are
sequences of bytes, years have four digits, `FirstDay` is the number of `minDate`.
*Process*: the marker for no exit code is none; a command line is a finite sequence of
options of `defineOptions`; the configuration file that is named, the default one
included, is there, missing or malformed; an `int` and a `size_t` have at least 16 bits;
nothing is assumed of the other settings, of -D or of a file. *Page*: a day has some
hours, time zones and amounts are integers, the user leaves in a control what it can hold.

**The cache.** `IInv` is the conjunction of `TypeOK`, `IndexMatchesEntries`,
`WithinCapacity` and `SweepIteratorValid`. The second is not inductive without the
first, nor the fourth without the second: an iterator taken from `index` is followed
into the list, so the list must have its node (`EntriesOfIndex`), have it once
(`DistinctNodes`) and under that key (`IndexOfEntries`), or the erase that follows would
take out the wrong entry. Two lemmas on a list and an index, whoever owns them, carry the
weight: `EraseKeepsLinked` (an entry goes from both) and `PushKeepsLinked` (an entry
joins both under an unused node). Every handler is one of them or a sequence:
`GetExpired` and `SweepRemoves` an erase, `GetHit` and `Put` an erase and a push, eviction
another erase. `SweepIteratorValid` survives the steps of callers because `MutexFree`
keeps them out of a sweep, and those of the sweep because nodes are distinct, so the
next node is not the one erased. `StopIsFinal` needs no more than the types: once
`stopping` is set, the only moves of the sweeper are those that lessen `ExitDistance`.

**The refinement.** `Shows(es, h)`: the map `h` has what the list `es` has and nothing
else. A list shows one map only, so the refinement mapping is determined, and every
change of the list is matched with one of the map (`EraseShown`, `PushShown`). That a
`put` evicts exactly when the map would have too many entries needs the number of held
keys to be the length of the list (`HeldCount`), which rests on the list having every
key once.

**The order of evictions.** `RInv`: besides `IInv`, the list is sorted by `usedBefore`
(`InUseOrder`). Erasing keeps a list sorted, and a use moves the key to the front of the
list and to the end of the order at once; so the last entry is the one last used before
all others.

**Punctuality.** `OnTime`: while the sweeper has `remaining` ticks to sleep no entry is
older than what it may stay, less those ticks; what a sweep has passed, and after a
sweep everything, is within max_age. Ticks lower `remaining` by as much as they raise
ages.

**The services.** `IInv` says what a handler knows at each place: at its lookup of the
target the source is listed, at its query every check has been passed
(`HandlerOK`), and what it has in hand before a `put` is of its own key; and that the
caches have what was published for their keys (`CatalogRight`, `RatesRight`,
`HistoriesRight`). Neither half is inductive alone, since caches are filled from hands
and hands from nothing but frankfurter.dev. The checks survive midnight because a later
day lets more through (`CheckedStays`). That replies are right (`RepliesRight`) is then a
property of the step that sends them.

The course of a handler: what a step makes of one worker's place, and of no other's,
advances it (`WorkerAdvances`, by `WithListAdvances` for the steps the currency list
decides), and whatever advances a place is a move of `HandlerCourse` or a stutter
(`PhaseAdvances`) and lessens `StepsLeft` (`ReplyAdvances`, `StepsCounted`). A request has
three lookups of three steps, the next lookup counts less than the last step of the one
before: so a request cannot run in circles, whatever others put and evict.

**Freshness.** `Fresh` relates each entry's age to the history: as long as an entry is
good, what it lacks was published no longer ago than the entry was put
(`RateEntryFresh`, `HistoryEntryFresh`), and what a handler has in hand lacks nothing
older than a tick (`FetchedFresh`), which is where `PromptTick` is needed. Entries and
days age alike (`RateBehindOneMore`), an age that was capped is no longer good, and a
day newly published was published just now (`NewJustNow`). Which thread put an entry,
and in which order, plays no part.

**Dates.** Two texts of the form differ at a first place or nowhere
(`SameOrFirstDifference`), and that place decides between their numbers, whichever of the
ten it is (`FirstDifferenceDecides`): so the order of strings is the order of numbers
(`TextOrder`). The text of a day has the form, and the number of the day
(`TodayWritten`, by the digits of its parts); the limits then agree (`LimitsAgree`).
`MidnightsHarmless` adds that the number of the next date is greater (`LaterNumber`), for
which the length of a month does not matter.

**The process.** `Built`: the objects that exist are a beginning of `Objects`, in
order, and how many is told by the stage (`Progress`). From it follows what
`HandlersInTime` (handlers only between start and the end of the shutdown, with SSL open)
and `ThreadsInTime` (a thread unjoined only in the stages that join it) need: an object is
there as long as those built after it are (`ThereUpToLast`). `Orderly` ties the server and
its thread to the stage, and with it `WaitsOnlyForWhatEnds` is inductive: what main waits
for in each stage was put on its way by the stage before.

`Layered` says what `layers` is at each stage: the application's own layer holds for each
key the last value of the options parsed so far, and behind it, once loaded and not
missing, is the file that `ConfigFile` names. It goes from one option to the next
(`LayeredStep`): a new -D is later on the command line than all before it, so it is the
one `Max` finds. `LoadFileLayered` is where the priorities of the two layers matter, for
the file is added after all -D were written. `RoomAsked` then reads `Demanded` off the
layers, and a cache keeps the room it was built with (`RoomStep`). `AppTypesCorrect`
follows: `BuiltSoFar` from `Built`, capacities from `ToSize`, exit codes by `Outcome`.

**The page.** `Types` has the shape of a submit's request; `OnlyLastWaits` (without
an overlap only the last submit waits) makes `LastSubmitShown` inductive; `SentWasValid`
(what was sent passed the validators on its day) does it for `ValidFormNotRefused`.
`SpinnersTurnForACause` is inductive with the types alone: a submit that has not all its
answers still waits, and one that has, or fails, stops the spinner for all.
That days survive the way into instants and back in every time zone is arithmetic of
`\div` (lemmas on `LocalDay`).

Every invariant and every action property of the passing runs is proved, and so is every
refinement. Model-checked only are the liveness properties: leads-to under fairness needs
ENABLED, which the prover does not handle. For most of them what keeps them from failing
is proved, and only the conclusion from fairness is left to TLC:

| model-checked | what is proved of it |
|---|---|
| `DestructorReturns` | `StopIsFinal`: once told to stop, every step of the sweeper is one towards its end |
| `EventuallyReclaimed` | `GoneInTime`, for threads quick compared with a tick |
| `EveryRequestAnswered` | `RepliesComeNearer`: a handler has finitely many steps before it and takes none twice |
| `ServesOrEnds` | `NoWaitInVain`: whatever main waits for is bound to end |
| `PageComesBack` | `SpinnersStop`: a spinner turns only while a call is under way that stops it |
| `NeverSilent` | nothing: that a submit ends is fairness, and that its end is told is one step |

## 5. Plan

Done, in this order: the cache with its refinement; the services with their boundary;
the life of the process with its configuration; the form of the page; dates as texts;
the proofs of section 4.

Left:

1. The sort of `FrankfurterClient::history`, against a reference definition.
2. The number conversion: `amount * rate` in doubles, which a document would first have to
   say something about.
3. The currency overview: one call, two flags, a filter. Little can go wrong in it.

## 6. Not modelled

* The HTTP session and JSON parsing of `FrankfurterClient`: one step that answers or
  fails with `UNAVAILABLE` or `INTERNAL`. Poco and gRPC are not part of the repository;
  their schedulers, thread pools and signals are modelled by what `src/` relies on. A
  signal before `waitForTerminationRequest` is up to the operating system.
* Numbers: the product `amount * rate` and its rounding.
* What frankfurter.dev makes of dates that are no days of the calendar: `DateRange` lets
  them through on purpose (`IsoDates` has them among its texts).
* On the page: a change of the time zone within a session, reloading, layout, and the
  currency overview.
* Configuration: two strings nothing depends on (`base_url`, `logging.file`).
* Logging, containers, build, generated protobuf code.
* Exhaustion of memory and exceptions of allocation within `put`.
