----------------------------- MODULE Conversion -----------------------------
(***************************************************************************)
(* The form of the web page, features/conversion/conversion.ts and .html,  *)
(* with the calls of core/currency-api.service.ts on their way through     *)
(* Envoy to the backend and back.                                          *)
(*                                                                         *)
(* JavaScript runs one callback at a time, so what happens between two     *)
(* awaits is one step: the two lookups going out together, each answer     *)
(* coming in, submit up to its await, each of its two answers.  The user   *)
(* edits the form at any time.  Of the backend it is used what             *)
(* StatusReflectsRequest of CurrencyServer says: it does what              *)
(* RequestChecks demands, and fails otherwise only for reasons of its own. *)
(*                                                                         *)
(* A Date is an instant, told in hours (of which a day may have few) of    *)
(* universal time; the date sent is the number of a day.                   *)
(*                                                                         *)
(* A definition marked "Fault" is the next one with a slip in it and no    *)
(* part of the specification.                                              *)
(***************************************************************************)
EXTENDS RequestChecks

CONSTANTS
  Currencies,
  Hours,       \* in a day
  TimeZones,   \* where the browser may be: hours ahead of universal time
  LastDay,     \* bound on the calendar
  Forms,       \* what the user may leave in the form's controls
  MaxSubmits,  \* bound on the submits of a session
  Absent,      \* an empty control
  Nothing

ASSUME HoursAssumption == Hours \in Nat \ {0}
ASSUME TimeZonesAssumption == TimeZones \subseteq Int
ASSUME LastDayAssumption == LastDay \in Int /\ FirstDay <= LastDay
ASSUME MaxSubmitsAssumption == MaxSubmits \in Nat

\* What the form's controls hold: a value of the control's kind, or none.
FormValues ==
  [source : Currencies \union {Absent}, target : Currencies \union {Absent},
   amount : Int \union {Absent}, start : Int \union {Absent}, end : Int \union {Absent}]

ASSUME FormsAssumption == Forms \subseteq FormValues

\* What a submit sends.
Sendable ==
  [source : Currencies, target : Currencies, amount : Int, start : Int, end : Int, on : Int]

Submits == 1..MaxSubmits
Lookups == {"listCurrencies", "getConstraints"}
Calls == {"convert", "getHistory"}

Messages == {"backendMessage", "temporarilyUnavailable", "somethingWentWrong"}

ASSUME NothingAssumption ==
  Nothing \notin Submits /\ Nothing \notin Messages /\ Nothing \notin Sendable

VARIABLES
  timeZone,
  today,            \* the date of the backend
  answers,          \* what the lookups returned so far
  loadingLookups, lookupError, currencies, constraints, minDate, maxDate,
  form,             \* the form's controls
  submitted,        \* number of submits
  request,          \* what each of them sent, and on which day
  awaited,          \* the calls each of them still waits for
  submitting,
  buttonDisabled,   \* as the page was last rendered
  result,           \* the submit whose conversion is shown
  historyPoints,    \* the submit whose history is shown
  snackBar,         \* the error on display
  overlapped        \* has there been a submit while another was waiting

bounds == <<currencies, constraints, minDate, maxDate>>
lookups == <<answers, loadingLookups, lookupError, bounds>>
shown == <<result, historyPoints, snackBar>>
submits == <<submitted, request, awaited, submitting, overlapped>>
vars == <<timeZone, today, lookups, form, submits, buttonDisabled, shown>>

Init ==
  /\ timeZone \in TimeZones
  /\ today = FirstDay
  /\ answers = [c \in Lookups |-> Nothing]
  /\ loadingLookups = TRUE
  /\ lookupError = Nothing
  /\ currencies = {}
  /\ constraints = Nothing
  /\ minDate = Absent
  /\ maxDate = Absent
  /\ form = [source |-> Absent, target |-> Absent, amount |-> MinAmount,
             start |-> Absent, end |-> Absent]
  /\ submitted = 0
  /\ request = [s \in Submits |-> Nothing]
  /\ awaited = [s \in Submits |-> {}]
  /\ submitting = FALSE
  /\ buttonDisabled = FALSE
  /\ result = Nothing
  /\ historyPoints = Nothing
  /\ snackBar = Nothing
  /\ overlapped = FALSE

-----------------------------------------------------------------------------
(* Dates and messages. *)

\* Midnight of the day where the browser is.
fromDateInput(day) == day * Hours - timeZone

\* The day it is where the browser is (getFullYear, getMonth, getDate).
LocalDay(date) == (date + timeZone) \div Hours

\* Fault: the day it is in universal time (toISOString).
toDateInputUniversal(date) == date \div Hours

toDateInput(date) == LocalDay(date)

\* Fault: a code without a case of its own is shown as it is.
toUserMessageOrCode(code) ==
  CASE code \in {"INVALID_ARGUMENT", "NOT_FOUND"} -> "backendMessage"
    [] code = "UNAVAILABLE" -> "temporarilyUnavailable"
    [] OTHER -> code

toUserMessage(code) ==
  CASE code \in {"INVALID_ARGUMENT", "NOT_FOUND"} -> "backendMessage"
    [] code = "UNAVAILABLE" -> "temporarilyUnavailable"
    [] OTHER -> "somethingWentWrong"

\* The backend out of reach or in trouble, Envoy's patience at an end, or an
\* answer that is no gRPC status.
Failures == {"UNAVAILABLE", "INTERNAL", "none"}

-----------------------------------------------------------------------------
(* loadLookups. *)

Answered(c) ==
  IF c = "listCurrencies" THEN Currencies ELSE [minDate |-> FirstDay, maxDate |-> today]

LookupReturns(c) ==
  /\ loadingLookups
  /\ answers[c] = Nothing
  /\ answers' = [answers EXCEPT ![c] = Answered(c)]
  /\ IF \E other \in Lookups : answers'[other] = Nothing
     THEN UNCHANGED <<loadingLookups, bounds, form>>
     ELSE /\ currencies' = answers'["listCurrencies"]
          /\ constraints' = answers'["getConstraints"]
          /\ minDate' = fromDateInput(constraints'.minDate)
          /\ maxDate' = fromDateInput(constraints'.maxDate)
          /\ form' = [form EXCEPT !.start = minDate', !.end = maxDate']
          /\ loadingLookups' = FALSE
  /\ UNCHANGED <<timeZone, today, lookupError, submits, buttonDisabled, shown>>

LookupThrows(c) ==
  /\ loadingLookups
  /\ answers[c] = Nothing
  /\ UNCHANGED <<timeZone, today, answers, bounds, form, submits, buttonDisabled, shown>>

\* Fault: the error is swallowed.
LookupFailsSilently(c) ==
  /\ LookupThrows(c)
  /\ loadingLookups' = FALSE
  /\ UNCHANGED lookupError

\* Fault: loadingLookups is reset after the results are set, not in finally.
LookupFailureLeavesSpinner(c) ==
  /\ LookupThrows(c)
  /\ \E code \in Failures : lookupError' = toUserMessage(code)
  /\ UNCHANGED loadingLookups

\* Promise.all is over with the first failure.
LookupFails(c) ==
  /\ LookupThrows(c)
  /\ \E code \in Failures : lookupError' = toUserMessage(code)
  /\ loadingLookups' = FALSE

FormShown == ~loadingLookups /\ lookupError = Nothing

Edit ==
  /\ FormShown
  /\ form' \in Forms
  /\ UNCHANGED <<timeZone, today, lookups, submits, buttonDisabled, shown>>

-----------------------------------------------------------------------------
(* submit. *)

\* The datepicker's validator compares the days, not the instants.
WithinBounds(date) ==
  /\ date # Absent
  /\ LocalDay(minDate) <= LocalDay(date)
  /\ LocalDay(date) <= LocalDay(maxDate)

\* Validators.required, min and max.
FormValid ==
  /\ Absent \notin {form.source, form.target, form.amount}
  /\ MinAmount <= form.amount /\ form.amount <= MaxAmount
  /\ WithinBounds(form.start) /\ WithinBounds(form.end)

Sent == [source |-> form.source, target |-> form.target, amount |-> form.amount,
         start |-> toDateInput(form.start), end |-> toDateInput(form.end), on |-> today]

Waiting == {s \in Submits : awaited[s] # {}}

\* A click on a button that is not disabled.
Clicked ==
  /\ FormShown /\ ~buttonDisabled /\ FormValid
  /\ submitted < MaxSubmits
  /\ submitted' = submitted + 1
  /\ request' = [request EXCEPT ![submitted + 1] = Sent]
  /\ awaited' = [awaited EXCEPT ![submitted + 1] = Calls]
  /\ overlapped' = (overlapped \/ Waiting # {})
  /\ submitting' = TRUE
  /\ UNCHANGED <<timeZone, today, lookups, form, buttonDisabled, snackBar>>

\* Fault: what was shown before stays.
SubmitKeepingResult ==
  /\ Clicked
  /\ UNCHANGED <<result, historyPoints>>

\* With an invalid form nothing happens but that its controls turn red.
Submit ==
  /\ Clicked
  /\ result' = Nothing
  /\ historyPoints' = Nothing

\* What the backend thinks of a call that reaches it on a day.
Accepted(s, call, day) ==
  LET r == request[s]
  IN  IF call = "convert"
      THEN IsConvertible(r.source, r.target, r.amount)
      ELSE IsDateRange(r.start, r.end) /\ Selectable(r.start, r.end, day)

CallReturns(s, call) ==
  /\ call \in awaited[s]
  /\ Accepted(s, call, today)
  /\ awaited' = [awaited EXCEPT ![s] = @ \ {call}]
  /\ UNCHANGED <<timeZone, today, lookups, form, submitted, request, overlapped,
                 buttonDisabled, snackBar>>

\* Fault: each answer is shown when it comes.
AnswerAloneShown(s, call) ==
  /\ CallReturns(s, call)
  /\ result' = IF call = "convert" THEN s ELSE result
  /\ historyPoints' = IF call = "getHistory" THEN s ELSE historyPoints
  /\ submitting' = (awaited[s] # {call})

\* Promise.all goes on when both answers are there.
Answer(s, call) ==
  /\ CallReturns(s, call)
  /\ IF awaited[s] = {call}
     THEN result' = s /\ historyPoints' = s /\ submitting' = FALSE
     ELSE UNCHANGED <<result, historyPoints, submitting>>

\* The codes a call may end with.  A refusal was deserved when the call went
\* out, for the day can only have moved on.
CodesFor(s, call) ==
  Failures \union (IF Accepted(s, call, request[s].on) THEN {} ELSE {"INVALID_ARGUMENT"})

CallThrows(s, call) ==
  /\ call \in awaited[s]
  /\ awaited' = [awaited EXCEPT ![s] = {}]
  /\ UNCHANGED <<timeZone, today, lookups, form, submitted, request, overlapped,
                 buttonDisabled, result, historyPoints>>

\* Fault: the catch has no showError.
FailureUnreported(s, call) ==
  /\ CallThrows(s, call)
  /\ submitting' = FALSE
  /\ UNCHANGED snackBar

\* Fault: submitting is reset after the result is set, not in finally.
FailureLeavesSpinner(s, call) ==
  /\ CallThrows(s, call)
  /\ \E code \in CodesFor(s, call) :
       snackBar' = [submit |-> s, message |-> toUserMessage(code)]
  /\ UNCHANGED submitting

\* The other call's answer, should it come, is of no interest any more.
Failure(s, call) ==
  /\ CallThrows(s, call)
  /\ \E code \in CodesFor(s, call) :
       snackBar' = [submit |-> s, message |-> toUserMessage(code)]
  /\ submitting' = FALSE

DismissSnackBar ==
  /\ snackBar # Nothing
  /\ snackBar' = Nothing
  /\ UNCHANGED <<timeZone, today, lookups, form, submits, buttonDisabled, result, historyPoints>>

\* Angular renders the page at the next animation frame after an event
\* (eventCoalescing); until then the button is as it was.
Render ==
  /\ buttonDisabled # submitting
  /\ buttonDisabled' = submitting
  /\ UNCHANGED <<timeZone, today, lookups, form, submits, shown>>

Midnight ==
  /\ today < LastDay
  /\ today' = today + 1
  /\ UNCHANGED <<timeZone, lookups, form, submits, buttonDisabled, shown>>

\* The lookups are not tried again until the page is loaded anew.
StaysUnusable == lookupError # Nothing /\ UNCHANGED vars

-----------------------------------------------------------------------------
LookupEnds(c) == LookupReturns(c) \/ LookupFails(c)
SubmitGoesOn(s) == \E call \in Calls : Answer(s, call) \/ Failure(s, call)

Next ==
  \/ \E c \in Lookups : LookupEnds(c)
  \/ Edit \/ Submit \/ DismissSnackBar \/ Render \/ Midnight
  \/ \E s \in Submits : SubmitGoesOn(s)
  \/ StaysUnusable

Spec == Init /\ [][Next]_vars

\* Every call ends: Envoy gives up after a while and says so.  The browser
\* renders.
FairSpec ==
  /\ Spec
  /\ \A c \in Lookups : WF_vars(LookupEnds(c))
  /\ \A s \in Submits : WF_vars(SubmitGoesOn(s))
  /\ WF_vars(Render)

-----------------------------------------------------------------------------
(* Properties. *)

\* Every variable keeps to its type.
TypeOK ==
  /\ timeZone \in TimeZones
  /\ today \in FirstDay..LastDay
  /\ lookupError \in Messages \union {Nothing}
  /\ {form.source, form.target} \subseteq Currencies \union {Absent}
  /\ submitted \in 0..MaxSubmits
  /\ \A s \in Submits : (request[s] = Nothing) <=> (s > submitted)
  /\ awaited \in [Submits -> SUBSET Calls]
  /\ {loadingLookups, submitting, buttonDisabled, overlapped} \subseteq BOOLEAN
  /\ {result, historyPoints} \subseteq 1..submitted \union {Nothing}
  /\ snackBar # Nothing => snackBar.submit \in 1..submitted /\ snackBar.message \in Messages

\* The form is on display only with everything it needs, whichever lookup
\* came first or failed: the currencies, and bounds whose days are days the
\* backend takes, in every time zone and however long the page stays open
\* (loadLookups).
FormHasItsLookups ==
  FormShown =>
    /\ currencies = Currencies
    /\ constraints # Nothing
    /\ LocalDay(minDate) = FirstDay
    /\ LocalDay(maxDate) \in FirstDay..today

\* What the form lets through the backend does not refuse, but for the two
\* things the form does not check: two equal currencies and a start after
\* the end.  Neither the time zone nor a midnight since the lookups gives
\* the user another message of the backend (submit, toDateInput).
ValidFormNotRefused ==
  snackBar # Nothing /\ snackBar.message = "backendMessage" =>
    LET r == request[snackBar.submit]
    IN  r.source = r.target \/ r.start > r.end

\* A conversion is on display with the history of the same submit, neither
\* without the other and not before both calls are through, whatever order
\* the answers of one or several submits come in (submit: Promise.all).
ResultWithItsHistory ==
  /\ historyPoints = result
  /\ result # Nothing => awaited[result] = {}

\* As long as no submit was made before another was through, what is on
\* display is of the last one, submitting tells that it is under way, and
\* nothing else is shown meanwhile.
LastSubmitShown ==
  ~overlapped =>
    /\ result \in {Nothing, submitted}
    /\ submitting <=> Waiting # {}
    /\ submitting => result = Nothing

\* A spinner turns only as long as a call is under way whose end will stop it,
\* also when submits overlap and one of them stops it for both (loadLookups
\* and submit: finally).
SpinnersTurnForACause ==
  /\ loadingLookups => lookupError = Nothing /\ \E c \in Lookups : answers[c] = Nothing
  /\ submitting => Waiting # {}

\* docs/architecture.md: "never a silent empty result".  Every submit comes
\* to a result or to a message about it.
NeverSilent ==
  \A s \in Submits :
    s \in Waiting ~> result = s \/ (snackBar # Nothing /\ snackBar.submit = s)

\* The page becomes usable again after the lookups and after every submit.
PageComesBack ==
  /\ loadingLookups ~> ~loadingLookups
  /\ buttonDisabled ~> ~buttonDisabled

\* docs/task.md: the page displays "the historical exchange rates between the
\* selected currencies".  The currencies named next to the numbers are those
\* the numbers are for.
LabelsNameTheResult ==
  FormShown /\ result # Nothing =>
    /\ form.source = request[result].source
    /\ form.target = request[result].target
=============================================================================
