-------------------------- MODULE ConversionProofs --------------------------
(***************************************************************************)
(* Proofs about Conversion, for any currencies, time zones, forms, calendar *)
(* and number of submits.                                                  *)
(***************************************************************************)
EXTENDS Conversion, TLAPS

-----------------------------------------------------------------------------
(* Days and instants. *)

\* Midnight of a day, where the browser is, is of that day.
LEMMA MidnightOfItsDay ==
  ASSUME NEW day \in Int, timeZone \in TimeZones
  PROVE  fromDateInput(day) \in Int /\ LocalDay(fromDateInput(day)) = day
<1>1. timeZone \in Int /\ day * Hours \in Int
  BY TimeZonesAssumption, HoursAssumption
<1>2. fromDateInput(day) + timeZone = day * Hours
  BY <1>1 DEF fromDateInput
<1>3. (day * Hours) \div Hours = day
  BY HoursAssumption
<1> QED
  BY <1>1, <1>2, <1>3 DEF fromDateInput, LocalDay

\* The day of an instant is a day.
LEMMA LocalDayIsDay ==
  ASSUME NEW date \in Int, timeZone \in TimeZones
  PROVE  LocalDay(date) \in Int
<1>1. date + timeZone \in Int
  BY TimeZonesAssumption
<1>2. \A n \in Int : n \div Hours \in Int
  BY HoursAssumption
<1> QED
  BY <1>1, <1>2 DEF LocalDay

-----------------------------------------------------------------------------
(* Types, with what the other proofs need of them. *)

Bounds == [minDate : {FirstDay}, maxDate : FirstDay..today]

Types ==
  /\ timeZone \in TimeZones
  /\ today \in FirstDay..LastDay
  /\ answers \in [Lookups -> {Nothing, Currencies} \union Bounds]
  /\ answers["listCurrencies"] \in {Nothing, Currencies}
  /\ answers["getConstraints"] \in {Nothing} \union Bounds
  /\ form \in FormValues
  /\ submitted \in 0..MaxSubmits
  /\ request \in [Submits -> Sendable \union {Nothing}]
  /\ \A s \in Submits : (request[s] = Nothing) <=> (s > submitted)
  /\ awaited \in [Submits -> SUBSET Calls]
  /\ \A s \in Submits : s > submitted => awaited[s] = {}
  /\ result \in 1..submitted \union {Nothing}
  /\ historyPoints \in 1..submitted \union {Nothing}

LEMMA InitTypes == Init => Types
<1> SUFFICES ASSUME Init PROVE Types
  OBVIOUS
<1>1. FirstDay \in Int /\ MinAmount \in Int
  BY BoundsAssumption
<1>2. answers \in [Lookups -> {Nothing}] /\ form \in FormValues
  BY <1>1 DEF Init, FormValues
<1>3. today \in FirstDay..LastDay /\ timeZone \in TimeZones
  BY <1>1, LastDayAssumption DEF Init
<1>4. \A s \in Submits : s > 0
  BY DEF Submits
<1> QED
  BY <1>2, <1>3, <1>4, MaxSubmitsAssumption DEF Init, Types, Lookups

LEMMA TypesStep == Types /\ [Next]_vars => Types'
<1> SUFFICES ASSUME Types, [Next]_vars PROVE Types'
  OBVIOUS
<1> USE BoundsAssumption, LastDayAssumption, MaxSubmitsAssumption
<1>1. ASSUME NEW c \in Lookups, LookupReturns(c) PROVE Types'
  <2>1. Answered(c) \in IF c = "listCurrencies" THEN {Currencies} ELSE Bounds
    <3>1. FirstDay \in Int
      BY BoundsAssumption
    <3>2. today \in FirstDay..today
      BY <3>1 DEF Types
    <3> QED
      BY <3>2 DEF Answered, Bounds
  <2>2. /\ answers' \in [Lookups -> {Nothing, Currencies} \union Bounds]
        /\ answers'["listCurrencies"] \in {Nothing, Currencies}
        /\ answers'["getConstraints"] \in {Nothing} \union Bounds
    BY <1>1, <2>1 DEF LookupReturns, Types, Lookups
  <2>3. today' = today /\ timeZone' = timeZone /\ UNCHANGED <<submits, shown>>
    BY <1>1 DEF LookupReturns
  <2>4. form' \in FormValues
    <3>1. CASE \E other \in Lookups : answers'[other] = Nothing
      BY <1>1, <3>1 DEF LookupReturns, Types
    <3>2. CASE \A other \in Lookups : answers'[other] # Nothing
      <4>1. constraints' \in Bounds
        BY <1>1, <3>2, <2>2 DEF LookupReturns, Lookups
      <4>2. minDate' \in Int /\ maxDate' \in Int
        <5>1. constraints'.minDate \in Int /\ constraints'.maxDate \in Int
          BY <4>1 DEF Bounds, Types
        <5>2. minDate' = fromDateInput(constraints'.minDate)
              /\ maxDate' = fromDateInput(constraints'.maxDate)
          BY <1>1, <3>2 DEF LookupReturns
        <5> QED
          BY <5>1, <5>2, MidnightOfItsDay DEF Types
      <4>3. form' = [form EXCEPT !.start = minDate', !.end = maxDate']
        BY <1>1, <3>2 DEF LookupReturns
      <4> QED
        BY <4>2, <4>3 DEF Types, FormValues
    <3> QED
      BY <3>1, <3>2
  <2> QED
    BY <2>2, <2>3, <2>4 DEF Types, Bounds, submits, shown
<1>2. ASSUME NEW c \in Lookups, LookupFails(c) PROVE Types'
  BY <1>2 DEF LookupFails, LookupThrows, bounds, submits, shown, Types, Bounds
<1>3. CASE Edit
  BY <1>3, FormsAssumption DEF Edit, lookups, bounds, submits, shown, Types, Bounds
<1>4. CASE Submit
  <2>1. submitted' = submitted + 1 /\ submitted + 1 \in Submits /\ submitted \in Nat
    BY <1>4 DEF Submit, Clicked, Types, Submits
  <2>2. Sent \in Sendable
    <3>1. /\ form.source \in Currencies /\ form.target \in Currencies
          /\ form.amount \in Int /\ form.start \in Int /\ form.end \in Int
      BY <1>4 DEF Submit, Clicked, FormValid, WithinBounds, Types, FormValues
    <3>2. LocalDay(form.start) \in Int /\ LocalDay(form.end) \in Int
      BY <3>1, LocalDayIsDay DEF Types
    <3>3. today \in Int
      BY DEF Types
    <3> QED
      BY <3>1, <3>2, <3>3 DEF Sent, Sendable, toDateInput
  <2>3. /\ request' = [request EXCEPT ![submitted + 1] = Sent]
        /\ awaited' = [awaited EXCEPT ![submitted + 1] = Calls]
        /\ result' = Nothing /\ historyPoints' = Nothing
        /\ UNCHANGED <<timeZone, today, answers, form>>
    BY <1>4 DEF Submit, Clicked, lookups
  <2>4. /\ request' \in [Submits -> Sendable \union {Nothing}]
        /\ \A s \in Submits : (request'[s] = Nothing) <=> (s > submitted + 1)
    <3>1. \A s \in Submits : s = submitted + 1 \/ (s > submitted <=> s > submitted + 1)
      BY <2>1 DEF Submits
    <3> QED
      BY <2>1, <2>2, <2>3, <3>1, NothingAssumption DEF Types
  <2>5. /\ awaited' \in [Submits -> SUBSET Calls]
        /\ \A s \in Submits : s > submitted + 1 => awaited'[s] = {}
    BY <2>1, <2>3 DEF Types, Submits
  <2>6. submitted' \in 0..MaxSubmits
    BY <2>1 DEF Submits
  <2> QED
    BY <2>1, <2>3, <2>4, <2>5, <2>6 DEF Types, Bounds
<1>5. ASSUME NEW s \in Submits, NEW call \in Calls, Answer(s, call) PROVE Types'
  <2>1. /\ awaited' = [awaited EXCEPT ![s] = @ \ {call}] /\ call \in awaited[s]
        /\ UNCHANGED <<timeZone, today, answers, form, submitted, request>>
    BY <1>5 DEF Answer, CallReturns, lookups
  <2>2. s \in 1..submitted
    BY <2>1 DEF Types, Submits
  <2>3. {result', historyPoints'} \subseteq 1..submitted \union {Nothing}
    BY <1>5, <2>2 DEF Answer, Types
  <2> QED
    BY <2>1, <2>3 DEF Types, Bounds
<1>6. ASSUME NEW s \in Submits, NEW call \in Calls, Failure(s, call) PROVE Types'
  BY <1>6 DEF Failure, CallThrows, lookups, bounds, Types, Bounds
<1>7. CASE DismissSnackBar \/ Render
  BY <1>7 DEF DismissSnackBar, Render, lookups, bounds, submits, shown, Types, Bounds
<1>8. CASE Midnight
  BY <1>8 DEF Midnight, lookups, bounds, submits, shown, Types, Bounds
<1>9. CASE StaysUnusable \/ UNCHANGED vars
  BY <1>9 DEF StaysUnusable, vars, lookups, bounds, submits, shown, Types, Bounds
<1> QED
  BY <1>1, <1>2, <1>3, <1>4, <1>5, <1>6, <1>7, <1>8, <1>9
     DEF Next, LookupEnds, SubmitGoesOn

\* What the rest rests on.
LEMMA Typing == Spec => []Types
BY InitTypes, TypesStep, PTL DEF Spec

Flags == {loadingLookups, submitting, buttonDisabled, overlapped} \subseteq BOOLEAN

\* What TypeOK says beyond Types and Flags: of the messages on display.
MessagesKnown ==
  /\ lookupError \in Messages \union {Nothing}
  /\ snackBar # Nothing => snackBar.submit \in 1..submitted /\ snackBar.message \in Messages

LEMMA FlagsStep == Flags /\ [Next]_vars => Flags'
<1> SUFFICES ASSUME Flags, [Next]_vars PROVE Flags'
  OBVIOUS
<1>1. ASSUME NEW c \in Lookups, LookupEnds(c) PROVE Flags'
  BY <1>1 DEF LookupEnds, LookupReturns, LookupFails, LookupThrows, submits, Flags
<1>2. CASE Submit
  BY <1>2 DEF Submit, Clicked, lookups, Flags
<1>3. ASSUME NEW s \in Submits, SubmitGoesOn(s) PROVE Flags'
  BY <1>3 DEF SubmitGoesOn, Answer, Failure, CallReturns, CallThrows, lookups, Flags
<1>4. CASE Edit \/ DismissSnackBar \/ Render \/ Midnight \/ StaysUnusable \/ UNCHANGED vars
  BY <1>4 DEF Edit, DismissSnackBar, Render, Midnight, StaysUnusable, vars, lookups, submits, Flags
<1> QED
  BY <1>1, <1>2, <1>3, <1>4 DEF Next

LEMMA MessagesStep == Types /\ MessagesKnown /\ [Next]_vars => MessagesKnown'
<1> SUFFICES ASSUME Types, MessagesKnown, [Next]_vars PROVE MessagesKnown'
  OBVIOUS
<1>1. ASSUME NEW c \in Lookups, LookupEnds(c) PROVE MessagesKnown'
  BY <1>1 DEF LookupEnds, LookupReturns, LookupFails, LookupThrows, toUserMessage,
              Messages, submits, shown, MessagesKnown
<1>2. CASE Submit
  BY <1>2, MaxSubmitsAssumption DEF Submit, Clicked, lookups, Types, MessagesKnown
<1>3. ASSUME NEW s \in Submits, NEW call \in Calls, Failure(s, call) PROVE MessagesKnown'
  <2>1. s \in 1..submitted /\ UNCHANGED <<submitted, lookupError>>
    BY <1>3 DEF Failure, CallThrows, lookups, Types, Submits
  <2> QED
    BY <1>3, <2>1 DEF Failure, toUserMessage, Messages, MessagesKnown
<1>4. ASSUME NEW s \in Submits, NEW call \in Calls, Answer(s, call) PROVE MessagesKnown'
  BY <1>4 DEF Answer, CallReturns, lookups, MessagesKnown
<1>5. CASE Edit \/ DismissSnackBar \/ Render \/ Midnight \/ StaysUnusable \/ UNCHANGED vars
  BY <1>5 DEF Edit, DismissSnackBar, Render, Midnight, StaysUnusable, vars, lookups, submits,
              shown, MessagesKnown
<1> QED
  BY <1>1, <1>2, <1>3, <1>4, <1>5 DEF Next, SubmitGoesOn

\* Every variable of the form keeps to its type (TypeOK).
THEOREM FormTypesCorrect == Spec => []TypeOK
<1>1. Init => Flags /\ MessagesKnown
  BY DEF Init, Flags, MessagesKnown
<1>2. Types /\ Flags /\ MessagesKnown => TypeOK
  BY DEF Types, Flags, MessagesKnown, TypeOK, FormValues
<1> QED
  BY <1>1, <1>2, FlagsStep, MessagesStep, Typing, PTL DEF Spec

-----------------------------------------------------------------------------
(* One result, with its own history. *)

LEMMA TogetherStep == Types /\ ResultWithItsHistory /\ [Next]_vars => ResultWithItsHistory'
<1> SUFFICES ASSUME Types, ResultWithItsHistory, [Next]_vars PROVE ResultWithItsHistory'
  OBVIOUS
<1>1. CASE Submit
  BY <1>1 DEF Submit, ResultWithItsHistory
<1>2. ASSUME NEW s \in Submits, NEW call \in Calls, Answer(s, call)
      PROVE  ResultWithItsHistory'
  <2>1. awaited' = [awaited EXCEPT ![s] = @ \ {call}] /\ s # Nothing
    BY <1>2, NothingAssumption DEF Answer, CallReturns
  <2>2. CASE awaited[s] = {call}
    BY <1>2, <2>1, <2>2 DEF Answer, ResultWithItsHistory, Types
  <2>3. CASE awaited[s] # {call}
    <3>1. result' = result /\ historyPoints' = historyPoints
      BY <1>2, <2>3 DEF Answer
    <3>2. \A t \in Submits : awaited[t] = {} => awaited'[t] = {}
      BY <2>1 DEF Types
    <3>3. result # Nothing => result \in Submits
      BY MaxSubmitsAssumption DEF Types, Submits
    <3> QED
      BY <3>1, <3>2, <3>3 DEF ResultWithItsHistory
  <2> QED
    BY <2>2, <2>3
<1>3. ASSUME NEW s \in Submits, NEW call \in Calls, Failure(s, call)
      PROVE  ResultWithItsHistory'
  <2>1. result' = result /\ historyPoints' = historyPoints
    BY <1>3 DEF Failure, CallThrows
  <2>2. \A t \in Submits : awaited[t] = {} => awaited'[t] = {}
    BY <1>3 DEF Failure, CallThrows, Types
  <2>3. result # Nothing => result \in Submits
    BY MaxSubmitsAssumption DEF Types, Submits
  <2> QED
    BY <2>1, <2>2, <2>3 DEF ResultWithItsHistory
<1>4. ASSUME UNCHANGED <<awaited, result, historyPoints>> PROVE ResultWithItsHistory'
  BY <1>4 DEF ResultWithItsHistory
<1>5. ASSUME NEW c \in Lookups, LookupEnds(c)
      PROVE  UNCHANGED <<awaited, result, historyPoints>>
  BY <1>5 DEF LookupEnds, LookupReturns, LookupFails, LookupThrows, submits, shown
<1>6. CASE Edit \/ DismissSnackBar \/ Render \/ Midnight \/ StaysUnusable \/ UNCHANGED vars
  BY <1>4, <1>6 DEF Edit, DismissSnackBar, Render, Midnight, StaysUnusable, vars, submits, shown
<1> QED
  BY <1>1, <1>2, <1>3, <1>4, <1>5, <1>6 DEF Next, SubmitGoesOn

\* A conversion is never on display with another submit's history, nor
\* before both answers are in (ResultWithItsHistory; submit's Promise.all).
THEOREM ResultAndHistoryTogether == Spec => []ResultWithItsHistory
<1>1. Init => ResultWithItsHistory
  BY DEF Init, ResultWithItsHistory
<1> QED
  BY <1>1, TogetherStep, Typing, PTL DEF Spec

-----------------------------------------------------------------------------
(* What is on display is of the last submit. *)

\* Without an overlap only the last submit waits: the strengthening that
\* makes LastSubmitShown inductive.
OnlyLastWaits == ~overlapped => \A s \in Submits : awaited[s] # {} => s = submitted

LEMMA LastShownStep ==
  Types /\ OnlyLastWaits /\ LastSubmitShown /\ [Next]_vars
    => OnlyLastWaits' /\ LastSubmitShown'
<1> SUFFICES ASSUME Types, OnlyLastWaits, LastSubmitShown, [Next]_vars
             PROVE  OnlyLastWaits' /\ LastSubmitShown'
  OBVIOUS
<1>1. CASE Submit
  <2> SUFFICES ASSUME ~overlapped' PROVE OnlyLastWaits' /\ LastSubmitShown'
    BY DEF OnlyLastWaits, LastSubmitShown
  <2>1. /\ awaited' = [awaited EXCEPT ![submitted + 1] = Calls]
        /\ submitted' = submitted + 1 /\ submitting' = TRUE /\ result' = Nothing
        /\ \A s \in Submits : awaited[s] = {}
    BY <1>1 DEF Submit, Clicked, Waiting
  <2>2. submitted + 1 \in Submits
    BY <1>1, MaxSubmitsAssumption DEF Submit, Clicked, Types, Submits
  <2>3. awaited'[submitted + 1] # {}
    BY <2>1, <2>2 DEF Types, Calls
  <2>4. \A s \in Submits : awaited'[s] # {} => s = submitted'
    BY <2>1, <2>2 DEF Types
  <2> QED
    BY <2>1, <2>2, <2>3, <2>4 DEF OnlyLastWaits, LastSubmitShown, Waiting
<1>2. ASSUME NEW s \in Submits, NEW call \in Calls, Answer(s, call) \/ Failure(s, call)
      PROVE  OnlyLastWaits' /\ LastSubmitShown'
  <2> SUFFICES ASSUME ~overlapped' PROVE OnlyLastWaits' /\ LastSubmitShown'
    BY DEF OnlyLastWaits, LastSubmitShown
  <2>1. /\ submitted' = submitted /\ ~overlapped /\ call \in awaited[s]
        /\ \A t \in Submits \ {s} : awaited'[t] = awaited[t]
        /\ awaited'[s] \subseteq awaited[s]
    BY <1>2 DEF Answer, Failure, CallReturns, CallThrows, Types
  <2>2. s = submitted /\ \A t \in Submits \ {s} : awaited'[t] = {}
    BY <2>1 DEF OnlyLastWaits
  <2>3. submitting /\ result = Nothing
    BY <2>1 DEF LastSubmitShown, Waiting
  <2>4. OnlyLastWaits'
    BY <2>1, <2>2 DEF OnlyLastWaits
  <2>5. CASE awaited'[s] = {}
    <3>1. submitting' = FALSE /\ result' \in {Nothing, s}
      BY <1>2, <2>1, <2>3, <2>5
         DEF Answer, Failure, CallReturns, CallThrows, Types
    <3> QED
      BY <2>1, <2>2, <2>4, <2>5, <3>1 DEF LastSubmitShown, Waiting
  <2>6. CASE awaited'[s] # {}
    <3>1. submitting' = submitting /\ result' = result
      BY <1>2, <2>6 DEF Answer, Failure, CallReturns, CallThrows, Types
    <3> QED
      BY <2>2, <2>3, <2>4, <2>6, <3>1 DEF LastSubmitShown, Waiting
  <2> QED
    BY <2>5, <2>6
<1>3. ASSUME UNCHANGED <<submits, result>> PROVE OnlyLastWaits' /\ LastSubmitShown'
  BY <1>3 DEF OnlyLastWaits, LastSubmitShown, Waiting, submits
<1>4. ASSUME NEW c \in Lookups, LookupEnds(c) PROVE UNCHANGED <<submits, result>>
  BY <1>4 DEF LookupEnds, LookupReturns, LookupFails, LookupThrows, shown
<1>5. CASE Edit \/ DismissSnackBar \/ Render \/ Midnight \/ StaysUnusable \/ UNCHANGED vars
  BY <1>3, <1>5 DEF Edit, DismissSnackBar, Render, Midnight, StaysUnusable, vars, shown
<1> QED
  BY <1>1, <1>2, <1>3, <1>4, <1>5 DEF Next, SubmitGoesOn

\* While submits do not overlap, the display is of the last one or empty,
\* and submitting tells whether it is under way (LastSubmitShown).
THEOREM DisplayFollowsLastSubmit == Spec => []LastSubmitShown
<1>1. Init => OnlyLastWaits /\ LastSubmitShown
  BY DEF Init, OnlyLastWaits, LastSubmitShown, Waiting
<1> QED
  BY <1>1, LastShownStep, Typing, PTL DEF Spec

-----------------------------------------------------------------------------
(* The spinners. *)

LEMMA SpinnersStep ==
  Types /\ SpinnersTurnForACause /\ [Next]_vars => SpinnersTurnForACause'
<1> SUFFICES ASSUME Types, SpinnersTurnForACause, [Next]_vars PROVE SpinnersTurnForACause'
  OBVIOUS
<1>1. CASE Submit
  <2>1. awaited' = [awaited EXCEPT ![submitted + 1] = Calls] /\ UNCHANGED lookups
    BY <1>1 DEF Submit, Clicked
  <2>2. submitted + 1 \in Submits
    BY <1>1, MaxSubmitsAssumption DEF Submit, Clicked, Types, Submits
  <2>3. awaited'[submitted + 1] # {}
    BY <2>1, <2>2 DEF Types, Calls
  <2> QED
    BY <2>1, <2>2, <2>3 DEF SpinnersTurnForACause, Waiting, lookups
<1>2. ASSUME NEW s \in Submits, NEW call \in Calls, Answer(s, call)
      PROVE  SpinnersTurnForACause'
  <2>1. /\ awaited' = [awaited EXCEPT ![s] = @ \ {call}] /\ call \in awaited[s]
        /\ UNCHANGED lookups
    BY <1>2 DEF Answer, CallReturns
  <2>2. CASE awaited[s] = {call}
    BY <1>2, <2>1, <2>2 DEF Answer, SpinnersTurnForACause, lookups
  <2>3. CASE awaited[s] # {call}
    <3>1. awaited'[s] # {}
      BY <2>1, <2>3 DEF Types
    <3> QED
      BY <2>1, <3>1 DEF SpinnersTurnForACause, Waiting, lookups
  <2> QED
    BY <2>2, <2>3
<1>3. ASSUME NEW s \in Submits, NEW call \in Calls, Failure(s, call)
      PROVE  SpinnersTurnForACause'
  BY <1>3 DEF Failure, CallThrows, SpinnersTurnForACause, lookups
<1>4. ASSUME NEW c \in Lookups, LookupEnds(c) PROVE SpinnersTurnForACause'
  BY <1>4 DEF LookupEnds, LookupReturns, LookupFails, LookupThrows, submits, Waiting,
              SpinnersTurnForACause
<1>5. CASE Edit \/ DismissSnackBar \/ Render \/ Midnight \/ StaysUnusable \/ UNCHANGED vars
  BY <1>5 DEF Edit, DismissSnackBar, Render, Midnight, StaysUnusable, vars, lookups, submits,
              Waiting, SpinnersTurnForACause
<1> QED
  BY <1>1, <1>2, <1>3, <1>4, <1>5 DEF Next, SubmitGoesOn

\* A spinner turns only while a call is under way that will stop it, for any
\* number of submits that overlap in any way (SpinnersTurnForACause).
THEOREM SpinnersStop == Spec => []SpinnersTurnForACause
<1>1. Init => SpinnersTurnForACause
  BY DEF Init, SpinnersTurnForACause, Lookups
<1> QED
  BY <1>1, SpinnersStep, Typing, PTL DEF Spec

-----------------------------------------------------------------------------
(* The form has what it needs. *)

LEMMA FormStep ==
  Types /\ FormHasItsLookups /\ [Next]_vars => FormHasItsLookups'
<1> SUFFICES ASSUME Types, FormHasItsLookups, [Next]_vars PROVE FormHasItsLookups'
  OBVIOUS
<1>1. FirstDay \in Int /\ today \in Int
  BY BoundsAssumption DEF Types
<1>2. ASSUME NEW c \in Lookups, LookupReturns(c) PROVE FormHasItsLookups'
  <2>1. Types'
    BY TypesStep
  <2>2. today' = today /\ timeZone' = timeZone
    BY <1>2 DEF LookupReturns
  <2>3. CASE \E other \in Lookups : answers'[other] = Nothing
    BY <1>2, <2>3 DEF LookupReturns, FormHasItsLookups, FormShown
  <2>4. CASE \A other \in Lookups : answers'[other] # Nothing
    <3>1. currencies' = Currencies /\ constraints' \in Bounds /\ constraints' # Nothing
      BY <1>2, <2>1, <2>2, <2>4 DEF LookupReturns, Types, Bounds, Lookups
    <3>2. constraints'.minDate = FirstDay /\ constraints'.maxDate \in FirstDay..today
      BY <3>1 DEF Bounds
    <3>3. /\ minDate' = fromDateInput(constraints'.minDate)
          /\ maxDate' = fromDateInput(constraints'.maxDate)
      BY <1>2, <2>4 DEF LookupReturns
    <3>4. LocalDay(minDate') = FirstDay /\ LocalDay(maxDate') \in FirstDay..today
      BY <1>1, <3>2, <3>3, MidnightOfItsDay DEF Types
    <3>5. LocalDay(minDate)' = FirstDay /\ LocalDay(maxDate)' \in FirstDay..today
      BY <2>2, <3>4 DEF LocalDay
    <3> QED
      BY <2>2, <3>1, <3>5 DEF FormHasItsLookups
  <2> QED
    BY <2>3, <2>4
<1>3. ASSUME NEW c \in Lookups, LookupFails(c) PROVE FormHasItsLookups'
  <2>1. lookupError' \in Messages
    BY <1>3 DEF LookupFails, toUserMessage, Messages
  <2> QED
    BY <2>1, NothingAssumption DEF FormHasItsLookups, FormShown
<1>4. ASSUME UNCHANGED <<timeZone, lookups>>, today' \in Int, today <= today'
      PROVE  FormHasItsLookups'
  BY <1>1, <1>4 DEF FormHasItsLookups, FormShown, LocalDay, lookups, bounds
<1>5. ASSUME NEW s \in Submits, SubmitGoesOn(s) PROVE UNCHANGED <<timeZone, today, lookups>>
  BY <1>5 DEF SubmitGoesOn, Answer, Failure, CallReturns, CallThrows
<1>6. CASE Edit \/ Submit \/ DismissSnackBar \/ Render \/ StaysUnusable \/ UNCHANGED vars
  BY <1>1, <1>4, <1>6 DEF Edit, Submit, Clicked, DismissSnackBar, Render, StaysUnusable, vars
<1>7. CASE Midnight
  BY <1>1, <1>4, <1>7 DEF Midnight
<1> QED
  BY <1>1, <1>2, <1>3, <1>4, <1>5, <1>6, <1>7 DEF Next, LookupEnds

\* The form is on display only with its currencies and with bounds of days
\* the backend takes, in any time zone (FormHasItsLookups; loadLookups).
THEOREM FormNeverWithoutLookups == Spec => []FormHasItsLookups
<1>1. Init => FormHasItsLookups
  BY DEF Init, FormHasItsLookups, FormShown
<1> QED
  BY <1>1, FormStep, Typing, PTL DEF Spec

-----------------------------------------------------------------------------
(* What the form lets through is not refused. *)

\* What a submit has sent passed the form's validators on its day.
SentWasValid ==
  \A s \in 1..submitted :
    /\ MinAmount <= request[s].amount /\ request[s].amount <= MaxAmount
    /\ FirstDay <= request[s].start /\ request[s].end <= request[s].on

LEMMA SentValidStep ==
  Types /\ FormHasItsLookups /\ SentWasValid /\ [Next]_vars => SentWasValid'
<1> SUFFICES ASSUME Types, FormHasItsLookups, SentWasValid, [Next]_vars PROVE SentWasValid'
  OBVIOUS
<1>1. CASE Submit
  <2>1. /\ request' = [request EXCEPT ![submitted + 1] = Sent]
        /\ submitted' = submitted + 1 /\ submitted + 1 \in Submits /\ FormShown /\ FormValid
    BY <1>1, MaxSubmitsAssumption DEF Submit, Clicked, Types, Submits
  <2>2. /\ LocalDay(minDate) = FirstDay /\ LocalDay(maxDate) <= today
    BY <2>1, BoundsAssumption DEF FormHasItsLookups, Types
  <2>3. /\ MinAmount <= Sent.amount /\ Sent.amount <= MaxAmount
        /\ Sent.start = LocalDay(form.start) /\ Sent.end = LocalDay(form.end) /\ Sent.on = today
        /\ LocalDay(minDate) <= LocalDay(form.start) /\ LocalDay(form.end) <= LocalDay(maxDate)
    BY <2>1 DEF Sent, FormValid, WithinBounds, toDateInput
  <2>4. LocalDay(form.end) \in Int /\ LocalDay(maxDate) \in Int /\ today \in Int
    <3>1. form.end \in Int
      BY <2>1 DEF FormValid, WithinBounds, Types, FormValues
    <3> QED
      BY <2>1, <3>1, LocalDayIsDay DEF FormHasItsLookups, Types
  <2>5. FirstDay <= Sent.start /\ Sent.end <= Sent.on
    BY <2>2, <2>3, <2>4
  <2>6. request'[submitted + 1] = Sent /\ \A s \in 1..submitted : request'[s] = request[s]
    BY <2>1 DEF Types, Submits
  <2>7. \A s \in 1..submitted' : s = submitted + 1 \/ s \in 1..submitted
    BY <2>1 DEF Types
  <2> QED
    BY <2>3, <2>5, <2>6, <2>7 DEF SentWasValid
<1>2. ASSUME UNCHANGED <<submitted, request>> PROVE SentWasValid'
  BY <1>2 DEF SentWasValid
<1>3. ASSUME NEW c \in Lookups, LookupEnds(c) PROVE UNCHANGED <<submitted, request>>
  BY <1>3 DEF LookupEnds, LookupReturns, LookupFails, LookupThrows, submits
<1>4. ASSUME NEW s \in Submits, SubmitGoesOn(s) PROVE UNCHANGED <<submitted, request>>
  BY <1>4 DEF SubmitGoesOn, Answer, Failure, CallReturns, CallThrows
<1>5. CASE Edit \/ DismissSnackBar \/ Render \/ Midnight \/ StaysUnusable \/ UNCHANGED vars
  BY <1>2, <1>5 DEF Edit, DismissSnackBar, Render, Midnight, StaysUnusable, vars, submits
<1> QED
  BY <1>1, <1>2, <1>3, <1>4, <1>5 DEF Next

\* A call with what a valid form sent fails with the backend's own message
\* only for what the form does not check.
LEMMA RefusalDeserved ==
  ASSUME Types, SentWasValid, NEW s \in 1..submitted, NEW call \in Calls,
         NEW code \in CodesFor(s, call), toUserMessage(code) = "backendMessage"
  PROVE  request[s].source = request[s].target \/ request[s].start > request[s].end
<1>1. code = "INVALID_ARGUMENT"
  BY DEF CodesFor, Failures, toUserMessage
<1>2. ~Accepted(s, call, request[s].on)
  BY <1>1 DEF CodesFor, Failures
<1>3. request[s] \in Sendable
  <2>1. s \in Submits /\ ~(s > submitted)
    BY MaxSubmitsAssumption DEF Types, Submits
  <2> QED
    BY <2>1 DEF Types
<1>4. request[s].amount \in Int /\ request[s].start \in Int /\ request[s].end \in Int
  BY <1>3 DEF Sendable
<1>5. CASE call = "convert"
  BY <1>2, <1>4, <1>5, MarkersAssumption
     DEF Accepted, IsConvertible, AmountAllowed, SentWasValid
<1>6. CASE call = "getHistory"
  <2>1. FirstDay <= request[s].start /\ request[s].end <= request[s].on
    BY DEF SentWasValid
  <2>2. request[s].start # NotADate /\ request[s].end # NotADate
    BY <1>4, MarkersAssumption
  <2>3. ~(request[s].start <= request[s].end)
    BY <1>2, <1>6, <2>1, <2>2 DEF Accepted, IsDateRange, Selectable
  <2> QED
    BY <1>4, <2>3
<1> QED
  BY <1>5, <1>6 DEF Calls

\* The snack bar is about a submit there was.
SnackBarKnowsSubmit == snackBar # Nothing => snackBar.submit \in 1..submitted

LEMMA NotRefusedStep ==
  Types /\ SentWasValid /\ SnackBarKnowsSubmit /\ ValidFormNotRefused /\ [Next]_vars
    => SnackBarKnowsSubmit' /\ ValidFormNotRefused'
<1> SUFFICES ASSUME Types, SentWasValid, SnackBarKnowsSubmit, ValidFormNotRefused, [Next]_vars
             PROVE  SnackBarKnowsSubmit' /\ ValidFormNotRefused'
  OBVIOUS
<1>1. CASE Submit
  <2>1. /\ snackBar' = snackBar /\ submitted' = submitted + 1
        /\ request' = [request EXCEPT ![submitted + 1] = Sent]
    BY <1>1 DEF Submit, Clicked
  <2>2. \A s \in 1..submitted : s \in 1..(submitted + 1) /\ request'[s] = request[s]
    BY <2>1, MaxSubmitsAssumption DEF Types, Submits
  <2> QED
    BY <2>1, <2>2 DEF SnackBarKnowsSubmit, ValidFormNotRefused
<1>2. ASSUME NEW s \in Submits, NEW call \in Calls, Failure(s, call)
      PROVE  SnackBarKnowsSubmit' /\ ValidFormNotRefused'
  <2>1. PICK code \in CodesFor(s, call) :
          snackBar' = [submit |-> s, message |-> toUserMessage(code)]
    BY <1>2 DEF Failure
  <2>2. call \in awaited[s] /\ submitted' = submitted /\ request' = request
    BY <1>2 DEF Failure, CallThrows
  <2>3. s \in 1..submitted
    BY <2>2 DEF Types, Submits
  <2>4. toUserMessage(code) = "backendMessage" =>
          request[s].source = request[s].target \/ request[s].start > request[s].end
    BY <2>3, RefusalDeserved
  <2> QED
    BY <2>1, <2>2, <2>3, <2>4 DEF SnackBarKnowsSubmit, ValidFormNotRefused
<1>3. CASE DismissSnackBar
  BY <1>3 DEF DismissSnackBar, SnackBarKnowsSubmit, ValidFormNotRefused
<1>4. ASSUME UNCHANGED <<submitted, request, snackBar>>
      PROVE  SnackBarKnowsSubmit' /\ ValidFormNotRefused'
  BY <1>4 DEF SnackBarKnowsSubmit, ValidFormNotRefused
<1>5. ASSUME NEW c \in Lookups, LookupEnds(c) PROVE UNCHANGED <<submitted, request, snackBar>>
  BY <1>5 DEF LookupEnds, LookupReturns, LookupFails, LookupThrows, submits, shown
<1>6. ASSUME NEW s \in Submits, NEW call \in Calls, Answer(s, call)
      PROVE  UNCHANGED <<submitted, request, snackBar>>
  BY <1>6 DEF Answer, CallReturns
<1>7. CASE Edit \/ Render \/ Midnight \/ StaysUnusable \/ UNCHANGED vars
  BY <1>4, <1>7 DEF Edit, Render, Midnight, StaysUnusable, vars, submits, shown
<1> QED
  BY <1>1, <1>2, <1>3, <1>4, <1>5, <1>6, <1>7 DEF Next, SubmitGoesOn

\* The backend's own message comes only for two equal currencies or a
\* reversed range, in any time zone and over any midnight
\* (ValidFormNotRefused; submit, toDateInput).
THEOREM NoUndeservedRefusal == Spec => []ValidFormNotRefused
<1>1. Init => SentWasValid /\ SnackBarKnowsSubmit /\ ValidFormNotRefused
  BY DEF Init, SentWasValid, SnackBarKnowsSubmit, ValidFormNotRefused
<1> QED
  BY <1>1, SentValidStep, NotRefusedStep, FormNeverWithoutLookups, Typing, PTL DEF Spec

=============================================================================
