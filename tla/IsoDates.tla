------------------------------ MODULE IsoDates ------------------------------
(***************************************************************************)
(* Dates as the backend has them: texts.  domain/DateRange.h takes what    *)
(* looks like YYYY-MM-DD, compares the two ends of a range as strings, and *)
(* HistoryService compares them with today, which ConstraintsService       *)
(* formats anew for each request.  The other modules have numbers in their *)
(* place, RequestChecks being what they know of dates; here it is seen     *)
(* that texts are judged as those numbers are.                             *)
(*                                                                         *)
(* A text is a sequence of bytes.  A definition marked "Fault" is the next *)
(* one with a slip in it and no part of the specification.                 *)
(***************************************************************************)
EXTENDS RequestChecks, Sequences

CONSTANTS
  Texts,       \* what a request may have for a date
  FirstDates,  \* dates on which the server may be started
  LastDates    \* dates whose end is not watched any more

Hyphen == 45
Digit(n) == 48 + n
Digits == {Digit(n) : n \in 0..9}

\* Fault: a text that only begins like a date is taken for one.
isIsoDatePrefix(s) ==
  /\ Len(s) >= 10 /\ s[5] = Hyphen /\ s[8] = Hyphen
  /\ \A i \in (1..10) \ {5, 8} : s[i] \in Digits

isIsoDate(s) ==
  /\ Len(s) = 10 /\ s[5] = Hyphen /\ s[8] = Hyphen
  /\ \A i \in (1..10) \ {5, 8} : s[i] \in Digits

\* operator< of two strings.
Precedes(s, t) ==
  \E i \in 1..Len(t) :
    /\ i <= Len(s) + 1
    /\ \A j \in 1..(i - 1) : s[j] = t[j]
    /\ i <= Len(s) => s[i] < t[i]

\* "1999-01-04"
minDate == <<49, 57, 57, 57, Hyphen, 48, 49, Hyphen, 48, 52>>

\* Fault: month and day are written without a leading zero.
todayIsoDateUnpadded(date) ==
  LET Decimal(n) == IF n < 10 THEN <<Digit(n)>> ELSE <<Digit(n \div 10), Digit(n % 10)>>
  IN  Decimal(date.year \div 100) \o Decimal(date.year % 100)
        \o <<Hyphen>> \o Decimal(date.month) \o <<Hyphen>> \o Decimal(date.day)

todayIsoDate(date) ==
  <<Digit(date.year \div 1000), Digit((date.year \div 100) % 10),
    Digit((date.year \div 10) % 10), Digit(date.year % 10), Hyphen,
    Digit(date.month \div 10), Digit(date.month % 10), Hyphen,
    Digit(date.day \div 10), Digit(date.day % 10)>>

\* The constructor of DateRange lets these through.
MakesRange(start, end) == isIsoDate(start) /\ isIsoDate(end) /\ ~Precedes(end, start)

\* What getHistory checks of a range that was made.
WithinLimits(start, end, maxDate) == ~Precedes(start, minDate) /\ ~Precedes(maxDate, end)

-----------------------------------------------------------------------------
\* A number for each date, in the order of the calendar.
NumberOfDate(date) == 10000 * date.year + 100 * date.month + date.day

\* The one for the date a text names.
Number(s) ==
  LET at(i) == s[i] - Digit(0)
  IN  NumberOfDate([year |-> 1000 * at(1) + 100 * at(2) + 10 * at(3) + at(4),
                    month |-> 10 * at(6) + at(7), day |-> 10 * at(9) + at(10)])

\* What RequestChecks and the modules over it have for a text.
DayOf(s) == IF isIsoDate(s) THEN Number(s) ELSE NotADate

ASSUME TextsAssumption == Texts \subseteq Seq(0..255)

\* Dates as long as %Y has four digits.
Years == 0..9999
Dates == [year : Years, month : 1..12, day : 1..31]

ASSUME FirstDatesAssumption == FirstDates \subseteq Dates

ASSUME FirstDayAssumption == FirstDay = Number(minDate)

VARIABLES
  start, end,  \* the dates of the request in hand
  today        \* the date of system_clock

vars == <<start, end, today>>

Init == start \in Texts /\ end \in Texts /\ today \in FirstDates

GetHistory ==
  /\ start' \in Texts /\ end' \in Texts
  /\ UNCHANGED today

IsLeap(year) == year % 4 = 0 /\ (year % 100 # 0 \/ year % 400 = 0)

DaysIn(date) ==
  CASE date.month \in {4, 6, 9, 11} -> 30
    [] date.month = 2 -> IF IsLeap(date.year) THEN 29 ELSE 28
    [] OTHER -> 31

NextDate(date) ==
  IF date.day < DaysIn(date) THEN [date EXCEPT !.day = @ + 1]
  ELSE IF date.month < 12 THEN [date EXCEPT !.month = @ + 1, !.day = 1]
  ELSE [year |-> date.year + 1, month |-> 1, day |-> 1]

Midnight ==
  /\ today \notin LastDates /\ NextDate(today) \in Dates
  /\ today' = NextDate(today)
  /\ UNCHANGED <<start, end>>

Next == GetHistory \/ Midnight

Spec == Init /\ [][Next]_vars

-----------------------------------------------------------------------------
(* Properties. *)

maxDate == todayIsoDate(today)

\* Texts are judged as the numbers that stand for them elsewhere: a range is
\* made of them, and let through on any day of the calendar, exactly when
\* RequestChecks has it so, and two that are dates are the same text when
\* they are the same number, which cache keys rest on (DateRange, isIsoDate,
\* getHistory, todayIsoDate).
TextsJudgedAsDays ==
  /\ MakesRange(start, end) <=> IsDateRange(DayOf(start), DayOf(end))
  /\ MakesRange(start, end) =>
       (WithinLimits(start, end, maxDate) <=> Selectable(DayOf(start), DayOf(end), NumberOfDate(today)))
  /\ isIsoDate(start) /\ isIsoDate(end) => (DayOf(start) = DayOf(end) <=> start = end)

\* A range that is let through on one day is on the next, at the end of a
\* month and of a year as well: a midnight between the checks of a request
\* and its query does no harm (todayIsoDate, getHistory).
LaterDaysLetMoreThrough ==
  [][MakesRange(start, end) /\ WithinLimits(start, end, maxDate) /\ UNCHANGED <<start, end>>
       => WithinLimits(start, end, maxDate')]_vars
=============================================================================
