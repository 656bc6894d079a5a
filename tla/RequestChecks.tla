---------------------------- MODULE RequestChecks ----------------------------
(***************************************************************************)
(* What the backend demands of the fields of a request: the constructor of *)
(* domain/DateRange.h and the checks of the application services.  Used by *)
(* CurrencyServer, which runs them, and by Conversion, whose form is meant *)
(* to satisfy them.  A date is the number of its day.                      *)
(***************************************************************************)
EXTENDS Integers

CONSTANTS
  FirstDay,   \* minDate of ConstraintsService
  MinAmount, MaxAmount,
  NotFinite,  \* an amount that is NaN or infinite
  NotADate    \* a string that is not YYYY-MM-DD

ASSUME BoundsAssumption == {FirstDay, MinAmount, MaxAmount} \subseteq Int
ASSUME MarkersAssumption == NotFinite \notin Int /\ NotADate \notin Int

\* The constructor of DateRange lets these through.
IsDateRange(start, end) ==
  /\ start # NotADate /\ end # NotADate
  /\ start <= end

\* Fault: no test for NaN, which is neither below nor above a bound.
AmountNotOutside(amount) ==
  amount # NotFinite => MinAmount <= amount /\ amount <= MaxAmount

AmountAllowed(amount) ==
  /\ amount # NotFinite
  /\ MinAmount <= amount /\ amount <= MaxAmount

\* What convert checks of codes it knows.
IsConvertible(source, target, amount) == source # target /\ AmountAllowed(amount)

\* Fault: the end of the range is not compared with today.
SelectableAhead(start, end, today) == FirstDay <= start

\* What getHistory checks of a range when the date is today.
Selectable(start, end, today) == FirstDay <= start /\ end <= today
=============================================================================
