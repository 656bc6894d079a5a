---------------------------- MODULE MC_Conversion ----------------------------
(***************************************************************************)
(* A small instance of Conversion for TLC.                                 *)
(*                                                                         *)
(* A day has three hours: day d lasts from hour 3d to 3d + 2 of universal  *)
(* time, and begins an hour earlier or later where the browser is.         *)
(***************************************************************************)
EXTENDS Conversion

CONSTANTS EUR, USD

TwoCurrencies == {EUR, USD}

EastAndWest == {-1, 1}

Filled(source, target, amount, start, end) ==
  [source |-> source, target |-> target, amount |-> amount, start |-> start, end |-> end]

\* Hour 4 is of the first day in both zones, 2 only in the eastern one and of
\* the day before in the western; 7 is of the second day.  A reversed range,
\* equal currencies and an incomplete form among them.
FormsFilled ==
  {Filled(EUR, USD, 1, start, 4) : start \in {2, 4}}
    \union {Filled(USD, EUR, 2, 4, 7), Filled(EUR, USD, 2, 7, 4),
            Filled(EUR, EUR, 1, 4, 4), Filled(EUR, Absent, 1, 4, 4)}

\* Two forms that differ in their currencies.
FewForms == {Filled(EUR, USD, 1, 4, 4), Filled(USD, EUR, 1, 4, 4)}
=============================================================================
