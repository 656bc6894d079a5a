----------------------------- MODULE MC_IsoDates -----------------------------
(***************************************************************************)
(* A small instance of IsoDates for TLC: days around the end of a year, of *)
(* September, when the month gets its second digit, of February in a year  *)
(* that leaps and in one that does not, and the last days of four digits.  *)
(***************************************************************************)
EXTENDS IsoDates

Date(year, month, day) == [year |-> year, month |-> month, day |-> day]

Starts ==
  {Date(2023, 12, 28), Date(2024, 2, 26), Date(2024, 9, 28), Date(2100, 2, 26),
   Date(9999, 12, 29)}

Ends == {Date(2024, 1, 2), Date(2024, 3, 2), Date(2024, 10, 2), Date(2100, 3, 2)}

NumberOfMinDate == Number(minDate)

\* Bytes of the digits of a number of two digits.
Pair(n) == <<Digit(n \div 10), Digit(n % 10)>>

Text(century, year, month, day) ==
  Pair(century) \o Pair(year) \o <<Hyphen>> \o Pair(month) \o <<Hyphen>> \o Pair(day)

\* Days around the limits and ahead of them, one no February has, the ends
\* of what four digits can say, and texts that are no dates: too long, too
\* short, with a digit left out, with other separators, with a letter.
FewTexts ==
  {Text(19, 99, 1, 3), Text(19, 99, 1, 4), Text(20, 23, 12, 31), Text(20, 24, 2, 29),
   Text(20, 24, 2, 30), Text(20, 24, 9, 30), Text(20, 24, 10, 1), Text(20, 24, 12, 31),
   Text(0, 0, 0, 0), Text(99, 99, 99, 99)}
    \union {Append(Text(20, 23, 12, 31), 49), Append(Text(20, 24, 1, 1), 0), <<>>,
            SubSeq(Text(20, 24, 10, 1), 1, 9),
            Pair(20) \o Pair(24) \o <<Hyphen, 57, Hyphen>> \o Pair(30),
            [Text(20, 24, 2, 29) EXCEPT ![5] = 47],
            [Text(20, 24, 2, 29) EXCEPT ![10] = 65]}
=============================================================================
