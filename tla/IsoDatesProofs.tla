--------------------------- MODULE IsoDatesProofs ---------------------------
(***************************************************************************)
(* Proofs about IsoDates, for any texts in a request and any day: what the *)
(* backend does with dates as strings is what the other modules have it do *)
(* with numbers.                                                           *)
(***************************************************************************)
EXTENDS IsoDates, SequenceTheorems, TLAPS

-----------------------------------------------------------------------------
(* The order of texts. *)

IsoTexts == {s \in Seq(0..255) : isIsoDate(s)}

LEMMA IsoFacts ==
  ASSUME NEW s \in IsoTexts
  PROVE  /\ Len(s) = 10 /\ s[5] = 45 /\ s[8] = 45
         /\ \A i \in 1..10 : s[i] \in Int
         /\ \A i \in {1, 2, 3, 4, 6, 7, 9, 10} : s[i] \in 48..57
<1>1. \A d \in Digits : d \in 48..57
  BY DEF Digits, Digit
<1>2. Len(s) = 10 /\ s[5] = 45 /\ s[8] = 45 /\ \A i \in (1..10) \ {5, 8} : s[i] \in Digits
  BY DEF IsoTexts, isIsoDate, Hyphen
<1>3. \A i \in {1, 2, 3, 4, 6, 7, 9, 10} : s[i] \in 48..57
  BY <1>1, <1>2
<1>4. \A i \in 1..10 : i \in {1, 2, 3, 4, 6, 7, 9, 10} \/ i = 5 \/ i = 8
  OBVIOUS
<1> QED
  BY <1>2, <1>3, <1>4

Two(a, b) == 10 * a + b
Four(a, b, c, d) == 1000 * a + 100 * b + 10 * c + d

LEMMA TwoOrdered ==
  ASSUME NEW a \in 0..9, NEW b \in 0..9, NEW e \in 0..9, NEW f \in 0..9,
         a < e \/ (a = e /\ b < f)
  PROVE  Two(a, b) < Two(e, f)
  BY SMT DEF Two

LEMMA FourOrdered ==
  ASSUME NEW a \in 0..9, NEW b \in 0..9, NEW c \in 0..9, NEW d \in 0..9,
         NEW e \in 0..9, NEW f \in 0..9, NEW g \in 0..9, NEW h \in 0..9,
         a < e \/ (a = e /\ (b < f \/ (b = f /\ (c < g \/ (c = g /\ d < h)))))
  PROVE  Four(a, b, c, d) < Four(e, f, g, h)
  BY SMT DEF Four

Ranked(y, m, d) == 10000 * y + 100 * m + d

LEMMA RankedInt ==
  ASSUME NEW y \in Nat, NEW m \in 0..99, NEW d \in 0..99
  PROVE  Ranked(y, m, d) \in Int
  BY SMT DEF Ranked

LEMMA RankedInOrder ==
  ASSUME NEW y \in Nat, NEW m \in 0..99, NEW d \in 0..99,
         NEW Y \in Nat, NEW M \in 0..99, NEW D \in 0..99,
         y < Y \/ (y = Y /\ (m < M \/ (m = M /\ d < D)))
  PROVE  Ranked(y, m, d) < Ranked(Y, M, D)
  BY SMT DEF Ranked

LEMMA NumberRanked ==
  ASSUME NEW y, NEW m, NEW d
  PROVE  NumberOfDate([year |-> y, month |-> m, day |-> d]) = Ranked(y, m, d)
  BY DEF NumberOfDate, Ranked

\* The number of a date, and of a later one.
LEMMA DatesOrdered ==
  ASSUME NEW p, p.year \in Nat, p.month \in 0..99, p.day \in 0..99
  PROVE  /\ NumberOfDate(p) \in Int
         /\ \A q : /\ q.year \in Nat /\ q.month \in 0..99 /\ q.day \in 0..99
                   /\ \/ p.year < q.year
                      \/ p.year = q.year /\ p.month < q.month
                      \/ p.year = q.year /\ p.month = q.month /\ p.day < q.day
                   => NumberOfDate(p) < NumberOfDate(q)
<1>1. \A q : NumberOfDate(q) = Ranked(q.year, q.month, q.day)
  BY SMT DEF NumberOfDate, Ranked
<1>2. NumberOfDate(p) \in Int
  BY <1>1, RankedInt, Zenon
<1>3. ASSUME NEW q, q.year \in Nat, q.month \in 0..99, q.day \in 0..99,
             \/ p.year < q.year
             \/ p.year = q.year /\ p.month < q.month
             \/ p.year = q.year /\ p.month = q.month /\ p.day < q.day
      PROVE  NumberOfDate(p) < NumberOfDate(q)
  <2>1. \/ p.year < q.year
        \/ p.year = q.year /\ (p.month < q.month \/ (p.month = q.month /\ p.day < q.day))
    BY <1>3, Zenon
  <2>2. Ranked(p.year, p.month, p.day) < Ranked(q.year, q.month, q.day)
    BY <1>3, <2>1, RankedInOrder, Zenon
  <2> QED
    BY <1>1, <2>2, Zenon
<1> QED
  BY <1>2, <1>3, Zenon

\* The digits of a text.
At(s, i) == s[i] - 48

YearOf(s) == Four(At(s, 1), At(s, 2), At(s, 3), At(s, 4))
MonthOf(s) == Two(At(s, 6), At(s, 7))
DateOf(s) == [year |-> YearOf(s), month |-> MonthOf(s), day |-> Two(At(s, 9), At(s, 10))]

LEMMA DateNamed ==
  ASSUME NEW s \in IsoTexts
  PROVE  /\ \A i \in {1, 2, 3, 4, 6, 7, 9, 10} : At(s, i) \in 0..9
         /\ DateOf(s).year \in Nat /\ DateOf(s).month \in 0..99 /\ DateOf(s).day \in 0..99
         /\ Number(s) = NumberOfDate(DateOf(s)) /\ Number(s) \in Int
<1>1. \A i \in {1, 2, 3, 4, 6, 7, 9, 10} : At(s, i) \in 0..9
  BY IsoFacts, SMT DEF At
<1>2. \A a, b \in 0..9 : Two(a, b) \in 0..99
  BY SMT DEF Two
<1>3. \A a, b, c, d \in 0..9 : Four(a, b, c, d) \in Nat
  BY SMT DEF Four
<1>4. DateOf(s).year \in Nat /\ DateOf(s).month \in 0..99 /\ DateOf(s).day \in 0..99
  BY <1>1, <1>2, <1>3 DEF DateOf, YearOf, MonthOf
<1>5. Number(s) = NumberOfDate(DateOf(s))
  BY DEF Number, DateOf, YearOf, MonthOf, Two, Four, At, Digit
<1>6. NumberOfDate(DateOf(s)) \in Int
  BY <1>4, DatesOrdered
<1> QED
  BY <1>1, <1>4, <1>5, <1>6

\* The first place where two texts differ decides between their numbers.
LEMMA FirstDifferenceDecides ==
  ASSUME NEW s \in IsoTexts, NEW t \in IsoTexts, NEW i \in 1..10, s[i] < t[i],
         \A j \in 1..(i - 1) : s[j] = t[j]
  PROVE  Number(s) < Number(t)
<1>1. \A u \in {s, t} : \A k \in {1, 2, 3, 4, 6, 7, 9, 10} : At(u, k) \in 0..9
  BY DateNamed
<1>2. At(s, i) < At(t, i) /\ \A j \in 1..(i - 1) : At(s, j) = At(t, j)
  BY IsoFacts, SMT DEF At
<1>3. i \in {1, 2, 3, 4} \/ i \in {6, 7} \/ i \in {9, 10}
  BY IsoFacts, SMT
<1>7. \A u \in {s, t} :
        /\ DateOf(u).year = YearOf(u) /\ DateOf(u).month = MonthOf(u)
        /\ DateOf(u).day = Two(At(u, 9), At(u, 10))
  BY DEF DateOf
<1>8. SUFFICES NumberOfDate(DateOf(s)) < NumberOfDate(DateOf(t))
  BY DateNamed
<1>4. CASE i \in {1, 2, 3, 4}
  <2>1. \/ At(s, 1) < At(t, 1)
        \/ At(s, 1) = At(t, 1) /\
             (\/ At(s, 2) < At(t, 2)
              \/ At(s, 2) = At(t, 2) /\
                   (\/ At(s, 3) < At(t, 3)
                    \/ At(s, 3) = At(t, 3) /\ At(s, 4) < At(t, 4)))
    BY <1>2, <1>4, SMT
  <2>2. YearOf(s) < YearOf(t)
    BY <1>1, <2>1, FourOrdered DEF YearOf
  <2> QED
    BY <1>7, <2>2, DateNamed, DatesOrdered
<1>5. CASE i \in {6, 7}
  <2>1. \/ At(s, 6) < At(t, 6)
        \/ At(s, 6) = At(t, 6) /\ At(s, 7) < At(t, 7)
    BY <1>2, <1>5, SMT
  <2>2. YearOf(s) = YearOf(t)
    BY <1>2, <1>5, SMT DEF YearOf
  <2>3. MonthOf(s) < MonthOf(t)
    BY <1>1, <2>1, TwoOrdered DEF MonthOf
  <2> QED
    BY <1>7, <2>2, <2>3, DateNamed, DatesOrdered
<1>6. CASE i \in {9, 10}
  <2>1. \/ At(s, 9) < At(t, 9)
        \/ At(s, 9) = At(t, 9) /\ At(s, 10) < At(t, 10)
    BY <1>2, <1>6, SMT
  <2>2. YearOf(s) = YearOf(t) /\ MonthOf(s) = MonthOf(t)
    BY <1>2, <1>6, SMT DEF YearOf, MonthOf
  <2>3. Two(At(s, 9), At(s, 10)) < Two(At(t, 9), At(t, 10))
    BY <1>1, <2>1, TwoOrdered
  <2> QED
    BY <1>7, <2>2, <2>3, DateNamed, DatesOrdered
<1> QED
  BY <1>3, <1>4, <1>5, <1>6

\* Two texts differ at a first place, or nowhere.
LEMMA SameOrFirstDifference ==
  ASSUME NEW s, NEW t,
         \A i \in 1..10 : (\A j \in 1..(i - 1) : s[j] = t[j]) => s[i] = t[i]
  PROVE  \A i \in 1..10 : s[i] = t[i]
<1>1. \A i \in 1..2 : s[i] = t[i]
  OBVIOUS
<1>2. \A i \in 1..4 : s[i] = t[i]
  BY <1>1
<1>3. \A i \in 1..6 : s[i] = t[i]
  BY <1>2
<1>4. \A i \in 1..8 : s[i] = t[i]
  BY <1>3
<1> QED
  BY <1>4

\* Texts of one form are ordered as their digits are, and no two have the
\* same.
LEMMA TextOrder ==
  ASSUME NEW s \in IsoTexts, NEW t \in IsoTexts
  PROVE  /\ Number(s) \in Int
         /\ Precedes(s, t) <=> Number(s) < Number(t)
         /\ s = t <=> Number(s) = Number(t)
<1>1. \A u \in IsoTexts : Number(u) \in Int
  BY DateNamed
<1>2. Len(s) = 10 /\ Len(t) = 10 /\ \A i \in 1..10 : s[i] \in Int /\ t[i] \in Int
  BY IsoFacts
<1>3. Precedes(s, t) <=> \E i \in 1..10 : s[i] < t[i] /\ \A j \in 1..(i - 1) : s[j] = t[j]
  BY <1>2 DEF Precedes
<1>4. CASE \A i \in 1..10 : s[i] = t[i]
  <2>1. s = t
    BY <1>2, <1>4, SeqEqual DEF IsoTexts
  <2> QED
    BY <1>1, <1>2, <1>3, <2>1
<1>5. CASE ~\A i \in 1..10 : s[i] = t[i]
  <2>1. PICK i \in 1..10 : s[i] # t[i] /\ \A j \in 1..(i - 1) : s[j] = t[j]
    BY <1>5, SameOrFirstDifference
  <2>2. CASE s[i] < t[i]
    BY <1>1, <1>3, <2>1, <2>2, FirstDifferenceDecides
  <2>3. CASE t[i] < s[i]
    <3>1. Number(t) < Number(s)
      BY <2>1, <2>3, FirstDifferenceDecides
    <3>2. ~Precedes(s, t)
      <4> SUFFICES ASSUME Precedes(s, t) PROVE FALSE
        OBVIOUS
      <4>1. Number(s) < Number(t)
        BY <1>3, FirstDifferenceDecides
      <4> QED
        BY <1>1, <3>1, <4>1
    <3> QED
      BY <1>1, <3>1, <3>2
  <2> QED
    BY <1>2, <2>1, <2>2, <2>3
<1> QED
  BY <1>4, <1>5

-----------------------------------------------------------------------------
(* The texts the backend writes. *)

\* Division by powers of ten.
LEMMA ByTen ==
  ASSUME NEW n \in Nat
  PROVE  \E q \in Nat, r \in 0..9 : q = n \div 10 /\ r = n % 10 /\ n = 10 * q + r
<1>1. n \div 10 \in Nat /\ n % 10 \in 0..9 /\ n % 10 = n - 10 * (n \div 10)
  BY Z3
<1>2. PICK q \in Nat, r \in 0..9 : q = n \div 10 /\ r = n % 10
  BY <1>1
<1>3. r = n - 10 * q
  BY <1>1, <1>2
<1>4. n = 10 * q + r
  BY <1>3
<1> QED
  BY <1>2, <1>4

LEMMA ByMore ==
  ASSUME NEW n \in Nat
  PROVE  \E p \in Nat, q \in Nat :
           /\ p = n \div 100 /\ 100 * p <= n /\ n < 100 * p + 100
           /\ q = n \div 1000 /\ 1000 * q <= n /\ n < 1000 * q + 1000
<1>1. /\ n \div 100 \in Nat /\ 100 * (n \div 100) <= n /\ n < 100 * (n \div 100) + 100
      /\ n \div 1000 \in Nat /\ 1000 * (n \div 1000) <= n /\ n < 1000 * (n \div 1000) + 1000
  BY Z3
<1>2. PICK p \in Nat, q \in Nat : p = n \div 100 /\ q = n \div 1000
  BY <1>1
<1> QED
  BY <1>1, <1>2

\* A number of two digits, and one of four, by its digits.
LEMMA TwoDigits ==
  ASSUME NEW n \in 0..99
  PROVE  \E a, b \in 0..9 : a = n \div 10 /\ b = n % 10 /\ n = Two(a, b)
<1>0. n \in Nat
  OBVIOUS
<1>1. PICK q \in Nat, r \in 0..9 : q = n \div 10 /\ r = n % 10 /\ n = 10 * q + r
  BY <1>0, ByTen
<1>2. q \in 0..9 /\ n = Two(q, r)
  BY <1>1 DEF Two
<1> QED
  BY <1>1, <1>2

\* The parts of a date.
LEMMA DateParts ==
  ASSUME NEW date \in Dates
  PROVE  \E y \in Years, m \in 1..12, d \in 1..31 :
           /\ date = [year |-> y, month |-> m, day |-> d]
           /\ date.year = y /\ date.month = m /\ date.day = d
<1>1. date.year \in Years /\ date.month \in 1..12 /\ date.day \in 1..31
  BY SMT DEF Dates
<1>2. date = [year |-> date.year, month |-> date.month, day |-> date.day]
  BY SMT DEF Dates
<1> QED
  BY <1>1, <1>2, Zenon

Splits(n, a, b, c, d) ==
  /\ a = n \div 1000 /\ b = (n \div 100) % 10 /\ c = (n \div 10) % 10 /\ d = n % 10
  /\ n = Four(a, b, c, d)

LEMMA FourDigits ==
  ASSUME NEW n \in Years
  PROVE  \E a, b, c, d \in 0..9 : Splits(n, a, b, c, d)
<1>0. n \in Nat
  BY DEF Years
<1>1. PICK p \in Nat, a \in Nat :
        /\ p = n \div 100 /\ 100 * p <= n /\ n < 100 * p + 100
        /\ a = n \div 1000 /\ 1000 * a <= n /\ n < 1000 * a + 1000
  BY <1>0, ByMore
<1>2. PICK q \in Nat, d \in 0..9 : q = n \div 10 /\ d = n % 10 /\ n = 10 * q + d
  BY <1>0, ByTen
<1>3. PICK u \in Nat, b \in 0..9 : u = p \div 10 /\ b = p % 10 /\ p = 10 * u + b
  BY ByTen
<1>4. PICK v \in Nat, c \in 0..9 : v = q \div 10 /\ c = q % 10 /\ q = 10 * v + c
  BY ByTen
<1>5. v = p
  BY <1>1, <1>2, <1>4
<1>6. u = a
  BY <1>1, <1>2, <1>3, <1>4, <1>5
<1>7. a \in 0..9
  BY <1>1 DEF Years
<1>8. n = 1000 * a + 100 * b + 10 * c + d
  BY <1>2, <1>3, <1>4, <1>5, <1>6
<1>9. n = Four(a, b, c, d)
  BY <1>8 DEF Four
<1>10. b = (n \div 100) % 10 /\ c = (n \div 10) % 10
  BY <1>1, <1>2, <1>3, <1>4
<1>11. Splits(n, a, b, c, d)
  BY <1>1, <1>2, <1>9, <1>10 DEF Splits
<1> QED
  BY <1>2, <1>3, <1>4, <1>7, <1>11, Zenon

Written(a, b, c, d, e, f, g, h) ==
  <<Digit(a), Digit(b), Digit(c), Digit(d), Hyphen, Digit(e), Digit(f), Hyphen, Digit(g), Digit(h)>>

\* What holds of the texts of a month, and of those of a year.
WithMonth(a, b, c, d, e, f) ==
  \A g, h \in 0..9 :
    /\ Written(a, b, c, d, e, f, g, h) \in IsoTexts
    /\ Number(Written(a, b, c, d, e, f, g, h))
         = Ranked(Four(a, b, c, d), Two(e, f), Two(g, h))

WithYear(a, b, c, d) == \A e, f \in 0..9 : WithMonth(a, b, c, d, e, f)

LEMMA TextOfDigits ==
  ASSUME NEW a \in 0..9, NEW b \in 0..9, NEW c \in 0..9, NEW d \in 0..9
  PROVE  WithYear(a, b, c, d)
<1> SUFFICES ASSUME NEW e \in 0..9, NEW f \in 0..9, NEW g \in 0..9, NEW h \in 0..9
             PROVE  /\ Written(a, b, c, d, e, f, g, h) \in IsoTexts
                    /\ Number(Written(a, b, c, d, e, f, g, h))
                         = Ranked(Four(a, b, c, d), Two(e, f), Two(g, h))
  BY DEF WithYear, WithMonth
<1>1. PICK s : s = Written(a, b, c, d, e, f, g, h)
  OBVIOUS
<1>2. s = <<Digit(a), Digit(b), Digit(c), Digit(d), Hyphen,
            Digit(e), Digit(f), Hyphen, Digit(g), Digit(h)>>
  BY <1>1 DEF Written
<1>3. \A n \in 0..9 : Digit(n) \in Digits /\ Digit(n) \in 0..255 /\ Digit(n) - 48 = n
  BY DEF Digit, Digits
<1>4. s \in Seq(0..255)
  BY <1>3, <1>2 DEF Hyphen
<1>5. /\ Len(s) = 10 /\ s[5] = Hyphen /\ s[8] = Hyphen
      /\ \A i \in (1..10) \ {5, 8} : s[i] \in Digits
  BY <1>3, <1>2
<1>6. s \in IsoTexts
  BY <1>4, <1>5 DEF IsoTexts, isIsoDate
<1>7. /\ At(s, 1) = a /\ At(s, 2) = b /\ At(s, 3) = c /\ At(s, 4) = d
      /\ At(s, 6) = e /\ At(s, 7) = f /\ At(s, 9) = g /\ At(s, 10) = h
  BY <1>3, <1>2 DEF At
<1>8. DateOf(s) = [year |-> Four(a, b, c, d), month |-> Two(e, f), day |-> Two(g, h)]
  BY <1>7 DEF DateOf, YearOf, MonthOf
<1> QED
  BY <1>1, <1>6, <1>8, DateNamed, NumberRanked

LEMMA TodayWritten ==
  ASSUME NEW date \in Dates
  PROVE  todayIsoDate(date) \in IsoTexts /\ Number(todayIsoDate(date)) = NumberOfDate(date)
<1>1. PICK y \in Years, m \in 1..12, d \in 1..31 :
        /\ date = [year |-> y, month |-> m, day |-> d]
        /\ date.year = y /\ date.month = m /\ date.day = d
  BY DateParts, Zenon
<1>2. m \in 0..99 /\ d \in 0..99
  BY <1>1
<1>3. PICK y1, y2, y3, y4 \in 0..9 : Splits(y, y1, y2, y3, y4)
  BY FourDigits, Zenon
<1>4. PICK m1, m2 \in 0..9 : m1 = m \div 10 /\ m2 = m % 10 /\ m = Two(m1, m2)
  BY <1>2, TwoDigits
<1>5. PICK d1, d2 \in 0..9 : d1 = d \div 10 /\ d2 = d % 10 /\ d = Two(d1, d2)
  BY <1>2, TwoDigits
<1>6. date.year = y /\ date.month = m /\ date.day = d
  BY <1>1
<1>7. todayIsoDate(date) = Written(y1, y2, y3, y4, m1, m2, d1, d2)
  BY <1>3, <1>4, <1>5, <1>6 DEF todayIsoDate, Splits, Written
<1>8. NumberOfDate(date) = Ranked(y, m, d)
  BY <1>1, NumberRanked
<1>9. y = Four(y1, y2, y3, y4)
  BY <1>3, Zenon DEF Splits
<1>10. y1 \in 0..9 /\ y2 \in 0..9 /\ y3 \in 0..9 /\ y4 \in 0..9
  BY <1>3
<1>11. WithYear(y1, y2, y3, y4)
  BY <1>10, TextOfDigits, Zenon
<1> QED
  <2>1. m1 \in 0..9 /\ m2 \in 0..9 /\ d1 \in 0..9 /\ d2 \in 0..9
    BY <1>4, <1>5
  <2>2. /\ Written(y1, y2, y3, y4, m1, m2, d1, d2) \in IsoTexts
        /\ Number(Written(y1, y2, y3, y4, m1, m2, d1, d2))
             = Ranked(Four(y1, y2, y3, y4), Two(m1, m2), Two(d1, d2))
    <3>1. WithMonth(y1, y2, y3, y4, m1, m2)
      BY <1>11, <2>1, Zenon DEF WithYear
    <3> QED
      BY <2>1, <3>1, Zenon DEF WithMonth
  <2>3. y = Four(y1, y2, y3, y4) /\ m = Two(m1, m2) /\ d = Two(d1, d2)
    BY <1>4, <1>5, <1>9
  <2> QED
    BY <1>7, <1>8, <2>2, <2>3

LEMMA MinDateWritten == minDate \in IsoTexts
  BY DEF minDate, IsoTexts, isIsoDate, Hyphen, Digits, Digit

\* The calendar goes forward.
LEMMA LaterNumber ==
  ASSUME NEW date \in Dates, NextDate(date) \in Dates
  PROVE  NumberOfDate(date) < NumberOfDate(NextDate(date))
<1>1. PICK y \in Years, m \in 1..12, d \in 1..31 :
        /\ date = [year |-> y, month |-> m, day |-> d]
        /\ date.year = y /\ date.month = m /\ date.day = d
  BY DateParts, Zenon
<1>2. PICK Y \in Years, M \in 1..12, D \in 1..31 :
        /\ NextDate(date) = [year |-> Y, month |-> M, day |-> D]
        /\ NextDate(date).year = Y /\ NextDate(date).month = M /\ NextDate(date).day = D
  BY DateParts, Zenon
<1>3. \/ Y = y /\ M = m /\ D = d + 1
      \/ Y = y /\ M = m + 1
      \/ Y = y + 1
  <2>1. CASE date.day < DaysIn(date)
    <3>1. NextDate(date) = [year |-> y, month |-> m, day |-> d + 1]
      BY <1>1, <2>1 DEF NextDate
    <3> QED
      BY <1>2, <3>1
  <2>2. CASE ~(date.day < DaysIn(date)) /\ date.month < 12
    <3>1. NextDate(date) = [year |-> y, month |-> m + 1, day |-> 1]
      BY <1>1, <2>2 DEF NextDate
    <3> QED
      BY <1>2, <3>1
  <2>3. CASE ~(date.day < DaysIn(date)) /\ ~(date.month < 12)
    <3>1. NextDate(date) = [year |-> y + 1, month |-> 1, day |-> 1]
      BY <1>1, <2>3 DEF NextDate
    <3> QED
      BY <1>2, <3>1
  <2> QED
    BY <2>1, <2>2, <2>3
<1>4. y \in Nat /\ m \in 0..99 /\ d \in 0..99 /\ Y \in Nat /\ M \in 0..99 /\ D \in 0..99
  BY <1>1, <1>2 DEF Years
<1>5. y < Y \/ (y = Y /\ (m < M \/ (m = M /\ d < D)))
  BY <1>3, <1>4
<1>6. Ranked(y, m, d) < Ranked(Y, M, D)
  BY <1>4, <1>5, RankedInOrder, Zenon
<1> QED
  BY <1>1, <1>2, <1>6, NumberRanked

-----------------------------------------------------------------------------
(* The checks. *)

InHand == start \in Texts /\ end \in Texts /\ today \in Dates

LEMMA AlwaysInHand == Spec => []InHand
<1>1. Init => InHand
  BY FirstDatesAssumption DEF Init, InHand
<1>2. InHand /\ [Next]_vars => InHand'
  BY DEF InHand, Next, GetHistory, Midnight, vars
<1> QED
  BY <1>1, <1>2, PTL DEF Spec

\* The bounds are let through by texts as by numbers, on any day.
LEMMA LimitsAgree ==
  ASSUME NEW s \in IsoTexts, NEW t \in IsoTexts, NEW date \in Dates
  PROVE  WithinLimits(s, t, todayIsoDate(date)) <=>
           FirstDay <= Number(s) /\ Number(t) <= NumberOfDate(date)
<1>1. Precedes(s, minDate) <=> Number(s) < FirstDay
  BY MinDateWritten, TextOrder, FirstDayAssumption
<1>2. Precedes(todayIsoDate(date), t) <=> NumberOfDate(date) < Number(t)
  BY TodayWritten, TextOrder
<1>3. {Number(s), Number(t), FirstDay, NumberOfDate(date)} \subseteq Int
  BY MinDateWritten, TodayWritten, TextOrder, FirstDayAssumption
<1> QED
  BY <1>1, <1>2, <1>3 DEF WithinLimits

\* Ranges of dates are made and let through as RequestChecks has it, for any
\* texts whatever (TextsJudgedAsDays).
THEOREM TextsAreDays == Spec => []TextsJudgedAsDays
<1>1. InHand => TextsJudgedAsDays
  <2> SUFFICES ASSUME InHand PROVE TextsJudgedAsDays
    OBVIOUS
  <2>1. \A s \in {start, end} : s \in IsoTexts <=> isIsoDate(s)
    BY TextsAssumption DEF InHand, IsoTexts
  <2>2. \A s \in {start, end} : DayOf(s) = NotADate <=> ~isIsoDate(s)
    BY <2>1, TextOrder, MarkersAssumption DEF DayOf
  <2>3. CASE ~(isIsoDate(start) /\ isIsoDate(end))
    BY <2>2, <2>3 DEF TextsJudgedAsDays, MakesRange, IsDateRange
  <2>4. CASE isIsoDate(start) /\ isIsoDate(end)
    <3>1. start \in IsoTexts /\ end \in IsoTexts /\ DayOf(start) = Number(start)
          /\ DayOf(end) = Number(end)
      BY <2>1, <2>4 DEF DayOf
    <3>2. Number(start) \in Int /\ Number(end) \in Int
      BY <3>1, TextOrder
    <3>3. MakesRange(start, end) <=> Number(start) <= Number(end)
      <4>1. Precedes(end, start) <=> Number(end) < Number(start)
        BY <3>1, TextOrder
      <4> QED
        BY <2>4, <3>2, <4>1 DEF MakesRange
    <3>4. IsDateRange(DayOf(start), DayOf(end)) <=> Number(start) <= Number(end)
      BY <2>2, <2>4, <3>1 DEF IsDateRange
    <3>5. WithinLimits(start, end, maxDate)
            <=> Selectable(DayOf(start), DayOf(end), NumberOfDate(today))
      BY <3>1, LimitsAgree DEF InHand, Selectable, maxDate
    <3>6. DayOf(start) = DayOf(end) <=> start = end
      BY <3>1, TextOrder
    <3> QED
      BY <3>3, <3>4, <3>5, <3>6 DEF TextsJudgedAsDays
  <2> QED
    BY <2>3, <2>4
<1> QED
  BY <1>1, AlwaysInHand, PTL

\* No midnight takes back what was let through (LaterDaysLetMoreThrough).
THEOREM MidnightsHarmless == Spec => LaterDaysLetMoreThrough
<1> DEFINE Step == MakesRange(start, end) /\ WithinLimits(start, end, maxDate)
                     /\ UNCHANGED <<start, end>> => WithinLimits(start, end, maxDate')
<1>1. InHand /\ [Next]_vars => [Step]_vars
  <2> SUFFICES ASSUME InHand, [Next]_vars, MakesRange(start, end), UNCHANGED <<start, end>>,
                      WithinLimits(start, end, maxDate), today' # today
               PROVE  WithinLimits(start, end, maxDate')
    BY DEF maxDate, vars
  <2>1. today \in Dates /\ NextDate(today) \in Dates /\ today' = NextDate(today)
    BY DEF InHand, Next, GetHistory, Midnight, vars
  <2>2. start \in IsoTexts /\ end \in IsoTexts
    BY TextsAssumption DEF InHand, IsoTexts, MakesRange
  <2>3. NumberOfDate(today) < NumberOfDate(today')
    BY <2>1, LaterNumber
  <2>4. {Number(end), NumberOfDate(today), NumberOfDate(today')} \subseteq Int
    BY <2>1, <2>2, TextOrder, TodayWritten
  <2>5. FirstDay <= Number(start) /\ Number(end) <= NumberOfDate(today)
    BY <2>1, <2>2, LimitsAgree DEF maxDate
  <2>6. Number(end) <= NumberOfDate(today')
    BY <2>3, <2>4, <2>5
  <2> QED
    BY <2>1, <2>2, <2>5, <2>6, LimitsAgree DEF maxDate
<1> QED
  BY <1>1, AlwaysInHand, PTL DEF Spec, LaterDaysLetMoreThrough
=============================================================================
