------------------------------- MODULE TtlMap -------------------------------
(***************************************************************************)
(* What backend/src/cache promises of one cache, as operators on a map     *)
(* from keys to [value, age] records: an entry is good for MaxAge after it *)
(* was put, and at most MaxElements keys are held.  Which key makes room   *)
(* for another is left open here.  age is the time since the put, counted  *)
(* up to AgeCap: beyond MaxAge all ages are alike.                         *)
(***************************************************************************)
EXTENDS Integers, FiniteSets

CONSTANTS
  MaxAge,       \* maxAge_, in ticks; a tick stands for a minute
  MaxElements,  \* maxElements_
  AgeCap,       \* where the age of an entry stops being counted
  Nullopt       \* std::nullopt: no value held, no value returned

ASSUME MaxAgeAssumption == MaxAge \in Int
\* The constructor throws on max_elements == 0.
ASSUME MaxElementsAssumption == MaxElements \in Nat \ {0}
ASSUME AgeCapAssumption == AgeCap \in Nat /\ AgeCap > MaxAge

Expired(age) == age > MaxAge

Older(age) == IF age < AgeCap THEN age + 1 ELSE age

Held(m) == {k \in DOMAIN m : m[k] # Nullopt}

Live(m, k) == m[k] # Nullopt /\ ~Expired(m[k].age)

With(m, k, e) == [x \in DOMAIN m |-> IF x = k THEN e ELSE m[x]]

Without(m, k) == With(m, k, Nullopt)

\* What the get that answers from m leaves behind, and what it answers.
AfterGet(m, k) == IF Live(m, k) THEN m ELSE Without(m, k)

Found(m, k) == IF Live(m, k) THEN m[k].value ELSE Nullopt

\* The maps a put may leave behind: one other key makes room, and only
\* when there are too many.
AfterPut(m, k, v) ==
  LET stored == With(m, k, [value |-> v, age |-> 0])
  IN  IF Cardinality(Held(stored)) <= MaxElements
      THEN {stored}
      ELSE {Without(stored, other) : other \in Held(m) \ {k}}

\* What the passing of one tick leaves behind.
Aged(m) ==
  [k \in DOMAIN m |->
     IF m[k] = Nullopt
     THEN Nullopt
     ELSE [value |-> m[k].value, age |-> Older(m[k].age)]]
=============================================================================
