-------------------------- MODULE MC_CurrencyServer --------------------------
(***************************************************************************)
(* Small instances of CurrencyServer for TLC.                              *)
(*                                                                         *)
(* eur and usd are listed, with a lower-case spelling of eur; xxx is not.  *)
(* The last day has no quote for usd.                                      *)
(***************************************************************************)
EXTENDS CurrencyServer, TLC

CONSTANTS w1, w2, eur, EUR, USD, XXX

TwoWorkers == {w1, w2}
OneWorker == {w1}

TwoListed == {EUR, USD}

UpperCase == (eur :> EUR) @@ (EUR :> EUR) @@ (USD :> USD) @@ (XXX :> XXX)

Quotes == (EUR :> Days) @@ (USD :> Days \ {LastDay})

List == [rpc |-> "ListCurrencies"]
Bounds == [rpc |-> "GetConstraints"]
Convert(source, target, amount) ==
  [rpc |-> "Convert", source |-> source, target |-> target, amount |-> amount]
History(source, target, start, end) ==
  [rpc |-> "GetHistory", source |-> source, target |-> target, start |-> start, end |-> end]

\* A request for every way through the handlers of Convert and GetHistory,
\* some of them invalid.
Various ==
  {Convert(eur, USD, 1), Convert(USD, EUR, 2),
   Convert(EUR, USD, NotFinite), Convert(eur, EUR, 1), Convert(EUR, XXX, 1),
   History(EUR, USD, 2, 2), History(USD, EUR, 1, 2),
   History(EUR, USD, 2, 1), History(EUR, USD, NotADate, 1)}

\* Valid requests that compete for the same cache entries.
Competing ==
  {List, Bounds, Convert(USD, eur, 1), Convert(USD, EUR, 1), History(USD, EUR, 1, 2)}

\* Requests that miss each of the caches, for the liveness run.
FewCompeting == {List, Bounds, Convert(eur, USD, 1), History(EUR, USD, 1, 2)}

HistoryOnly == {History(EUR, USD, 1, 1)}

Unlisted == {Convert(EUR, XXX, 1), Convert(EUR, USD, 1)}

Interchangeable == Permutations(Workers)
=============================================================================
