------------------------ MODULE MC_CurrencyServerApp ------------------------
(***************************************************************************)
(* A small instance of CurrencyServerApp for TLC.                          *)
(***************************************************************************)
EXTENDS CurrencyServerApp, TLC

CONSTANTS
  w1, w2,
  own,   \* the name of a file
  loud   \* not the name of a level

TwoWorkers == {w1, w2}

DefaultFile == "config/server.default.json"

TwoFiles == {DefaultFile, own}

SixteenBits == 2^16 - 1
FifteenBits == 2^15 - 1

LatestRate == "cache.latest_rate.max_elements"
History == "cache.history.max_elements"

HelpOption == [option |-> "help"]
Config(file) == [option |-> "config", value |-> file]
D(key, value) == [option |-> "define", key |-> key, value |-> value]

\* Room for 0, for a few, for less than nothing, for more than an int holds,
\* and no number at all; the same key twice, before and after --config; the
\* same option twice; an option that is not one.
Lines ==
  {<<>>,
   <<HelpOption>>,
   <<D(History, 3), HelpOption>>,
   <<Config(own)>>,
   <<D(History, 3)>>,
   <<D(History, 3), D(History, 0)>>,
   <<D(LatestRate, 2), Config(own), D(LatestRate, 3)>>,
   <<D(History, -1), Config(own)>>,
   <<D(History, FifteenBits + 1)>>,
   <<Config(own), Config(DefaultFile)>>,
   <<D("app.configFile", own)>>,
   <<D(LatestRate, NotANumber)>>,
   <<D("external_api.timeout_ms", NotANumber)>>,
   <<D("server.grpc_port", NotANumber)>>,
   <<D("logging.level", loud)>>,
   <<D(History, Malformed)>>}

FileContents ==
  {Missing, Malformed, History :> 2, (History :> 0) @@ (LatestRate :> 4)}

DiskStates == [TwoFiles -> FileContents]
=============================================================================
