------------------------------ MODULE AppConfig ------------------------------
(***************************************************************************)
(* config/AppConfig.cpp over the layers of Poco's LayeredConfiguration: a  *)
(* setting is looked for in the application's own layer, which -D writes,  *)
(* then in the JSON file, and else has a default.                          *)
(*                                                                         *)
(* A setting of the cache, the port and the timeout is an integer, or      *)
(* NotANumber for any other text; the others are strings.                  *)
(***************************************************************************)
EXTENDS Integers, SequencesExt

CONSTANTS
  NotANumber,
  MaxInt,   \* the largest int, 2^(w - 1) - 1 when it has w bits
  MaxSize   \* the largest size_t, 2^w - 1 when it has w bits

\* C++ lets them be no less.
ASSUME MaxIntAssumption == MaxInt \in Nat /\ MaxInt >= 32767
ASSUME MaxSizeAssumption == MaxSize \in Nat /\ MaxSize >= 65535

\* The place of a layer: the lower number is asked first.
PRIO_APPLICATION == -100
PRIO_DEFAULT == 0

NoSettings == [key \in {} |-> NotANumber]

\* What init of Poco's Application leaves, as far as these settings go.
OwnLayer == <<[priority |-> PRIO_APPLICATION, settings |-> NoSettings]>>

\* LayeredConfiguration::add: before the first layer of that priority or more.
Added(layers, layer) ==
  LET notBefore == {i \in DOMAIN layers : layers[i].priority >= layer.priority}
  IN  InsertAt(layers, Min(notBefore \union {Len(layers) + 1}), layer)

\* LayeredConfiguration::setString: into the layer that may be written.
WithSetting(layers, key, value) ==
  [i \in DOMAIN layers |->
     IF layers[i].priority = PRIO_APPLICATION
     THEN [layers[i] EXCEPT !.settings =
             [k \in DOMAIN @ \union {key} |-> IF k = key THEN value ELSE @[k]]]
     ELSE layers[i]]

\* Fault: the file is loaded at the priority of the application's own layer.
loadJsonFileAsOwn(layers, contents) ==
  Added(layers, [priority |-> PRIO_APPLICATION, settings |-> contents])

loadJsonFile(layers, contents) ==
  Added(layers, [priority |-> PRIO_DEFAULT, settings |-> contents])

-----------------------------------------------------------------------------
Integer ==
  [key \in {"server.grpc_port", "external_api.timeout_ms",
            "cache.history.max_age_minutes", "cache.history.max_elements",
            "cache.latest_rate.max_age_minutes", "cache.latest_rate.max_elements"} |->
     CASE key = "server.grpc_port" -> 9090
       [] key = "external_api.timeout_ms" -> 5000
       [] key = "cache.history.max_age_minutes" -> 1440
       [] key = "cache.history.max_elements" -> 5000
       [] key = "cache.latest_rate.max_age_minutes" -> 15
       [] key = "cache.latest_rate.max_elements" -> 500]

String ==
  [key \in {"logging.level", "app.configFile"} |->
     CASE key = "logging.level" -> "information"
       [] key = "app.configFile" -> "config/server.default.json"]

Having(layers, key) == {i \in DOMAIN layers : key \in DOMAIN layers[i].settings}

Lookup(layers, key, default) ==
  IF Having(layers, key) = {}
  THEN default
  ELSE layers[Min(Having(layers, key))].settings[key]

Ints == -(MaxInt + 1)..MaxInt

\* NotANumber stands for the exception: the text is no number, or too large.
getInt(layers, key) ==
  LET value == Lookup(layers, key, Integer[key])
  IN  IF value \in Ints THEN value ELSE NotANumber

getString(layers, key) == Lookup(layers, key, String[key])

\* Fault: the int is taken as it is.
ToSizeUnconverted(n) == n

\* static_cast<std::size_t> of an int.
ToSize(n) == n % (MaxSize + 1)

\* The settings of a cache that has any.
MaxAgeKey(cache) == IF cache = "history" THEN "cache.history.max_age_minutes"
                                         ELSE "cache.latest_rate.max_age_minutes"
MaxElementsKey(cache) == IF cache = "history" THEN "cache.history.max_elements"
                                              ELSE "cache.latest_rate.max_elements"
=============================================================================
