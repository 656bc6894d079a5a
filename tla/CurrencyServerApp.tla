-------------------------- MODULE CurrencyServerApp --------------------------
(***************************************************************************)
(* The life of the backend process, main.cpp: options, configuration, the  *)
(* objects main builds one after the other, the gRPC server, shutdown, and *)
(* the objects' ends in reverse order.  Next to the main thread run the    *)
(* sweeper of each cache, the thread that waits for the server, and the    *)
(* handlers of requests.                                                   *)
(*                                                                         *)
(* What a handler does is CurrencyServer, what a sweeper does is           *)
(* TimeAndSizeBoundedCache; here a handler takes its HandlerCourse, and a  *)
(* sweeper runs until its cache's destructor asks it to stop.              *)
(*                                                                         *)
(* A definition marked "Fault" is the next one with a slip in it and no    *)
(* part of the specification.                                              *)
(***************************************************************************)
EXTENDS AppConfig

CONSTANTS
  Workers,       \* handlers that may run at once
  Files,         \* names of configuration files
  CommandLines,  \* sequences of options
  Disks,         \* what the configuration files may hold
  Missing,       \* no such file
  Malformed,     \* a file that is not JSON, a -D argument without "="
  Nothing

ASSUME NothingAssumption == Nothing # "aborted"

ASSUME FilesAssumption == String["app.configFile"] \in Files /\ Malformed \notin Files

ASSUME CommandLinesAssumption ==
  \A line \in CommandLines :
    /\ Len(line) \in Nat /\ DOMAIN line = 1..Len(line)
    /\ \A i \in DOMAIN line :
         /\ line[i].option \in {"help", "config", "define"}
         /\ line[i].option = "config" => line[i].value \in Files
         /\ line[i].option = "define" /\ line[i].value # Malformed
              /\ line[i].key = "app.configFile" => line[i].value \in Files

ASSUME DisksAssumption == \A d \in Disks : DOMAIN d = Files

CacheNames == {"currencies", "latest_rate", "history"}

\* The objects of main that others depend on, in the order of construction.
Objects ==
  <<"frankfurter", "currencies", "latest_rate", "history", "services", "server", "serverThread">>

VARIABLES
  stage,         \* how far main has come
  commandLine,
  parsed,        \* number of options processed
  helpRequested,
  disk,
  layers,        \* config()
  ssl,           \* is the SSL library initialized
  built,         \* main's objects that exist, in the order of construction
  capacity,      \* maxElements_ of each cache
  sweeper,       \* the thread of each cache
  server,        \* the gRPC server
  serverThread,
  place,         \* where each handler is
  exitCode

Course == INSTANCE HandlerCourse

given == <<commandLine, disk>>
options == <<parsed, helpRequested>>
configured == <<given, options, layers>>
caches == <<capacity, sweeper>>
running == <<server, serverThread, place>>
resources == <<ssl, built, caches, running>>
vars == <<stage, configured, resources, exitCode>>

Stages ==
  {"options", "load", "log", "ssl", "client", "services", "listen", "thread", "serving",
   "shutdown", "shuttingDown", "join", "closeSSL", "leave", "exited"} \union CacheNames

Init ==
  /\ stage = "options"
  /\ commandLine \in CommandLines
  /\ parsed = 0
  /\ helpRequested = FALSE
  /\ disk \in Disks
  /\ layers = OwnLayer
  /\ ssl = FALSE
  /\ built = <<>>
  /\ capacity = [c \in CacheNames |-> 0]
  /\ sweeper = [c \in CacheNames |-> "none"]
  /\ server = "none"
  /\ serverThread = "none"
  /\ Course!Init
  /\ exitCode = Nothing

Exists(object) == object \in Range(built)

-----------------------------------------------------------------------------
(* Leaving main, and what Poco makes of it. *)

\* main returns, and its objects go.
Returns(code) == exitCode' = code /\ stage' = "leave"

\* An exception: Poco's run, which catches it, returns EXIT_SOFTWARE.
Throws ==
  /\ Returns("EXIT_SOFTWARE")
  /\ UNCHANGED <<configured, resources>>

-----------------------------------------------------------------------------
(* Options. *)

Option == commandLine[parsed + 1]

MoreOptions == stage = "options" /\ parsed < Len(commandLine)

\* --help stops the processing of options.
Help ==
  /\ MoreOptions
  /\ Option.option = "help"
  /\ helpRequested' = TRUE
  /\ parsed' = Len(commandLine)
  /\ UNCHANGED <<stage, given, layers, resources, exitCode>>

\* --config may be given once only.
Repeated ==
  Option.option = "config" /\ \E i \in 1..parsed : commandLine[i].option = "config"

\* --config is bound to a key, --define names one.
Define ==
  /\ MoreOptions
  /\ Option.option \in {"config", "define"}
  /\ Option.value # Malformed /\ ~Repeated
  /\ layers' = WithSetting(layers,
                 IF Option.option = "config" THEN "app.configFile" ELSE Option.key,
                 Option.value)
  /\ parsed' = parsed + 1
  /\ UNCHANGED <<stage, given, helpRequested, resources, exitCode>>

\* handleDefine throws, or Poco's option processor, during init, and Poco's
\* run makes EXIT_CONFIG of it.
BadOption ==
  /\ MoreOptions
  /\ Repeated \/ (Option.option = "define" /\ Option.value = Malformed)
  /\ exitCode' = "EXIT_CONFIG"
  /\ stage' = "exited"
  /\ UNCHANGED <<configured, resources>>

StartMain ==
  /\ stage = "options"
  /\ parsed = Len(commandLine)
  /\ IF helpRequested
     THEN Returns("EXIT_OK")
     ELSE stage' = "load" /\ UNCHANGED exitCode
  /\ UNCHANGED <<configured, resources>>

-----------------------------------------------------------------------------
(* Building. *)

LoadFile ==
  /\ stage = "load"
  /\ LET contents == disk[getString(layers, "app.configFile")]
     IN  \/ contents = Malformed /\ Throws
         \/ /\ contents # Malformed
            /\ layers' = IF contents = Missing THEN layers ELSE loadJsonFile(layers, contents)
            /\ stage' = "log"
            /\ UNCHANGED <<given, options, resources, exitCode>>

\* The names Poco's setLevel knows, "off" becoming "none" before.
Levels == {"off", "none", "fatal", "critical", "error", "warning", "notice",
           "information", "debug", "trace"}

SetupLogging ==
  /\ stage = "log"
  /\ \/ getString(layers, "logging.level") \notin Levels /\ Throws
     \/ /\ getString(layers, "logging.level") \in Levels
        /\ stage' = "ssl"
        /\ UNCHANGED <<configured, resources, exitCode>>

InitializeSSL ==
  /\ stage = "ssl"
  /\ ssl' = TRUE
  /\ stage' = "client"
  /\ UNCHANGED <<configured, built, caches, running, exitCode>>

\* An object is there, and main goes on to the next.
Builds(object, next) ==
  /\ built' = Append(built, object)
  /\ stage' = next
  /\ UNCHANGED <<configured, ssl, place, exitCode>>

BuildClient ==
  /\ stage = "client"
  /\ \/ getInt(layers, "external_api.timeout_ms") = NotANumber /\ Throws
     \/ /\ getInt(layers, "external_api.timeout_ms") # NotANumber
        /\ Builds("frankfurter", "currencies")
        /\ UNCHANGED <<caches, server, serverThread>>

\* The arguments of the constructor of a cache, if they can be had.
Readable(c) ==
  c # "currencies" =>
    getInt(layers, MaxAgeKey(c)) # NotANumber /\ getInt(layers, MaxElementsKey(c)) # NotANumber

MaxElements(c) == IF c = "currencies" THEN 8 ELSE ToSize(getInt(layers, MaxElementsKey(c)))

AfterCache(c) ==
  CASE c = "currencies" -> "latest_rate"
    [] c = "latest_rate" -> "history"
    [] c = "history" -> "services"

\* The constructor throws before it starts the sweeper.
RefuseCache(c) ==
  /\ stage = c
  /\ Readable(c) => MaxElements(c) = 0
  /\ Throws

BuildCache(c) ==
  /\ stage = c
  /\ Readable(c)
  /\ MaxElements(c) # 0
  /\ capacity' = [capacity EXCEPT ![c] = MaxElements(c)]
  /\ sweeper' = [sweeper EXCEPT ![c] = "running"]
  /\ Builds(c, AfterCache(c))
  /\ UNCHANGED <<server, serverThread>>

BuildServices ==
  /\ stage = "services"
  /\ Builds("services", "listen")
  /\ UNCHANGED <<caches, server, serverThread>>

UnreadablePort ==
  /\ stage = "listen"
  /\ getInt(layers, "server.grpc_port") = NotANumber
  /\ Throws

\* From here on requests come in.
BuildAndStart ==
  /\ stage = "listen"
  /\ getInt(layers, "server.grpc_port") # NotANumber
  /\ server' = "accepting"
  /\ Builds("server", "thread")
  /\ UNCHANGED <<caches, serverThread>>

\* The port is taken: BuildAndStart returns null.
FailToStart ==
  /\ stage = "listen"
  /\ getInt(layers, "server.grpc_port") # NotANumber
  /\ ssl' = FALSE
  /\ Returns("EXIT_SOFTWARE")
  /\ UNCHANGED <<configured, built, caches, running>>

StartServerThread ==
  /\ stage = "thread"
  /\ serverThread' = "waiting"
  /\ Builds("serverThread", "serving")
  /\ UNCHANGED <<caches, server>>

-----------------------------------------------------------------------------
(* Serving and shutting down. *)

\* Fault: the SSL library is given up before the server is.
TerminateClosingSSL ==
  /\ stage = "serving"
  /\ ssl' = FALSE
  /\ stage' = "shutdown"
  /\ UNCHANGED <<configured, built, caches, running, exitCode>>

\* waitForTerminationRequest returns.
Terminate ==
  /\ stage = "serving"
  /\ stage' = "shutdown"
  /\ UNCHANGED <<configured, resources, exitCode>>

GoesDown(next) ==
  /\ stage' = next
  /\ UNCHANGED <<configured, ssl, built, caches, place, exitCode>>

\* Fault: the thread is joined first, and the server shut down after.
JoinThenShutdown ==
  /\ stage = "shutdown"
  /\ serverThread = "ended"
  /\ server' = "stopping"
  /\ UNCHANGED serverThread
  /\ GoesDown("shuttingDown")

\* Fault: the thread is joined without Shutdown.
JoinOnly ==
  /\ stage = "shutdown"
  /\ UNCHANGED <<server, serverThread>>
  /\ GoesDown("join")

\* Shutdown takes no new requests and waits for the handlers of the old ones.
BeginShutdown ==
  /\ stage = "shutdown"
  /\ server' = "stopping"
  /\ UNCHANGED serverThread
  /\ GoesDown("shuttingDown")

\* Fault: the thread is not joined.
EndShutdownOnly ==
  /\ stage = "shuttingDown"
  /\ \A w \in Workers : place[w] = "idle"
  /\ server' = "down"
  /\ UNCHANGED serverThread
  /\ GoesDown("closeSSL")

EndShutdown ==
  /\ stage = "shuttingDown"
  /\ \A w \in Workers : place[w] = "idle"
  /\ server' = "down"
  /\ UNCHANGED serverThread
  /\ GoesDown("join")

JoinServerThread ==
  /\ stage = "join"
  /\ serverThread = "ended"
  /\ serverThread' = "joined"
  /\ UNCHANGED server
  /\ GoesDown("closeSSL")

UninitializeSSL ==
  /\ stage = "closeSSL"
  /\ ssl' = FALSE
  /\ Returns("EXIT_OK")
  /\ UNCHANGED <<configured, built, caches, running>>

-----------------------------------------------------------------------------
(* The objects of main go, the last one first. *)

Leaving == stage = "leave" /\ built # <<>>

Gone ==
  /\ built' = Front(built)
  /\ UNCHANGED <<configured, ssl, capacity, server, place>>

DestroyPlainObject ==
  /\ Leaving
  /\ Last(built) \in {"frankfurter", "services", "server"}
  /\ Gone
  /\ UNCHANGED <<stage, sweeper, serverThread, exitCode>>

\* The destructor of a thread that was not joined ends the process.
DestroyServerThread ==
  /\ Leaving
  /\ Last(built) = "serverThread"
  /\ IF serverThread = "joined"
     THEN UNCHANGED <<stage, exitCode>>
     ELSE stage' = "exited" /\ exitCode' = "aborted"
  /\ Gone
  /\ UNCHANGED <<sweeper, serverThread>>

\* The destructor of a cache asks the sweeper to stop and joins it.
StopSweeper(c) ==
  /\ Leaving
  /\ Last(built) = c
  /\ sweeper[c] = "running"
  /\ sweeper' = [sweeper EXCEPT ![c] = "stopping"]
  /\ UNCHANGED <<stage, configured, ssl, built, capacity, running, exitCode>>

DestroyCache(c) ==
  /\ Leaving
  /\ Last(built) = c
  /\ sweeper[c] = "ended"
  /\ Gone
  /\ UNCHANGED <<stage, sweeper, serverThread, exitCode>>

Exit ==
  /\ stage = "leave"
  /\ built = <<>>
  /\ stage' = "exited"
  /\ UNCHANGED <<configured, resources, exitCode>>

-----------------------------------------------------------------------------
(* The other threads. *)

ByMainUnchanged == UNCHANGED <<stage, configured, ssl, built, capacity, server, exitCode>>

\* Wait returns once the server is down.
ServerThreadEnds ==
  /\ serverThread = "waiting"
  /\ server = "down"
  /\ serverThread' = "ended"
  /\ ByMainUnchanged
  /\ UNCHANGED <<sweeper, place>>

SweeperEnds(c) ==
  /\ sweeper[c] = "stopping"
  /\ sweeper' = [sweeper EXCEPT ![c] = "ended"]
  /\ ByMainUnchanged
  /\ UNCHANGED <<serverThread, place>>

HandlersOnly == ByMainUnchanged /\ UNCHANGED <<sweeper, serverThread>>

Receive(w) == server = "accepting" /\ Course!Receive(w) /\ HandlersOnly
Miss(w) == Course!Miss(w) /\ HandlersOnly
Answer(w) == Course!Answer(w) /\ HandlersOnly
LookupNext(w) == Course!LookupNext(w) /\ HandlersOnly
Reply(w) == Course!Reply(w) /\ HandlersOnly

-----------------------------------------------------------------------------
MainStep ==
  \/ Help \/ Define \/ BadOption \/ StartMain
  \/ LoadFile \/ SetupLogging \/ InitializeSSL \/ BuildClient
  \/ \E c \in CacheNames : RefuseCache(c) \/ BuildCache(c)
  \/ BuildServices \/ UnreadablePort \/ BuildAndStart \/ FailToStart \/ StartServerThread
  \/ BeginShutdown \/ EndShutdown \/ JoinServerThread \/ UninitializeSSL
  \/ DestroyPlainObject \/ DestroyServerThread \/ Exit
  \/ \E c \in CacheNames : StopSweeper(c) \/ DestroyCache(c)

\* The process is no more.
Ended == stage = "exited" /\ UNCHANGED vars

Next ==
  \/ MainStep
  \/ Terminate
  \/ ServerThreadEnds
  \/ \E c \in CacheNames : SweeperEnds(c)
  \/ \E w \in Workers : Receive(w) \/ Miss(w) \/ Answer(w) \/ LookupNext(w) \/ Reply(w)
  \/ Ended

Spec == Init /\ [][Next]_vars

\* Every thread is scheduled; a sweeper that is asked to stop ends (property
\* DestructorReturns of TimeAndSizeBoundedCache) and so does a handler
\* (property EveryRequestAnswered of CurrencyServer).  Nobody need ask the
\* server to terminate.
FairSpec ==
  /\ Spec
  /\ WF_vars(MainStep)
  /\ WF_vars(ServerThreadEnds)
  /\ \A c \in CacheNames : WF_vars(SweeperEnds(c))
  /\ \A w \in Workers : WF_vars(Reply(w))

-----------------------------------------------------------------------------
(* Properties. *)

\* Every variable keeps to its type.
TypeOK ==
  /\ stage \in Stages
  /\ parsed \in 0..Len(commandLine)
  /\ ssl \in BOOLEAN
  /\ \E n \in 0..Len(Objects) : built = SubSeq(Objects, 1, n)
  /\ capacity \in [CacheNames -> 0..MaxSize]
  /\ sweeper \in [CacheNames -> {"none", "running", "stopping", "ended"}]
  /\ server \in {"none", "accepting", "stopping", "down"}
  /\ serverThread \in {"none", "waiting", "ended", "joined"}
  /\ place \in [Workers -> {"idle", "lookup", "fetch", "store"}]
  /\ exitCode \in {Nothing, "EXIT_OK", "EXIT_CONFIG", "EXIT_SOFTWARE", "aborted"}

\* A handler finds everything it works with: the server, the services, the
\* client and every cache while it runs, and the SSL library while it talks
\* to frankfurter.dev (main: Shutdown before join, uninitializeSSL and the
\* end of the scope).
HandlersUseWhatLives ==
  \A w \in Workers : place[w] # "idle" =>
    /\ {"frankfurter", "services", "server"} \union CacheNames \subseteq Range(built)
    /\ place[w] = "fetch" => ssl

\* No thread outlives what it works on, wherever main is left: a sweeper has
\* its cache, the waiting thread has the server, and when the process ends
\* none is left and none was destroyed unjoined (constructors of caches that
\* throw, BuildAndStart that fails, the normal end).
ThreadsEndBeforeWhatTheyUse ==
  /\ \A c \in CacheNames : sweeper[c] \in {"running", "stopping"} => Exists(c)
  /\ serverThread = "waiting" => Exists("server")
  /\ stage = "exited" =>
       /\ exitCode # "aborted"
       /\ serverThread # "waiting"
       /\ \A c \in CacheNames : sweeper[c] \in {"none", "ended"}

\* Whatever main waits for is on its way to an end: Shutdown for handlers that
\* no new ones join, join for a thread whose server is down, the destructor
\* of a cache for a sweeper that it had and has told to stop.  Nobody waits
\* for main in turn (main: Shutdown before join).
WaitsOnlyForWhatEnds ==
  /\ stage = "shuttingDown" => server = "stopping"
  /\ stage = "join" => server = "down" /\ serverThread \in {"waiting", "ended"}
  /\ \A c \in CacheNames : Exists(c) => sweeper[c] # "none"

\* The -D options for a key, as their places on the command line.
DefinedAt(key) ==
  {i \in DOMAIN commandLine : commandLine[i].option = "define" /\ commandLine[i].key = key}

ConfigFile ==
  LET named == {i \in DOMAIN commandLine : commandLine[i].option = "config"}
                 \union DefinedAt("app.configFile")
  IN  IF named = {} THEN "config/server.default.json" ELSE commandLine[Max(named)].value

\* What docs/architecture.md, 5.5, lets a setting be: the last -D for it, or
\* what the file says, or the default.
Demanded(key) ==
  LET contents == disk[ConfigFile]
  IN  IF DefinedAt(key) # {} THEN commandLine[Max(DefinedAt(key))].value
      ELSE IF contents # Missing /\ key \in DOMAIN contents THEN contents[key]
      ELSE Integer[key]

\* The caches have the room that was asked for: -D wins over the file
\* although it is processed first, the last -D over those before, and a file
\* that is missing or silent leaves the default (handleDefine, loadJsonFile,
\* the getters).
SettingsInForce ==
  \A c \in CacheNames \ {"currencies"} : Exists(c) =>
    /\ Demanded(MaxElementsKey(c)) \in Ints
    /\ capacity[c] = ToSize(Demanded(MaxElementsKey(c)))

\* main never hangs: from any point it comes to wait for the request to
\* terminate, or to the end of the process, with requests in progress or not.
ServesOrEnds == stage # "serving" ~> stage \in {"serving", "exited"}
=============================================================================
