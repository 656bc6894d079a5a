----------------------- MODULE CurrencyServerAppProofs -----------------------
(***************************************************************************)
(* Proofs about CurrencyServerApp, for any command lines, files and number *)
(* of handlers.                                                            *)
(***************************************************************************)
EXTENDS CurrencyServerApp, SequenceTheorems, TLAPS

-----------------------------------------------------------------------------
(* What main has built. *)

ObjectNames == {"frankfurter", "services", "server", "serverThread"} \union CacheNames

\* The place of an object in the order of construction.
At ==
  [o \in ObjectNames |->
     CASE o = "frankfurter" -> 1
       [] o = "currencies" -> 2
       [] o = "latest_rate" -> 3
       [] o = "history" -> 4
       [] o = "services" -> 5
       [] o = "server" -> 6
       [] o = "serverThread" -> 7]

InOrder(b) ==
  /\ b \in Seq(ObjectNames)
  /\ Len(b) \in 0..7
  /\ \A i \in 1..Len(b) : At[b[i]] = i

LEMMA AtFacts ==
  /\ \A o \in ObjectNames : At[o] \in 1..7
  /\ \A p, q \in ObjectNames : At[p] = At[q] => p = q
  BY DEF At, ObjectNames, CacheNames

\* What is there is what comes up to the last object.
LEMMA ThereUpToLast ==
  ASSUME NEW b, InOrder(b), NEW o \in ObjectNames
  PROVE  o \in Range(b) <=> At[o] <= Len(b)
<1>1. DOMAIN b = 1..Len(b)
  BY LenProperties DEF InOrder
<1>2. o \in Range(b) <=> \E i \in 1..Len(b) : b[i] = o
  BY <1>1 DEF Range
<1>3. \A i \in 1..Len(b) : b[i] \in ObjectNames
  BY ElementOfSeq DEF InOrder
<1>4. ASSUME o \in Range(b) PROVE At[o] <= Len(b)
  <2>1. PICK i \in 1..Len(b) : b[i] = o
    BY <1>2, <1>4
  <2> QED
    BY <2>1 DEF InOrder
<1>5. ASSUME At[o] <= Len(b) PROVE o \in Range(b)
  <2>1. At[o] \in 1..Len(b)
    BY AtFacts, <1>5 DEF InOrder
  <2>2. At[b[At[o]]] = At[o]
    BY <2>1 DEF InOrder
  <2>3. b[At[o]] = o
    BY <1>3, AtFacts, <2>1, <2>2
  <2> QED
    BY <1>2, <2>1, <2>3
<1> QED
  BY <1>4, <1>5

\* Construction of the next object.
LEMMA AppendRange ==
  ASSUME NEW b \in Seq(ObjectNames), NEW o \in ObjectNames
  PROVE  Range(Append(b, o)) = Range(b) \union {o}
<1>1. /\ Append(b, o) \in Seq(ObjectNames) /\ Len(Append(b, o)) = Len(b) + 1
      /\ Append(b, o)[Len(b) + 1] = o
      /\ \A i \in 1..Len(b) : Append(b, o)[i] = b[i]
  BY AppendProperties
<1>2. DOMAIN Append(b, o) = 1..(Len(b) + 1) /\ DOMAIN b = 1..Len(b) /\ Len(b) \in Nat
  BY <1>1, LenProperties
<1> QED
  BY <1>1, <1>2 DEF Range

LEMMA AppendInOrder ==
  ASSUME NEW b, InOrder(b), NEW o \in ObjectNames, At[o] = Len(b) + 1
  PROVE  InOrder(Append(b, o)) /\ Len(Append(b, o)) = Len(b) + 1
<1> DEFINE c == Append(b, o)
<1>1. /\ c \in Seq(ObjectNames) /\ Len(c) = Len(b) + 1
      /\ c[Len(b) + 1] = o
      /\ \A i \in 1..Len(b) : c[i] = b[i]
  BY AppendProperties DEF InOrder
<1> HIDE DEF c
<1>2. \A i \in 1..(Len(b) + 1) : At[c[i]] = i
  BY <1>1 DEF InOrder
<1>3. InOrder(c)
  BY <1>1, <1>2, AtFacts DEF InOrder
<1> QED
  BY <1>1, <1>3 DEF c

\* The end of the last one.
LEMMA FrontInOrder ==
  ASSUME NEW b, InOrder(b), b # <<>>
  PROVE  /\ InOrder(Front(b)) /\ Last(b) \in ObjectNames
         /\ \A o \in ObjectNames : o \in Range(Front(b)) <=> o \in Range(b) /\ o # Last(b)
<1>1. PICK n \in 0..6 : Len(b) = n + 1
  <2>1. Len(b) \in 1..7
    BY EmptySeq DEF InOrder
  <2> QED
    BY <2>1
<1>2. \A i \in 1..Len(b) : b[i] \in ObjectNames
  BY ElementOfSeq DEF InOrder
<1>3. /\ Front(b) \in Seq(ObjectNames) /\ Len(Front(b)) = n
      /\ \A i \in 1..n : Front(b)[i] = b[i]
  <2>1. Front(b) = SubSeq(b, 1, n)
    BY <1>1 DEF Front
  <2>2. /\ SubSeq(b, 1, n) \in Seq(ObjectNames)
        /\ Len(SubSeq(b, 1, n)) = IF 1 <= n THEN n - 1 + 1 ELSE 0
        /\ \A i \in 1..(n - 1 + 1) : SubSeq(b, 1, n)[i] = b[1 + i - 1]
    BY <1>1, <1>2, SubSeqProperties
  <2>3. \A i \in 1..n : i \in 1..(n - 1 + 1) /\ 1 + i - 1 = i
    BY <1>1
  <2> QED
    BY <1>1, <2>1, <2>2, <2>3
<1>4. At[Last(b)] = n + 1 /\ Last(b) \in ObjectNames
  BY <1>1, <1>2 DEF Last, InOrder
<1>5. InOrder(Front(b))
  <2>1. \A i \in 1..n : At[Front(b)[i]] = i
    BY <1>1, <1>3 DEF InOrder
  <2> QED
    BY <1>3, <2>1 DEF InOrder
<1>6. ASSUME NEW o \in ObjectNames
      PROVE  o \in Range(Front(b)) <=> o \in Range(b) /\ o # Last(b)
  <2>1. o \in Range(Front(b)) <=> At[o] <= n
    BY <1>3, <1>5, ThereUpToLast
  <2>2. o \in Range(b) <=> At[o] <= n + 1
    BY <1>1, ThereUpToLast
  <2>3. o = Last(b) <=> At[o] = n + 1
    BY <1>4, AtFacts
  <2> QED
    BY <2>1, <2>2, <2>3, AtFacts
<1> QED
  BY <1>4, <1>5, <1>6

\* How many objects there are while main is at work.
Progress ==
  [s \in Stages \ {"leave", "exited"} |->
     CASE s \in {"options", "load", "log", "ssl", "client"} -> 0
       [] s = "currencies" -> 1
       [] s = "latest_rate" -> 2
       [] s = "history" -> 3
       [] s = "services" -> 4
       [] s = "listen" -> 5
       [] s = "thread" -> 6
       [] OTHER -> 7]

Built ==
  /\ InOrder(built)
  /\ stage \in Stages
  /\ stage \in DOMAIN Progress => Len(built) = Progress[stage]

\* The steps of main that neither build nor destroy an object.
MovesOn ==
  \/ Help \/ Define \/ BadOption \/ StartMain
  \/ LoadFile \/ SetupLogging \/ InitializeSSL
  \/ \E c \in CacheNames : RefuseCache(c) \/ StopSweeper(c)
  \/ UnreadablePort \/ FailToStart
  \/ Terminate \/ BeginShutdown \/ EndShutdown \/ JoinServerThread \/ UninitializeSSL
  \/ Exit

HandlerStep(w) == Receive(w) \/ Miss(w) \/ Answer(w) \/ LookupNext(w) \/ Reply(w)

OtherThreads ==
  \/ ServerThreadEnds
  \/ \E c \in CacheNames : SweeperEnds(c)
  \/ \E w \in Workers : HandlerStep(w)

LEMMA NextCases ==
  ASSUME [Next]_vars
  PROVE  \/ MovesOn \/ OtherThreads \/ UNCHANGED vars
         \/ BuildClient \/ \E c \in CacheNames : BuildCache(c)
         \/ BuildServices \/ BuildAndStart \/ StartServerThread
         \/ DestroyPlainObject \/ DestroyServerThread \/ \E c \in CacheNames : DestroyCache(c)
  BY DEF Next, MainStep, MovesOn, OtherThreads, HandlerStep, Ended

\* What every step of a handler has in common.
LEMMA HandlerMoves ==
  ASSUME NEW w \in Workers, HandlerStep(w)
  PROVE  /\ HandlersOnly
         /\ \E from, to \in {"idle", "lookup", "fetch", "store"} :
              /\ place[w] = from /\ place' = [place EXCEPT ![w] = to]
              /\ from = "idle" => server = "accepting"
  BY DEF HandlerStep, Receive, Miss, Answer, LookupNext, Reply, Course!Receive, Course!Miss,
         Course!Answer, Course!LookupNext, Course!Reply, Course!Moves

LEMMA BuiltStep == Built /\ [Next]_vars => Built'
<1> SUFFICES ASSUME Built, [Next]_vars PROVE Built'
  OBVIOUS
<1>1. ASSUME built' = built,
             \/ stage' = stage
             \/ stage' \in {"leave", "exited"}
             \/ /\ {stage, stage'} \subseteq DOMAIN Progress
                /\ Progress[stage'] = Progress[stage]
      PROVE  Built'
  BY <1>1 DEF Built, InOrder, Progress, Stages
<1>2. ASSUME NEW o \in ObjectNames, NEW next, Builds(o, next),
             {stage, next} \subseteq DOMAIN Progress,
             Progress[stage] + 1 = At[o], Progress[next] = At[o]
      PROVE  Built'
  <2>1. built' = Append(built, o) /\ stage' = next
    BY <1>2 DEF Builds
  <2>2. Len(built) = Progress[stage] /\ Progress[stage] \in 0..7
    BY <1>2 DEF Built, Progress
  <2>3. InOrder(built') /\ Len(built') = Len(built) + 1
    BY <1>2, <2>1, <2>2, AppendInOrder DEF Built
  <2> QED
    BY <1>2, <2>1, <2>2, <2>3 DEF Built, Progress
<1>3. ASSUME Leaving, Gone, stage' \in {"leave", "exited"} PROVE Built'
  <2>1. InOrder(built')
    BY <1>3, FrontInOrder DEF Leaving, Gone, Built
  <2> QED
    BY <1>3, <2>1 DEF Built, Progress, Stages
<1>4. CASE MovesOn
  <2>1. built' = built
    BY <1>4 DEF MovesOn, Help, Define, BadOption, StartMain, LoadFile, SetupLogging,
                InitializeSSL, RefuseCache, StopSweeper, UnreadablePort, FailToStart, Terminate,
                BeginShutdown, EndShutdown, JoinServerThread, UninitializeSSL, Exit,
                Throws, GoesDown, resources
  <2>2. \/ stage' = stage
        \/ stage' \in {"leave", "exited"}
        \/ /\ {stage, stage'} \subseteq DOMAIN Progress
           /\ Progress[stage'] = Progress[stage]
    BY <1>4 DEF MovesOn, Help, Define, BadOption, StartMain, LoadFile, SetupLogging,
                InitializeSSL, RefuseCache, StopSweeper, UnreadablePort, FailToStart, Terminate,
                BeginShutdown, EndShutdown, JoinServerThread, UninitializeSSL, Exit,
                Throws, Returns, GoesDown, MoreOptions, Progress, Stages
  <2> QED
    BY <1>1, <2>1, <2>2
<1>5. CASE OtherThreads \/ UNCHANGED vars
  <2>1. built' = built /\ stage' = stage
    BY <1>5, HandlerMoves DEF OtherThreads, ServerThreadEnds, SweeperEnds, HandlersOnly,
                ByMainUnchanged, vars, resources
  <2> QED
    BY <1>1, <2>1
<1>6. CASE BuildClient
  <2>1. CASE Throws
    BY <1>1, <2>1 DEF Throws, Returns, resources
  <2>2. CASE ~Throws
    <3>1. stage = "client" /\ Builds("frankfurter", "currencies")
      BY <1>6, <2>2 DEF BuildClient
    <3>2. /\ {"client", "currencies"} \subseteq DOMAIN Progress
          /\ Progress["client"] + 1 = At["frankfurter"]
          /\ Progress["currencies"] = At["frankfurter"] /\ "frankfurter" \in ObjectNames
      BY DEF Progress, Stages, At, ObjectNames, CacheNames
    <3> QED
      BY <1>2, <3>1, <3>2
  <2> QED
    BY <2>1, <2>2
<1>7. ASSUME NEW c \in CacheNames, BuildCache(c) PROVE Built'
  <2>1. stage = c /\ Builds(c, AfterCache(c))
    BY <1>7 DEF BuildCache
  <2>2. /\ {c, AfterCache(c)} \subseteq DOMAIN Progress
        /\ Progress[c] + 1 = At[c] /\ Progress[AfterCache(c)] = At[c]
    BY DEF AfterCache, Progress, Stages, At, ObjectNames, CacheNames
  <2> QED
    BY <1>2, <2>1, <2>2 DEF ObjectNames
<1>8. CASE BuildServices \/ BuildAndStart \/ StartServerThread
  <2>1. \/ stage = "services" /\ Builds("services", "listen")
        \/ stage = "listen" /\ Builds("server", "thread")
        \/ stage = "thread" /\ Builds("serverThread", "serving")
    BY <1>8 DEF BuildServices, BuildAndStart, StartServerThread
  <2>2. /\ {"services", "listen", "thread", "serving"} \subseteq DOMAIN Progress
        /\ {"services", "server", "serverThread"} \subseteq ObjectNames
        /\ Progress["services"] = 4 /\ At["services"] = 5
        /\ Progress["listen"] = 5 /\ At["server"] = 6
        /\ Progress["thread"] = 6 /\ At["serverThread"] = 7 /\ Progress["serving"] = 7
    BY DEF Progress, Stages, At, ObjectNames, CacheNames
  <2>3. CASE stage = "services" /\ Builds("services", "listen")
    BY <1>2, <2>2, <2>3
  <2>4. CASE stage = "listen" /\ Builds("server", "thread")
    BY <1>2, <2>2, <2>4
  <2>5. CASE stage = "thread" /\ Builds("serverThread", "serving")
    BY <1>2, <2>2, <2>5
  <2> QED
    BY <2>1, <2>3, <2>4, <2>5
<1>9. CASE DestroyPlainObject \/ DestroyServerThread \/ \E c \in CacheNames : DestroyCache(c)
  <2>1. Leaving /\ Gone
    BY <1>9 DEF DestroyPlainObject, DestroyServerThread, DestroyCache
  <2>2. stage' \in {"leave", "exited"}
    BY <1>9 DEF DestroyPlainObject, DestroyServerThread, DestroyCache, Leaving
  <2> QED
    BY <1>3, <2>1, <2>2
<1> QED
  BY <1>4, <1>5, <1>6, <1>7, <1>8, <1>9, NextCases

LEMMA BuildingOrdered == Spec => []Built
<1>1. Init => Built
  BY EmptySeq DEF Init, Built, InOrder, Progress, Stages
<1> QED
  BY <1>1, BuiltStep, PTL DEF Spec

-----------------------------------------------------------------------------
(* Handlers and what they use. *)

Serving == {"thread", "serving", "shutdown", "shuttingDown"}

\* While main is at these the SSL library is open.
SSLOpen == Serving \union {"client", "services", "listen", "join", "closeSSL"} \union CacheNames

HandlersInTime ==
  /\ place \in [Workers -> {"idle", "lookup", "fetch", "store"}]
  /\ stage \in SSLOpen => ssl
  /\ server = "accepting" => stage \in {"thread", "serving", "shutdown"}
  /\ \A w \in Workers : place[w] # "idle" => stage \in Serving

LEMMA HandlersStep == HandlersInTime /\ [Next]_vars => HandlersInTime'
<1> SUFFICES ASSUME HandlersInTime, [Next]_vars PROVE HandlersInTime'
  OBVIOUS
<1> USE DEF HandlersInTime, SSLOpen, Serving, CacheNames
<1>1. CASE MovesOn
  <2>1. CASE Help \/ Define \/ BadOption \/ StartMain \/ LoadFile \/ SetupLogging \/ InitializeSSL
    BY <2>1 DEF Help, Define, BadOption, StartMain, LoadFile, SetupLogging, InitializeSSL,
                MoreOptions, Throws, Returns, resources, running
  <2>2. ASSUME NEW c \in CacheNames, RefuseCache(c) \/ StopSweeper(c) PROVE HandlersInTime'
    BY <2>2 DEF RefuseCache, StopSweeper, Throws, Returns, resources, running
  <2>3. CASE UnreadablePort \/ FailToStart \/ Terminate \/ BeginShutdown
    BY <2>3 DEF UnreadablePort, FailToStart, Terminate, BeginShutdown, GoesDown,
                Throws, Returns, resources, running
  <2>4. CASE EndShutdown \/ JoinServerThread \/ UninitializeSSL \/ Exit
    BY <2>4 DEF EndShutdown, JoinServerThread, UninitializeSSL, Exit, GoesDown,
                Returns, resources, running
  <2> QED
    BY <1>1, <2>1, <2>2, <2>3, <2>4 DEF MovesOn
<1>2. CASE OtherThreads
  <2>1. UNCHANGED <<stage, ssl, server>>
    BY <1>2, HandlerMoves DEF OtherThreads, ServerThreadEnds, SweeperEnds, HandlersOnly,
                ByMainUnchanged
  <2>2. CASE UNCHANGED place
    BY <2>1, <2>2
  <2>3. ASSUME NEW w \in Workers, HandlerStep(w)
        PROVE  HandlersInTime'
    BY <2>1, <2>3, HandlerMoves
  <2> QED
    BY <1>2, <2>2, <2>3 DEF OtherThreads, ServerThreadEnds, SweeperEnds
<1>3. CASE BuildClient \/ BuildServices \/ BuildAndStart \/ StartServerThread
  BY <1>3 DEF BuildClient, BuildServices, BuildAndStart, StartServerThread, Builds,
              Throws, Returns, resources, running
<1>4. ASSUME NEW c \in CacheNames, BuildCache(c) PROVE HandlersInTime'
  BY <1>4 DEF BuildCache, Builds, AfterCache
<1>5. ASSUME NEW c \in CacheNames, DestroyCache(c) PROVE HandlersInTime'
  BY <1>5 DEF DestroyCache, Leaving, Gone
<1>6. CASE DestroyPlainObject \/ DestroyServerThread
  BY <1>6 DEF DestroyPlainObject, DestroyServerThread, Leaving, Gone
<1>7. CASE UNCHANGED vars
  BY <1>7 DEF vars, resources, running
<1> QED
  BY <1>1, <1>2, <1>3, <1>4, <1>5, <1>6, <1>7, NextCases

\* A handler finds the server, the services, the client, every cache and,
\* when it needs it, the SSL library (HandlersUseWhatLives; Shutdown comes
\* before everything main takes down).
THEOREM NothingGoneInUse == Spec => []HandlersUseWhatLives
<1>1. Init => HandlersInTime
  BY DEF Init, Course!Init, HandlersInTime, SSLOpen, Serving, CacheNames
<1>2. Built /\ HandlersInTime => HandlersUseWhatLives
  <2> SUFFICES ASSUME Built, HandlersInTime, NEW w \in Workers, place[w] # "idle"
               PROVE  /\ {"frankfurter", "services", "server"} \union CacheNames
                            \subseteq Range(built)
                      /\ place[w] = "fetch" => ssl
    BY DEF HandlersUseWhatLives
  <2>1. stage \in Serving
    BY DEF HandlersInTime
  <2>2. Len(built) >= 6
    <3>1. stage \in DOMAIN Progress /\ Progress[stage] \in {6, 7}
      BY <2>1 DEF Serving, Progress, Stages
    <3> QED
      BY <3>1 DEF Built
  <2>3. \A o \in {"frankfurter", "services", "server"} \union CacheNames :
          o \in ObjectNames /\ At[o] <= 6 /\ At[o] \in Nat
    BY DEF At, ObjectNames, CacheNames
  <2>4. Len(built) \in Nat
    BY DEF Built, InOrder
  <2>5. \A o \in {"frankfurter", "services", "server"} \union CacheNames : Exists(o)
    BY <2>2, <2>3, <2>4, ThereUpToLast DEF Built, Exists
  <2> QED
    BY <2>1, <2>5 DEF HandlersInTime, SSLOpen, Exists
<1> QED
  BY <1>1, <1>2, HandlersStep, BuildingOrdered, PTL DEF Spec

-----------------------------------------------------------------------------
(* Threads and their ends. *)

ThreadsInTime ==
  /\ sweeper \in [CacheNames -> {"none", "running", "stopping", "ended"}]
  /\ \A c \in CacheNames : sweeper[c] \in {"running", "stopping"} => Exists(c)
  /\ serverThread = "waiting" => stage \in {"serving", "shutdown", "shuttingDown", "join"}
  /\ stage = "closeSSL" => serverThread = "joined"
  /\ stage = "leave" /\ Exists("serverThread") => serverThread = "joined"
  /\ stage = "exited" => \A c \in CacheNames : sweeper[c] \notin {"running", "stopping"}
  /\ exitCode # "aborted"

LEMMA ThreadsStep == Built /\ ThreadsInTime /\ [Next]_vars => ThreadsInTime'
<1> SUFFICES ASSUME Built, ThreadsInTime, [Next]_vars PROVE ThreadsInTime'
  OBVIOUS
<1>1. \A o \in ObjectNames : Exists(o) <=> At[o] <= Len(built)
  BY ThereUpToLast DEF Built, Exists
<1>2. Exists("serverThread") /\ stage \in DOMAIN Progress => Progress[stage] = 7
  <2>1. "serverThread" \in ObjectNames /\ At["serverThread"] = 7
    BY DEF At, ObjectNames
  <2>2. stage \in DOMAIN Progress => Progress[stage] \in 0..7
    BY DEF Progress
  <2> QED
    BY <1>1, <2>1, <2>2 DEF Built
<1>3. stage = "options" => \A c \in CacheNames : ~Exists(c)
  <2>1. "options" \in DOMAIN Progress /\ Progress["options"] = 0
    BY DEF Progress, Stages
  <2>2. \A c \in CacheNames : c \in ObjectNames
    BY DEF ObjectNames
  <2> QED
    BY <1>1, <2>1, <2>2, AtFacts DEF Built
<1>4. built = <<>> => \A o : ~Exists(o)
  BY DEF Exists, Range
<1>5. built' = built => \A o : Exists(o)' <=> Exists(o)
  BY DEF Exists
<1>6. CASE MovesOn
  <2>1. CASE Help \/ Define \/ BadOption \/ StartMain \/ LoadFile \/ SetupLogging \/ InitializeSSL
    BY <1>2, <1>3, <1>5, <2>1
       DEF Help, Define, BadOption, StartMain, LoadFile, SetupLogging, InitializeSSL,
           MoreOptions, Throws, Returns, resources, caches, running, ThreadsInTime, Progress, Stages
  <2>2. ASSUME NEW c \in CacheNames, RefuseCache(c) PROVE ThreadsInTime'
    BY <1>2, <1>5, <2>2 DEF RefuseCache, Throws, Returns, resources, caches, running,
                            ThreadsInTime, Progress, Stages, CacheNames
  <2>3. ASSUME NEW c \in CacheNames, StopSweeper(c) PROVE ThreadsInTime'
    BY <1>5, <2>3 DEF StopSweeper, Leaving, running, ThreadsInTime
  <2>4. CASE UnreadablePort \/ FailToStart
    BY <1>2, <1>5, <2>4 DEF UnreadablePort, FailToStart, Throws, Returns, resources, caches,
                            running, ThreadsInTime, Progress, Stages
  <2>5. CASE Terminate \/ BeginShutdown \/ EndShutdown \/ JoinServerThread
    BY <1>5, <2>5 DEF Terminate, BeginShutdown, EndShutdown, JoinServerThread, GoesDown,
                      resources, caches, running, ThreadsInTime
  <2>6. CASE UninitializeSSL
    BY <1>5, <2>6 DEF UninitializeSSL, Returns, caches, running, ThreadsInTime
  <2>7. CASE Exit
    BY <1>4, <1>5, <2>7 DEF Exit, resources, caches, running, ThreadsInTime
  <2> QED
    BY <1>6, <2>1, <2>2, <2>3, <2>4, <2>5, <2>6, <2>7 DEF MovesOn
<1>7. CASE OtherThreads
  <2>1. UNCHANGED <<stage, built, exitCode>>
    BY <1>7, HandlerMoves DEF OtherThreads, ServerThreadEnds, SweeperEnds, HandlersOnly,
                ByMainUnchanged
  <2>2. CASE ServerThreadEnds
    BY <1>5, <2>1, <2>2 DEF ServerThreadEnds, ThreadsInTime
  <2>3. ASSUME NEW c \in CacheNames, SweeperEnds(c) PROVE ThreadsInTime'
    BY <1>5, <2>1, <2>3 DEF SweeperEnds, ThreadsInTime
  <2>4. ASSUME NEW w \in Workers, HandlerStep(w)
        PROVE  ThreadsInTime'
    BY <1>5, <2>1, <2>4, HandlerMoves DEF HandlersOnly, ThreadsInTime
  <2> QED
    BY <1>7, <2>2, <2>3, <2>4 DEF OtherThreads
<1>8. ASSUME NEW o \in ObjectNames, NEW next, Builds(o, next)
      PROVE  \A p : Exists(p)' <=> Exists(p) \/ p = o
  BY <1>8, AppendRange DEF Builds, Built, InOrder, Exists
<1>9. CASE BuildClient \/ BuildServices \/ BuildAndStart
  <2>1. CASE Throws
    BY <1>2, <1>5, <1>9, <2>1
       DEF BuildClient, BuildServices, BuildAndStart, Throws, Returns, Builds, resources, caches,
           running, ThreadsInTime, Progress, Stages
  <2>2. CASE ~Throws
    <3>1. \/ stage = "client" /\ Builds("frankfurter", "currencies")
          \/ stage = "services" /\ Builds("services", "listen")
          \/ stage = "listen" /\ Builds("server", "thread")
      BY <1>9, <2>2 DEF BuildClient, BuildServices, BuildAndStart
    <3>2. UNCHANGED <<exitCode, serverThread, sweeper>>
          /\ stage' \in {"currencies", "listen", "thread"}
      BY <1>9, <2>2, <3>1 DEF BuildClient, BuildServices, BuildAndStart, Builds, caches
    <3>3. \A p : Exists(p) => Exists(p)'
      BY <1>8, <3>1 DEF ObjectNames
    <3>4. serverThread # "waiting"
      BY <3>1 DEF ThreadsInTime
    <3> QED
      BY <3>2, <3>3, <3>4 DEF ThreadsInTime
  <2> QED
    BY <2>1, <2>2
<1>10. CASE StartServerThread
  <2>1. \A p : Exists(p) => Exists(p)'
    BY <1>8, <1>10 DEF StartServerThread, ObjectNames
  <2> QED
    BY <1>10, <2>1 DEF StartServerThread, Builds, caches, ThreadsInTime
<1>11. ASSUME NEW c \in CacheNames, BuildCache(c) PROVE ThreadsInTime'
  <2>1. Builds(c, AfterCache(c)) /\ stage = c /\ sweeper' = [sweeper EXCEPT ![c] = "running"]
        /\ serverThread' = serverThread
    BY <1>11 DEF BuildCache
  <2>2. \A p : Exists(p)' <=> Exists(p) \/ p = c
    BY <1>8, <2>1 DEF ObjectNames
  <2>3. stage' = AfterCache(c) /\ exitCode' = exitCode
    BY <2>1 DEF Builds
  <2>4. stage' \in {"latest_rate", "history", "services"} /\ serverThread # "waiting"
    BY <2>1, <2>3 DEF AfterCache, CacheNames, ThreadsInTime
  <2> QED
    BY <2>1, <2>2, <2>3, <2>4 DEF ThreadsInTime
<1>12. ASSUME Leaving, Gone
       PROVE  \A o \in ObjectNames : Exists(o)' <=> Exists(o) /\ o # Last(built)
  BY <1>12, FrontInOrder DEF Leaving, Gone, Built, Exists
<1>13. {"serverThread"} \union CacheNames \subseteq ObjectNames
  BY DEF ObjectNames
<1>14. CASE DestroyPlainObject
  BY <1>12, <1>13, <1>14 DEF DestroyPlainObject, Leaving, ThreadsInTime, CacheNames
<1>15. ASSUME NEW c \in CacheNames, DestroyCache(c) PROVE ThreadsInTime'
  BY <1>12, <1>13, <1>15 DEF DestroyCache, Leaving, ThreadsInTime
<1>16. CASE DestroyServerThread
  <2>1. Leaving /\ Gone /\ Last(built) = "serverThread"
    BY <1>16 DEF DestroyServerThread
  <2>2. Exists("serverThread")
    <3>1. Len(built) \in 1..Len(built) /\ DOMAIN built = 1..Len(built)
      BY <2>1, EmptySeq, LenProperties DEF Leaving, Built, InOrder
    <3> QED
      BY <2>1, <3>1 DEF Exists, Range, Last
  <2>3. serverThread = "joined"
    BY <2>1, <2>2 DEF Leaving, ThreadsInTime
  <2> QED
    BY <1>12, <1>13, <1>16, <2>1, <2>3 DEF DestroyServerThread, Leaving, ThreadsInTime, CacheNames
<1>17. CASE UNCHANGED vars
  BY <1>5, <1>17 DEF vars, resources, caches, running, ThreadsInTime
<1> QED
  BY <1>6, <1>7, <1>9, <1>10, <1>11, <1>14, <1>15, <1>16, <1>17, NextCases

LEMMA ThreadsAlwaysInTime == Spec => [](Built /\ ThreadsInTime)
<1>1. Init => ThreadsInTime
  BY NothingAssumption DEF Init, ThreadsInTime
<1> QED
  BY <1>1, ThreadsStep, BuildingOrdered, PTL DEF Spec

\* A sweeper never outlives its cache nor the waiting thread the server, and
\* the process ends with all threads through, by whichever exit main is left
\* (ThreadsEndBeforeWhatTheyUse).
THEOREM NoThreadLeftBehind == Spec => []ThreadsEndBeforeWhatTheyUse
<1>1. Built /\ ThreadsInTime => ThreadsEndBeforeWhatTheyUse
  <2> SUFFICES ASSUME Built, ThreadsInTime PROVE ThreadsEndBeforeWhatTheyUse
    OBVIOUS
  <2>1. ASSUME serverThread = "waiting" PROVE Exists("server")
    <3>1. stage \in DOMAIN Progress /\ Progress[stage] = 7
      BY <2>1 DEF ThreadsInTime, Progress, Stages
    <3>2. "server" \in ObjectNames /\ At["server"] = 6
      BY DEF At, ObjectNames
    <3>3. Len(built) = 7 /\ InOrder(built)
      BY <3>1 DEF Built
    <3>4. "server" \in Range(built) <=> At["server"] <= Len(built)
      BY <3>2, <3>3, ThereUpToLast
    <3> QED
      BY <3>2, <3>3, <3>4 DEF Exists
  <2> QED
    BY <2>1 DEF ThreadsInTime, ThreadsEndBeforeWhatTheyUse
<1> QED
  BY <1>1, ThreadsAlwaysInTime, PTL

-----------------------------------------------------------------------------
(* Whom main waits for. *)

Orderly ==
  /\ server \in {"none", "accepting", "stopping", "down"}
  /\ serverThread \in {"none", "waiting", "ended", "joined"}
  /\ stage \in {"thread", "serving", "shutdown"} => server = "accepting"
  /\ stage = "shuttingDown" => server = "stopping"
  /\ stage = "join" => server = "down"
  /\ stage \in {"serving", "shutdown", "shuttingDown"} => serverThread = "waiting"
  /\ stage = "join" => serverThread \in {"waiting", "ended"}
  /\ \A c \in CacheNames : Exists(c) => sweeper[c] # "none"

LEMMA OrderlyStep == Built /\ ThreadsInTime /\ Orderly /\ [Next]_vars => Orderly'
<1> SUFFICES ASSUME Built, ThreadsInTime, Orderly, [Next]_vars PROVE Orderly'
  OBVIOUS
<1>1. sweeper \in [CacheNames -> {"none", "running", "stopping", "ended"}]
  BY DEF ThreadsInTime
<1>2. built' = built => \A o : Exists(o)' <=> Exists(o)
  BY DEF Exists
<1>3. ASSUME NEW o \in ObjectNames, NEW next, Builds(o, next)
      PROVE  \A p : Exists(p)' <=> Exists(p) \/ p = o
  BY <1>3, AppendRange DEF Builds, Built, InOrder, Exists
<1>4. ASSUME Leaving, Gone PROVE \A o \in CacheNames : Exists(o)' => Exists(o)
  BY <1>4, FrontInOrder DEF Leaving, Gone, Built, Exists, ObjectNames
<1>5. CASE MovesOn
  <2>1. CASE Help \/ Define \/ BadOption \/ StartMain \/ LoadFile \/ SetupLogging \/ InitializeSSL
    BY <1>2, <2>1 DEF Help, Define, BadOption, StartMain, LoadFile, SetupLogging, InitializeSSL,
                      MoreOptions, Throws, Returns, resources, caches, running, Orderly
  <2>2. ASSUME NEW c \in CacheNames, RefuseCache(c) PROVE Orderly'
    BY <1>2, <2>2 DEF RefuseCache, Throws, Returns, resources, caches, running, Orderly
  <2>3. ASSUME NEW c \in CacheNames, StopSweeper(c) PROVE Orderly'
    BY <1>1, <1>2, <2>3 DEF StopSweeper, Leaving, running, Orderly
  <2>4. CASE UnreadablePort \/ FailToStart
    BY <1>2, <2>4 DEF UnreadablePort, FailToStart, Throws, Returns, resources, caches, running,
                      Orderly
  <2>5. CASE Terminate \/ BeginShutdown \/ EndShutdown \/ JoinServerThread
    BY <1>2, <2>5 DEF Terminate, BeginShutdown, EndShutdown, JoinServerThread, GoesDown,
                      resources, caches, running, Orderly
  <2>6. CASE UninitializeSSL \/ Exit
    BY <1>2, <2>6 DEF UninitializeSSL, Exit, Returns, resources, caches, running, Orderly
  <2> QED
    BY <1>5, <2>1, <2>2, <2>3, <2>4, <2>5, <2>6 DEF MovesOn
<1>6. CASE OtherThreads
  <2>1. UNCHANGED <<stage, built, server>>
    BY <1>6, HandlerMoves DEF OtherThreads, ServerThreadEnds, SweeperEnds, HandlersOnly,
                              ByMainUnchanged
  <2>2. CASE ServerThreadEnds
    BY <1>2, <2>1, <2>2 DEF ServerThreadEnds, Orderly
  <2>3. ASSUME NEW c \in CacheNames, SweeperEnds(c) PROVE Orderly'
    BY <1>1, <1>2, <2>1, <2>3 DEF SweeperEnds, Orderly
  <2>4. ASSUME NEW w \in Workers, HandlerStep(w) PROVE Orderly'
    BY <1>2, <2>1, <2>4, HandlerMoves DEF HandlersOnly, Orderly
  <2> QED
    BY <1>6, <2>2, <2>3, <2>4 DEF OtherThreads
<1>7. CASE BuildClient \/ BuildServices \/ BuildAndStart \/ StartServerThread
  <2>1. CASE Throws
    BY <1>2, <2>1 DEF Throws, Returns, resources, caches, running, Orderly
  <2>2. CASE ~Throws
    <3>1. \/ stage = "client" /\ Builds("frankfurter", "currencies")
          \/ stage = "services" /\ Builds("services", "listen")
          \/ stage = "listen" /\ Builds("server", "thread") /\ server' = "accepting"
          \/ stage = "thread" /\ Builds("serverThread", "serving") /\ serverThread' = "waiting"
      BY <1>7, <2>2 DEF BuildClient, BuildServices, BuildAndStart, StartServerThread
    <3>2. UNCHANGED sweeper /\ (server' = server \/ stage = "listen")
          /\ (serverThread' = serverThread \/ stage = "thread")
      BY <1>7, <2>2 DEF BuildClient, BuildServices, BuildAndStart, StartServerThread, caches
    <3>3. \A c \in CacheNames : Exists(c)' => Exists(c)
      BY <1>3, <3>1 DEF ObjectNames, CacheNames
    <3> QED
      BY <3>1, <3>2, <3>3 DEF Builds, Orderly
  <2> QED
    BY <2>1, <2>2
<1>8. ASSUME NEW c \in CacheNames, BuildCache(c) PROVE Orderly'
  <2>1. /\ Builds(c, AfterCache(c)) /\ sweeper' = [sweeper EXCEPT ![c] = "running"]
        /\ UNCHANGED <<server, serverThread>>
    BY <1>8 DEF BuildCache
  <2>2. stage' \in {"latest_rate", "history", "services"}
    BY <2>1 DEF Builds, AfterCache, CacheNames
  <2>3. \A d \in CacheNames : Exists(d)' => sweeper'[d] # "none"
    BY <1>1, <1>3, <2>1 DEF ObjectNames, Orderly
  <2> QED
    BY <2>1, <2>2, <2>3 DEF Orderly
<1>9. CASE DestroyPlainObject \/ DestroyServerThread \/ \E c \in CacheNames : DestroyCache(c)
  <2>1. /\ Leaving /\ Gone /\ stage' \in {"leave", "exited"}
        /\ UNCHANGED <<sweeper, server, serverThread>>
    BY <1>9 DEF DestroyPlainObject, DestroyServerThread, DestroyCache, Leaving, Gone
  <2> QED
    BY <1>4, <2>1 DEF Orderly
<1>10. CASE UNCHANGED vars
  BY <1>2, <1>10 DEF vars, resources, caches, running, Orderly
<1> QED
  BY <1>5, <1>6, <1>7, <1>8, <1>9, <1>10, NextCases

LEMMA AlwaysOrderly == Spec => []Orderly
<1>1. Init => Orderly
  BY DEF Init, Orderly, Exists, Range
<1> QED
  BY <1>1, OrderlyStep, ThreadsAlwaysInTime, PTL DEF Spec

\* Whatever main waits for comes to an end without main (WaitsOnlyForWhatEnds;
\* Shutdown, then join, then the destructors of the caches).
THEOREM NoWaitInVain == Spec => []WaitsOnlyForWhatEnds
<1>1. Orderly => WaitsOnlyForWhatEnds
  BY DEF Orderly, WaitsOnlyForWhatEnds
<1> QED
  BY <1>1, AlwaysOrderly, PTL

-----------------------------------------------------------------------------
(* The layers of the configuration. *)

\* The option in this place sets the key.
Sets(i, key) ==
  \/ commandLine[i].option = "define" /\ commandLine[i].key = key
  \/ commandLine[i].option = "config" /\ key = "app.configFile"

\* It is the last of those processed to do so.
LastToSet(i, key) ==
  /\ i \in 1..parsed /\ Sets(i, key)
  /\ \A j \in 1..parsed : Sets(j, key) => j <= i

\* The application's own layer has what the options processed say.
OwnSettings(s) ==
  /\ \A key \in DOMAIN s : \E i \in 1..parsed :
       LastToSet(i, key) /\ s[key] = commandLine[i].value
  /\ \A i \in 1..parsed : \A key : Sets(i, key) => key \in DOMAIN s
  /\ \A i \in 1..parsed : commandLine[i].option # "help" => commandLine[i].value # Malformed

OwnLayerOf(s) == [priority |-> PRIO_APPLICATION, settings |-> s]
FileLayerOf(s) == [priority |-> PRIO_DEFAULT, settings |-> s]

\* The stages at which main reads its settings.
Reading == {"log", "ssl", "client", "services", "listen"} \union CacheNames

LoadedAs(contents, s) ==
  \/ contents = Missing /\ layers = <<OwnLayerOf(s)>>
  \/ contents \notin {Missing, Malformed} /\ layers = <<OwnLayerOf(s), FileLayerOf(contents)>>

Layered ==
  /\ commandLine \in CommandLines /\ disk \in Disks
  /\ parsed \in 0..Len(commandLine)
  /\ stage \in {"load"} \union Reading => ~helpRequested /\ parsed = Len(commandLine)
  /\ stage \in {"options", "load"} /\ ~helpRequested =>
       \E s : OwnSettings(s) /\ layers = <<OwnLayerOf(s)>>
  /\ stage \in Reading => \E s : OwnSettings(s) /\ LoadedAs(disk[ConfigFile], s)

LEMMA SingleLayer ==
  ASSUME NEW layer, NEW f, f = [i \in 1..1 |-> layer]
  PROVE  f = <<layer>>
  OBVIOUS

\* What setString does to the own layer.
LEMMA OwnLayerWritten ==
  ASSUME NEW s, NEW key, NEW value
  PROVE  WithSetting(<<OwnLayerOf(s)>>, key, value) =
           <<OwnLayerOf([k \in DOMAIN s \union {key} |-> IF k = key THEN value ELSE s[k]])>>
<1> DEFINE t == [k \in DOMAIN s \union {key} |-> IF k = key THEN value ELSE s[k]]
           own == <<OwnLayerOf(s)>>
<1>1. DOMAIN own = 1..1 /\ own[1] = OwnLayerOf(s)
  OBVIOUS
<1>2. OwnLayerOf(s).priority = PRIO_APPLICATION /\ OwnLayerOf(s).settings = s
  BY DEF OwnLayerOf
<1>3. [OwnLayerOf(s) EXCEPT !.settings = t] = OwnLayerOf(t)
  BY DEF OwnLayerOf
<1>4. WithSetting(own, key, value) = [i \in 1..1 |-> OwnLayerOf(t)]
  BY <1>1, <1>2, <1>3 DEF WithSetting
<1> QED
  BY <1>4, SingleLayer

LEMMA InsertedBehind ==
  ASSUME NEW a, NEW b
  PROVE  InsertAt(<<a>>, 2, b) = <<a, b>>
<1> DEFINE S == {a, b}
           before == SubSeq(<<a>>, 1, 1)
           behind == SubSeq(<<a>>, 2, 1)
<1>1. \A i \in 1..1 : <<a>>[i] \in S
  OBVIOUS
<1>2. before \in Seq(S) /\ Len(before) = 1 /\ before[1] = a
  BY <1>1, SubSeqProperties
<1>3. behind = <<>>
  <2>1. \A i \in 2..1 : <<a>>[i] \in S
    OBVIOUS
  <2>2. behind \in Seq(S) /\ Len(behind) = 0
    BY <2>1, SubSeqProperties
  <2> QED
    BY <2>2, EmptySeq
<1>4. before = <<a>>
  <2> HIDE DEF before
  <2>1. <<a>> \in Seq(S) /\ Len(<<a>>) = 1 /\ <<a>>[1] = a
    OBVIOUS
  <2>2. Len(before) = Len(<<a>>) /\ \A i \in 1..Len(before) : before[i] = <<a>>[i]
    BY <1>2, <2>1
  <2> QED
    BY <1>2, <2>1, <2>2, SeqEqual
<1>5. <<a>> \o <<b>> = <<a, b>>
  <2>1. <<a>> \in Seq(S) /\ <<b>> \in Seq(S) /\ <<a, b>> \in Seq(S) /\ Len(<<a, b>>) = 2
        /\ Len(<<a>>) = 1 /\ Len(<<b>>) = 1
    OBVIOUS
  <2>2. /\ <<a>> \o <<b>> \in Seq(S) /\ Len(<<a>> \o <<b>>) = 2
        /\ \A i \in 1..2 : (<<a>> \o <<b>>)[i] = IF i <= 1 THEN <<a>>[i] ELSE <<b>>[i - 1]
    BY <2>1, ConcatProperties
  <2>3. \A i \in 1..2 : (<<a>> \o <<b>>)[i] = <<a, b>>[i]
    BY <2>2
  <2> QED
    BY <2>1, <2>2, <2>3, SeqEqual
<1>6. (<<a>> \o <<b>>) \o <<>> = <<a, b>>
  BY <1>5, <<a, b>> \in Seq(S), ConcatEmptySeq
<1>7. InsertAt(<<a>>, 2, b) = (before \o <<b>>) \o behind
  <2>1. Len(<<a>>) = 1 /\ 2 - 1 = 1
    OBVIOUS
  <2> QED
    BY ONLY <2>1 DEF InsertAt
<1> QED
  BY ONLY <1>3, <1>4, <1>6, <1>7

\* What add does when there is the own layer only.
LEMMA FileLayerAdded ==
  ASSUME NEW s, NEW contents
  PROVE  loadJsonFile(<<OwnLayerOf(s)>>, contents) = <<OwnLayerOf(s), FileLayerOf(contents)>>
<1> DEFINE own == <<OwnLayerOf(s)>>
<1>1. DOMAIN own = 1..1 /\ own[1] = OwnLayerOf(s) /\ Len(own) = 1
  OBVIOUS
<1>2. {i \in DOMAIN own : own[i].priority >= PRIO_DEFAULT} = {}
  BY <1>1 DEF OwnLayerOf, PRIO_APPLICATION, PRIO_DEFAULT
<1>3. Min({} \union {Len(own) + 1}) = 2
  BY <1>1 DEF Min
<1>4. InsertAt(own, 2, FileLayerOf(contents)) = <<OwnLayerOf(s), FileLayerOf(contents)>>
  BY InsertedBehind
<1>5. FileLayerOf(contents).priority = PRIO_DEFAULT
  BY DEF FileLayerOf
<1> QED
  BY <1>2, <1>3, <1>4, <1>5 DEF loadJsonFile, Added, FileLayerOf

\* The option that set a key last is the one the highest place tells.
LEMMA LastIsMax ==
  ASSUME parsed = Len(commandLine), DOMAIN commandLine = 1..Len(commandLine), parsed \in Nat,
         NEW key, NEW i, LastToSet(i, key)
  PROVE  Max({j \in DOMAIN commandLine : Sets(j, key)}) = i
<1> DEFINE S == {j \in DOMAIN commandLine : Sets(j, key)}
<1>1. i \in S /\ \A j \in S : i >= j
  BY DEF LastToSet
<1>2. \A j \in S : j \in Int
  OBVIOUS
<1> QED
  BY <1>1, <1>2 DEF Max

\* In the own layer alone, what is not there has its default.
LEMMA LookedUpInOwn ==
  ASSUME NEW s, layers = <<OwnLayerOf(s)>>, NEW key, NEW default
  PROVE  Lookup(layers, key, default) = IF key \in DOMAIN s THEN s[key] ELSE default
<1>1. DOMAIN layers = 1..1 /\ layers[1].settings = s
  BY DEF OwnLayerOf
<1>2. Having(layers, key) = IF key \in DOMAIN s THEN {1} ELSE {}
  BY <1>1 DEF Having
<1>3. Min({1}) = 1
  BY DEF Min
<1> QED
  BY <1>1, <1>2, <1>3 DEF Lookup

\* With a file, the own layer comes first and the default last.
LEMMA LookedUpInBoth ==
  ASSUME NEW s, NEW contents, layers = <<OwnLayerOf(s), FileLayerOf(contents)>>,
         NEW key, NEW default
  PROVE  Lookup(layers, key, default) =
           IF key \in DOMAIN s THEN s[key]
           ELSE IF key \in DOMAIN contents THEN contents[key] ELSE default
<1>1. DOMAIN layers = 1..2 /\ layers[1].settings = s /\ layers[2].settings = contents
  BY DEF OwnLayerOf, FileLayerOf
<1>2. 1 \in Having(layers, key) <=> key \in DOMAIN s
  BY <1>1 DEF Having
<1>3. 2 \in Having(layers, key) <=> key \in DOMAIN contents
  BY <1>1 DEF Having
<1>4. Having(layers, key) \subseteq {1, 2}
  BY <1>1 DEF Having
<1>5. CASE key \in DOMAIN s
  <2>1. Min(Having(layers, key)) = 1
    BY <1>2, <1>4, <1>5 DEF Min
  <2> QED
    BY <1>1, <1>2, <1>5, <2>1 DEF Lookup
<1>6. CASE key \notin DOMAIN s /\ key \in DOMAIN contents
  <2>1. Having(layers, key) = {2}
    BY <1>2, <1>3, <1>4, <1>6
  <2>2. Min({2}) = 2
    BY DEF Min
  <2> QED
    BY <1>1, <1>6, <2>1, <2>2 DEF Lookup
<1>7. CASE key \notin DOMAIN s /\ key \notin DOMAIN contents
  BY <1>2, <1>3, <1>4, <1>7 DEF Lookup
<1> QED
  BY <1>5, <1>6, <1>7

\* The command line is a sequence of options.
LEMMA LineOfOptions ==
  ASSUME commandLine \in CommandLines
  PROVE  /\ Len(commandLine) \in Nat /\ DOMAIN commandLine = 1..Len(commandLine)
         /\ \A i \in 1..Len(commandLine) :
              /\ commandLine[i].option \in {"help", "config", "define"}
              /\ commandLine[i].option = "config" => commandLine[i].value \in Files
              /\ commandLine[i].option = "define" /\ commandLine[i].value # Malformed
                   /\ commandLine[i].key = "app.configFile" => commandLine[i].value \in Files
  BY CommandLinesAssumption

\* What the whole command line says of a key is in the own layer.
LEMMA OwnLayerTells ==
  ASSUME commandLine \in CommandLines, parsed = Len(commandLine), NEW s, OwnSettings(s), NEW key
  PROVE  LET S == {j \in DOMAIN commandLine : Sets(j, key)}
         IN  /\ key \in DOMAIN s <=> S # {}
             /\ key \in DOMAIN s =>
                  /\ s[key] = commandLine[Max(S)].value
                  /\ key = "app.configFile" => s[key] \in Files
<1> DEFINE S == {j \in DOMAIN commandLine : Sets(j, key)}
<1>1. parsed \in Nat /\ DOMAIN commandLine = 1..parsed
  BY LineOfOptions
<1>2. ASSUME S # {} PROVE key \in DOMAIN s
  BY <1>1, <1>2 DEF OwnSettings
<1>3. ASSUME key \in DOMAIN s
      PROVE  /\ S # {} /\ s[key] = commandLine[Max(S)].value
             /\ key = "app.configFile" => s[key] \in Files
  <2>1. PICK i \in 1..parsed : LastToSet(i, key) /\ s[key] = commandLine[i].value
    BY <1>3 DEF OwnSettings
  <2>2. Max(S) = i
    BY <1>1, <2>1, LastIsMax
  <2>3. i \in S
    BY <1>1, <2>1 DEF LastToSet
  <2>4. commandLine[i].value # Malformed
    BY <2>1, <2>3 DEF OwnSettings, Sets
  <2>5. key = "app.configFile" => s[key] \in Files
    <3>1. CASE commandLine[i].option = "define" /\ commandLine[i].key = key
      BY <2>1, <2>4, <3>1, LineOfOptions
    <3>2. CASE commandLine[i].option = "config" /\ key = "app.configFile"
      BY <2>1, <3>2, LineOfOptions
    <3> QED
      BY <2>3, <3>1, <3>2 DEF Sets
  <2> QED
    BY <2>1, <2>2, <2>3, <2>5
<1> QED
  BY <1>2, <1>3

\* The file that is loaded is the one that was named last.
LEMMA FileNamed ==
  ASSUME commandLine \in CommandLines, parsed = Len(commandLine),
         NEW s, OwnSettings(s)
  PROVE  /\ layers = <<OwnLayerOf(s)>> => getString(layers, "app.configFile") = ConfigFile
         /\ ConfigFile \in Files
<1> DEFINE key == "app.configFile"
           S == {j \in DOMAIN commandLine : Sets(j, key)}
<1>1. S = {i \in DOMAIN commandLine : commandLine[i].option = "config"} \union DefinedAt(key)
  BY DEF Sets, DefinedAt
<1>2. ConfigFile = IF S = {} THEN "config/server.default.json" ELSE commandLine[Max(S)].value
  BY <1>1 DEF ConfigFile
<1>3. String[key] = "config/server.default.json"
  BY DEF String
<1>4. layers = <<OwnLayerOf(s)>> =>
        getString(layers, key) = IF key \in DOMAIN s THEN s[key] ELSE String[key]
  BY LookedUpInOwn DEF getString
<1>5. /\ key \in DOMAIN s <=> S # {}
      /\ key \in DOMAIN s => s[key] = commandLine[Max(S)].value /\ s[key] \in Files
  BY OwnLayerTells
<1> QED
  BY <1>2, <1>3, <1>4, <1>5, FilesAssumption

\* What main reads is what was asked for, if it is an int.
LEMMA DemandedIsRead ==
  ASSUME Layered, stage \in Reading, NEW key \in DOMAIN Integer
  PROVE  getInt(layers, key) = IF Demanded(key) \in Ints THEN Demanded(key) ELSE NotANumber
<1> SUFFICES Lookup(layers, key, Integer[key]) = Demanded(key)
  BY DEF getInt
<1> DEFINE contents == disk[ConfigFile]
<1>1. commandLine \in CommandLines /\ disk \in Disks /\ parsed = Len(commandLine)
  BY DEF Layered
<1>2. PICK s : OwnSettings(s) /\ LoadedAs(contents, s)
  BY DEF Layered
<1>3. key # "app.configFile"
  BY DEF Integer
<1>4. {j \in DOMAIN commandLine : Sets(j, key)} = DefinedAt(key)
  BY <1>3 DEF Sets, DefinedAt
<1>5. /\ key \in DOMAIN s <=> DefinedAt(key) # {}
      /\ key \in DOMAIN s =>
           s[key] = commandLine[Max(DefinedAt(key))].value
  BY <1>1, <1>2, <1>4, OwnLayerTells
<1>6. Demanded(key) =
        IF key \in DOMAIN s THEN s[key]
        ELSE IF contents # Missing /\ key \in DOMAIN contents THEN contents[key]
        ELSE Integer[key]
  BY <1>5 DEF Demanded
<1>7. CASE contents = Missing /\ layers = <<OwnLayerOf(s)>>
  <2>1. Lookup(layers, key, Integer[key]) = IF key \in DOMAIN s THEN s[key] ELSE Integer[key]
    BY <1>7, LookedUpInOwn
  <2> QED
    BY <1>6, <1>7, <2>1
<1>8. CASE contents \notin {Missing, Malformed} /\ layers = <<OwnLayerOf(s), FileLayerOf(contents)>>
  <2>1. Lookup(layers, key, Integer[key]) =
          IF key \in DOMAIN s THEN s[key]
          ELSE IF key \in DOMAIN contents THEN contents[key] ELSE Integer[key]
    BY <1>8, LookedUpInBoth
  <2> QED
    BY <1>6, <1>8, <2>1
<1> QED
  BY <1>2, <1>7, <1>8 DEF LoadedAs

LEMMA LayeredInitially == Init => Layered
<1> SUFFICES ASSUME Init PROVE Layered
  OBVIOUS
<1>1. commandLine \in CommandLines /\ disk \in Disks /\ parsed = 0 /\ stage = "options"
  BY DEF Init
<1>2. Len(commandLine) \in Nat
  BY <1>1, LineOfOptions
<1>3. layers = <<OwnLayerOf(NoSettings)>>
  BY DEF Init, OwnLayer, OwnLayerOf
<1>4. OwnSettings(NoSettings)
  BY <1>1 DEF OwnSettings, NoSettings
<1>5. stage \notin {"load"} \union Reading
  BY <1>1 DEF Reading, CacheNames
<1> QED
  BY <1>1, <1>2, <1>3, <1>4, <1>5 DEF Layered

\* Most steps leave the configuration alone.
LEMMA LayeredStays ==
  ASSUME Layered, UNCHANGED configured,
         \/ stage' = stage
         \/ {stage, stage'} \subseteq Reading
         \/ stage' \notin {"options", "load"} \union Reading
  PROVE  Layered'
<1>1. UNCHANGED <<commandLine, disk, parsed, helpRequested, layers>>
  BY DEF configured, given, options
<1>2. ConfigFile' = ConfigFile
  BY <1>1 DEF ConfigFile, DefinedAt
<1>3. \A s : OwnSettings(s)' <=> OwnSettings(s)
  BY <1>1 DEF OwnSettings, LastToSet, Sets
<1>4. \A s : LoadedAs(disk[ConfigFile], s)' <=> LoadedAs(disk[ConfigFile], s)
  BY <1>1, <1>2 DEF LoadedAs
<1>5. Reading \intersect {"options", "load"} = {}
  BY DEF Reading, CacheNames
<1> QED
  BY <1>1, <1>3, <1>4, <1>5 DEF Layered

LEMMA DefineLayered ==
  ASSUME Layered, Define
  PROVE  Layered'
<1> DEFINE key == IF Option.option = "config" THEN "app.configFile" ELSE Option.key
           value == Option.value
<1>1. /\ stage = "options" /\ stage' = "options" /\ parsed < Len(commandLine)
      /\ Option.option \in {"config", "define"} /\ value # Malformed
      /\ layers' = WithSetting(layers, key, value)
      /\ parsed' = parsed + 1
      /\ UNCHANGED <<commandLine, disk, helpRequested>>
  BY DEF Define, MoreOptions, given
<1>2. commandLine \in CommandLines /\ disk \in Disks /\ parsed \in 0..Len(commandLine)
  BY DEF Layered
<1>3. Len(commandLine) \in Nat
  BY <1>2, LineOfOptions
<1>4. parsed' \in 0..Len(commandLine)' /\ parsed' \in 1..Len(commandLine)
  BY <1>1, <1>2, <1>3
<1>5. ASSUME ~helpRequested
      PROVE  \E t : OwnSettings(t)' /\ layers' = <<OwnLayerOf(t)>>
  <2>1. PICK s : OwnSettings(s) /\ layers = <<OwnLayerOf(s)>>
    BY <1>1, <1>5 DEF Layered
  <2> HIDE DEF key, value
  <2>2. PICK t : t = [k \in DOMAIN s \union {key} |-> IF k = key THEN value ELSE s[k]]
    OBVIOUS
  <2>11. layers' = <<OwnLayerOf(t)>>
    <3>1. layers' = WithSetting(<<OwnLayerOf(s)>>, key, value)
      BY <1>1, <2>1
    <3>2. WithSetting(<<OwnLayerOf(s)>>, key, value) =
            <<OwnLayerOf([k \in DOMAIN s \union {key} |-> IF k = key THEN value ELSE s[k]])>>
      BY ONLY OwnLayerWritten
    <3> QED
      BY ONLY <3>1, <3>2, <2>2
  <2>3. Option = commandLine[parsed'] /\ value = commandLine[parsed'].value
    BY <1>1 DEF Option, value
  <2>4. \A k : Sets(parsed', k) <=> k = key
    BY <1>1, <2>3 DEF Sets, key
  <2>5. \A i \in 1..parsed : i \in 1..parsed' /\ i < parsed' /\ i # parsed'
    BY <1>1, <1>2, <1>3
  <2>6. \A i \in 1..parsed' : i \in 1..parsed \/ i = parsed'
    BY <1>1, <1>2, <1>3
  <2>7. ASSUME NEW k \in DOMAIN t
        PROVE  \E i \in 1..parsed' :
                 /\ Sets(i, k) /\ \A j \in 1..parsed' : Sets(j, k) => j <= i
                 /\ t[k] = commandLine[i].value
    <3>1. CASE k = key
      <4>1. parsed' \in 1..parsed' /\ Sets(parsed', k) /\ t[k] = commandLine[parsed'].value
        BY <1>4, <2>2, <2>3, <2>4, <3>1
      <4>2. \A j \in 1..parsed' : j <= parsed'
        OBVIOUS
      <4> QED
        BY <4>1, <4>2
    <3>2. CASE k # key
      <4>1. k \in DOMAIN s /\ t[k] = s[k]
        BY <2>2, <2>7, <3>2
      <4>2. PICK i \in 1..parsed : LastToSet(i, k) /\ s[k] = commandLine[i].value
        BY <2>1, <4>1 DEF OwnSettings
      <4>3. \A j \in 1..parsed' : Sets(j, k) => j <= i
        BY <2>4, <2>6, <3>2, <4>2 DEF LastToSet
      <4> QED
        BY <2>5, <4>1, <4>2, <4>3 DEF LastToSet
    <3> QED
      BY <3>1, <3>2
  <2>8. \A i \in 1..parsed' : \A k : Sets(i, k) => k \in DOMAIN t
    BY <2>1, <2>2, <2>4, <2>6 DEF OwnSettings
  <2>9. \A i \in 1..parsed' : commandLine[i].option # "help" => commandLine[i].value # Malformed
    BY <1>1, <2>1, <2>3, <2>6 DEF OwnSettings
  <2>10. OwnSettings(t)'
    BY <1>1, <2>7, <2>8, <2>9 DEF OwnSettings, LastToSet, Sets
  <2> QED
    BY <2>10, <2>11
<1>6. stage' \notin {"load"} \union Reading
  BY <1>1 DEF Reading, CacheNames
<1> QED
  BY <1>1, <1>2, <1>4, <1>5, <1>6 DEF Layered

LEMMA LoadFileLayered ==
  ASSUME Layered, LoadFile
  PROVE  Layered'
<1>1. /\ stage = "load" /\ ~helpRequested /\ parsed = Len(commandLine)
      /\ commandLine \in CommandLines /\ disk \in Disks
  BY DEF LoadFile, Layered
<1>2. UNCHANGED <<commandLine, disk, parsed, helpRequested>>
  BY DEF LoadFile, Throws, Returns, configured, given, options
<1>3. PICK s : OwnSettings(s) /\ layers = <<OwnLayerOf(s)>>
  BY <1>1 DEF Layered
<1>4. getString(layers, "app.configFile") = ConfigFile
  BY <1>1, <1>3, FileNamed
<1>5. CASE Throws
  BY <1>5, LayeredStays DEF Throws, Returns, Reading, CacheNames
<1>6. CASE ~Throws
  <2> DEFINE contents == disk[ConfigFile]
  <2>1. /\ contents # Malformed /\ stage' = "log"
        /\ layers' = IF contents = Missing THEN layers ELSE loadJsonFile(layers, contents)
    BY <1>4, <1>6 DEF LoadFile
  <2>2. contents # Missing => layers' = <<OwnLayerOf(s), FileLayerOf(contents)>>
    BY <1>3, <2>1, FileLayerAdded
  <2>3. ConfigFile' = ConfigFile
    BY <1>2 DEF ConfigFile, DefinedAt
  <2>4. LoadedAs(disk[ConfigFile], s)'
    BY <1>2, <1>3, <2>1, <2>2, <2>3 DEF LoadedAs
  <2>5. OwnSettings(s)'
    BY <1>2, <1>3 DEF OwnSettings, LastToSet, Sets
  <2>6. parsed \in 0..Len(commandLine)
    BY DEF Layered
  <2> QED
    BY <1>1, <1>2, <2>1, <2>4, <2>5, <2>6 DEF Layered
<1> QED
  BY <1>5, <1>6

LEMMA LayeredStep == Layered /\ [Next]_vars => Layered'
<1> SUFFICES ASSUME Layered, [Next]_vars PROVE Layered'
  OBVIOUS
<1> USE DEF Reading, CacheNames
<1>1. CASE MovesOn
  <2>1. CASE Help
    <3>1. /\ stage = "options" /\ stage' = "options" /\ helpRequested'
          /\ parsed' = Len(commandLine) /\ UNCHANGED <<commandLine, disk>>
      BY <2>1 DEF Help, MoreOptions, given
    <3>2. commandLine \in CommandLines /\ disk \in Disks
      BY DEF Layered
    <3>3. parsed' \in 0..Len(commandLine)'
      BY <3>1, <3>2, LineOfOptions
    <3> QED
      BY <3>1, <3>2, <3>3 DEF Layered
  <2>2. CASE Define
    BY <2>2, DefineLayered
  <2>3. CASE StartMain
    <3>1. CASE helpRequested
      BY <2>3, <3>1, LayeredStays DEF StartMain, Returns
    <3>2. CASE ~helpRequested
      <4>1. /\ stage = "options" /\ stage' = "load" /\ parsed = Len(commandLine)
            /\ UNCHANGED <<commandLine, disk, parsed, helpRequested, layers>>
        BY <2>3, <3>2 DEF StartMain, configured, given, options
      <4>2. \A s : OwnSettings(s)' <=> OwnSettings(s)
        BY <4>1 DEF OwnSettings, LastToSet, Sets
      <4> QED
        BY <3>2, <4>1, <4>2 DEF Layered
    <3> QED
      BY <3>1, <3>2
  <2>4. CASE LoadFile
    BY <2>4, LoadFileLayered
  <2>5. CASE BadOption \/ SetupLogging \/ InitializeSSL
    BY <2>5, LayeredStays DEF BadOption, SetupLogging, InitializeSSL, Throws, Returns
  <2>6. ASSUME NEW c \in CacheNames, RefuseCache(c) \/ StopSweeper(c) PROVE Layered'
    BY <2>6, LayeredStays DEF RefuseCache, StopSweeper, Throws, Returns
  <2>7. CASE UnreadablePort \/ FailToStart \/ Terminate \/ BeginShutdown
    BY <2>7, LayeredStays DEF UnreadablePort, FailToStart, Terminate, BeginShutdown, GoesDown,
                              Throws, Returns
  <2>8. CASE EndShutdown \/ JoinServerThread \/ UninitializeSSL \/ Exit
    BY <2>8, LayeredStays DEF EndShutdown, JoinServerThread, UninitializeSSL, Exit, GoesDown,
                              Returns
  <2> QED
    BY <1>1, <2>1, <2>2, <2>3, <2>4, <2>5, <2>6, <2>7, <2>8 DEF MovesOn
<1>2. CASE OtherThreads \/ UNCHANGED vars
  <2>1. UNCHANGED <<stage, configured>>
    BY <1>2, HandlerMoves DEF OtherThreads, ServerThreadEnds, SweeperEnds, HandlersOnly,
                ByMainUnchanged, vars
  <2> QED
    BY <2>1, LayeredStays
<1>3. CASE BuildClient \/ BuildServices \/ BuildAndStart \/ StartServerThread
  BY <1>3, LayeredStays DEF BuildClient, BuildServices, BuildAndStart, StartServerThread, Builds,
                            Throws, Returns
<1>4. ASSUME NEW c \in CacheNames, BuildCache(c) PROVE Layered'
  BY <1>4, LayeredStays DEF BuildCache, Builds, AfterCache
<1>5. CASE DestroyPlainObject \/ DestroyServerThread \/ \E c \in CacheNames : DestroyCache(c)
  BY <1>5, LayeredStays DEF DestroyPlainObject, DestroyServerThread, DestroyCache, Leaving, Gone
<1> QED
  BY <1>1, <1>2, <1>3, <1>4, <1>5, NextCases

LEMMA AlwaysLayered == Spec => []Layered
  BY LayeredInitially, LayeredStep, PTL DEF Spec

-----------------------------------------------------------------------------
(* The room of the caches. *)

RoomAsked ==
  /\ capacity \in [CacheNames -> 0..MaxSize]
  /\ SettingsInForce

LEMMA SizesFit == \A n \in Ints : ToSize(n) \in 0..MaxSize
  BY MaxIntAssumption, MaxSizeAssumption DEF ToSize, Ints

\* What is demanded does not change, and a cache has the room it was built with.
LEMMA RoomStays ==
  ASSUME RoomAsked, UNCHANGED <<capacity, commandLine, disk>>,
         \A c \in CacheNames : Exists(c)' => Exists(c)
  PROVE  RoomAsked'
<1>1. \A key : Demanded(key)' = Demanded(key)
  BY DEF Demanded, ConfigFile, DefinedAt
<1> QED
  BY <1>1 DEF RoomAsked, SettingsInForce

LEMMA RoomStep == Built /\ Layered /\ RoomAsked /\ [Next]_vars => RoomAsked'
<1> SUFFICES ASSUME Built, Layered, RoomAsked, [Next]_vars PROVE RoomAsked'
  OBVIOUS
<1>1. UNCHANGED <<commandLine, disk>>
  BY HandlerMoves, NextCases
     DEF MovesOn, OtherThreads, Help, Define, BadOption, StartMain, LoadFile, SetupLogging,
         InitializeSSL, RefuseCache, StopSweeper, UnreadablePort, FailToStart, Terminate,
         BeginShutdown, EndShutdown, JoinServerThread, UninitializeSSL, Exit, ServerThreadEnds,
         SweeperEnds, HandlersOnly, ByMainUnchanged, BuildClient, BuildCache, BuildServices,
         BuildAndStart, StartServerThread, Builds, DestroyPlainObject, DestroyServerThread,
         DestroyCache, Gone, Throws, GoesDown, vars, configured, given
<1>2. built' = built => \A o : Exists(o)' <=> Exists(o)
  BY DEF Exists
<1>3. ASSUME NEW o \in ObjectNames, NEW next, Builds(o, next)
      PROVE  \A p : Exists(p)' <=> Exists(p) \/ p = o
  BY <1>3, AppendRange DEF Builds, Built, InOrder, Exists
<1>4. CASE MovesOn \/ OtherThreads \/ UNCHANGED vars
  <2>1. UNCHANGED <<capacity, built>>
    BY <1>4, HandlerMoves
       DEF MovesOn, OtherThreads, Help, Define, BadOption, StartMain, LoadFile, SetupLogging,
           InitializeSSL, RefuseCache, StopSweeper, UnreadablePort, FailToStart, Terminate,
           BeginShutdown, EndShutdown, JoinServerThread, UninitializeSSL, Exit, ServerThreadEnds,
           SweeperEnds, HandlersOnly, ByMainUnchanged, Throws, GoesDown, vars, resources, caches
  <2> QED
    BY <1>1, <1>2, <2>1, RoomStays
<1>5. CASE BuildClient \/ BuildServices \/ BuildAndStart \/ StartServerThread
  <2>1. CASE Throws
    BY <1>1, <1>2, <2>1, RoomStays DEF Throws, resources, caches
  <2>2. CASE ~Throws
    <3>1. /\ UNCHANGED capacity
          /\ \/ Builds("frankfurter", "currencies") \/ Builds("services", "listen")
             \/ Builds("server", "thread") \/ Builds("serverThread", "serving")
      BY <1>5, <2>2 DEF BuildClient, BuildServices, BuildAndStart, StartServerThread, caches
    <3>2. \A c \in CacheNames : Exists(c)' => Exists(c)
      BY <1>3, <3>1 DEF ObjectNames, CacheNames
    <3> QED
      BY <1>1, <3>1, <3>2, RoomStays
  <2> QED
    BY <2>1, <2>2
<1>6. ASSUME NEW c \in CacheNames, BuildCache(c) PROVE RoomAsked'
  <2>1. /\ stage = c /\ Readable(c) /\ Builds(c, AfterCache(c))
        /\ capacity' = [capacity EXCEPT ![c] = MaxElements(c)]
    BY <1>6 DEF BuildCache
  <2>2. \A p : Exists(p)' <=> Exists(p) \/ p = c
    BY <1>3, <2>1 DEF ObjectNames
  <2>3. \A key : Demanded(key)' = Demanded(key)
    BY <1>1 DEF Demanded, ConfigFile, DefinedAt
  <2> DEFINE key == MaxElementsKey(c)
  <2>4. c # "currencies" =>
          /\ Demanded(key) \in Ints
          /\ MaxElements(c) = ToSize(Demanded(key))
    <3>1. key \in DOMAIN Integer /\ stage \in Reading
      BY <2>1 DEF MaxElementsKey, Integer, Reading
    <3>2. getInt(layers, key) = IF Demanded(key) \in Ints THEN Demanded(key) ELSE NotANumber
      BY <3>1, DemandedIsRead
    <3> QED
      BY <2>1, <3>2 DEF Readable, MaxElements
  <2>5. MaxElements(c) \in 0..MaxSize
    <3>1. CASE c = "currencies"
      BY <3>1, MaxSizeAssumption DEF MaxElements
    <3>2. CASE c # "currencies"
      BY <2>4, <3>2, SizesFit
    <3> QED
      BY <3>1, <3>2
  <2>6. capacity' \in [CacheNames -> 0..MaxSize]
    BY <2>1, <2>5 DEF RoomAsked
  <2>7. SettingsInForce'
    BY <2>1, <2>2, <2>3, <2>4 DEF SettingsInForce, RoomAsked
  <2> QED
    BY <2>6, <2>7 DEF RoomAsked
<1>7. CASE DestroyPlainObject \/ DestroyServerThread \/ \E c \in CacheNames : DestroyCache(c)
  <2>1. Leaving /\ Gone
    BY <1>7 DEF DestroyPlainObject, DestroyServerThread, DestroyCache
  <2>2. \A c \in CacheNames : Exists(c)' => Exists(c)
    BY <2>1, FrontInOrder DEF Leaving, Gone, Built, Exists, ObjectNames
  <2> QED
    BY <1>1, <2>1, <2>2, RoomStays DEF Gone
<1> QED
  BY <1>4, <1>5, <1>6, <1>7, NextCases

LEMMA AlwaysRoomAsked == Spec => []RoomAsked
<1>1. Init => RoomAsked
  BY MaxSizeAssumption DEF Init, RoomAsked, SettingsInForce, Exists, Range
<1> QED
  BY <1>1, RoomStep, BuildingOrdered, AlwaysLayered, PTL DEF Spec

\* A cache has the room its setting asks for: -D before the file although the
\* file is loaded later, the last -D before the others, the default if nobody
\* says (SettingsInForce; handleDefine, loadJsonFile, the getters).
THEOREM SettingsObeyed == Spec => []SettingsInForce
  BY AlwaysRoomAsked, PTL DEF RoomAsked

-----------------------------------------------------------------------------
(* Types. *)

Outcome ==
  /\ ssl \in BOOLEAN
  /\ exitCode \in {Nothing, "EXIT_OK", "EXIT_CONFIG", "EXIT_SOFTWARE", "aborted"}

LEMMA OutcomeStep == Outcome /\ [Next]_vars => Outcome'
<1> SUFFICES ASSUME Outcome, [Next]_vars PROVE Outcome'
  OBVIOUS
<1>1. CASE MovesOn
  BY <1>1 DEF MovesOn, Help, Define, BadOption, StartMain, LoadFile, SetupLogging, InitializeSSL,
              RefuseCache, StopSweeper, UnreadablePort, FailToStart, Terminate, BeginShutdown,
              EndShutdown, JoinServerThread, UninitializeSSL, Exit, Throws, Returns, GoesDown,
              resources, Outcome
<1>2. CASE OtherThreads \/ UNCHANGED vars
  BY <1>2, HandlerMoves DEF OtherThreads, ServerThreadEnds, SweeperEnds, HandlersOnly,
                            ByMainUnchanged, vars, resources, Outcome
<1>3. CASE BuildClient \/ BuildServices \/ BuildAndStart \/ StartServerThread
           \/ \E c \in CacheNames : BuildCache(c)
  BY <1>3 DEF BuildClient, BuildServices, BuildAndStart, StartServerThread, BuildCache, Builds,
              Throws, Returns, resources, Outcome
<1>4. CASE DestroyPlainObject \/ DestroyServerThread \/ \E c \in CacheNames : DestroyCache(c)
  BY <1>4 DEF DestroyPlainObject, DestroyServerThread, DestroyCache, Gone, Outcome
<1> QED
  BY <1>1, <1>2, <1>3, <1>4, NextCases

\* What stands in order is a beginning of Objects.
LEMMA BuiltSoFar == Built => \E n \in 0..Len(Objects) : built = SubSeq(Objects, 1, n)
<1> SUFFICES ASSUME Built PROVE \E n \in 0..Len(Objects) : built = SubSeq(Objects, 1, n)
  OBVIOUS
<1>1. /\ Objects \in Seq(ObjectNames) /\ Len(Objects) = 7
      /\ \A i \in 1..7 : Objects[i] \in ObjectNames /\ At[Objects[i]] = i
  <2>1. /\ Objects[1] = "frankfurter" /\ Objects[2] = "currencies"
        /\ Objects[3] = "latest_rate" /\ Objects[4] = "history" /\ Objects[5] = "services"
        /\ Objects[6] = "server" /\ Objects[7] = "serverThread" /\ Len(Objects) = 7
    BY DEF Objects
  <2>2. \A i \in 1..7 : i = 1 \/ i = 2 \/ i = 3 \/ i = 4 \/ i = 5 \/ i = 6 \/ i = 7
    OBVIOUS
  <2>3. Objects \in Seq(ObjectNames)
    BY DEF Objects, ObjectNames, CacheNames
  <2>4. /\ At["frankfurter"] = 1 /\ At["currencies"] = 2 /\ At["latest_rate"] = 3
        /\ At["history"] = 4 /\ At["services"] = 5 /\ At["server"] = 6
        /\ At["serverThread"] = 7
    BY DEF At, ObjectNames, CacheNames
  <2>5. \A i \in 1..7 : At[Objects[i]] = i
    BY <2>1, <2>2, <2>4
  <2>6. \A i \in 1..7 : Objects[i] \in ObjectNames
    BY <2>1, <2>2 DEF ObjectNames, CacheNames
  <2> QED
    BY <2>1, <2>3, <2>5, <2>6
<1>2. PICK n \in 0..7 : n = Len(built) /\ InOrder(built)
  BY DEF Built, InOrder
<1> DEFINE beginning == SubSeq(Objects, 1, n)
<1>3. /\ beginning \in Seq(ObjectNames) /\ Len(beginning) = n
      /\ \A i \in 1..n : beginning[i] = Objects[i]
  <2>1. \A i \in 1..n : i \in 1..7 /\ Objects[i] \in ObjectNames
    BY <1>1
  <2>2. /\ beginning \in Seq(ObjectNames)
        /\ Len(beginning) = IF 1 <= n THEN n - 1 + 1 ELSE 0
        /\ \A i \in 1..(n - 1 + 1) : beginning[i] = Objects[1 + i - 1]
    BY <1>2, <2>1, SubSeqProperties
  <2>3. \A i \in 1..n : i \in 1..(n - 1 + 1) /\ 1 + i - 1 = i
    BY <1>2
  <2> QED
    BY <1>2, <2>2, <2>3
<1> HIDE DEF beginning
<1>4. \A i \in 1..n : built[i] = Objects[i]
  <2>1. \A i \in 1..n : built[i] \in ObjectNames /\ At[built[i]] = i
    BY <1>2, ElementOfSeq DEF InOrder
  <2> QED
    BY <1>1, <1>2, <2>1, AtFacts
<1>5. built = beginning
  BY <1>2, <1>3, <1>4, SeqEqual DEF InOrder
<1> QED
  BY <1>1, <1>2, <1>5 DEF beginning

\* Every variable of the process keeps to its type (TypeOK).
THEOREM AppTypesCorrect == Spec => []TypeOK
<1>1. Init => Outcome /\ HandlersInTime
  BY DEF Init, Outcome, Course!Init, HandlersInTime, SSLOpen, Serving, CacheNames
<1>2. Built /\ Layered /\ RoomAsked /\ ThreadsInTime /\ Orderly /\ HandlersInTime /\ Outcome
        => TypeOK
  BY BuiltSoFar
     DEF Built, Layered, RoomAsked, ThreadsInTime, Orderly, HandlersInTime, Outcome, TypeOK
<1> QED
  BY <1>1, <1>2, OutcomeStep, HandlersStep, ThreadsAlwaysInTime, AlwaysLayered, AlwaysRoomAsked,
     AlwaysOrderly, PTL DEF Spec
=============================================================================
