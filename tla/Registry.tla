------------------------------ MODULE Registry ------------------------------
(***************************************************************************)
(* The module registry (core/modules) and the life of a server around it   *)
(* (core/bootstrap): modules are ordered by their dependencies, registered *)
(* and started, HTTP is served, and at a signal HTTP, the modules and the  *)
(* pool end in this order.  Any step may fail and handlers may hang.       *)
(***************************************************************************)
EXTENDS Naturals, Sequences, FiniteSets

CONSTANTS
  Names,         \* names of modules: numbers, sorted like the strings
  Handlers       \* goroutines that serve requests

ASSUME NameAssumption == Names \subseteq Nat

VARIABLES
  added, deps, critical,   \* what Build adds, and the descriptors of it
  off,                     \* modules that CONNECTME_MODULES switches off
  phase,                   \* how far Build and Run are
  failed,                  \* whether Resolve has failed
  mark,                    \* state of a visit: 0, 1 (on the path) or 2 (done)
  path, left, roots,       \* the calls of visit under way, and what their loops have left
  ordered,                 \* Registry.ordered
  next,                    \* the loops' cursor in it
  up,                      \* modules that have started and have not stopped
  http,                    \* the listener's state
  handlers,                \* what each is at; a handler that queries has a connection
  pool                     \* whether the database pool gives out connections

world == <<added, deps, critical, off>>
search == <<mark, path, left, roots>>
vars == <<world, phase, failed, search, ordered, next, up, http, handlers, pool>>

-----------------------------------------------------------------------------
(* Resolve: a depth-first search in the order of the names                 *)

Least(S) == CHOOSE n \in S : \A m \in S : n <= m

\* What the innermost loop has still to visit: the dependencies of the module at the
\* end of the path, or the modules that are on.
Loop == IF path = <<>> THEN roots ELSE left[path[Len(path)]]

TypeOK ==
  /\ added \subseteq Names /\ critical \subseteq added /\ off \subseteq Names
  /\ deps \in [Names -> SUBSET Names]
  /\ phase \in {"resolve", "register", "start", "serve", "drain", "stop", "close", "exit"}
  /\ failed \in BOOLEAN /\ pool \in BOOLEAN
  /\ mark \in [Names -> 0..2]
  /\ path \in Seq(added \ off)
  /\ left \in [Names -> SUBSET Names] /\ roots \subseteq added \ off
  /\ ordered \in Seq(added \ off)
  /\ next \in 0..Len(ordered) + 1
  /\ up \subseteq added \ off
  /\ http \in {"new", "listening", "broken", "closed"}
  /\ handlers \in [Handlers -> {"none", "runs", "queries"}]

NoHandlers == [h \in Handlers |-> "none"]

Init ==
  /\ added \in SUBSET Names
  /\ deps \in {d \in [Names -> SUBSET Names] : \A n \in Names \ added : d[n] = {}}
  /\ critical \in SUBSET added
  /\ off \in SUBSET added
  /\ phase = "resolve"
  /\ failed = FALSE
  /\ mark = [n \in Names |-> 0]
  /\ path = <<>> /\ left = deps /\ roots = added \ off
  /\ ordered = <<>>
  /\ next = 1
  /\ up = {}
  /\ http = "new"
  /\ handlers = NoHandlers
  /\ pool = TRUE

\* The process is gone, with everything that ran in it.
Exit ==
  /\ phase' = "exit"
  /\ up' = {} /\ handlers' = NoHandlers /\ http' = "closed" /\ pool' = FALSE
  /\ UNCHANGED <<world, search, ordered, next>>

Fail ==
  /\ failed' = TRUE
  /\ Exit

CriticalOff ==
  /\ phase = "resolve" /\ critical \cap off # {}
  /\ Fail

\* The next name of the innermost loop, which is left there.
Take(n) ==
  /\ phase = "resolve" /\ critical \cap off = {}
  /\ Loop # {} /\ n = Least(Loop)

Pass(n) ==
  IF path = <<>> THEN roots' = roots \ {n} /\ left' = left
  ELSE left' = [left EXCEPT ![path[Len(path)]] = @ \ {n}] /\ roots' = roots

\* visit of a module that is done.
Again(n) ==
  /\ Take(n)
  /\ mark[n] = 2
  /\ Pass(n)
  /\ UNCHANGED <<world, phase, failed, mark, path, ordered, next, up, http, handlers, pool>>

Refuse(n) ==
  /\ Take(n)
  /\ mark[n] = 1 \/ n \notin added \/ n \in off
  /\ Fail

FaultyDescend(n) ==  \* no mark for the path
  /\ Take(n)
  /\ mark[n] = 0 /\ n \in added /\ n \notin off
  /\ mark' = [mark EXCEPT ![n] = 2]
  /\ path' = Append(path, n)
  /\ Pass(n)
  /\ UNCHANGED <<world, phase, failed, ordered, next, up, http, handlers, pool>>

Descend(n) ==
  /\ Take(n)
  /\ mark[n] = 0 /\ n \in added /\ n \notin off
  /\ mark' = [mark EXCEPT ![n] = 1]
  /\ path' = Append(path, n)
  /\ Pass(n)
  /\ UNCHANGED <<world, phase, failed, ordered, next, up, http, handlers, pool>>

\* The end of a visit: the module comes after what it depends on.
Place ==
  /\ phase = "resolve" /\ path # <<>> /\ Loop = {}
  /\ LET n == path[Len(path)]
     IN  /\ mark' = [mark EXCEPT ![n] = 2]
         /\ ordered' = Append(ordered, n)
  /\ path' = SubSeq(path, 1, Len(path) - 1)
  /\ UNCHANGED <<world, phase, failed, left, roots, next, up, http, handlers, pool>>

Resolved ==
  /\ phase = "resolve" /\ path = <<>> /\ roots = {}
  /\ critical \cap off = {}
  /\ phase' = "register"
  /\ UNCHANGED <<world, failed, search, ordered, next, up, http, handlers, pool>>

Resolve ==
  \/ CriticalOff \/ Place \/ Resolved
  \/ \E n \in Names : Again(n) \/ Refuse(n) \/ Descend(n)

\* Registering only adds routes; a module that fails to ends the process.
Register ==
  /\ phase = "register"
  /\ phase' = "start"
  /\ UNCHANGED <<world, failed, search, ordered, next, up, http, handlers, pool>>

\* Start gives up at the first error and stops nobody: main exits.
StartFails ==
  /\ phase \in {"register", "start"}
  /\ ordered # <<>>
  /\ Exit
  /\ UNCHANGED failed

StartModule ==
  /\ phase = "start" /\ next <= Len(ordered)
  /\ up' = up \cup {ordered[next]}
  /\ next' = next + 1
  /\ UNCHANGED <<world, phase, failed, search, ordered, http, handlers, pool>>

Started ==
  /\ phase = "start" /\ next > Len(ordered)
  /\ phase' = "serve"
  /\ UNCHANGED <<world, failed, search, ordered, next, up, http, handlers, pool>>

FaultyListen ==  \* listens although Shutdown has been called
  /\ phase \in {"serve", "drain", "stop", "close"}
  /\ http \in {"new", "closed"}
  /\ http' \in {"listening", "broken"}
  /\ UNCHANGED <<world, phase, failed, search, ordered, next, up, handlers, pool>>

\* The goroutine of HTTP.Run.  It may come after Shutdown, and then returns.
Listen ==
  /\ phase \in {"serve", "drain", "stop", "close"}
  /\ http = "new"
  /\ http' \in {"listening", "broken"}
  /\ UNCHANGED <<world, phase, failed, search, ordered, next, up, handlers, pool>>

\* The listener's error ends the process without Stop.
ListenFailed ==
  /\ phase = "serve" /\ http = "broken"
  /\ Exit
  /\ UNCHANGED failed

HandlerGoes(h, from, to) ==
  /\ handlers[h] = from /\ handlers' = [handlers EXCEPT ![h] = to]
  /\ UNCHANGED <<world, phase, failed, search, ordered, next, up, http, pool>>

Accept(h) == http = "listening" /\ HandlerGoes(h, "none", "runs")

Answer(h) == HandlerGoes(h, "runs", "none")

\* Pool.Acquire, for a query or a transaction; a pool that closes refuses it.
Acquire(h) == pool /\ HandlerGoes(h, "runs", "queries")

Release(h) == HandlerGoes(h, "queries", "runs")

Handle(h) == Accept(h) \/ Answer(h) \/ Acquire(h) \/ Release(h)

Signal ==
  /\ phase = "serve"
  /\ phase' = "drain"
  /\ http' = "closed"
  /\ UNCHANGED <<world, failed, search, ordered, next, up, handlers, pool>>

FaultyDrained ==  \* no timeout
  /\ phase = "drain"
  /\ handlers = NoHandlers
  /\ phase' = "stop"
  /\ next' = Len(ordered)
  /\ UNCHANGED <<world, failed, search, ordered, up, http, handlers, pool>>

\* Shutdown has waited for the handlers, or its context has ended.
Drained ==
  /\ phase = "drain"
  /\ phase' = "stop"
  /\ next' = Len(ordered)
  /\ UNCHANGED <<world, failed, search, ordered, up, http, handlers, pool>>

FaultyStopModule ==  \* in the order of Start
  /\ phase = "stop" /\ next > 0
  /\ up' = up \ {ordered[Len(ordered) + 1 - next]}
  /\ next' = next - 1
  /\ UNCHANGED <<world, phase, failed, search, ordered, http, handlers, pool>>

\* An error is kept and the next module is stopped all the same.
StopModule ==
  /\ phase = "stop" /\ next > 0
  /\ up' = up \ {ordered[next]}
  /\ next' = next - 1
  /\ UNCHANGED <<world, phase, failed, search, ordered, http, handlers, pool>>

\* a.DB.Close() refuses further connections from here on,
Stopped ==
  /\ phase = "stop" /\ next = 0
  /\ phase' = "close" /\ pool' = FALSE
  /\ UNCHANGED <<world, failed, search, ordered, next, up, http, handlers>>

\* and returns when every connection has been returned.
Return ==
  /\ phase = "close"
  /\ \A h \in Handlers : handlers[h] # "queries"
  /\ Exit
  /\ UNCHANGED failed

Go ==
  \/ Resolve \/ Register \/ StartModule \/ Started \/ ListenFailed
  \/ Drained \/ StopModule \/ Stopped \/ Return

Next == Go \/ StartFails \/ Listen \/ (\E h \in Handlers : Handle(h)) \/ Signal

Spec == Init /\ [][Next]_vars

\* Go runs the main goroutine; no handler has to end, nor a query of one, and no
\* signal has to come.
Fairness == WF_vars(Go)

FairSpec == Spec /\ Fairness

-----------------------------------------------------------------------------

\* The modules somebody needs, directly or through others: those of every set that has
\* the modules that are on and whatever one of its modules depends on.
Needed ==
  LET Closed(S) == added \ off \subseteq S /\ \A n \in S : deps[n] \subseteq S
  IN  {n \in Names : \A S \in SUBSET Names : Closed(S) => n \in S}
\* A set of modules each of which needs one of the set.
Cyclic == \E S \in SUBSET Needed : S # {} /\ \A n \in S : deps[n] \cap S # {}

Unusable ==
  \/ critical \cap off # {}
  \/ ~ Needed \subseteq added \ off
  \/ Cyclic
\* Resolve accepts exactly the configurations in which every module that is needed
\* is there and switched on, none needs itself and no critical one is off, and its
\* order has every module that is on once, after what it needs (modules.go:60-115).
ResolveAgrees ==
  /\ failed => Unusable
  /\ phase = "register" =>
       /\ ~ Unusable
       /\ {ordered[i] : i \in DOMAIN ordered} = added \ off
       /\ \A i, j \in DOMAIN ordered :
            /\ ordered[i] = ordered[j] => i = j
            /\ ordered[j] \in deps[ordered[i]] => j < i

\* What a running module depends on is running, at every moment of the start, of
\* the service and of the shutdown (Start, Stop, modules.go:124-141).
DependenciesUp == \A n \in up : deps[n] \subseteq up

\* Requests are accepted only while every module runs, and modules run only while
\* the pool is open: "deixa de aceitar HTTP, encerra módulos em ordem inversa e
\* fecha o pool" (docs/ARCHITECTURE.md:12), even if the signal precedes Listen.
ServedWhole ==
  /\ http = "listening" => up = added \ off
  /\ up # {} => pool

\* After a signal every module is stopped and the pool begins to close, although
\* handlers outlive the drain and modules fail to stop; and then the process ends,
\* unless a handler keeps a connection of the pool for ever: the drain has a
\* timeout, but closing the pool has none (App.Run, bootstrap.go:153-157).
ShutdownEnds ==
  /\ phase = "drain" ~> phase = "close"
  /\ \/ phase = "close" ~> phase = "exit"
     \/ \E h \in Handlers : <>[](handlers[h] = "queries")
=============================================================================
