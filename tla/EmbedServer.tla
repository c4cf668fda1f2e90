---------------------------- MODULE EmbedServer ----------------------------
(***************************************************************************)
(* The embedding engine: win/electron/embedServer.cjs, a llama-server of   *)
(* its own that library.cjs asks for with `ensure' before every batch and  *)
(* every search, and that an idle timer is to let go again.                *)
(***************************************************************************)
EXTENDS Integers, FiniteSets

CONSTANTS
  File,    \* embedding models
  Request  \* the calls of `ensure' in a behaviour, numbered (a bound)

Nobody == 0

VARIABLES
  requests, \* requests[r]: where a call of `ensure' is, the launch it waits for, the server it got
  servers,  \* servers[r]: the process that the launch of r spawned; "gone" is one that was
            \* killed or ended and whose exit node has not reported
  child,    \* `child' by the launch that spawned it; loadedFile is that request's file
  starting, \* the launch a request for the same file may join
  timer,    \* idleTimer is set
  down,     \* shutdown() has run
  alike     \* requests under way at the same time name the same file

vars == <<requests, servers, child, starting, timer, down, alike>>

NotAsked == [at |-> "idle", file |-> "none", waits |-> Nobody, got |-> Nobody]

TypeOK ==
  /\ requests \in [Request -> [at : {"idle", "info", "ping", "wait", "flags", "load", "served", "failed"},
                               file : File \cup {"none"}, waits : Request \cup {Nobody},
                               got : Request \cup {Nobody}]]
  /\ servers \in [Request -> {"none", "loading", "ready", "gone", "reaped"}]
  /\ child \in Request \cup {Nobody} /\ starting \in Request \cup {Nobody}
  /\ timer \in BOOLEAN /\ down \in BOOLEAN /\ alike \in BOOLEAN
  /\ child # Nobody => servers[child] \in {"loading", "ready", "gone"}

Init ==
  /\ requests = [r \in Request |-> NotAsked]
  /\ servers = [r \in Request |-> "none"]
  /\ child = Nobody /\ starting = Nobody /\ timer = FALSE /\ down = FALSE
  /\ alike \in BOOLEAN

file(r) == requests[r].file
Launching(r) == requests[r].at \in {"flags", "load"}
UnderWay(r) == requests[r].at \in {"info", "ping", "wait"} \/ Launching(r)
Alive(r) == servers[r] \in {"loading", "ready"}
Moves(r, at) == requests' = [requests EXCEPT ![r].at = at]

stopSync ==
  /\ timer' = FALSE
  /\ child' = Nobody
  /\ servers' = [r \in Request |-> IF r = child /\ Alive(r) THEN "gone" ELSE servers[r]]

-----------------------------------------------------------------------------
(* `ensure' and `launch'.                                                  *)

\* the call, up to getLaunch
Asks(r, f) ==
  /\ ~down /\ requests[r].at = "idle" /\ (\A q \in Request : q < r => requests[q].at # "idle")
  /\ alike => \A q \in Request : UnderWay(q) => file(q) = f
  /\ requests' = [requests EXCEPT ![r] = [NotAsked EXCEPT !.at = "info", !.file = f]]
  /\ UNCHANGED <<servers, child, starting, timer, down, alike>>

\* join the start of the same file, or launch: what runs is stopped first, and the
\* timer with it
launchBeside(r) ==
  /\ requests' = [requests EXCEPT ![r].at = "flags", ![r].waits = r]
  /\ starting' = r
  /\ timer' = FALSE /\ UNCHANGED <<servers, child>>
launch(r) ==
  /\ requests' = [requests EXCEPT ![r].at = "flags", ![r].waits = r]
  /\ starting' = r
  /\ stopSync

Join(r) ==
  /\ requests' = [requests EXCEPT ![r].at = "wait", ![r].waits = starting]
  /\ UNCHANGED <<servers, child, starting>>

JoinOrLaunch(r) ==
  IF starting # Nobody /\ file(starting) = file(r) THEN Join(r) /\ UNCHANGED timer ELSE launch(r)

\* the file is resolved, the timer wound up again, and a server that has the file
\* loaded is pinged
Ensure(r) ==
  /\ requests[r].at = "info"
  /\ \/ Moves(r, "failed") /\ UNCHANGED <<servers, child, starting, timer>>
     \/ IF child # Nobody /\ file(child) = file(r)
        THEN timer' = TRUE /\ Moves(r, "ping") /\ UNCHANGED <<servers, child, starting>>
        ELSE IF starting # Nobody /\ file(starting) = file(r) THEN Join(r) /\ timer' = TRUE
        ELSE launch(r)
  /\ UNCHANGED <<down, alike>>

\* the ping finds what answers on the port by now
Pinged(r) ==
  /\ requests[r].at = "ping"
  /\ IF \E s \in Request : servers[s] = "ready"
     THEN /\ requests' = [requests EXCEPT ![r].at = "served",
                            ![r].got = CHOOSE s \in Request : servers[s] = "ready"]
          /\ UNCHANGED <<servers, child, starting, timer>>
     ELSE JoinOrLaunch(r)
  /\ UNCHANGED <<down, alike>>

\* a launch ends: it is not to be joined any more, and those who joined it have its result
Settle(r, at, got) ==
  /\ requests' = [q \in Request |->
       IF q = r \/ (requests[q].at = "wait" /\ requests[q].waits = r)
       THEN [requests[q] EXCEPT !.at = at, !.waits = Nobody, !.got = got] ELSE requests[q]]
  /\ starting' = IF starting = r THEN Nobody ELSE starting

\* no engine installed, or the topology and the engine's flags are known and the
\* server is spawned
Spawned(r) ==
  /\ requests[r].at = "flags"
  /\ \/ Settle(r, "failed", Nobody) /\ UNCHANGED <<servers, child>>
     \/ /\ Moves(r, "load") /\ UNCHANGED starting
        /\ child' = r /\ servers' = [servers EXCEPT ![r] = "loading"]
  /\ UNCHANGED <<timer, down, alike>>

\* waitForReady: somebody answers on the port and the process is still ours
Loaded(r) ==
  /\ requests[r].at = "load" /\ child = r /\ \E s \in Request : servers[s] = "ready"
  /\ Settle(r, "served", r)
  /\ UNCHANGED <<servers, child, timer, down, alike>>

\* it is not ours any more, or the minute is over
NotLoaded(r) ==
  /\ requests[r].at = "load"
  /\ Settle(r, "failed", Nobody)
  /\ IF child = r THEN stopSync ELSE UNCHANGED <<servers, child, timer>>
  /\ UNCHANGED <<down, alike>>

-----------------------------------------------------------------------------
IdleFires ==
  /\ timer /\ stopSync
  /\ UNCHANGED <<requests, starting, down, alike>>

Shutdown ==
  /\ ~down /\ down' = TRUE /\ stopSync
  /\ UNCHANGED <<requests, starting, alike>>

\* the server (external): one of those alive has the port
PortTaken == \E s \in Request : servers[s] = "ready"
ServerStep(r) ==
  /\ \/ servers[r] = "loading" /\ ~PortTaken /\ servers' = [servers EXCEPT ![r] = "ready"]
     \/ Alive(r) /\ servers' = [servers EXCEPT ![r] = "gone"]
  /\ UNCHANGED <<requests, child, starting, timer, down, alike>>

ExitEventOfAny(r) ==
  /\ servers[r] = "gone"
  /\ servers' = [servers EXCEPT ![r] = "reaped"] /\ child' = Nobody
  /\ UNCHANGED <<requests, starting, timer, down, alike>>
ExitEvent(r) ==
  /\ servers[r] = "gone"
  /\ servers' = [servers EXCEPT ![r] = "reaped"]
  /\ child' = IF child = r THEN Nobody ELSE child
  /\ UNCHANGED <<requests, starting, timer, down, alike>>

-----------------------------------------------------------------------------
Requested(r) == Ensure(r) \/ Pinged(r) \/ Spawned(r) \/ Loaded(r) \/ NotLoaded(r)

Works ==
  \/ \E r \in Request : Requested(r) \/ ServerStep(r) \/ ExitEvent(r) \/ \E f \in File : Asks(r, f)
  \/ IdleFires

Next == Works \/ Shutdown

\* Pings, helper programs and the load have timeouts, and a timer that is set fires.
Fairness == (\A r \in Request : WF_vars(Requested(r))) /\ WF_vars(IdleFires)

Spec == Init /\ [][Next]_vars
FairSpec == Spec /\ Fairness

-----------------------------------------------------------------------------
(* Properties.                                                             *)

\* No launch, stop, joined start or late exit event leaves a server behind that
\* stopSync would not kill, as long as overlapping requests name one file.
KnownServer == alike => \A r \in Request : Alive(r) => child = r

\* A request is only ever served by a server of its own file, as long as they do.
OwnFile == alike => \A r \in Request : requests[r].got # Nobody => file(requests[r].got) = file(r)

\* A start can be joined only while it will still settle, and whoever joined it
\* waits for a start under way.
JoinsLive ==
  /\ starting # Nobody => Launching(starting)
  /\ \A r \in Request : requests[r].at = "wait" => Launching(requests[r].waits)

\* "The server is kept between indexing batches and searches, then let go so its
\* memory comes back": a server is stopped in the end, long before Draggy quits.
SomeAlive == \E r \in Request : Alive(r)
LetGo == SomeAlive /\ ~down ~> ~SomeAlive \/ down
=============================================================================
