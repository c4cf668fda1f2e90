---------------------------- MODULE LlamaProcess ----------------------------
(***************************************************************************)
(* The chat engine: win/electron/llamaProcess.cjs, which owns one          *)
(* llama-server child process on a fixed port.  A start is an async        *)
(* function; each action below is what one start does between two awaits,  *)
(* so the starts of several callers (the chat, the model picker that warms *)
(* a model, the voice screen) interleave at exactly the awaits of the      *)
(* code.  The processes themselves, and a server of somebody else on the   *)
(* same port, are the environment.                                         *)
(***************************************************************************)
EXTENDS Integers, FiniteSets

CONSTANTS
  Model,        \* model files
  Call,         \* the starts of a behaviour, numbered 1, 2, ... (a bound)
  MaxProc,      \* llama-server processes of a behaviour (a bound)
  MaxWindow,    \* context windows are 1..MaxWindow; 0 is a caller that does not say
  DefaultWindow,\* requestedContext's 8192
  Fits,         \* Fits[m]: the window that fits beside model m
  Roomy,        \* Roomy[m]: the window m is loaded at without being asked
  Incomplete,   \* the split models a part of which is missing
  Extras,       \* Extras[m]: the companions ("projector", "draft") of m
  Foreign,      \* what somebody else's server on the port may hold ("silent": it does not say)
  Overlap       \* whether a start may be made while another one is in flight

Window == 1..MaxWindow
Companion == {"projector", "draft"}

ASSUME ConstantsAssumption ==
  /\ Call \subseteq Nat \ {0} /\ MaxProc \in Nat /\ MaxWindow \in Nat \ {0}
  /\ DefaultWindow \in Window
  /\ Fits \in [Model -> Window] /\ Roomy \in [Model -> Window]
  /\ Incomplete \subseteq Model
  /\ Extras \in [Model -> SUBSET Companion]
  /\ Overlap \in BOOLEAN
  /\ Foreign \subseteq Model \cup {"silent"}
  /\ Model \cap {"none", "silent"} = {}

Proc == 1..MaxProc
NoProc == 0
NoCall == 0

VARIABLES
  calls,         \* calls[c]: where the start c is
  procs,         \* procs[p]: a llama-server process
  active,        \* activeProcess
  activeModel,   \* activeModel
  activeContext, \* activeContext
  starting,      \* the start a new one for the same model may join
  last,          \* lastRunningOptions
  refused,       \* the companions an engine refused since the app started
  foreign        \* a server on the port that is not ours: its model, "silent" or "none"

vars == <<calls, procs, active, activeModel, activeContext, starting, last, refused, foreign>>

-----------------------------------------------------------------------------
(* A start's options: the model, the window asked for, whether the user    *)
(* fixed it, and the companions it may use (skipProjector and skipDraft    *)
(* take one away).                                                         *)
Options ==
  [model : Model, ctx : Window, exact : BOOLEAN, extras : SUBSET Companion]

NoOptions == [model |-> "none", ctx |-> 0, exact |-> FALSE, extras |-> {}]

Waits == {"reuse", "probe", "adopt", "prepare", "probe2", "adopt2", "memory",
          "loading", "measure"}
Failures == {"parts-missing", "port-in-use", "spawn-failed", "engine-missing",
             "stopped-loading", "another-model", "load-timeout"}
Result == {"none", "loaded", "reused", "adopted"} \cup Failures

Idle == [at |-> "idle", opts |-> NoOptions, window |-> 0, child |-> NoProc,
         owner |-> NoCall, result |-> "none"]
NotSpawned == [at |-> "unused", model |-> "none", window |-> 0, uses |-> {}, why |-> "none"]
Ended(at, why) == [NotSpawned EXCEPT !.at = at, !.why = why]
NoStart == [call |-> NoCall, model |-> "none", context |-> 0]

InFlight(c) == calls[c].at \in Waits
Known(p) == procs[p].at \notin {"killed", "crashed", "gone"}
Alive(p) == procs[p].at \in {"spawned", "bound", "ready"}

TypeOK ==
  /\ calls \in [Call ->
       [at : {"idle", "joined", "done"} \cup Waits,
        opts : Options \cup {NoOptions}, window : 0..MaxWindow, child : Proc \cup {NoProc},
        owner : Call \cup {NoCall}, result : Result]]
  /\ procs \in [Proc ->
       [at : {"unused", "spawned", "bound", "ready", "unstartable", "dead",
              "killed", "crashed", "gone"},
        model : Model \cup {"none"}, window : 0..MaxWindow, uses : SUBSET Companion,
        why : Companion \cup {"none", "other"}]]
  /\ active \in Proc \cup {NoProc}
  /\ activeModel \in Model \cup {"none"}
  /\ activeContext \in Window
  /\ starting \in [call : Call \cup {NoCall}, model : Model \cup {"none"}, context : 0..MaxWindow]
  /\ last \in Options \cup {NoOptions}
  /\ refused \subseteq Model \X Companion
  /\ foreign \in Foreign \cup {"none"}

Init ==
  /\ calls = [c \in Call |-> Idle]
  /\ procs = [p \in Proc |-> NotSpawned]
  /\ active = NoProc /\ activeModel = "none" /\ activeContext = DefaultWindow
  /\ starting = NoStart
  /\ last = NoOptions
  /\ refused = {}
  /\ foreign \in Foreign \cup {"none"}

-----------------------------------------------------------------------------
(* Faulty variants of definitions below, see ParallelCalls.                *)

(* A smaller window serves, a bigger one does not. *)
servesWindowSmaller(loaded, wanted, exact) ==
  loaded = wanted \/ (~exact /\ loaded < wanted)

(* Any exit is taken for the exit of the active process. *)
ExitEventOfAny(p) ==
  /\ procs[p].at \in {"dead", "killed"}
  /\ procs' = [procs EXCEPT ![p] = Ended("crashed", procs[p].why)]
  /\ active' = NoProc /\ activeModel' = "none"
  /\ UNCHANGED <<calls, activeContext, starting, last, refused, foreign>>

(* No exit is noticed. *)
ExitEventUnseen(p) ==
  /\ procs[p].at \in {"dead", "killed"}
  /\ procs' = [procs EXCEPT ![p] = Ended("gone", "none")]
  /\ UNCHANGED <<calls, active, activeModel, activeContext, starting, last, refused, foreign>>

-----------------------------------------------------------------------------
(* The port and who answers on it.                                         *)
Ready == {p \in Proc : procs[p].at = "ready"}
PortTaken == foreign # "none" \/ \E p \in Proc : procs[p].at \in {"bound", "ready"}
pingHealth == foreign # "none" \/ Ready # {}

(* What a server on the port says it holds; "silent" when it does not say, *)
(* or when nothing answers any more.                                       *)
servedModel ==
  IF Ready # {} THEN {procs[p].model : p \in Ready}
  ELSE {IF foreign = "none" THEN "silent" ELSE foreign}

adoptable(m) == servedModel \subseteq {m, "silent"}

(* The window a start gets: what fits, and for one that may be rounded up  *)
(* at least the roomy size.                                                *)
determineKvCache(m, ctx, exact) ==
  LET fit == IF ctx < Fits[m] THEN ctx ELSE Fits[m]
  IN  IF ~exact /\ fit < Roomy[m] THEN Roomy[m] ELSE fit

servesWindow(loaded, wanted, exact) ==
  loaded = wanted \/ (~exact /\ loaded > wanted)

requestedContext(m, ctx) ==
  IF ctx > 0 THEN ctx
  ELSE IF starting.model = m THEN starting.context
  ELSE IF active # NoProc /\ activeModel = m THEN activeContext
  ELSE DefaultWindow

-----------------------------------------------------------------------------
(* Fragments the actions are built from.                                   *)

(* stopServerSync: kill what activeProcess points to, if anything. *)
stopServerSync ==
  IF active = NoProc
    THEN UNCHANGED <<procs, active, activeModel>>
    ELSE /\ procs' = [procs EXCEPT ![active] = Ended("killed", "none")]
         /\ active' = NoProc /\ activeModel' = "none"

(* A start comes back, and with it the starts that joined it; `finally'    *)
(* clears `starting' only when it is still this start's own entry.         *)
Settle(c, res) ==
  /\ calls' = [d \in Call |->
       IF d = c \/ (calls[d].at = "joined" /\ calls[d].owner = c)
         THEN [Idle EXCEPT !.at = "done", !.result = res]
         ELSE calls[d]]
  /\ starting' = IF starting.call = c THEN NoStart ELSE starting

GoTo(c, at) ==
  /\ calls' = [calls EXCEPT ![c].at = at]
  /\ UNCHANGED starting

(* The synchronous head of launchServer: a running server that fits is     *)
(* asked whether it is well, any other is stopped.                         *)
Enter(c, o, w, reusable) ==
  LET here == [Idle EXCEPT !.opts = o, !.window = w]
  IN  \/ /\ reusable
         /\ calls' = [calls EXCEPT ![c] = [here EXCEPT !.at = "reuse"]]
         /\ UNCHANGED <<procs, active, activeModel>>
      \/ /\ ~reusable
         /\ calls' = [calls EXCEPT ![c] = [here EXCEPT !.at = "probe"]]
         /\ stopServerSync

launchServer(c, o) ==
  LET w == determineKvCache(o.model, o.ctx, o.exact)
  IN  Enter(c, o, w, /\ active # NoProc /\ activeModel = o.model
                     /\ servesWindow(activeContext, w, o.exact))

-----------------------------------------------------------------------------
(* startServer: join the start in flight for this model, or launch.        *)
Joins(m, w, exact) ==
  starting.model = m /\ servesWindow(starting.context, w, exact)

startServer(c, m, ask, exact, extras) ==
  LET o == [model |-> m, ctx |-> requestedContext(m, ask), exact |-> exact, extras |-> extras]
      w == determineKvCache(m, o.ctx, exact)
  IN  \/ /\ Joins(m, w, exact)
         /\ calls' = [calls EXCEPT ![c] =
              [Idle EXCEPT !.at = "joined", !.opts = o, !.window = w, !.owner = starting.call]]
         /\ UNCHANGED <<procs, active, activeModel, starting>>
      \/ /\ ~Joins(m, w, exact) /\ m \in Incomplete
         /\ calls' = [calls EXCEPT ![c] =
              [Idle EXCEPT !.at = "done", !.result = "parts-missing"]]
         /\ starting' = NoStart
         /\ UNCHANGED <<procs, active, activeModel>>
      \/ /\ ~Joins(m, w, exact) /\ m \notin Incomplete
         /\ launchServer(c, o)
         /\ starting' = [call |-> c, model |-> m, context |-> w]

(* The starts are made in the order of their numbers; without Overlap a    *)
(* caller waits for the one before to come back unless it joins it.        *)
MayCall(c, m, ask, exact) ==
  /\ calls[c].at = "idle"
  /\ \A d \in Call : d < c => calls[d].at # "idle"
  /\ Overlap \/ (\A d \in Call : ~InFlight(d))
       \/ Joins(m, determineKvCache(m, requestedContext(m, ask), exact), exact)

(* What a caller asks for; only a window that was named can be fixed. *)
Ask == {a \in [model : Model, ctx : 0..MaxWindow, exact : BOOLEAN] : a.exact => a.ctx > 0}

StartFor(c, a) ==
  /\ startServer(c, a.model, a.ctx, a.exact, Extras[a.model])
  /\ UNCHANGED <<activeContext, last, refused, foreign>>

Start(c) ==
  \E a \in Ask : MayCall(c, a.model, a.ctx, a.exact) /\ StartFor(c, a)

(* reloadServer: the last start that succeeded, with its options. *)
Reload(c) ==
  /\ last # NoOptions
  /\ MayCall(c, last.model, last.ctx, last.exact)
  /\ startServer(c, last.model, last.ctx, last.exact, last.extras)
  /\ UNCHANGED <<activeContext, last, refused, foreign>>

(* The running server answered, or not: then whatever runs by now goes.    *)
Reuse(c) ==
  /\ calls[c].at = "reuse"
  /\ IF pingHealth
       THEN Settle(c, "reused") /\ UNCHANGED <<procs, active, activeModel>>
       ELSE GoTo(c, "probe") /\ stopServerSync
  /\ UNCHANGED <<activeContext, last, refused, foreign>>

(* Is somebody else on the port?  Asked before and after the preparations. *)
Probe(c) ==
  /\ \/ calls[c].at = "probe" /\ GoTo(c, IF pingHealth THEN "adopt" ELSE "prepare")
     \/ calls[c].at = "probe2" /\ GoTo(c, IF pingHealth THEN "adopt2" ELSE "memory")
  /\ UNCHANGED <<procs, active, activeModel, activeContext, last, refused, foreign>>

(* A server that holds our model, or does not say, stands in for ours. *)
Adopt(c) ==
  LET m == calls[c].opts.model IN
  /\ calls[c].at \in {"adopt", "adopt2"}
  /\ IF adoptable(m)
       THEN Settle(c, "adopted") /\ activeModel' = m
       ELSE Settle(c, "port-in-use") /\ UNCHANGED activeModel
  /\ UNCHANGED <<procs, active, activeContext, last, refused, foreign>>

(* The devices, the engine's flags and the thread counts are known; a      *)
(* companion that was refused before is left out.                          *)
Prepare(c) ==
  /\ calls[c].at = "prepare"
  /\ calls' = [calls EXCEPT
       ![c].at = IF active = NoProc THEN "probe2" ELSE "memory",
       ![c].opts.extras = {x \in @ : <<calls[c].opts.model, x>> \notin refused}]
  /\ UNCHANGED starting
  /\ UNCHANGED <<procs, active, activeModel, activeContext, last, refused, foreign>>

(* The memory was measured: spawn, whatever activeProcess holds by now. *)
Spawn(c) ==
  /\ calls[c].at = "memory"
  /\ \E p \in Proc :
       /\ procs[p].at = "unused"
       /\ \A q \in Proc : q < p => procs[q].at # "unused"
       /\ procs' = [procs EXCEPT ![p] =
            [NotSpawned EXCEPT !.at = "spawned", !.model = calls[c].opts.model,
                               !.window = calls[c].window, !.uses = calls[c].opts.extras]]
       /\ active' = p
       /\ calls' = [calls EXCEPT ![c].at = "loading", ![c].child = p]
  /\ activeModel' = calls[c].opts.model
  /\ activeContext' = calls[c].window
  /\ UNCHANGED <<starting, last, refused, foreign>>

(* spawn itself throws: the catch block. *)
SpawnThrows(c) ==
  /\ calls[c].at = "memory"
  /\ stopServerSync
  /\ Settle(c, "spawn-failed")
  /\ UNCHANGED <<activeContext, last, refused, foreign>>

-----------------------------------------------------------------------------
(* waitForReady: the child is still the active one and has not exited, and *)
(* somebody on the port says it is healthy.                                *)
isAlive(c) ==
  active = calls[c].child /\ Known(active) /\ procs[active].at # "unstartable"

LoadReady(c) ==
  /\ isAlive(c) /\ pingHealth
  /\ last' = calls[c].opts
  /\ GoTo(c, "measure")
  /\ UNCHANGED <<procs, active, activeModel, refused>>

(* Faulty variant: a server that is not healthy is polled without deadline. *)
LoadTimeoutPolls(c) ==
  /\ isAlive(c) /\ ~pingHealth
  /\ UNCHANGED <<calls, starting, procs, active, activeModel, last, refused>>

LoadTimeout(c) ==
  /\ isAlive(c) /\ ~pingHealth
  /\ stopServerSync
  /\ Settle(c, "load-timeout")
  /\ UNCHANGED <<last, refused>>

(* The binary could not be started, and nobody took over meanwhile. *)
SpawnError(c) ==
  /\ procs[calls[c].child].at = "unstartable" /\ active = calls[c].child
  /\ active' = NoProc /\ activeModel' = "none"
  /\ \E res \in {"engine-missing", "stopped-loading"} : Settle(c, res)
  /\ UNCHANGED <<procs, last, refused>>

(* It exited while it was the active one.  A companion it refused is       *)
(* remembered and left out of a second launch, which starts over from the  *)
(* head of launchServer.                                                   *)
Crashed(c) ==
  LET child == procs[calls[c].child]
      o == calls[c].opts
  IN  /\ child.at = "crashed"
      /\ \/ /\ child.why \in o.extras
            /\ refused' = refused \cup {<<o.model, child.why>>}
            /\ launchServer(c, [o EXCEPT !.extras = @ \ {child.why}])
            /\ UNCHANGED starting
         \/ /\ child.why \notin o.extras
            /\ Settle(c, "stopped-loading")
            /\ UNCHANGED <<procs, active, activeModel, refused>>
      /\ UNCHANGED last

(* It was stopped or replaced while it loaded. *)
Replaced(c) ==
  /\ active # calls[c].child /\ procs[calls[c].child].at # "crashed"
  /\ Settle(c, "another-model")
  /\ UNCHANGED <<procs, active, activeModel, last, refused>>

Load(c) ==
  /\ calls[c].at = "loading"
  /\ LoadReady(c) \/ LoadTimeout(c) \/ SpawnError(c) \/ Crashed(c) \/ Replaced(c)
  /\ UNCHANGED <<activeContext, foreign>>

(* The memory was measured again: the start succeeds. *)
Measure(c) ==
  /\ calls[c].at = "measure"
  /\ Settle(c, "loaded")
  /\ UNCHANGED <<procs, active, activeModel, activeContext, last, refused, foreign>>

(* gguf:stop, the image engine taking the chat model's memory, quitting. *)
Stop ==
  /\ active # NoProc
  /\ stopServerSync
  /\ UNCHANGED <<calls, activeContext, starting, last, refused, foreign>>

(* node reports that a process is gone. *)
ExitEvent(p) ==
  /\ procs[p].at \in {"dead", "killed"}
  /\ IF active = p
       THEN /\ procs' = [procs EXCEPT ![p] = Ended("crashed", procs[p].why)]
            /\ active' = NoProc /\ activeModel' = "none"
       ELSE /\ procs' = [procs EXCEPT ![p] = Ended("gone", "none")]
            /\ UNCHANGED <<active, activeModel>>
  /\ UNCHANGED <<calls, activeContext, starting, last, refused, foreign>>

-----------------------------------------------------------------------------
(* llama-server itself (external): it binds the port, answers 503 while it *)
(* loads and 200 afterwards, and may end at any moment.                    *)
Becomes(p, at, why) ==
  /\ procs' = [procs EXCEPT ![p].at = at, ![p].why = why]
  /\ UNCHANGED <<calls, active, activeModel, activeContext, starting, last, refused, foreign>>

ServerStep(p) ==
  \/ procs[p].at = "spawned" /\ Becomes(p, "unstartable", "none")
  \/ procs[p].at = "spawned" /\ PortTaken /\ Becomes(p, "dead", "other")
  \/ procs[p].at = "spawned" /\ ~PortTaken /\ Becomes(p, "bound", "none")
  \/ procs[p].at = "bound" /\ Becomes(p, "ready", "none")
  \/ procs[p].at = "bound" /\ \E why \in procs[p].uses \cup {"other"} : Becomes(p, "dead", why)
  \/ procs[p].at = "ready" /\ Becomes(p, "dead", "other")

(* Somebody else's server takes the free port, or leaves it. (external) *)
ForeignStep ==
  /\ \/ foreign # "none" /\ foreign' = "none"
     \/ ~PortTaken /\ foreign' \in Foreign
  /\ UNCHANGED <<calls, procs, active, activeModel, activeContext, starting, last, refused>>

-----------------------------------------------------------------------------
Step(c) ==
  Reuse(c) \/ Probe(c) \/ Adopt(c) \/ Prepare(c) \/ Spawn(c) \/ SpawnThrows(c)
  \/ Load(c) \/ Measure(c)

Next ==
  \/ \E c \in Call : Start(c) \/ Reload(c) \/ Step(c)
  \/ \E p \in Proc : ExitEvent(p) \/ ServerStep(p)
  \/ Stop \/ ForeignStep

(* Every await of a start is answered: pings and helper processes have     *)
(* timeouts, waitForReady has its deadline.                                *)
Fairness == \A c \in Call : WF_vars(Step(c))

Spec == Init /\ [][Next]_vars /\ Fairness

-----------------------------------------------------------------------------
(* What activeProcess does not point to is dead: every server the code     *)
(* started can still be stopped, also by the quit handler.                 *)
NoOrphan == \A p \in Proc : Alive(p) => active = p

(* getServerStatus tells the truth about a process: the model it names is  *)
(* the one the process was started with, and its exit was not missed.      *)
StatusTrue ==
  active # NoProc => /\ procs[active].at \notin {"crashed", "gone"}
                     /\ activeModel = procs[active].model
                     /\ activeContext = procs[active].window

(* activeProcess never points to a process that the code stopped or whose  *)
(* exit it has seen, whatever the starts in flight do.                     *)
ActiveKnown == active # NoProc => Known(active)

(* A start can only be joined while it will still come back with a result  *)
(* of its own: neither `starting' nor a joined start outlives its owner.   *)
JoinedInFlight ==
  /\ starting # NoStart =>
       InFlight(starting.call) /\ calls[starting.call].opts.model = starting.model
  /\ \A c \in Call : calls[c].at = "joined" => InFlight(calls[c].owner)

(* A start that reports success with a process of ours, its own or a       *)
(* reused one, reports it of the model and of a window the caller can use; *)
(* at worst the process was stopped or died since it answered.             *)
Succeeds(c) ==
  /\ calls[c].at \in {"joined", "reuse", "measure"}
  /\ calls'[c].result \in {"loaded", "reused"}

SuccessServes ==
  [][\A c \in Call :
       Succeeds(c) /\ active # NoProc =>
         /\ procs[active].model = calls[c].opts.model
         /\ procs[active].window >= calls[c].window]_vars
=============================================================================
