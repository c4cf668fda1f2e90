------------------------- MODULE LocalEnginesProofs -------------------------
(***************************************************************************)
(* Callers that wait for one another never have two local chat engines, an *)
(* engine nobody can stop, or an answer from the wrong one, however many   *)
(* starts, stops, crashes and models there are.  First llama.cpp by        *)
(* itself (LlamaProcess), then with colibri behind the host, and last the  *)
(* updates of the engine that is started there (EngineUpdater).            *)
(***************************************************************************)
EXTENDS LocalEngines, EngineUpdater, FiniteSetTheorems, TLAPS

\* What the proofs use of the assumptions on the constants
Assumptions ==
  /\ Call \subseteq Nat \ {0} /\ Attempt \subseteq Nat \ {0}
  /\ MaxProc \in Nat /\ MaxWindow \in Nat \ {0} /\ DefaultWindow \in 1..MaxWindow
  /\ Fits \in [Model -> 1..MaxWindow] /\ Roomy \in [Model -> 1..MaxWindow]
  /\ Extras \in [Model -> SUBSET {"projector", "draft"}]
  /\ "none" \notin Model

LEMMA Assumed == Assumptions
BY ConstantsAssumption, EnginesAssumption DEF Assumptions, Window, Companion

-----------------------------------------------------------------------------
(* llama.cpp.                                                              *)

CallType == [at : {"idle", "joined", "done"} \cup Waits,
             opts : Options \cup {NoOptions}, window : 0..MaxWindow,
             child : Proc \cup {0}, owner : Call \cup {0}, result : Result]
ProcType == [at : {"unused", "spawned", "bound", "ready", "unstartable", "dead",
                   "killed", "crashed", "gone"},
             model : Model \cup {"none"}, window : 0..MaxWindow, uses : SUBSET Companion,
             why : Companion \cup {"none", "other"}]

\* the processes and what is known of the one that runs
ProcTypes ==
  /\ procs \in [Proc -> ProcType]
  /\ active \in Proc \cup {0} /\ activeModel \in Model \cup {"none"} /\ activeContext \in 1..MaxWindow
  /\ last \in Options \cup {NoOptions} /\ refused \subseteq Model \X Companion
  /\ foreign \in Foreign \cup {"none"}
Processes == ProcTypes /\ NoOrphan /\ StatusTrue

Pending(c) == InFlight(c) \/ calls[c].at = "joined"
Unspawned == {"probe", "adopt", "prepare", "probe2", "adopt2", "memory"}
WindowOf(o) == determineKvCache(o.model, o.ctx, o.exact)

\* What the start c counts on: before its spawn nothing runs, after it, and while it
\* asks a running server, what runs is what it wants.
Holds(c) ==
  /\ calls[c].at \in Unspawned => active = 0
  /\ calls[c].at \in {"loading", "measure"} => calls[c].child \in Proc /\ active \in {0, calls[c].child}
  /\ calls[c].at \in {"reuse", "loading", "measure"} /\ active # 0 =>
       activeModel = calls[c].opts.model /\ activeContext >= calls[c].window

\* One start is in flight, all others that wait have joined it.
LlamaInv ==
  /\ calls \in [Call -> CallType]
  /\ Processes
  /\ \A c, d \in Call : InFlight(c) /\ InFlight(d) => c = d
  /\ \A c \in Call : Pending(c) => /\ calls[c].opts \in Options /\ calls[c].result = "none"
                                   /\ calls[c].window = WindowOf(calls[c].opts)
  /\ \A c \in Call : InFlight(c) => Holds(c)
  /\ \A c \in Call : calls[c].at = "joined" =>
       LET d == calls[c].owner
       IN  d \in Call /\ InFlight(d) /\ calls[d].opts.model = calls[c].opts.model /\ calls[d].window >= calls[c].window
  /\ starting # NoStart =>
       LET d == starting.call
       IN  d \in Call /\ InFlight(d) /\ starting.model = calls[d].opts.model /\ starting.context = calls[d].window

-----------------------------------------------------------------------------

LEMMA WindowFits ==
  ASSUME Assumptions, NEW o \in Options
  PROVE  WindowOf(o) \in 1..MaxWindow
<1>1. /\ o.ctx \in 1..MaxWindow /\ Fits[o.model] \in 1..MaxWindow /\ Roomy[o.model] \in 1..MaxWindow
  BY DEF Assumptions, Options, Window
<1> DEFINE fit == IF o.ctx < Fits[o.model] THEN o.ctx ELSE Fits[o.model]
<1>2. fit \in 1..MaxWindow
  BY <1>1
<1> QED
  BY <1>1, <1>2 DEF WindowOf, determineKvCache

LEMMA EndedProcess ==
  ASSUME Assumptions, NEW at \in {"killed", "crashed", "gone"}, NEW why \in Companion \cup {"none", "other"}
  PROVE  Ended(at, why) \in ProcType /\ Ended(at, why).at = at
<1>1. NotSpawned \in ProcType
  BY DEF NotSpawned, ProcType, Assumptions
<1> QED
  BY <1>1 DEF Ended, ProcType

LEMMA LlamaStarts ==
  ASSUME Assumptions, Init
  PROVE  LlamaInv
<1>1. Idle \in CallType /\ Idle.at = "idle" /\ NotSpawned \in ProcType /\ NotSpawned.at = "unused"
  BY DEF Assumptions, Idle, NotSpawned, CallType, ProcType, Result, NoProc, NoCall
<1>2. \A c \in Call : ~Pending(c)
  BY <1>1 DEF Init, Pending, InFlight, Waits
<1>3. Processes
  BY <1>1 DEF Init, Processes, ProcTypes, NoOrphan, Alive, StatusTrue, NoProc, Assumptions
<1> QED
  BY <1>1, <1>2, <1>3 DEF LlamaInv, Pending, Init

\* Nobody waits for a start any more.
LEMMA AllBack ==
  ASSUME calls' \in [Call -> CallType], Processes', \A c \in Call : ~Pending(c)', starting' = NoStart
  PROVE  LlamaInv'
BY DEF LlamaInv, Pending

\* When the start in flight comes back, so does everyone who waits.
LEMMA SettlesAll ==
  ASSUME Assumptions, LlamaInv, NEW c \in Call, InFlight(c), NEW res \in Result, Settle(c, res)
  PROVE  /\ calls' \in [Call -> CallType] /\ starting' = NoStart
         /\ \A d \in Call : ~Pending(d)'
         /\ \A d \in Call : calls'[d].result \in {calls[d].result, res}
         /\ \A d \in Call : calls'[d] # calls[d] =>
              d = c \/ (calls[d].at = "joined" /\ calls[d].owner = c)
<1> DEFINE back == [Idle EXCEPT !.at = "done", !.result = res]
           Mine(d) == d = c \/ (calls[d].at = "joined" /\ calls[d].owner = c)
<1>1. back \in CallType /\ back.at = "done" /\ back.result = res
  <2>1. Idle \in CallType
    BY DEF Assumptions, Idle, CallType, Result, NoProc, NoCall
  <2> QED
    BY <2>1 DEF CallType
<1>2. calls' = [d \in Call |-> IF Mine(d) THEN back ELSE calls[d]]
      /\ starting' = IF starting.call = c THEN NoStart ELSE starting
  BY DEF Settle
<1> HIDE DEF back
<1>3. calls' \in [Call -> CallType]
  BY <1>1, <1>2 DEF LlamaInv
<1>4. \A d \in Call : Pending(d) => Mine(d)
  BY DEF LlamaInv, Pending
<1>5. \A d \in Call : ~Pending(d)'
  BY <1>1, <1>2, <1>4 DEF Pending, InFlight, Waits
<1>6. starting' = NoStart
  BY <1>2 DEF LlamaInv
<1> QED
  BY <1>1, <1>2, <1>3, <1>5, <1>6

LEMMA StopKills ==
  ASSUME Assumptions, Processes, stopServerSync, UNCHANGED <<activeContext, last, foreign>>,
         refused' = refused \/ refused' \subseteq Model \X Companion
  PROVE  /\ Processes' /\ active' = 0
         /\ \A p \in Proc : ~Alive(p)'
<1>1. CASE active = 0
  BY <1>1 DEF stopServerSync, Processes, ProcTypes, NoProc, NoOrphan, Alive, StatusTrue, Proc
<1>2. CASE active # 0
  <2> DEFINE killed == Ended("killed", "none")
  <2>1. killed \in ProcType /\ killed.at = "killed"
    BY EndedProcess DEF Companion
  <2>2. procs' = [procs EXCEPT ![active] = killed] /\ active' = 0 /\ activeModel' = "none" /\ active \in Proc
    BY <1>2 DEF stopServerSync, NoProc, Processes, ProcTypes
  <2> HIDE DEF killed
  <2>3. procs' \in [Proc -> ProcType] /\ \A p \in Proc : ~Alive(p)'
    BY <2>1, <2>2 DEF Processes, ProcTypes, NoOrphan, Alive
  <2> QED
    BY <2>2, <2>3 DEF Processes, ProcTypes, NoOrphan, StatusTrue, NoProc
<1> QED
  BY <1>1, <1>2

\* What happens to the processes: nothing new runs, and what runs on is what it was.
Calms == active' \in {0, active} /\ (active' # 0 => activeModel' = activeModel /\ activeContext' = activeContext)

LEMMA ProcessesMove ==
  ASSUME LlamaInv, UNCHANGED <<calls, starting>>, Processes', Calms
  PROVE  LlamaInv'
<1>1. \A c \in Call : Holds(c) => Holds(c)'
  BY DEF Holds, Calms
<1> QED
  BY <1>1 DEF LlamaInv, Pending, InFlight

\* The start in flight goes on for the same model and window.
LEMMA OneMoves ==
  ASSUME LlamaInv, NEW c \in Call, InFlight(c), NEW new \in CallType,
         calls' = [calls EXCEPT ![c] = new], starting' = starting,
         new.at \in Waits, new.result = "none", new.window = calls[c].window,
         new.opts \in Options, new.opts.model = calls[c].opts.model,
         new.opts.ctx = calls[c].opts.ctx, new.opts.exact = calls[c].opts.exact,
         Processes', Holds(c)'
  PROVE  LlamaInv'
<1>1. calls' \in [Call -> CallType] /\ calls'[c] = new /\ \A d \in Call : d # c => calls'[d] = calls[d]
  BY DEF LlamaInv
<1>2. InFlight(c)' /\ \A d \in Call : InFlight(d)' => d = c
  BY <1>1 DEF LlamaInv, InFlight
<1>3. \A d \in Call : calls'[d].at = "joined" => calls[d] = calls'[d] /\ d # c
  BY <1>1 DEF Waits
<1>4. \A d \in Call : Pending(d)' => /\ calls'[d].opts \in Options /\ calls'[d].result = "none"
                                     /\ calls'[d].window = WindowOf(calls'[d].opts)
  BY <1>1, <1>2, <1>3 DEF LlamaInv, Pending, WindowOf
<1>5. \A d \in Call : calls'[d].at = "joined" =>
        calls'[d].owner = c /\ new.opts.model = calls'[d].opts.model /\ new.window >= calls'[d].window
  BY <1>3 DEF LlamaInv
<1>6. starting' # NoStart => starting'.call = c /\ starting'.model = new.opts.model /\ starting'.context = new.window
  BY DEF LlamaInv
<1> QED
  BY <1>1, <1>2, <1>4, <1>5, <1>6 DEF LlamaInv

\* launchServer, of the first launch and of one without a companion.
Launched(c, o) ==
  \E new \in CallType :
    /\ calls' = [calls EXCEPT ![c] = new] /\ new.opts = o /\ new.window = WindowOf(o)
    /\ new.result = "none" /\ new.at \in {"reuse", "probe"}

LEMMA Launches ==
  ASSUME Assumptions, LlamaInv, NEW c \in Call, NEW o \in Options, launchServer(c, o),
         UNCHANGED <<activeContext, last, foreign>>,
         refused' = refused \/ refused' \subseteq Model \X Companion
  PROVE  Processes' /\ Launched(c, o) /\ Holds(c)'
<1> DEFINE w == determineKvCache(o.model, o.ctx, o.exact)
           reusable == /\ active # NoProc /\ activeModel = o.model /\ servesWindow(activeContext, w, o.exact)
           here(at) == [[Idle EXCEPT !.opts = o, !.window = w] EXCEPT !.at = at]
<1>1. w \in 1..MaxWindow /\ w = WindowOf(o)
  BY WindowFits DEF WindowOf
<1>2. Enter(c, o, w, reusable)
  BY DEF launchServer
<1>3. \/ /\ reusable /\ calls' = [calls EXCEPT ![c] = here("reuse")] /\ UNCHANGED <<procs, active, activeModel>>
      \/ calls' = [calls EXCEPT ![c] = here("probe")] /\ stopServerSync
  BY <1>2 DEF Enter
<1>4. reusable => active # 0 /\ activeModel = o.model /\ activeContext >= w
  BY <1>1 DEF servesWindow, NoProc, LlamaInv, Processes, ProcTypes
<1> HIDE DEF w, reusable
<1>5. ASSUME NEW at \in {"reuse", "probe"}
      PROVE  /\ here(at) \in CallType /\ here(at).opts = o /\ here(at).window = w
             /\ here(at).result = "none" /\ here(at).at = at
  <2>1. Idle \in CallType /\ Idle.result = "none"
    BY DEF Assumptions, Idle, CallType, Result, NoProc, NoCall
  <2>2. [Idle EXCEPT !.opts = o, !.window = w] \in CallType
    <3>1. w \in 0..MaxWindow /\ o \in Options \cup {NoOptions}
      BY <1>1 DEF Assumptions
    <3> QED
      BY <2>1, <3>1 DEF CallType
  <2> QED
    BY <2>1, <2>2 DEF CallType, Waits
<1> HIDE DEF here
<1>6. CASE reusable /\ calls' = [calls EXCEPT ![c] = here("reuse")] /\ UNCHANGED <<procs, active, activeModel>>
  <2>1. calls'[c] = here("reuse")
    BY <1>6 DEF LlamaInv
  <2>2. Holds(c)'
    BY <1>4, <1>5, <1>6, <2>1 DEF Holds, Unspawned
  <2>3. Processes'
    BY <1>6 DEF LlamaInv, Processes, ProcTypes, NoOrphan, Alive, StatusTrue
  <2> QED
    BY <1>1, <1>5, <1>6, <2>2, <2>3 DEF Launched
<1>7. CASE calls' = [calls EXCEPT ![c] = here("probe")] /\ stopServerSync
  <2>1. calls'[c] = here("probe")
    BY <1>7 DEF LlamaInv
  <2>2. Processes' /\ active' = 0
    BY <1>7, StopKills DEF LlamaInv
  <2>3. Holds(c)'
    BY <1>5, <2>1, <2>2 DEF Holds
  <2> QED
    BY <1>1, <1>5, <1>7, <2>2, <2>3 DEF Launched
<1> QED
  BY <1>3, <1>6, <1>7

LEMMA StartKeeps ==
  ASSUME Assumptions, LlamaInv, NEW c \in Call, ~Pending(c),
         NEW m \in Model, NEW ask \in 0..MaxWindow, NEW exact \in BOOLEAN, NEW extras \in SUBSET Companion,
         startServer(c, m, ask, exact, extras),
         \/ \A d \in Call : ~InFlight(d)
         \/ Joins(m, determineKvCache(m, requestedContext(m, ask), exact), exact),
         UNCHANGED <<activeContext, last, refused, foreign>>
  PROVE  LlamaInv'
<1> DEFINE o == [model |-> m, ctx |-> requestedContext(m, ask), exact |-> exact, extras |-> extras]
           w == determineKvCache(m, o.ctx, exact)
<1>1. starting.model = m => starting # NoStart /\ starting.context \in 1..MaxWindow
  <2>1. SUFFICES ASSUME starting.model = m
                 PROVE  starting # NoStart /\ starting.context \in 1..MaxWindow
    OBVIOUS
  <2>2. starting # NoStart
    BY <2>1 DEF NoStart, Assumptions
  <2> QED
    <3>1. /\ starting.call \in Call /\ Pending(starting.call)
          /\ starting.context = calls[starting.call].window
      BY <2>2 DEF LlamaInv, Pending
    <3>2. calls[starting.call].opts \in Options /\ starting.context = WindowOf(calls[starting.call].opts)
      BY <3>1 DEF LlamaInv
    <3> QED
      BY <2>2, <3>2, WindowFits
<1>2. o \in Options /\ o.model = m /\ o.exact = exact /\ w = WindowOf(o)
  <2>1. requestedContext(m, ask) \in 1..MaxWindow
    BY <1>1 DEF requestedContext, Assumptions, LlamaInv, Processes, ProcTypes
  <2> QED
    BY <2>1 DEF Options, Window, WindowOf
<1>3. w \in 1..MaxWindow
  BY <1>2, WindowFits
<1>4. \/ /\ Joins(m, w, exact)
         /\ calls' = [calls EXCEPT ![c] =
              [Idle EXCEPT !.at = "joined", !.opts = o, !.window = w, !.owner = starting.call]]
         /\ UNCHANGED <<procs, active, activeModel, starting>>
      \/ /\ ~Joins(m, w, exact) /\ m \in Incomplete
         /\ calls' = [calls EXCEPT ![c] =
              [Idle EXCEPT !.at = "done", !.result = "parts-missing"]]
         /\ starting' = NoStart
         /\ UNCHANGED <<procs, active, activeModel>>
      \/ /\ ~Joins(m, w, exact) /\ m \notin Incomplete
         /\ launchServer(c, o)
         /\ starting' = [call |-> c, model |-> m, context |-> w]
  BY DEF startServer
<1>5. Joins(m, w, exact) \/ \A d \in Call : ~InFlight(d)
  OBVIOUS
<1> HIDE DEF w, o
<1>6. Idle \in CallType /\ Idle.result = "none"
  BY DEF Assumptions, Idle, CallType, Result, NoProc, NoCall
<1>7. UNCHANGED <<procs, active, activeModel>> => Processes'
  BY DEF LlamaInv, Processes, ProcTypes, NoOrphan, Alive, StatusTrue
<1>8. CASE /\ Joins(m, w, exact)
           /\ calls' = [calls EXCEPT ![c] =
                [Idle EXCEPT !.at = "joined", !.opts = o, !.window = w, !.owner = starting.call]]
           /\ UNCHANGED <<procs, active, activeModel, starting>>
  <2> DEFINE new == [Idle EXCEPT !.at = "joined", !.opts = o, !.window = w, !.owner = starting.call]
             own == starting.call
  <2>1. starting.model = m /\ starting.context >= w
    BY <1>1, <1>3, <1>8 DEF Joins, servesWindow
  <2>2. own \in Call /\ InFlight(own) /\ calls[own].opts.model = m /\ calls[own].window >= w /\ own # c
    BY <1>1, <2>1 DEF LlamaInv, Pending
  <2>3. w \in 0..MaxWindow /\ o \in Options \cup {NoOptions}
    BY <1>2, <1>3 DEF Assumptions
  <2>4. new \in CallType /\ new.at = "joined" /\ new.opts = o /\ new.window = w /\ new.owner = own /\ new.result = "none"
    BY <1>6, <2>2, <2>3 DEF CallType
  <2>5. calls' = [calls EXCEPT ![c] = new]
    BY <1>8
  <2> HIDE DEF new
  <2>6. calls' \in [Call -> CallType] /\ calls'[c] = new /\ \A d \in Call : d # c => calls'[d] = calls[d]
    BY <2>4, <2>5 DEF LlamaInv
  <2>7. \A d \in Call : /\ InFlight(d)' <=> InFlight(d)
                        /\ InFlight(d) => d # c
    BY <2>4, <2>6 DEF InFlight, Waits, Pending
  <2>8. \A d \in Call : Pending(d)' => d = c \/ Pending(d)
    BY <2>6 DEF Pending, InFlight
  <2>9. \A d \in Call : InFlight(d) => Holds(d)'
    BY <1>8, <2>6, <2>7 DEF Holds, LlamaInv
  <2>10. \A d \in Call : Pending(d)' => /\ calls'[d].opts \in Options /\ calls'[d].result = "none"
                                       /\ calls'[d].window = WindowOf(calls'[d].opts)
    BY <1>2, <2>4, <2>6, <2>8 DEF LlamaInv
  <2>11. \A d, e \in Call : calls'[d].at = "joined" /\ calls'[d].owner = e =>
           InFlight(e) /\ calls[e].opts.model = calls'[d].opts.model /\ calls[e].window >= calls'[d].window
    BY <1>2, <2>2, <2>4, <2>6 DEF LlamaInv
  <2>12. \A d \in Call : calls'[d].at = "joined" => calls'[d].owner \in Call
    BY <2>2, <2>4, <2>6 DEF LlamaInv
  <2> QED
    BY <1>7, <1>8, <2>6, <2>7, <2>9, <2>10, <2>11, <2>12 DEF LlamaInv
\* nobody is in flight, so nobody waits either
<1>9. CASE \A d \in Call : ~InFlight(d)
  <2>1. \A d \in Call : ~Pending(d)
    BY <1>9 DEF LlamaInv, Pending
  <2>2. CASE /\ calls' = [calls EXCEPT ![c] = [Idle EXCEPT !.at = "done", !.result = "parts-missing"]]
             /\ starting' = NoStart
             /\ UNCHANGED <<procs, active, activeModel>>
    <3> DEFINE new == [Idle EXCEPT !.at = "done", !.result = "parts-missing"]
    <3>1. new \in CallType /\ new.at = "done"
      BY <1>6 DEF CallType, Result, Failures
    <3>2. calls' = [calls EXCEPT ![c] = new]
      BY <2>2
    <3> HIDE DEF new
    <3>3. calls' \in [Call -> CallType] /\ \A d \in Call : ~Pending(d)'
      BY <2>1, <3>1, <3>2 DEF LlamaInv, Pending, InFlight, Waits
    <3> QED
      BY <1>7, <2>2, <3>3, AllBack
  <2>3. CASE launchServer(c, o) /\ starting' = [call |-> c, model |-> m, context |-> w]
    <3>1. Processes' /\ Holds(c)' /\ Launched(c, o)
      BY <1>2, <2>3, Launches
    <3>2. PICK new \in CallType :
              /\ calls' = [calls EXCEPT ![c] = new] /\ new.opts = o /\ new.window = WindowOf(o)
              /\ new.result = "none" /\ new.at \in {"reuse", "probe"}
      BY <3>1 DEF Launched
    <3>3. calls' \in [Call -> CallType] /\ calls'[c] = new /\ \A d \in Call : d # c => calls'[d] = calls[d]
      BY <3>2 DEF LlamaInv
    <3>4. \A d \in Call : Pending(d)' => d = c
      BY <2>1, <3>3 DEF Pending, InFlight
    <3>5. InFlight(c)' /\ calls'[c].at # "joined"
      BY <3>2, <3>3 DEF InFlight, Waits
    <3>6. starting'.call = c /\ starting'.model = m /\ starting'.context = w
      BY <2>3
    <3> QED
      BY <1>2, <3>1, <3>2, <3>3, <3>4, <3>5, <3>6 DEF LlamaInv, Pending
  <2> QED
    BY <1>4, <1>8, <2>2, <2>3
<1> QED
  BY <1>4, <1>5, <1>8, <1>9

\* The processes end, are heard to have ended, or move on; the port's stranger comes and goes.
LEMMA OutsideKeeps ==
  ASSUME Assumptions, LlamaInv,
         (\E p \in Proc : ExitEvent(p) \/ ServerStep(p)) \/ ForeignStep
  PROVE  LlamaInv'
<1> USE DEF NoProc
<1>1. ASSUME NEW p \in Proc, ExitEvent(p)
      PROVE  Processes' /\ Calms
  <2>1. \E at \in {"crashed", "gone"}, why \in Companion \cup {"none", "other"} :
            procs' = [procs EXCEPT ![p] = Ended(at, why)]
    BY <1>1 DEF ExitEvent, LlamaInv, Processes, ProcTypes, ProcType
  <2>2. procs' \in [Proc -> ProcType] /\ \A q \in Proc : Alive(q)' => Alive(q) /\ q # p
    BY <2>1, EndedProcess DEF LlamaInv, Processes, ProcTypes, Alive
  <2>3. \A q \in Proc : q # p => procs'[q] = procs[q]
    BY <2>1 DEF LlamaInv, Processes, ProcTypes
  <2>4. \/ active = p /\ active' = 0 /\ activeModel' = "none"
        \/ active # p /\ UNCHANGED <<active, activeModel>>
    BY <1>1 DEF ExitEvent
  <2> QED
    BY <1>1, <2>2, <2>3, <2>4 DEF ExitEvent, LlamaInv, Processes, ProcTypes, NoOrphan, StatusTrue, Calms
<1>2. ASSUME NEW p \in Proc, ServerStep(p)
      PROVE  Processes' /\ Calms
  <2>1. PICK at \in {"unstartable", "dead", "bound", "ready"}, why \in Companion \cup {"none", "other"} :
          /\ Becomes(p, at, why)
          /\ procs[p].at \in {"spawned", "bound", "ready"}
    BY <1>2 DEF ServerStep, LlamaInv, Processes, ProcTypes, ProcType
  <2> DEFINE new == [procs[p] EXCEPT !.at = at, !.why = why]
  <2>2. new \in ProcType /\ new.at = at /\ new.model = procs[p].model /\ new.window = procs[p].window
    <3>1. procs[p] \in ProcType
      BY DEF LlamaInv, Processes, ProcTypes
    <3> QED
      BY <3>1 DEF ProcType
  <2>3. procs' = [procs EXCEPT ![p] = new]
    BY <2>1 DEF Becomes
  <2> HIDE DEF new
  <2>4. procs' \in [Proc -> ProcType] /\ procs'[p] = new /\ \A q \in Proc : q # p => procs'[q] = procs[q]
    BY <2>2, <2>3 DEF LlamaInv, Processes, ProcTypes
  <2>5. UNCHANGED <<active, activeModel, activeContext, last, refused, foreign>>
    BY <2>1 DEF Becomes
  <2>6. NoOrphan' /\ StatusTrue'
    BY <2>1, <2>2, <2>4, <2>5 DEF LlamaInv, Processes, ProcTypes, NoOrphan, Alive, StatusTrue
  <2> QED
    BY <2>4, <2>5, <2>6 DEF LlamaInv, Processes, ProcTypes, Calms
<1>3. ASSUME ForeignStep
      PROVE  Processes' /\ Calms
  <2>1. /\ UNCHANGED <<procs, active, activeModel, activeContext, last, refused>>
        /\ foreign' \in Foreign \cup {"none"}
    BY <1>3 DEF ForeignStep
  <2>2. Processes
    BY DEF LlamaInv
  <2> QED
    BY <2>1, <2>2 DEF Processes, ProcTypes, NoOrphan, Alive, StatusTrue, Calms
<1>4. Processes' /\ Calms
  BY <1>1, <1>2, <1>3
<1>5. UNCHANGED <<calls, starting>>
  BY DEF ExitEvent, ServerStep, Becomes, ForeignStep
<1> QED
  BY <1>4, <1>5, ProcessesMove

LEMMA StoppedKeeps ==
  ASSUME Assumptions, LlamaInv, stopServerSync,
         UNCHANGED <<calls, activeContext, starting, last, refused, foreign>>
  PROVE  LlamaInv' /\ active' = 0
<1>1. Processes' /\ active' = 0
  BY StopKills DEF LlamaInv
<1> QED
  BY <1>1, ProcessesMove DEF Calms

\* A start that comes back keeps it, whatever became of the processes.
LEMMA SettleKeeps ==
  ASSUME Assumptions, LlamaInv, NEW c \in Call, InFlight(c), NEW res \in Result, Settle(c, res),
         Processes'
  PROVE  LlamaInv'
BY SettlesAll, AllBack

LEMMA GoesOn ==
  ASSUME LlamaInv, NEW c \in Call, InFlight(c), NEW at \in Waits, GoTo(c, at), Processes',
         at \in Unspawned => active' = 0,
         at \in {"loading", "measure"} => calls[c].child \in Proc /\ active' \in {0, calls[c].child},
         at \in {"reuse", "loading", "measure"} /\ active' # 0 =>
           activeModel' = calls[c].opts.model /\ activeContext' >= calls[c].window
  PROVE  LlamaInv'
<1> DEFINE new == [calls[c] EXCEPT !.at = at]
<1>1. /\ new \in CallType /\ new.at = at /\ new.opts = calls[c].opts /\ new.window = calls[c].window
      /\ new.child = calls[c].child /\ new.result = calls[c].result
  BY DEF LlamaInv, CallType
<1>2. calls' = [calls EXCEPT ![c] = new] /\ starting' = starting
  BY DEF GoTo
<1> HIDE DEF new
<1>3. calls'[c] = new
  BY <1>2 DEF LlamaInv
<1>4. Holds(c)'
  BY <1>1, <1>3 DEF Holds
<1>5. calls[c].opts \in Options /\ calls[c].result = "none"
  BY DEF LlamaInv, Pending
<1> QED
  BY <1>1, <1>2, <1>4, <1>5, OneMoves

\* One step of the start in flight.
LEMMA StepKeeps ==
  ASSUME Assumptions, LlamaInv, NEW c \in Call, Step(c)
  PROVE  LlamaInv'
<1> USE DEF NoProc
<1>0. /\ calls[c] \in CallType /\ Processes
      /\ InFlight(c) => /\ Holds(c) /\ calls[c].opts \in Options
                         /\ calls[c].window = WindowOf(calls[c].opts)
  BY DEF LlamaInv, Pending
<1>a. UNCHANGED <<procs, active, activeModel, activeContext, last, refused, foreign>> => Processes'
  BY <1>0 DEF Processes, ProcTypes, NoOrphan, Alive, StatusTrue
<1>1. CASE Reuse(c)
  <2>1. InFlight(c) /\ UNCHANGED <<activeContext, last, refused, foreign>>
    BY <1>1 DEF Reuse, InFlight, Waits
  <2>2. CASE Settle(c, "reused") /\ UNCHANGED <<procs, active, activeModel>>
    BY <1>a, <2>1, <2>2, SettleKeeps DEF Result
  <2>3. CASE GoTo(c, "probe") /\ stopServerSync
    <3>1. Processes' /\ active' = 0
      BY <1>0, <2>1, <2>3, StopKills
    <3> QED
      BY <2>1, <2>3, <3>1, GoesOn DEF Waits
  <2> QED
    BY <1>1, <2>2, <2>3 DEF Reuse
<1>2. CASE Probe(c)
  <2>1. InFlight(c) /\ calls[c].at \in Unspawned /\ UNCHANGED <<procs, active, activeModel, activeContext, last, refused, foreign>>
    BY <1>2 DEF Probe, InFlight, Waits, Unspawned
  <2>2. \E at \in {"adopt", "prepare", "adopt2", "memory"} : GoTo(c, at)
    BY <1>2 DEF Probe
  <2>3. active' = 0
    BY <1>0, <2>1 DEF Holds
  <2> QED
    BY <1>a, <2>1, <2>2, <2>3, GoesOn DEF Waits
<1>3. CASE Adopt(c)
  <2>1. /\ InFlight(c) /\ calls[c].at \in Unspawned /\ UNCHANGED <<procs, active, activeContext, last, refused, foreign>>
        /\ activeModel' \in {activeModel, calls[c].opts.model}
    BY <1>3 DEF Adopt, InFlight, Waits, Unspawned
  <2>2. active = 0 /\ activeModel' \in Model \cup {"none"}
    BY <1>0, <2>1 DEF Holds, Processes, ProcTypes, Options
  <2>3. Processes'
    BY <1>0, <2>1, <2>2 DEF Processes, ProcTypes, NoOrphan, Alive, StatusTrue
  <2>4. \E res \in Result : Settle(c, res)
    BY <1>3 DEF Adopt, Result, Failures
  <2> QED
    BY <2>1, <2>3, <2>4, SettleKeeps
<1>4. CASE Prepare(c)
  <2> DEFINE at == IF active = 0 THEN "probe2" ELSE "memory"
             extras == {x \in calls[c].opts.extras : <<calls[c].opts.model, x>> \notin refused}
             opts == [calls[c].opts EXCEPT !.extras = extras]
             new == [calls[c] EXCEPT !.at = at, !.opts = opts]
  <2>1. /\ InFlight(c) /\ calls[c].at \in Unspawned /\ starting' = starting
        /\ UNCHANGED <<procs, active, activeModel, activeContext, last, refused, foreign>>
    BY <1>4 DEF Prepare, InFlight, Waits, Unspawned
  <2>2. calls' = [calls EXCEPT ![c] = new]
    BY <1>4 DEF Prepare
  <2>3. /\ opts \in Options /\ opts.model = calls[c].opts.model
        /\ opts.ctx = calls[c].opts.ctx /\ opts.exact = calls[c].opts.exact
    BY <1>0, <2>1 DEF Options
  <2> HIDE DEF opts
  <2>4. /\ new \in CallType /\ new.at = at /\ new.opts = opts /\ new.window = calls[c].window
        /\ new.result = calls[c].result
    BY <1>0, <2>3 DEF CallType, Waits
  <2> HIDE DEF new
  <2>5. active = 0 /\ at \in Waits /\ at \in Unspawned /\ calls[c].result = "none"
    BY <1>0, <2>1 DEF Holds, Waits, Unspawned, LlamaInv, Pending
  <2>6. Holds(c)'
    <3>1. calls'[c] = new
      BY <2>2 DEF LlamaInv
    <3> QED
      BY <2>1, <2>4, <2>5, <3>1 DEF Holds, Unspawned
  <2> QED
    BY <1>a, <2>1, <2>2, <2>3, <2>4, <2>5, <2>6, OneMoves
<1>5. CASE Spawn(c)
  <2>1. PICK p \in Proc :
          /\ procs' = [procs EXCEPT ![p] =
               [NotSpawned EXCEPT !.at = "spawned", !.model = calls[c].opts.model,
                                    !.window = calls[c].window, !.uses = calls[c].opts.extras]]
          /\ active' = p
          /\ calls' = [calls EXCEPT ![c].at = "loading", ![c].child = p]
    BY <1>5 DEF Spawn
  <2>2. /\ InFlight(c) /\ calls[c].at \in Unspawned /\ UNCHANGED <<starting, last, refused, foreign>>
        /\ activeModel' = calls[c].opts.model /\ activeContext' = calls[c].window
    BY <1>5 DEF Spawn, InFlight, Waits, Unspawned
  <2>3. active = 0 /\ calls[c].opts.model \in Model /\ calls[c].opts.extras \subseteq Companion
        /\ calls[c].window \in 1..MaxWindow /\ calls[c].window \in 0..MaxWindow
        /\ calls[c].result = "none"
    BY <1>0, <2>2, WindowFits DEF Holds, Options, CallType, LlamaInv, Pending
  <2> DEFINE proc == [NotSpawned EXCEPT !.at = "spawned", !.model = calls[c].opts.model,
                                    !.window = calls[c].window, !.uses = calls[c].opts.extras]
             new == [calls[c] EXCEPT !.at = "loading", !.child = p]
  <2>4. proc \in ProcType /\ proc.at = "spawned" /\ proc.model = calls[c].opts.model /\ proc.window = calls[c].window
    <3>1. NotSpawned \in ProcType
      BY DEF NotSpawned, ProcType, Assumptions
    <3> QED
      BY <2>3, <3>1 DEF ProcType
  <2>5. /\ new \in CallType /\ new.at = "loading" /\ new.child = p /\ new.opts = calls[c].opts
        /\ new.window = calls[c].window /\ new.result = calls[c].result
    BY <1>0 DEF CallType, Waits
  <2>6. procs' = [procs EXCEPT ![p] = proc] /\ calls' = [calls EXCEPT ![c] = new]
    BY <2>1
  <2> HIDE DEF proc, new
  <2>7. procs' \in [Proc -> ProcType] /\ procs'[p] = proc /\ \A q \in Proc : q # p => procs'[q] = procs[q]
    BY <1>0, <2>4, <2>6 DEF Processes, ProcTypes
  <2>8. \A q \in Proc : q # p => ~Alive(q)'
    <3>1. \A q \in Proc : ~Alive(q)
      BY <1>0, <2>3 DEF Processes, NoOrphan, Proc
    <3> QED
      BY <2>7, <3>1 DEF Alive
  <2>9. Processes'
    BY <1>0, <2>1, <2>2, <2>3, <2>4, <2>7, <2>8 DEF Processes, ProcTypes, NoOrphan, StatusTrue
  <2>10. Holds(c)'
    <3>1. calls'[c] = new
      BY <2>6 DEF LlamaInv
    <3> QED
      BY <2>1, <2>2, <2>3, <2>5, <3>1 DEF Holds, Unspawned
  <2> QED
    BY <1>0, <2>2, <2>3, <2>5, <2>6, <2>9, <2>10, OneMoves DEF Waits
<1>6. CASE SpawnThrows(c)
  <2>1. InFlight(c) /\ UNCHANGED <<activeContext, last, refused, foreign>> /\ stopServerSync
        /\ Settle(c, "spawn-failed")
    BY <1>6 DEF SpawnThrows, InFlight, Waits
  <2>2. Processes'
    BY <1>0, <2>1, StopKills
  <2> QED
    BY <2>1, <2>2, SettleKeeps DEF Result, Failures
<1>7. CASE Load(c)
  <2>1. InFlight(c) /\ calls[c].at = "loading" /\ UNCHANGED <<activeContext, foreign>>
        /\ calls[c].child \in Proc /\ active \in {0, calls[c].child}
    BY <1>0, <1>7 DEF Load, InFlight, Waits, Holds
  <2>2. CASE LoadReady(c)
    <3>1. /\ UNCHANGED <<procs, active, activeModel, refused>> /\ last' = calls[c].opts /\ GoTo(c, "measure")
      BY <2>2 DEF LoadReady
    <3>2. Processes'
      BY <1>0, <2>1, <3>1 DEF Processes, ProcTypes, NoOrphan, Alive, StatusTrue
    <3>3. active # 0 => activeModel = calls[c].opts.model /\ activeContext >= calls[c].window
      BY <1>0, <2>1 DEF Holds
    <3> QED
      BY <2>1, <3>1, <3>2, <3>3, GoesOn DEF Waits, Unspawned
  <2>3. CASE LoadTimeout(c)
    <3>1. stopServerSync /\ Settle(c, "load-timeout") /\ UNCHANGED <<activeContext, last, refused, foreign>>
      BY <2>1, <2>3 DEF LoadTimeout
    <3>2. Processes'
      BY <1>0, <3>1, StopKills
    <3> QED
      BY <2>1, <3>1, <3>2, SettleKeeps DEF Result, Failures
  <2>4. CASE SpawnError(c)
    <3>1. /\ procs[active].at = "unstartable" /\ active' = 0 /\ activeModel' = "none" /\ UNCHANGED <<procs, last, refused>>
          /\ active = calls[c].child
      BY <2>4 DEF SpawnError
    <3>2. Processes'
      BY <1>0, <2>1, <3>1 DEF Processes, ProcTypes, NoOrphan, Alive, StatusTrue, Proc
    <3> QED
      BY <2>1, <2>4, <3>2, SettleKeeps DEF SpawnError, Result, Failures
  <2>5. CASE Crashed(c)
    <3> DEFINE o == [calls[c].opts EXCEPT !.extras = @ \ {procs[calls[c].child].why}]
    <3>1. o \in Options /\ o.model = calls[c].opts.model /\ o.ctx = calls[c].opts.ctx /\ o.exact = calls[c].opts.exact
      BY <1>0, <2>1 DEF Options
    <3>2. CASE /\ procs[calls[c].child].why \in calls[c].opts.extras /\ starting' = starting
               /\ refused' = refused \cup {<<calls[c].opts.model, procs[calls[c].child].why>>}
               /\ launchServer(c, o) /\ last' = last
      <4> HIDE DEF o
      <4>1. refused' \subseteq Model \X Companion
        BY <1>0, <2>1, <3>2 DEF Processes, ProcTypes, Options
      <4>2. (Processes' /\ Launched(c, o) /\ Holds(c)')
        BY <2>1, <3>1, <3>2, <4>1, Launches
      <4>3. PICK new \in CallType :
              /\ calls' = [calls EXCEPT ![c] = new] /\ new.opts = o /\ new.window = WindowOf(o)
              /\ new.result = "none" /\ new.at \in {"reuse", "probe"}
        BY <4>2 DEF Launched
      <4>4. WindowOf(o) = calls[c].window
        BY <1>0, <2>1, <3>1 DEF WindowOf
      <4> QED
        BY <2>1, <3>1, <3>2, <4>2, <4>3, <4>4, OneMoves DEF Waits
    <3>3. CASE Settle(c, "stopped-loading") /\ UNCHANGED <<procs, active, activeModel, refused, last>>
      BY <1>a, <2>1, <3>3, SettleKeeps DEF Result, Failures
    <3> QED
      BY <2>5, <3>2, <3>3 DEF Crashed
  <2>6. CASE Replaced(c)
    BY <1>a, <2>1, <2>6, SettleKeeps DEF Replaced, Result, Failures
  <2> QED
    BY <1>7, <2>2, <2>3, <2>4, <2>5, <2>6 DEF Load
<1>8. CASE Measure(c)
  <2>1. InFlight(c) /\ Settle(c, "loaded") /\ UNCHANGED <<procs, active, activeModel, activeContext, last, refused, foreign>>
    BY <1>8 DEF Measure, InFlight, Waits
  <2> QED
    BY <1>a, <2>1, SettleKeeps DEF Result
<1> QED
  BY <1>1, <1>2, <1>3, <1>4, <1>5, <1>6, <1>7, <1>8 DEF Step

\* A start that somebody asks for while nobody is in flight, or that joins one.
LEMMA AskedKeeps ==
  ASSUME Assumptions, ~Overlap, LlamaInv, NEW c \in Call, Start(c) \/ Reload(c)
  PROVE  LlamaInv'
<1>1. calls[c].at = "idle"
  BY DEF Start, Reload, MayCall
<1>2. ~Pending(c)
  BY <1>1 DEF Pending, InFlight, Waits
<1>3. ASSUME NEW a \in Ask, MayCall(c, a.model, a.ctx, a.exact), StartFor(c, a)
      PROVE  LlamaInv'
  <2>1. /\ a.model \in Model /\ a.ctx \in 0..MaxWindow /\ a.exact \in BOOLEAN
        /\ Extras[a.model] \in SUBSET Companion
    BY DEF Ask, Assumptions, Companion
  <2> QED
    BY <1>2, <1>3, <2>1, StartKeeps DEF StartFor, MayCall
<1>4. ASSUME Reload(c)
      PROVE  LlamaInv'
  <2>1. last \in Options
    BY <1>4 DEF Reload, LlamaInv, Processes, ProcTypes
  <2>2. /\ last.model \in Model /\ last.ctx \in 0..MaxWindow /\ last.exact \in BOOLEAN
        /\ last.extras \in SUBSET Companion
    BY <2>1 DEF Options, Window, Assumptions
  <2> QED
    BY <1>2, <1>4, <2>2, StartKeeps DEF Reload, MayCall
<1> QED
  BY <1>3, <1>4 DEF Start

LEMMA LlamaKeeps ==
  ASSUME Assumptions, ~Overlap, LlamaInv, Next \/ UNCHANGED vars
  PROVE  LlamaInv'
<1>1. CASE Stop
  BY <1>1, StoppedKeeps DEF Stop
<1>2. CASE UNCHANGED vars
  <2>1. Processes'
    BY <1>2 DEF vars, LlamaInv, Processes, ProcTypes, NoOrphan, Alive, StatusTrue
  <2> QED
    BY <1>2, <2>1, ProcessesMove DEF vars, Calms
<1> QED
  BY <1>1, <1>2, AskedKeeps, StepKeeps, OutsideKeeps DEF Next

\* A waiting start is told of success only by the one in flight, when it found its
\* server well or had loaded it.
LEMMA Successes ==
  ASSUME Assumptions, LlamaInv, Next \/ UNCHANGED vars,
         NEW c \in Call, Pending(c), calls'[c].result \in {"loaded", "reused"}
  PROVE  \E d \in Call : /\ calls[d].at \in {"reuse", "measure"}
                         /\ \E res \in {"loaded", "reused"} : Settle(d, res)
<1>0. calls[c].result = "none" /\ calls[c].at # "idle" /\ calls \in [Call -> CallType]
  BY DEF LlamaInv, Pending, InFlight, Waits
<1>1. ASSUME NEW d \in Call, Start(d) \/ Reload(d)
      PROVE  calls'[c] = calls[c]
  <2>1. d # c
    BY <1>0, <1>1 DEF Start, Reload, MayCall
  <2>2. \E new : calls' = [calls EXCEPT ![d] = new]
    BY <1>1 DEF Start, Reload, StartFor, startServer, launchServer, Enter
  <2> QED
    BY <1>0, <2>1, <2>2
<1>2. ASSUME NEW d \in Call, NEW new, calls' = [calls EXCEPT ![d] = new], new.result = "none"
      PROVE  FALSE
  BY <1>0, <1>2
<1>3. ASSUME NEW d \in Call, InFlight(d), NEW res \in Result \ {"loaded", "reused"}, Settle(d, res)
      PROVE  FALSE
  BY <1>0, <1>3, SettlesAll DEF Result
<1>4. ASSUME NEW d \in Call, InFlight(d), NEW at, GoTo(d, at)
      PROVE  FALSE
  <2>1. calls[d].result = "none" /\ calls[d] \in CallType
    BY <1>4 DEF LlamaInv, Pending
  <2>2. [calls[d] EXCEPT !.at = at].result = "none"
    BY <2>1 DEF CallType
  <2> QED
    BY <1>2, <1>4, <2>2 DEF GoTo
<1>5. ASSUME NEW d \in Call, Reuse(d) \/ Measure(d)
      PROVE  /\ calls[d].at \in {"reuse", "measure"}
             /\ \E res \in {"loaded", "reused"} : Settle(d, res)
  BY <1>4, <1>5 DEF Reuse, Measure, InFlight, Waits
<1>6. ASSUME NEW d \in Call, Probe(d) \/ Adopt(d) \/ SpawnThrows(d)
      PROVE  FALSE
  BY <1>3, <1>4, <1>6 DEF Probe, Adopt, SpawnThrows, InFlight, Waits, Result, Failures
<1>7. ASSUME NEW d \in Call, Prepare(d) \/ Spawn(d)
      PROVE  FALSE
  <2>1. calls[d].result = "none" /\ calls[d] \in CallType /\ calls[d].opts \in Options
    BY <1>7 DEF LlamaInv, Pending, InFlight, Waits, Prepare, Spawn
  <2>2. calls'[d].result = "none" /\ \A e \in Call : e # d => calls'[e] = calls[e]
    BY <1>0, <1>7, <2>1 DEF Prepare, Spawn, CallType
  <2> QED
    BY <1>0, <2>2
<1>8. ASSUME NEW d \in Call, Load(d)
      PROVE  FALSE
  <2>1. InFlight(d)
    BY <1>8 DEF Load, InFlight, Waits
  <2>2. CASE \E o : launchServer(d, o)
    <3>1. Idle.result = "none" /\ Idle \in CallType
      BY DEF Assumptions, Idle, CallType, Result, NoProc, NoCall
    <3>2. \A o, w, at : [[Idle EXCEPT !.opts = o, !.window = w] EXCEPT !.at = at].result = "none"
      BY <3>1 DEF CallType
    <3>3. PICK o, w, at : calls' = [calls EXCEPT ![d] = [[Idle EXCEPT !.opts = o, !.window = w] EXCEPT !.at = at]]
      <4>1. PICK o : launchServer(d, o)
        BY <2>2
      <4>2. PICK w : w = determineKvCache(o.model, o.ctx, o.exact)
        OBVIOUS
      <4>3. PICK at : calls' = [calls EXCEPT ![d] = [[Idle EXCEPT !.opts = o, !.window = w] EXCEPT !.at = at]]
        BY <4>1, <4>2 DEF launchServer, Enter
      <4> QED
        BY <4>3
    <3> DEFINE new == [[Idle EXCEPT !.opts = o, !.window = w] EXCEPT !.at = at]
    <3>4. new.result = "none"
      BY <3>2
    <3>5. calls' = [calls EXCEPT ![d] = new]
      BY <3>3
    <3> HIDE DEF new
    <3> QED
      BY <1>2, <3>4, <3>5
  <2> QED
    BY <1>3, <1>4, <1>8, <2>1, <2>2
       DEF Load, LoadReady, LoadTimeout, SpawnError, Crashed, Replaced, Result, Failures
<1>9. ASSUME calls' = calls
      PROVE  FALSE
  BY <1>0, <1>9
<1>10. ASSUME NEW p \in Proc, ExitEvent(p) \/ ServerStep(p)
       PROVE  calls' = calls
  BY <1>10 DEF ExitEvent, ServerStep, Becomes
<1>11. CASE Stop \/ ForeignStep \/ UNCHANGED vars
  BY <1>9, <1>11 DEF Stop, ForeignStep, vars
<1>12. ASSUME NEW d \in Call, Step(d)
       PROVE  Reuse(d) \/ Measure(d)
  BY <1>6, <1>7, <1>8, <1>12 DEF Step
<1> QED
  BY <1>0, <1>1, <1>5, <1>9, <1>10, <1>11, <1>12 DEF Next

\* Callers who wait for one another are served by what they asked for.
LEMMA Served ==
  ASSUME Assumptions, LlamaInv, Next \/ UNCHANGED vars, NEW c \in Call, Succeeds(c), active # 0
  PROVE  /\ procs[active].model = calls[c].opts.model
         /\ procs[active].window >= calls[c].window
<1>1. Pending(c) /\ calls'[c] # calls[c]
  BY DEF Succeeds, Pending, InFlight, Waits, LlamaInv
<1>2. PICK d \in Call : /\ calls[d].at \in {"reuse", "measure"}
                       /\ \E res \in {"loaded", "reused"} : Settle(d, res)
  BY <1>1, Successes DEF Succeeds
<1>3. InFlight(d)
  BY <1>2 DEF InFlight, Waits
<1>4. c = d \/ (calls[c].at = "joined" /\ calls[c].owner = d)
  BY <1>1, <1>2, <1>3, SettlesAll DEF Result
<1>5. activeModel = calls[d].opts.model /\ activeContext >= calls[d].window
  BY <1>2, <1>3 DEF LlamaInv, Holds
<1>6. activeModel = procs[active].model /\ activeContext = procs[active].window
  BY DEF LlamaInv, Processes, StatusTrue, NoProc
<1>7. calls[c].opts.model = calls[d].opts.model /\ calls[d].window >= calls[c].window
        /\ calls[d].window \in Int /\ calls[c].window \in Int
  BY <1>4 DEF LlamaInv, CallType
<1> QED
  <2>1. activeContext \in Int
    BY DEF LlamaInv, Processes, ProcTypes
  <2>2. procs[active].model = calls[c].opts.model
    BY <1>5, <1>6, <1>7
  <2>3. \A x, y, z \in Int : x >= y /\ y >= z => x >= z
    OBVIOUS
  <2>4. activeContext >= calls[c].window
    BY <1>5, <1>7, <2>1, <2>3
  <2> QED
    BY <1>6, <2>2, <2>4

\* As long as callers wait for one another, every start of the chat engine knows at each
\* await whose process runs: what activeProcess, activeModel and activeContext say is what
\* the one living server was spawned with, and a start past its stop finds none.
THEOREM LlamaInvariance ==
  ASSUME ~Overlap
  PROVE  Spec => []LlamaInv
<1>1. Init => LlamaInv
  BY LlamaStarts, Assumed
<1>2. LlamaInv /\ [Next]_vars => LlamaInv'
  BY LlamaKeeps, Assumptions DEF vars, vars
<1> QED
  BY <1>1, <1>2, PTL DEF Spec

\* However starts, stops, crashes, exit events and companions that are refused fall, what
\* activeProcess does not point to is dead, as long as callers wait for one another.
THEOREM NoLlamaOrphaned ==
  ASSUME ~Overlap
  PROVE  Spec => []NoOrphan
<1>1. LlamaInv => NoOrphan
  BY DEF LlamaInv, Processes
<1>2. Spec => []LlamaInv
  BY LlamaInvariance
<1> QED
  BY <1>1, <1>2, PTL

\* getServerStatus tells the truth about the process that runs.
THEOREM StatusIsTrue ==
  ASSUME ~Overlap
  PROVE  Spec => []StatusTrue
<1>1. LlamaInv => StatusTrue
  BY DEF LlamaInv, Processes
<1>2. Spec => []LlamaInv
  BY LlamaInvariance
<1> QED
  BY <1>1, <1>2, PTL

\* A start that reports success has the model and the window that its caller wants.
THEOREM SuccessIsServed ==
  ASSUME ~Overlap
  PROVE  Spec => SuccessServes
<1> DEFINE Serves == \A c \in Call :
             Succeeds(c) /\ active # NoProc =>
               /\ procs[active].model = calls[c].opts.model
               /\ procs[active].window >= calls[c].window
<1>1. LlamaInv /\ [Next]_vars => [Serves]_vars
  BY Served, Assumptions DEF vars, vars, NoProc
<1>2. Spec => []LlamaInv
  BY LlamaInvariance
<1>3. Spec => [][Serves]_vars
  <2> HIDE DEF Serves
  <2>1. LlamaInv /\ [Next]_vars => [Serves]_vars
    BY <1>1
  <2> QED
    BY <2>1, <1>2, PTL DEF Spec
<1> QED
  BY <1>3 DEF SuccessServes

-----------------------------------------------------------------------------
(* What is known of the engine that runs: a model was loaded on it, or is  *)
(* being loaded.                                                           *)

Confirms ==
  /\ active # 0 => last # NoOptions \/ \E c \in Call : calls[c].at = "loading"
  /\ \A c \in Call :
       calls[c].at \in {"reuse", "measure"} \/ calls[c].result \in {"loaded", "reused"} => last # NoOptions
  /\ \A c \in Call : calls[c].at \notin {"adopt", "adopt2"} /\ calls[c].result # "adopted"

\* With the start in flight back, or moved on.
LEMMA SettledConfirms ==
  ASSUME Assumptions, LlamaInv, Confirms, NEW c \in Call, InFlight(c), NEW res \in Result \ {"adopted"}, Settle(c, res),
         last' = last, active' # 0 \/ res \in {"loaded", "reused"} => last # NoOptions
  PROVE  Confirms'
<1>1. \A d \in Call : ~Pending(d)' /\ calls'[d].result \in {calls[d].result, res}
  BY SettlesAll
<1>2. \A d \in Call : calls'[d].at \notin {"reuse", "measure", "adopt", "adopt2", "loading"}
  BY <1>1 DEF Pending, InFlight, Waits
<1> QED
  BY <1>1, <1>2 DEF Confirms

LEMMA MovedConfirms ==
  ASSUME LlamaInv, Confirms, NEW c \in Call, NEW new \in CallType, calls' = [calls EXCEPT ![c] = new],
         \A d \in Call : InFlight(d) => d = c,
         last' = last \/ last' # NoOptions, new.at \notin {"adopt", "adopt2"}, new.result \notin {"loaded", "reused", "adopted"},
         new.at \in {"reuse", "measure"} => last' # NoOptions,
         active' # 0 => last' # NoOptions \/ new.at = "loading"
  PROVE  Confirms'
<1>1. calls'[c] = new /\ \A d \in Call : d # c => calls'[d] = calls[d]
  BY DEF LlamaInv
<1> QED
  BY <1>1 DEF Confirms

LEMMA CalmConfirms ==
  ASSUME Confirms, UNCHANGED <<calls, last>>, active' \in {0, active}
  PROVE  Confirms'
BY DEF Confirms

LEMMA AskedConfirms ==
  ASSUME Assumptions, LlamaInv, Confirms, NEW c \in Call, ~Pending(c), NEW a \in Ask, StartFor(c, a),
         \A d \in Call : ~InFlight(d)
  PROVE  Confirms'
<1> DEFINE m == a.model
           exact == a.exact
           o == [model |-> m, ctx |-> requestedContext(m, a.ctx), exact |-> exact, extras |-> Extras[m]]
           w == determineKvCache(m, o.ctx, exact)
           here == [Idle EXCEPT !.opts = o, !.window = w]
           reusable == /\ active # NoProc /\ activeModel = o.model
                       /\ servesWindow(activeContext, determineKvCache(o.model, o.ctx, o.exact), o.exact)
<1>1. active # 0 => last # NoOptions
  BY DEF Confirms, InFlight, Waits
<1>2. last' = last /\ startServer(c, m, a.ctx, exact, Extras[m])
  BY DEF StartFor
<1>3. \/ /\ Joins(m, w, exact)
         /\ calls' = [calls EXCEPT ![c] = [Idle EXCEPT !.at = "joined", !.opts = o, !.window = w, !.owner = starting.call]]
         /\ active' = active
      \/ /\ calls' = [calls EXCEPT ![c] = [Idle EXCEPT !.at = "done", !.result = "parts-missing"]]
         /\ active' = active
      \/ launchServer(c, o)
  BY <1>2 DEF startServer
<1>4. ASSUME launchServer(c, o)
      PROVE  \/ active # 0 /\ calls' = [calls EXCEPT ![c] = [[Idle EXCEPT !.opts = o, !.window = WindowOf(o)] EXCEPT !.at = "reuse"]] /\ active' = active
             \/ calls' = [calls EXCEPT ![c] = [[Idle EXCEPT !.opts = o, !.window = WindowOf(o)] EXCEPT !.at = "probe"]] /\ active' \in {0, active}
  BY <1>4 DEF launchServer, Enter, stopServerSync, NoProc, WindowOf
<1>5. starting = NoStart
  BY DEF LlamaInv
<1>6. ~Joins(m, w, exact)
  BY <1>5 DEF Joins, NoStart, Ask, Assumptions
<1> HIDE DEF o
<1>7. Idle \in CallType /\ Idle.result = "none"
  BY DEF Assumptions, Idle, CallType, Result, NoProc, NoCall
<1>8. \E new : /\ calls' = [calls EXCEPT ![c] = new]
               /\ \/ new.at = "reuse" /\ new.result = "none" /\ active # 0
                  \/ new.at = "probe" /\ new.result = "none"
                  \/ new.at = "done" /\ new.result = "parts-missing"
               /\ active' \in {0, active}
  <2>1. \A at \in {"reuse", "probe"} :
            LET new == [[Idle EXCEPT !.opts = o, !.window = WindowOf(o)] EXCEPT !.at = at]
            IN  new.at = at /\ new.result = "none"
    BY <1>7 DEF CallType
  <2>2. LET new == [Idle EXCEPT !.at = "done", !.result = "parts-missing"]
        IN  new.at = "done" /\ new.result = "parts-missing"
    BY <1>7 DEF CallType
  <2> QED
    BY <1>3, <1>4, <1>6, <2>1, <2>2
<1>9. PICK new : /\ calls' = [calls EXCEPT ![c] = new]
                /\ \/ new.at = "reuse" /\ new.result = "none" /\ active # 0
                   \/ new.at = "probe" /\ new.result = "none"
                   \/ new.at = "done" /\ new.result = "parts-missing"
                /\ active' \in {0, active}
  BY <1>8
<1>10. calls'[c] = new /\ \A d \in Call : d # c => calls'[d] = calls[d]
  BY <1>9 DEF LlamaInv
<1> QED
  BY <1>1, <1>2, <1>9, <1>10 DEF Confirms

\* Nobody answers on the port unless Draggy started it.
LEMMA StepConfirms ==
  ASSUME Assumptions, Foreign = {}, LlamaInv, Confirms, NEW c \in Call, Step(c)
  PROVE  Confirms'
<1> USE DEF NoProc
<1>0. /\ calls[c] \in CallType /\ Processes /\ calls[c].opts \in Options
      /\ InFlight(c) /\ Holds(c) /\ calls[c].result = "none"
  <2>1. InFlight(c)
    BY DEF Step, Reuse, Probe, Adopt, Prepare, Spawn, SpawnThrows, Load, Measure, InFlight, Waits
  <2> QED
    BY <2>1 DEF LlamaInv, Pending
<1>1. \A d \in Call : InFlight(d) => d = c
  BY <1>0 DEF LlamaInv
<1>2. ASSUME NEW at \in Waits, GoTo(c, at), last' = last \/ last' # NoOptions, at \notin {"adopt", "adopt2"},
             at \in {"reuse", "measure"} \/ active' # 0 => last' # NoOptions
      PROVE  Confirms'
  <2> DEFINE new == [calls[c] EXCEPT !.at = at]
  <2>1. new \in CallType /\ new.at = at /\ new.result = "none"
    BY <1>0 DEF CallType
  <2>2. calls' = [calls EXCEPT ![c] = new]
    BY <1>2 DEF GoTo
  <2> HIDE DEF new
  <2> QED
    BY <1>1, <1>2, <2>1, <2>2, MovedConfirms
<1>3. CASE Reuse(c)
  <2>1. last # NoOptions /\ last' = last
    BY <1>3 DEF Reuse, Confirms
  <2>2. CASE Settle(c, "reused")
    BY <1>0, <2>1, <2>2, SettledConfirms DEF Result
  <2>3. CASE GoTo(c, "probe")
    BY <1>2, <2>1, <2>3 DEF Waits
  <2> QED
    BY <1>3, <2>2, <2>3 DEF Reuse
<1>4. CASE Probe(c)
  <2>1. calls[c].at \in Unspawned /\ UNCHANGED <<active, last>>
    BY <1>4 DEF Probe, Unspawned
  <2>2. active = 0 /\ ~pingHealth
    <3>1. active = 0 /\ foreign = "none"
      BY <1>0, <2>1 DEF Holds, Processes, ProcTypes
    <3>2. \A p \in Proc : ~Alive(p)
      BY <1>0, <3>1 DEF Processes, NoOrphan, Proc
    <3> QED
      BY <3>1, <3>2 DEF pingHealth, Ready, Alive
  <2>3. \E at \in {"prepare", "memory"} : GoTo(c, at)
    BY <1>4, <2>2 DEF Probe
  <2> QED
    BY <1>2, <2>1, <2>2, <2>3 DEF Waits
<1>5. CASE Adopt(c)
  BY <1>5 DEF Adopt, Confirms
<1>6. CASE Prepare(c)
  <2>1. active = 0 /\ UNCHANGED <<active, last>>
    BY <1>0, <1>6 DEF Prepare, Holds, Unspawned
  <2>2. calls'[c].at \in {"probe2", "memory"} /\ calls'[c].result = "none"
        /\ \A d \in Call : d # c => calls'[d] = calls[d]
    BY <1>0, <1>6 DEF Prepare, LlamaInv, CallType
  <2> QED
    BY <2>1, <2>2 DEF Confirms
<1>7. CASE Spawn(c)
  <2>1. calls'[c].at = "loading" /\ calls'[c].result = "none"
        /\ \A d \in Call : d # c => calls'[d] = calls[d]
    BY <1>0, <1>7 DEF Spawn, LlamaInv, CallType
  <2>2. last' = last
    BY <1>7 DEF Spawn
  <2> QED
    BY <2>1, <2>2 DEF Confirms
<1>8. CASE SpawnThrows(c)
  <2>1. active' = 0 /\ last' = last /\ Settle(c, "spawn-failed")
    BY <1>8 DEF SpawnThrows, stopServerSync
  <2> QED
    BY <1>0, <2>1, SettledConfirms DEF Result, Failures
<1>9. CASE Load(c)
  <2>1. calls[c].at = "loading" /\ calls[c].child \in Proc /\ active \in {0, calls[c].child}
    BY <1>0, <1>9 DEF Load, Holds
  <2>2. CASE LoadReady(c)
    <3>1. last' # NoOptions
      BY <1>0, <2>2 DEF LoadReady, Options, NoOptions, Assumptions
    <3> QED
      BY <1>2, <2>2, <3>1 DEF LoadReady, Waits
  <2>3. ASSUME active' = 0, last' = last, NEW res \in Failures, Settle(c, res)
        PROVE  Confirms'
    BY <1>0, <2>3, SettledConfirms DEF Result, Failures
  <2>4. CASE LoadTimeout(c)
    BY <2>3, <2>4 DEF LoadTimeout, stopServerSync, Failures
  <2>5. CASE SpawnError(c)
    BY <2>3, <2>5 DEF SpawnError, Failures
  <2>6. CASE Replaced(c)
    BY <2>1, <2>3, <2>6 DEF Replaced, Failures
  <2>7. CASE Crashed(c)
    <3>1. active = 0
      BY <1>0, <2>1, <2>7 DEF Crashed, Processes, StatusTrue
    <3>2. CASE /\ Settle(c, "stopped-loading") /\ active' = active /\ last' = last
      BY <2>3, <3>1, <3>2 DEF Failures
    <3>3. ASSUME NEW o, launchServer(c, o), last' = last
          PROVE  Confirms'
      <4> DEFINE w == determineKvCache(o.model, o.ctx, o.exact)
                 new == [[Idle EXCEPT !.opts = o, !.window = w] EXCEPT !.at = "probe"]
      <4>1. calls' = [calls EXCEPT ![c] = new] /\ active' = 0
        BY <3>1, <3>3 DEF launchServer, Enter, stopServerSync
      <4>2. new.at = "probe" /\ new.result = "none"
        <5>1. Idle.result = "none" /\ Idle \in CallType
          BY DEF Assumptions, Idle, CallType, Result, NoCall
        <5> QED
          BY <5>1 DEF CallType
      <4> HIDE DEF new
      <4>3. calls'[c] = new /\ \A d \in Call : d # c => calls'[d] = calls[d]
        BY <4>1 DEF LlamaInv
      <4> QED
        BY <3>3, <4>1, <4>2, <4>3 DEF Confirms
    <3> QED
      BY <2>7, <3>2, <3>3 DEF Crashed
  <2> QED
    BY <1>9, <2>2, <2>4, <2>5, <2>6, <2>7 DEF Load
<1>10. CASE Measure(c)
  <2>1. last # NoOptions /\ last' = last /\ Settle(c, "loaded")
    BY <1>10 DEF Measure, Confirms
  <2> QED
    BY <1>0, <2>1, SettledConfirms DEF Result
<1> QED
  BY <1>3, <1>4, <1>5, <1>6, <1>7, <1>8, <1>9, <1>10 DEF Step

-----------------------------------------------------------------------------
(* colibri, and the host.                                                  *)

GatewayStates == {"none", "loading", "listening", "healthy", "unstartable", "dead", "exited", "killed", "reaped"}

ColibriInv ==
  /\ C!CTypeOK
  /\ \A s, t \in Attempt : C!Waiting(s) /\ C!Waiting(t) => s = t
  /\ \A s \in Attempt : starts[s] = "port" => child = 0
  /\ C!OneGateway

LEMMA ColibriStarts ==
  ASSUME Assumptions, C!CInit
  PROVE  ColibriInv /\ child = 0 /\ \A s \in Attempt : ~C!Waiting(s)
BY DEF Assumptions, C!CInit, ColibriInv, C!CTypeOK, C!Waiting, C!OneGateway, C!Running, C!NoGateway

LEMMA GatewayStops ==
  ASSUME Assumptions, ColibriInv, C!stopSync
  PROVE  /\ child' = 0 /\ gateway' \in [Attempt -> GatewayStates]
         /\ \A s \in Attempt : ~C!Running(s)'
BY DEF Assumptions, ColibriInv, C!CTypeOK, C!stopSync, C!Killed, C!NoGateway, C!OneGateway, C!Running, GatewayStates

LEMMA StoppedColibri ==
  ASSUME Assumptions, ColibriInv, C!stopSync, starts' = starts
  PROVE  ColibriInv' /\ child' = 0
BY GatewayStops DEF ColibriInv, C!CTypeOK, C!Waiting, C!OneGateway, C!NoGateway, GatewayStates

LEMMA ColibriAsked ==
  ASSUME Assumptions, ColibriInv, NEW s \in Attempt, C!start(s), \A t \in Attempt : ~C!Waiting(t)
  PROVE  /\ ColibriInv' /\ child' = 0
         /\ starts[s] = "idle" /\ \A t \in Attempt : t # s => starts'[t] = starts[t]
<1>1. PICK at \in {"port", "engine-missing"} : starts' = [starts EXCEPT ![s] = at]
  BY DEF C!start, C!Become
<1>2. /\ child' = 0 /\ gateway' \in [Attempt -> GatewayStates]
      /\ \A t \in Attempt : ~C!Running(t)'
  BY GatewayStops DEF C!start
<1>3. C!CTypeOK'
  BY <1>1, <1>2 DEF ColibriInv, C!CTypeOK, C!NoGateway, C!Failures, GatewayStates
<1> QED
  BY <1>1, <1>2, <1>3 DEF ColibriInv, C!CTypeOK, C!Waiting, C!OneGateway, C!start

\* Only a start that has its port makes a gateway.
LEMMA ColibriMoves ==
  ASSUME Assumptions, ColibriInv, NEW s \in Attempt, C!StartStep(s) \/ C!GatewayExit(s) \/ C!GatewayStep(s)
  PROVE  /\ ColibriInv'
         /\ \A t \in Attempt : C!Waiting(t)' => C!Waiting(t)
         /\ child' \in {0, child} \/ \E t \in Attempt : C!Waiting(t)
         /\ \A t \in Attempt : starts[t] \in C!Failures \cup {"loaded"} => starts'[t] = starts[t]
<1>0. 0 \notin Attempt
  BY DEF Assumptions
<1>1. CASE C!SpawnGateway(s)
  BY <1>0, <1>1 DEF C!SpawnGateway, C!Become, ColibriInv, C!CTypeOK, C!Waiting,
                    C!OneGateway, C!Running, C!NoGateway, C!Failures
<1>2. CASE C!PollGateway(s) \/ C!HealthAnswered(s) \/ C!Drained(s)
  <2>1. PICK at \in {"poll", "asking", "draining", "loaded"} \cup C!Failures :
             starts' = [starts EXCEPT ![s] = at]
    BY <1>2 DEF C!PollGateway, C!HealthAnswered, C!Drained, C!Become, C!Failures
  <2>2. C!Waiting(s) /\ starts[s] # "port"
    BY <1>2 DEF C!PollGateway, C!HealthAnswered, C!Drained, C!Waiting
  <2>3. UNCHANGED <<gateway, child>> \/ C!stopSync
    BY <1>2 DEF C!PollGateway, C!HealthAnswered, C!Drained
  <2>4. /\ gateway' \in [Attempt -> GatewayStates] /\ child' \in {0, child}
        /\ \A t \in Attempt : C!Running(t)' => child' = t
    BY <2>3, GatewayStops DEF ColibriInv, C!CTypeOK, C!OneGateway, C!Running, GatewayStates
  <2>5. C!CTypeOK'
    BY <2>1, <2>4 DEF ColibriInv, C!CTypeOK, C!NoGateway, C!Failures, GatewayStates
  <2>6. \A t \in Attempt : C!Waiting(t)' => C!Waiting(t)
    BY <2>1, <2>2 DEF ColibriInv, C!CTypeOK, C!Waiting
  <2>7. \A t \in Attempt : starts'[t] = "port" => child' = 0
    BY <2>1, <2>4 DEF ColibriInv, C!CTypeOK, C!Failures
  <2>8. \A t \in Attempt : starts[t] \in C!Failures \cup {"loaded"} => starts'[t] = starts[t]
    BY <2>1, <2>2 DEF ColibriInv, C!CTypeOK, C!Waiting, C!Failures
  <2> QED
    BY <2>4, <2>5, <2>6, <2>7, <2>8 DEF ColibriInv, C!OneGateway
<1>3. CASE C!GatewayExit(s) \/ C!GatewayStep(s)
  BY <1>0, <1>3 DEF C!GatewayExit, C!GatewayStep, ColibriInv, C!CTypeOK, C!Waiting,
                    C!OneGateway, C!Running, C!NoGateway
<1> QED
  BY <1>1, <1>2, <1>3 DEF C!StartStep

Handling(c) == handler[c] \in {"host", "restored"}

\* One handler is at work, for one engine, and the other engine is stopped from before
\* its start until it is over.
HostInv ==
  /\ host \in Kind /\ handler \in [Call -> {"none", "host", "restored", "answered"}]
  /\ asked \in [Call -> Ask \cup {NotAsked}] /\ shown \in [Attempt -> BOOLEAN]
  /\ build \in {"fresh", "confirmed", "restored"}
  /\ \A c \in Call : Pending(c) => Handling(c)
  /\ \A c, d \in Call : Handling(c) /\ Handling(d) => c = d
  /\ \A c \in Call : Handling(c) => asked[c] \in Ask /\ child = 0 /\ \A s \in Attempt : ~C!Waiting(s)
  /\ \A s \in Attempt : shown[s] => starts[s] \in C!Failures \cup {"loaded"}
  /\ \A s \in Attempt : C!Waiting(s) => active = 0
  /\ active # 0 => child = 0

EngineInv == LlamaInv /\ ColibriInv /\ HostInv

LEMMA EnginesStart ==
  ASSUME Assumptions, EnginesInit
  PROVE  EngineInv
<1>1. LlamaInv /\ ColibriInv /\ child = 0 /\ \A s \in Attempt : ~C!Waiting(s)
  BY LlamaStarts, ColibriStarts DEF EnginesInit
<1>2. \A c \in Call : ~Pending(c)
  BY DEF EnginesInit, Init, Idle, Pending, InFlight, Waits
<1> QED
  BY <1>1, <1>2 DEF EngineInv, HostInv, EnginesInit, Kind, Handling

\* A step of llama.cpp alone: nobody new is waited for, and only a start in flight
\* makes a process.
LEMMA LlamaMoves ==
  ASSUME LlamaInv, (\E c \in Call : Step(c)) \/ (\E p \in Proc : ExitEvent(p) \/ ServerStep(p)) \/ ForeignStep
  PROVE  /\ \A c \in Call : Pending(c)' => Pending(c)
         /\ active' \in {0, active} \/ \E c \in Call : InFlight(c)
<1>1. ASSUME NEW c \in Call, Step(c)
      PROVE  /\ InFlight(c)
             /\ \A d \in Call : Pending(d)' => Pending(d)
  <2>1. InFlight(c)
    BY <1>1 DEF Step, Reuse, Probe, Adopt, Prepare, Spawn, SpawnThrows, Load, Measure, InFlight, Waits
  <2>2. ASSUME NEW res, Settle(c, res), NEW d \in Call, Pending(d)'
        PROVE  Pending(d)
    <3>1. calls'[d] = [Idle EXCEPT !.at = "done", !.result = res] \/ calls'[d] = calls[d]
      BY <2>2 DEF Settle
    <3>2. [Idle EXCEPT !.at = "done", !.result = res].at = "done"
      BY DEF Idle
    <3> QED
      BY <2>2, <3>1, <3>2 DEF Pending, InFlight, Waits
  <2>3. (\E res : Settle(c, res)) \/ (\E new : calls' = [calls EXCEPT ![c] = new])
    BY <1>1 DEF Step, Reuse, Probe, Adopt, Prepare, Spawn, SpawnThrows, Load, LoadReady, LoadTimeout,
                SpawnError, Crashed, Replaced, Measure, GoTo, launchServer, Enter
  <2>4. ASSUME NEW new, calls' = [calls EXCEPT ![c] = new], NEW d \in Call, Pending(d)'
        PROVE  Pending(d)
    <3>1. d # c => calls'[d] = calls[d]
      BY <2>4 DEF LlamaInv
    <3> QED
      BY <2>1, <2>4, <3>1 DEF Pending, InFlight
  <2> QED
    BY <2>1, <2>2, <2>3, <2>4
<1>2. ASSUME NEW p \in Proc, ExitEvent(p) \/ ServerStep(p)
      PROVE  calls' = calls /\ active' \in {0, active}
  BY <1>2 DEF ExitEvent, ServerStep, Becomes, NoProc
<1>3. CASE ForeignStep
  BY <1>3 DEF ForeignStep, Pending, InFlight
<1> QED
  BY <1>1, <1>2, <1>3 DEF Pending, InFlight

LEMMA OneAsked ==
  ASSUME Assumptions, LlamaInv, NEW c \in Call, ~Pending(c), NEW a \in Ask, StartFor(c, a),
         \A d \in Call : ~InFlight(d)
  PROVE  /\ LlamaInv' /\ active' \in {0, active}
         /\ \A d \in Call : d # c => calls'[d] = calls[d]
<1>1. /\ a.model \in Model /\ a.ctx \in 0..MaxWindow /\ a.exact \in BOOLEAN
      /\ Extras[a.model] \in SUBSET Companion
  BY DEF Ask, Assumptions, Companion
<1>2. LlamaInv'
  BY <1>1, StartKeeps DEF StartFor
<1>3. (\E new : calls' = [calls EXCEPT ![c] = new]) /\ active' \in {0, active}
  BY DEF StartFor, startServer, launchServer, Enter, stopServerSync, NoProc
<1> QED
  BY <1>2, <1>3 DEF LlamaInv

\* When nobody is waited for, no engine is on its way.
LEMMA QuietIsQuiet ==
  ASSUME EngineInv, Quiet
  PROVE  /\ \A c \in Call : ~Handling(c) /\ ~Pending(c) /\ ~InFlight(c)
         /\ \A s \in Attempt : ~C!Waiting(s)
BY DEF EngineInv, HostInv, Quiet, Handling, Pending, C!Waiting, C!Failures

LEMMA GgufStartKeeps ==
  ASSUME Assumptions, ~Overlap, EngineInv, NEW c \in Call, GgufStart(c)
  PROVE  EngineInv'
<1>1. PICK a \in Ask : StartFor(c, a) /\ asked' = [asked EXCEPT ![c] = a]
  BY DEF GgufStart
<1>2. /\ Quiet /\ C!stopSync /\ host' = "llamacpp" /\ handler' = [handler EXCEPT ![c] = "host"]
      /\ UNCHANGED <<starts, shown, build>>
  BY DEF GgufStart
<1>3. /\ \A d \in Call : ~Handling(d) /\ ~Pending(d) /\ ~InFlight(d)
      /\ \A s \in Attempt : ~C!Waiting(s)
  BY <1>2, QuietIsQuiet
<1>4. /\ LlamaInv' /\ active' \in {0, active}
      /\ \A d \in Call : d # c => calls'[d] = calls[d]
  BY <1>1, <1>3, OneAsked DEF EngineInv
<1>5. ColibriInv' /\ child' = 0
  BY <1>2, StoppedColibri DEF EngineInv
<1>6. \A s \in Attempt : ~C!Waiting(s)'
  BY <1>2, <1>3 DEF C!Waiting
<1>7. /\ handler' \in [Call -> {"none", "host", "restored", "answered"}] /\ asked' \in [Call -> Ask \cup {NotAsked}]
      /\ asked'[c] = a /\ \A d \in Call : Handling(d)' <=> d = c
  BY <1>1, <1>2, <1>3 DEF EngineInv, HostInv, Handling
<1>8. \A d \in Call : Pending(d)' => d = c
  BY <1>3, <1>4 DEF Pending, InFlight
<1>9. HostInv'
  BY <1>2, <1>5, <1>6, <1>7, <1>8 DEF EngineInv, HostInv, Kind
<1> QED
  BY <1>4, <1>5, <1>9 DEF EngineInv

LEMMA GgufStartedKeeps ==
  ASSUME Assumptions, EngineInv, NEW c \in Call, GgufStarted(c)
  PROVE  EngineInv'
<1>1. /\ Handling(c) /\ calls[c].at = "done" /\ host' \in Kind /\ UNCHANGED <<starts, gateway, child, shown>>
  BY DEF GgufStarted, Handling, HostAfter, EngineInv, HostInv, Kind, cvars
<1>2. \A d \in Call : ~Pending(d) /\ ~InFlight(d)
  BY <1>1 DEF EngineInv, HostInv, Pending, InFlight, Waits
<1>3. ColibriInv' /\ child' = 0 /\ \A s \in Attempt : ~C!Waiting(s)'
  BY <1>1 DEF EngineInv, HostInv, ColibriInv, C!CTypeOK, C!Waiting, C!OneGateway, C!Running
<1>4. CASE Answer(c)
  <2>1. /\ build' \in {"fresh", "confirmed", "restored"} /\ handler' = [handler EXCEPT ![c] = "answered"]
        /\ asked' = [asked EXCEPT ![c] = NotAsked] /\ UNCHANGED vars
    BY <1>4 DEF Answer, EngineInv, HostInv
  <2>2. LlamaInv' /\ active' = active /\ \A d \in Call : ~Pending(d)'
    <3>1. Processes'
      BY <2>1 DEF vars, EngineInv, LlamaInv, Processes, ProcTypes, NoOrphan, Alive, StatusTrue
    <3> QED
      BY <1>2, <2>1, <3>1, ProcessesMove DEF vars, Calms, EngineInv, Pending, InFlight
  <2>3. \A d \in Call : ~Handling(d)'
    BY <1>1, <2>1 DEF EngineInv, HostInv, Handling
  <2>4. HostInv'
    BY <1>1, <1>3, <2>1, <2>2, <2>3 DEF EngineInv, HostInv
  <2> QED
    BY <1>3, <2>2, <2>4 DEF EngineInv
<1>5. CASE RollBack(c)
  <2>1. /\ build' = "restored" /\ handler' = [handler EXCEPT ![c] = "restored"] /\ asked' = asked
        /\ asked[c] \in Ask /\ StartFor(c, asked[c])
    BY <1>1, <1>5 DEF RollBack, EngineInv, HostInv
  <2>2. /\ LlamaInv' /\ active' \in {0, active}
        /\ \A d \in Call : d # c => calls'[d] = calls[d]
    BY <1>2, <2>1, OneAsked DEF EngineInv
  <2>3. \A d \in Call : Pending(d)' => d = c
    BY <1>2, <2>2 DEF Pending, InFlight
  <2>4. /\ handler' \in [Call -> {"none", "host", "restored", "answered"}]
        /\ \A d \in Call : Handling(d)' <=> d = c
    BY <1>1, <2>1 DEF EngineInv, HostInv, Handling
  <2>5. HostInv'
    BY <1>1, <1>3, <2>1, <2>3, <2>4 DEF EngineInv, HostInv
  <2> QED
    BY <1>3, <2>2, <2>5 DEF EngineInv
<1> QED
  BY <1>4, <1>5 DEF GgufStarted

LEMMA EnginesKeep ==
  ASSUME Assumptions, ~Overlap, EngineInv, [EnginesNext]_enginesVars
  PROVE  EngineInv'
<1>1. ASSUME NEW s \in Attempt, ColibriStart(s)
      PROVE  EngineInv'
  <2>1. /\ Quiet /\ stopServerSync /\ C!start(s) /\ host' = "colibri"
        /\ UNCHANGED <<calls, activeContext, starting, last, refused, foreign, handler, asked, shown, build>>
    BY <1>1 DEF ColibriStart
  <2>2. /\ \A d \in Call : ~Handling(d) /\ ~Pending(d)
        /\ \A t \in Attempt : ~C!Waiting(t)
    BY <2>1, QuietIsQuiet
  <2>3. LlamaInv' /\ active' = 0
    BY <2>1, StoppedKeeps DEF EngineInv
  <2>4. /\ ColibriInv' /\ child' = 0
        /\ starts[s] = "idle" /\ \A t \in Attempt : t # s => starts'[t] = starts[t]
    BY <2>1, <2>2, ColibriAsked DEF EngineInv
  <2>5. \A d \in Call : ~Handling(d)' /\ ~Pending(d)'
    BY <2>1, <2>2 DEF Handling, Pending, InFlight
  <2>6. HostInv'
    BY <2>1, <2>3, <2>4, <2>5 DEF EngineInv, HostInv, Kind, C!Failures
  <2> QED
    BY <2>3, <2>4, <2>6 DEF EngineInv
<1>2. ASSUME NEW s \in Attempt, ColibriStarted(s)
      PROVE  EngineInv'
  <2>1. /\ starts[s] \in C!Failures \cup {"loaded"} /\ shown' = [shown EXCEPT ![s] = TRUE] /\ host' \in Kind
        /\ UNCHANGED <<vars, cvars, handler, asked, build>>
    BY <1>2 DEF ColibriStarted, HostAfter, EngineInv, HostInv, Kind
  <2>2. LlamaInv'
    <3>1. Processes'
      BY <2>1 DEF vars, EngineInv, LlamaInv, Processes, ProcTypes, NoOrphan, Alive, StatusTrue
    <3> QED
      BY <2>1, <3>1, ProcessesMove DEF vars, Calms, EngineInv
  <2>3. ColibriInv'
    BY <2>1 DEF cvars, EngineInv, ColibriInv, C!CTypeOK, C!Waiting, C!OneGateway, C!Running
  <2>4. HostInv'
    BY <2>1 DEF vars, cvars, EngineInv, HostInv, Handling, Pending, InFlight, C!Waiting
  <2> QED
    BY <2>2, <2>3, <2>4 DEF EngineInv
<1>3. CASE GgufStop
  <2>1. /\ stopServerSync /\ UNCHANGED <<cvars, hvars>>
        /\ UNCHANGED <<calls, activeContext, starting, last, refused, foreign>>
    BY <1>3 DEF GgufStop, Stop
  <2>2. LlamaInv' /\ active' = 0
    BY <2>1, StoppedKeeps DEF EngineInv
  <2>3. ColibriInv' /\ HostInv'
    BY <2>1, <2>2 DEF cvars, hvars, EngineInv, ColibriInv, C!CTypeOK, C!Waiting, C!OneGateway, C!Running,
                      HostInv, Handling, Pending, InFlight
  <2> QED
    BY <2>2, <2>3 DEF EngineInv
<1>4. CASE ColibriStop
  <2>1. /\ stopServerSync /\ C!stopSync /\ host' = "none"
        /\ UNCHANGED <<calls, activeContext, starting, last, refused, foreign, starts, handler, asked, shown, build>>
    BY <1>4 DEF ColibriStop
  <2>2. LlamaInv' /\ active' = 0
    BY <2>1, StoppedKeeps DEF EngineInv
  <2>3. ColibriInv' /\ child' = 0
    BY <2>1, StoppedColibri DEF EngineInv
  <2>4. HostInv'
    BY <2>1, <2>2, <2>3 DEF EngineInv, HostInv, Kind, Handling, Pending, InFlight, C!Waiting
  <2> QED
    BY <2>2, <2>3, <2>4 DEF EngineInv
<1>5. CASE LlamaStep
  <2>1. /\ (\E c \in Call : Step(c)) \/ (\E p \in Proc : ExitEvent(p) \/ ServerStep(p)) \/ ForeignStep
        /\ UNCHANGED <<cvars, hvars>>
    BY <1>5 DEF LlamaStep
  <2>2. LlamaInv'
    BY <2>1, StepKeeps, OutsideKeeps DEF EngineInv
  <2>3. /\ \A c \in Call : Pending(c)' => Pending(c)
        /\ active' \in {0, active} \/ \E c \in Call : InFlight(c)
    BY <2>1, LlamaMoves DEF EngineInv
  <2>4. ColibriInv'
    BY <2>1 DEF cvars, EngineInv, ColibriInv, C!CTypeOK, C!Waiting, C!OneGateway, C!Running
  <2>5. HostInv'
    BY <2>1, <2>3 DEF cvars, hvars, EngineInv, HostInv, Handling, Pending, C!Waiting
  <2> QED
    BY <2>2, <2>4, <2>5 DEF EngineInv
<1>6. CASE ColibriStep
  <2>1. PICK s \in Attempt : C!StartStep(s) \/ C!GatewayExit(s) \/ C!GatewayStep(s)
    BY <1>6 DEF ColibriStep
  <2>2. UNCHANGED <<vars, hvars>>
    BY <1>6 DEF ColibriStep
  <2>3. /\ ColibriInv'
        /\ \A t \in Attempt : C!Waiting(t)' => C!Waiting(t)
        /\ child' \in {0, child} \/ \E t \in Attempt : C!Waiting(t)
        /\ \A t \in Attempt : starts[t] \in C!Failures \cup {"loaded"} => starts'[t] = starts[t]
    BY <2>1, ColibriMoves DEF EngineInv
  <2>4. LlamaInv'
    <3>1. Processes'
      BY <2>2 DEF vars, EngineInv, LlamaInv, Processes, ProcTypes, NoOrphan, Alive, StatusTrue
    <3> QED
      BY <2>2, <3>1, ProcessesMove DEF vars, Calms, EngineInv
  <2>5. HostInv'
    BY <2>2, <2>3 DEF vars, hvars, EngineInv, HostInv, Handling, Pending, InFlight
  <2> QED
    BY <2>3, <2>4, <2>5 DEF EngineInv
<1>7. CASE UNCHANGED enginesVars
  <2>1. LlamaInv'
    <3>1. Processes'
      BY <1>7 DEF enginesVars, vars, EngineInv, LlamaInv, Processes, ProcTypes, NoOrphan, Alive, StatusTrue
    <3> QED
      BY <1>7, <3>1, ProcessesMove DEF enginesVars, vars, Calms, EngineInv
  <2>2. ColibriInv' /\ HostInv'
    BY <1>7 DEF enginesVars, vars, cvars, hvars, EngineInv, ColibriInv, C!CTypeOK, C!Waiting, C!OneGateway, C!Running,
                HostInv, Handling, Pending, InFlight
  <2> QED
    BY <2>1, <2>2 DEF EngineInv
<1> QED
  BY <1>1, <1>2, <1>3, <1>4, <1>5, <1>6, <1>7, GgufStartKeeps, GgufStartedKeeps DEF EnginesNext

LEMMA ConfirmsKeep ==
  ASSUME Assumptions, ~Overlap, Foreign = {}, EngineInv, Confirms, [EnginesNext]_enginesVars
  PROVE  Confirms'
<1>1. ASSUME NEW c \in Call, GgufStart(c)
      PROVE  Confirms'
  <2>1. PICK a \in Ask : StartFor(c, a)
    BY <1>1 DEF GgufStart
  <2>2. \A d \in Call : ~Pending(d) /\ ~InFlight(d)
    BY <1>1, QuietIsQuiet DEF GgufStart
  <2> QED
    BY <2>1, <2>2, AskedConfirms DEF EngineInv
<1>2. ASSUME NEW c \in Call, GgufStarted(c)
      PROVE  Confirms'
  <2>1. Handling(c) /\ calls[c].at = "done"
    BY <1>2 DEF GgufStarted, Handling
  <2>2. \A d \in Call : ~Pending(d) /\ ~InFlight(d)
    BY <2>1 DEF EngineInv, HostInv, Pending, InFlight, Waits
  <2>3. CASE Answer(c)
    BY <2>3, CalmConfirms DEF Answer, vars
  <2>4. CASE RollBack(c)
    BY <2>1, <2>2, <2>4, AskedConfirms DEF RollBack, EngineInv, HostInv
  <2> QED
    BY <1>2, <2>3, <2>4 DEF GgufStarted
<1>3. ASSUME NEW c \in Call, Step(c)
      PROVE  Confirms'
  BY <1>3, StepConfirms DEF EngineInv
<1>4. ASSUME NEW p \in Proc, ExitEvent(p) \/ ServerStep(p)
      PROVE  Confirms'
  BY <1>4, CalmConfirms DEF ExitEvent, ServerStep, Becomes, NoProc
<1>5. CASE ForeignStep
  BY <1>5, CalmConfirms DEF ForeignStep
<1>6. ASSUME stopServerSync, UNCHANGED <<calls, last>>
      PROVE  Confirms'
  BY <1>6, CalmConfirms DEF stopServerSync, NoProc
<1>7. ASSUME UNCHANGED vars
      PROVE  Confirms'
  BY <1>7, CalmConfirms DEF vars
<1> QED
  BY <1>1, <1>2, <1>3, <1>4, <1>5, <1>6, <1>7
     DEF EnginesNext, ColibriStart, ColibriStarted, GgufStop, Stop, ColibriStop, LlamaStep, ColibriStep, enginesVars

-----------------------------------------------------------------------------

\* Both engines behind engineHost: the invariant of the chat engine, one gateway, and that
\* an engine only has a process while the other one has neither a process nor a start that
\* could still spawn one.
THEOREM EnginesInvariance ==
  ASSUME ~Overlap
  PROVE  EnginesSpec => []EngineInv
<1>1. EnginesInit => EngineInv
  BY EnginesStart, Assumed
<1>2. EngineInv /\ [EnginesNext]_enginesVars => EngineInv'
  BY EnginesKeep, Assumed
<1> QED
  BY <1>1, <1>2, PTL DEF EnginesSpec

\* "Only one local engine runs at a time": with callers that wait for one another, of
\* all llama-servers and gateways one is alive at most.
THEOREM OneEngineAtATime ==
  ASSUME ~Overlap
  PROVE  EnginesSpec => []OneEngine
<1>1. EngineInv => OneEngine
  <2> SUFFICES ASSUME EngineInv
               PROVE  OneEngine
    OBVIOUS
  <2> DEFINE servers == {p \in Proc : Alive(p)}
             gateways == {s \in Attempt : C!Running(s)}
  <2>1. \A S, x : S \subseteq {x} => Cardinality(S) \in {0, 1}
    <3> TAKE S, x
    <3>1. IsFiniteSet({x}) /\ Cardinality({x}) = 1
      BY FS_Singleton
    <3> HAVE S \subseteq {x}
    <3>2. IsFiniteSet(S) /\ Cardinality(S) <= 1 /\ Cardinality(S) \in Nat
      BY <3>1, FS_Subset, FS_CardinalityType
    <3> QED
      BY <3>2
  <2>2. servers \subseteq {active} /\ gateways \subseteq {child}
    BY DEF EngineInv, LlamaInv, Processes, NoOrphan, ColibriInv, C!OneGateway
  <2>3. active # 0 => child = 0
    BY DEF EngineInv, HostInv
  <2>4. 0 \notin servers /\ 0 \notin gateways
    BY Assumptions DEF Assumptions, Proc
  <2>5. servers = {} \/ gateways = {}
    BY <2>2, <2>3, <2>4
  <2>6. Cardinality({}) = 0
    BY FS_EmptySet
  <2>7. Cardinality(servers) + Cardinality(gateways) <= 1
    <3> HIDE DEF servers, gateways
    <3> QED
      BY <2>1, <2>2, <2>5, <2>6
  <2> QED
    BY <2>7 DEF OneEngine
<1>2. EnginesSpec => []EngineInv
  BY EnginesInvariance
<1> QED
  BY <1>1, <1>2, PTL

\* A fresh build of the engine is confirmed, and its predecessor deleted, only after a
\* model was loaded on it, when no stranger answers on the port.
THEOREM ConfirmedOnlyByLoad ==
  ASSUME ~Overlap, Foreign = {}
  PROVE  EnginesSpec => ConfirmedByLoad
<1> DEFINE Loaded == build = "fresh" /\ build' = "confirmed" => last # NoOptions
<1>1. EnginesInit => Confirms
  BY DEF EnginesInit, Init, Idle, NoProc, Confirms
<1>2. EngineInv /\ Confirms /\ [EnginesNext]_enginesVars => Confirms'
  BY ConfirmsKeep, Assumed
<1>3. Confirms /\ [EnginesNext]_enginesVars => [Loaded]_enginesVars
  <2> SUFFICES ASSUME Confirms, EnginesNext, build = "fresh", build' = "confirmed"
               PROVE  last # NoOptions
    BY DEF enginesVars
  <2>1. PICK c \in Call : GgufStarted(c)
    BY DEF EnginesNext, GgufStart, ColibriStart, ColibriStarted, GgufStop, ColibriStop, LlamaStep, ColibriStep, hvars
  <2>2. Succeeded(c)
    BY <2>1 DEF GgufStarted, Answer, RollBack
  <2> QED
    BY <2>2 DEF Succeeded, Confirms
<1>4. EnginesSpec => []EngineInv
  BY EnginesInvariance
<1>5. EnginesSpec => [][Loaded]_enginesVars
  <2> HIDE DEF Loaded
  <2>1. Confirms /\ [EnginesNext]_enginesVars => [Loaded]_enginesVars
    BY <1>3
  <2> QED
    BY <1>1, <1>2, <1>4, <2>1, PTL DEF EnginesSpec
<1> QED
  BY <1>5 DEF ConfirmedByLoad

-----------------------------------------------------------------------------
(* The engine's updates: EngineUpdater, for every number of builds,        *)
(* whichever of them are bad, and whatever crashes and locks.              *)

(* What a step of a swap finds in the folders.                             *)
Found ==
  /\ step = "clear" => Exists(pending)
  /\ step = "aside" => Exists(llamaDir) /\ Exists(pending)
  /\ step = "in" => Exists(pending)
  /\ step = "restore" => Exists(previous)
  /\ step \in {"note", "drop", "back-note"} => Exists(llamaDir)
  /\ step = "note" => llamaDir.how = "staged"
  /\ step = "back-note" => ~Exists(previous)
  /\ step = "back-aside" => Exists(llamaDir) /\ Exists(previous)
  /\ step \in {"back-in", "back-restore"} => Exists(failedDir) /\ Exists(previous)

(* No check is under way while the program launches.                       *)
Alone == step \in {"off", "clear", "aside", "in", "restore", "note"} => check = NoCheck

(* A swap that is under way, or that left no engine in place, is not       *)
(* finished.                                                               *)
Unfinished ==
  /\ step \in {"aside", "in", "restore", "note"} => unfinished
  /\ step \in {"rest", "off"} /\ ~Exists(llamaDir) => unfinished

(* A folder whose build may have to be left again is marked, and a check   *)
(* that will write over its engine.json writes the mark too.               *)
Marked(f) ==
  f.how = "staged" /\ ~unfinished =>
    f.unconfirmed /\ Exists(previous) /\ (check.at = "fetching" => check.unconfirmed)

WayBack ==
  /\ Marked(llamaDir)
  /\ step \in {"back-in", "back-restore"} => Marked(failedDir)
  /\ step = "back-note" => llamaDir.how # "staged"

(* A folder whose build is there to stay is not marked while there is      *)
(* another to go back to, nor will a check mark it; what a rollback takes  *)
(* away is not such a folder.                                              *)
Kept ==
  /\ llamaDir.how # "staged" /\ Exists(llamaDir) /\ ~unfinished /\ Exists(previous) /\ step # "drop" =>
       ~llamaDir.unconfirmed /\ (check.at = "fetching" => ~check.unconfirmed)
  /\ step = "drop" => llamaDir.how = "proven" /\ ~llamaDir.unconfirmed
  /\ step = "back-aside" /\ ~unfinished => llamaDir.how = "staged"
  /\ step \in {"back-in", "back-restore"} /\ ~unfinished => failedDir.how = "staged"

(* Together they are inductive.                                            *)
UpdaterInv == UpdaterTypeOK /\ Found /\ SomethingToRun /\ Alone /\ Unfinished /\ WayBack /\ Kept

-----------------------------------------------------------------------------
(* What is there, is a folder with a build.                                *)
LEMMA WhatExists ==
  ASSUME NEW f \in Folder \cup {NoFolder}, Exists(f) PROVE f \in Folder
  BY DEF Exists, NoFolder

LEMMA NothingThere == ~Exists(NoFolder) /\ NoFolder.how = "installed" /\ ~NoFolder.unconfirmed
  BY DEF Exists, NoFolder

(* The initial states satisfy the invariant: the engine works and nothing  *)
(* is staged.                                                              *)
LEMMA UpdaterStarts == UpdaterInit => UpdaterInv
<1> SUFFICES ASSUME UpdaterInit PROVE UpdaterInv
  OBVIOUS
<1> USE BuildAssumption DEF UpdaterInit
<1>1. PICK tag \in {0, newest} :
        llamaDir = [NoFolder EXCEPT !.build = newest, !.tag = tag, !.how = "proven"]
  OBVIOUS
<1>2. llamaDir \in Folder
  BY <1>1 DEF Folder, NoFolder
<1>3. UpdaterTypeOK
  BY <1>2 DEF UpdaterTypeOK, NoCheck
<1>4. Exists(llamaDir) /\ ~Exists(previous) /\ llamaDir.how = "proven"
  BY <1>1 DEF Exists, NoFolder, Build
<1> QED
  BY <1>3, <1>4 DEF UpdaterInv, Found, SomethingToRun, Alone, Unfinished, WayBack, Marked, Kept, NoCheck

(* Every step of the launch, of a load and of a check keeps the types.     *)
LEMMA UpdaterTypesKeep == UpdaterTypeOK /\ Found /\ [UpdaterNext]_updaterVars => UpdaterTypeOK'
<1> SUFFICES ASSUME UpdaterTypeOK, Found, [UpdaterNext]_updaterVars PROVE UpdaterTypeOK'
  OBVIOUS
<1> USE BuildAssumption, WhatExists, NothingThere DEF UpdaterTypeOK, folders, Elsewhere
<1>1. CASE Launch
  BY <1>1 DEF Launch, Swap, NoCheck, Build
<1>2. CASE ApplyClear
  BY <1>2 DEF ApplyClear, Swap, NoCheck, Build
<1>3. CASE ApplyAside
  BY <1>3 DEF ApplyAside, Swap, NoCheck, Build
<1>4. CASE ApplyIn
  BY <1>4 DEF ApplyIn, Swap, NoCheck, Build
<1>5. CASE ApplyRestore
  BY <1>5 DEF ApplyRestore, Swap, NoCheck, Build
<1>6. CASE ConfirmDrop
  BY <1>6 DEF ConfirmDrop, Swap, NoCheck, Build
<1>7. CASE LoadCrashes
  BY <1>7 DEF LoadCrashes, Swap, NoCheck, Build
<1>8. CASE RollbackAside
  BY <1>8 DEF RollbackAside, Swap, NoCheck, Build
<1>9. CASE RollbackRestore
  BY <1>9 DEF RollbackRestore, Swap, NoCheck, Build
<1>10. CASE CheckFails
  BY <1>10 DEF CheckFails, Swap, NoCheck, Build
<1>11. CASE Ends
  BY <1>11 DEF Ends, Swap, NoCheck, Build
<1>12. CASE Released
  BY <1>12 DEF Released, Swap, NoCheck, Build
<1>13. CASE ApplyNote
  <2>1. llamaDir \in Folder
    BY <1>13 DEF ApplyNote, Found
  <2>2. [llamaDir EXCEPT !.unconfirmed = TRUE] \in Folder
    BY <2>1 DEF Folder
  <2> QED
    BY <1>13, <2>2 DEF ApplyNote
<1>14. CASE LoadWorks
  <2>1. llamaDir \in Folder
    BY <1>14 DEF LoadWorks
  <2>2. [llamaDir EXCEPT !.unconfirmed = FALSE, !.how = "proven"] \in Folder
    BY <2>1 DEF Folder
  <2> QED
    BY <1>14, <2>2 DEF LoadWorks, Swap
<1>15. CASE RollbackIn
  BY <1>15 DEF RollbackIn, Found, Folder, Swap
<1>16. CASE RollbackNote
  <2>1. llamaDir \in Folder
    BY <1>16 DEF RollbackNote, Found
  <2>2. failedDir.tag \in Build \cup {0}
    BY DEF Folder, NoFolder
  <2>3. llamaDir.failedTags \cup ({failedDir.tag} \ {0}) \in SUBSET Build
    BY <2>1, <2>2 DEF Folder
  <2>4. \A t \in SUBSET Build : [llamaDir EXCEPT !.failedTags = t, !.unconfirmed = FALSE] \in Folder
    BY <2>1 DEF Folder
  <2> QED
    BY <1>16, <2>3, <2>4 DEF RollbackNote
<1>17. CASE CheckFetched
  <2>1. llamaDir' \in Folder \cup {NoFolder}
    <3>1. ASSUME llamaDir \in Folder
          PROVE [llamaDir EXCEPT !.tag = check.tag, !.failedTags = check.failedTags,
                                 !.unconfirmed = check.unconfirmed] \in Folder
      BY <3>1 DEF Folder
    <3> QED
      BY <1>17, <3>1 DEF CheckFetched, WriteBack
  <2>2. check.tag \in Build \cup {0} /\ check.failedTags \in SUBSET Build
    OBVIOUS
  <2>3. CASE check' = NoCheck
    BY <1>17, <2>1, <2>3 DEF CheckFetched, NoCheck
  <2>4. ASSUME NEW b \in Build, check' = [check EXCEPT !.at = "downloading", !.release = b]
        PROVE UpdaterTypeOK'
    <3>1. b # 0
      BY DEF Build
    <3> QED
      BY <1>17, <2>1, <2>4, <3>1 DEF CheckFetched
  <2> QED
    BY <1>17, <2>3, <2>4 DEF CheckFetched
<1>18. CASE CheckRefused
  BY <1>18 DEF CheckRefused, NoCheck, Folder, Swap
<1>19. CASE CheckStarts
  BY <1>19 DEF CheckStarts, Folder, Swap
<1>20. CASE CheckStaged
  BY <1>20 DEF CheckStaged, NoCheck, Folder, Swap
<1>21. CASE Setup
  <2>1. newest \in Build /\ 1 .. newest \subseteq Build
    BY DEF Build
  <2>2. \A b \in Build, t \in Build \cup {0} :
          [NoFolder EXCEPT !.build = b, !.tag = t] \in Folder
    BY DEF Folder, NoFolder
  <2>3. \A b \in Build : [NoFolder EXCEPT !.build = b] \in Folder
    BY DEF Folder, NoFolder
  <2>4. llamaDir' \in Folder
    BY <1>21, <2>1, <2>2, <2>3 DEF Setup
  <2> QED
    BY <1>21, <2>4 DEF Setup
<1>22. CASE UNCHANGED updaterVars
  BY <1>22 DEF updaterVars
<1> QED
  BY <1>1, <1>2, <1>3, <1>4, <1>5, <1>6, <1>7, <1>8, <1>9, <1>10, <1>11, <1>12, <1>13, <1>14, <1>15, <1>16, <1>17, <1>18, <1>19, <1>20, <1>21, <1>22 DEF UpdaterNext

(* Every step keeps the rest of the invariant.                             *)
LEMMA UpdaterKeeps == UpdaterInv /\ [UpdaterNext]_updaterVars => UpdaterInv'
<1> SUFFICES ASSUME UpdaterInv, [UpdaterNext]_updaterVars PROVE UpdaterInv'
  OBVIOUS
<1>0. UpdaterTypeOK /\ UpdaterTypeOK'
  BY UpdaterTypesKeep DEF UpdaterInv
<1> USE NothingThere DEF UpdaterInv, Found, SomethingToRun, Alone, Unfinished, WayBack, Marked, Kept,
                          folders, Elsewhere
<1>1. CASE Launch
  BY <1>0, <1>1 DEF Launch, UpdaterTypeOK, Folder, Exists, NoFolder
<1>2. CASE ApplyClear
  BY <1>0, <1>2 DEF ApplyClear, UpdaterTypeOK, Folder, Exists, NoFolder
<1>3. CASE ApplyAside
  BY <1>0, <1>3 DEF ApplyAside, UpdaterTypeOK, Folder, Exists, NoFolder
<1>4. CASE ApplyIn
  BY <1>0, <1>4 DEF ApplyIn, UpdaterTypeOK, Folder, Exists, NoFolder
<1>5. CASE ApplyRestore
  BY <1>0, <1>5 DEF ApplyRestore, UpdaterTypeOK, Folder, Exists, NoFolder
<1>6. CASE ApplyNote
  <2>1. llamaDir \in Folder
    BY <1>0, <1>6, WhatExists DEF ApplyNote, UpdaterTypeOK
  <2>2. /\ llamaDir'.build = llamaDir.build /\ llamaDir'.how = llamaDir.how
        /\ llamaDir'.unconfirmed = TRUE
    BY <1>6, <2>1 DEF ApplyNote, Folder
  <2>3. Exists(llamaDir)' /\ (unfinished' = ~Exists(previous)) /\ check = NoCheck
    BY <1>6, <2>2 DEF ApplyNote, Exists
  <2>4. WayBack'
    BY <1>6, <2>2, <2>3 DEF ApplyNote, NoCheck, Exists
  <2>5. Kept'
    BY <1>6, <2>2, <2>3 DEF ApplyNote, NoCheck, Exists
  <2> QED
    BY <1>0, <1>6, <2>3, <2>4, <2>5 DEF ApplyNote
<1>7. CASE LoadWorks
  BY <1>0, <1>7 DEF LoadWorks, UpdaterTypeOK, Folder, Exists, NoFolder
<1>8. CASE ConfirmDrop
  BY <1>0, <1>8 DEF ConfirmDrop, UpdaterTypeOK, Folder, Exists, NoFolder
<1>9. CASE LoadCrashes
  BY <1>0, <1>9 DEF LoadCrashes, isUnconfirmed, UpdaterTypeOK, Folder, Exists, NoFolder
<1>10. CASE RollbackAside
  BY <1>0, <1>10 DEF RollbackAside, UpdaterTypeOK, Folder, Exists, NoFolder
<1>11. CASE RollbackIn
  BY <1>0, <1>11 DEF RollbackIn, UpdaterTypeOK, Folder, Exists, NoFolder
<1>12. CASE RollbackRestore
  BY <1>0, <1>12 DEF RollbackRestore, UpdaterTypeOK, Folder, Exists, NoFolder
<1>13. CASE RollbackNote
  <2>1. llamaDir \in Folder
    BY <1>0, <1>13, WhatExists DEF RollbackNote, UpdaterTypeOK
  <2>2. /\ llamaDir'.build = llamaDir.build /\ llamaDir'.how = llamaDir.how
        /\ ~llamaDir'.unconfirmed
    BY <1>13, <2>1 DEF RollbackNote, Folder
  <2>3. Exists(llamaDir)' /\ llamaDir'.how # "staged"
    BY <1>13, <2>2 DEF RollbackNote, Exists
  <2>4. Kept'
    BY <1>13, <2>2, <2>3 DEF RollbackNote, Exists
  <2> QED
    BY <1>0, <1>13, <2>3, <2>4 DEF RollbackNote
<1>14. CASE CheckStarts
  BY <1>0, <1>14 DEF CheckStarts, NoCheck, UpdaterTypeOK, Folder, Exists, NoFolder
<1>15. CASE CheckFetched
  <2>1. step = "rest" /\ check.at = "fetching" /\ check'.at # "fetching"
    <3>1. NoCheck.at # "fetching"
      BY DEF NoCheck
    <3>2. \A b : [check EXCEPT !.at = "downloading", !.release = b].at = "downloading"
      BY <1>0 DEF UpdaterTypeOK
    <3> QED
      BY <1>15, <3>1, <3>2 DEF CheckFetched
  <2>2. UNCHANGED <<pending, previous, failedDir, step, unfinished>>
    BY <1>15 DEF CheckFetched
  <2>3. CASE ~Exists(llamaDir)
    <3>1. UNCHANGED llamaDir
      BY <1>15, <2>3 DEF CheckFetched, WriteBack
    <3> QED
      BY <1>0, <2>1, <2>2, <2>3, <3>1 DEF Exists
  <2>4. CASE Exists(llamaDir)
    <3>1. llamaDir \in Folder
      BY <1>0, <2>4, WhatExists DEF UpdaterTypeOK
    <3>2. /\ llamaDir'.build = llamaDir.build /\ llamaDir'.how = llamaDir.how
          /\ llamaDir'.unconfirmed = check.unconfirmed
      BY <1>15, <2>4, <3>1 DEF CheckFetched, WriteBack, Folder
    <3>3. Exists(llamaDir)'
      BY <2>4, <3>2 DEF Exists
    <3> QED
      BY <1>0, <2>1, <2>2, <2>4, <3>2, <3>3 DEF Exists
  <2> QED
    BY <2>3, <2>4
<1>16. CASE CheckStaged
  BY <1>0, <1>16 DEF CheckStaged, NoCheck, UpdaterTypeOK, Folder, Exists, NoFolder
<1>17. CASE CheckRefused
  BY <1>0, <1>17 DEF CheckRefused, NoCheck, UpdaterTypeOK, Folder, Exists, NoFolder
<1>18. CASE CheckFails
  BY <1>0, <1>18 DEF CheckFails, NoCheck, UpdaterTypeOK, Folder, Exists, NoFolder
<1>19. CASE Setup
  BY <1>0, <1>19 DEF Setup, UpdaterTypeOK, Folder, Exists, NoFolder
<1>20. CASE Ends
  BY <1>0, <1>20 DEF Ends, NoCheck, UpdaterTypeOK, Folder, Exists, NoFolder
<1>21. CASE Released
  BY <1>0, <1>21 DEF Released, UpdaterTypeOK, Folder, Exists, NoFolder
<1>22. CASE UNCHANGED updaterVars
  BY <1>0, <1>22 DEF updaterVars, Exists
<1> QED
  BY <1>1, <1>2, <1>3, <1>4, <1>5, <1>6, <1>7, <1>8, <1>9, <1>10, <1>11, <1>12, <1>13, <1>14, <1>15, <1>16, <1>17, <1>18, <1>19, <1>20, <1>21, <1>22 DEF UpdaterNext

(* What is in the four folders, at every moment of a swap, a load and a    *)
(* check.                                                                  *)
THEOREM UpdaterInvariance == UpdaterSpec => []UpdaterInv
<1> QED
  BY UpdaterStarts, UpdaterKeeps, PTL DEF UpdaterSpec

(* The folders, engine.json and the check have their types; in particular  *)
(* only the engine in place is ever marked unconfirmed.                    *)
THEOREM UpdaterTypeCorrect == UpdaterSpec => []UpdaterTypeOK
<1>1. UpdaterInv => UpdaterTypeOK
  BY DEF UpdaterInv
<1> QED
  BY <1>1, UpdaterInvariance, PTL

(* Whatever is cut short or fails on a lock, a whole engine is left in a   *)
(* folder that a launch or a rollback looks at.                            *)
THEOREM NeverWithoutAnEngine == UpdaterSpec => []SomethingToRun
<1>1. UpdaterInv => SomethingToRun
  BY DEF UpdaterInv
<1> QED
  BY <1>1, UpdaterInvariance, PTL

(* A build that was switched to can be left again until it is confirmed.   *)
THEOREM AlwaysAWayBack == UpdaterSpec => []CanGoBack
<1>1. UpdaterInv => CanGoBack
  BY DEF UpdaterInv, WayBack, Marked, CanGoBack, isUnconfirmed
<1> QED
  BY <1>1, UpdaterInvariance, PTL

(* No rollback takes away an engine that a model loaded on.                *)
THEOREM ProvenEnginesStay == UpdaterSpec => ProvenStays
<1>1. UpdaterInv /\ [UpdaterNext]_updaterVars =>
        [step = "back-aside" /\ ~unfinished /\ llamaDir' # llamaDir => llamaDir.how # "proven"]_updaterVars
  BY DEF UpdaterInv, Kept
<1> QED
  BY <1>1, UpdaterInvariance, PTL DEF UpdaterSpec, ProvenStays
=============================================================================
