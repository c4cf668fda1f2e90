---------------------------- MODULE LocalEngines ----------------------------
(***************************************************************************)
(* The local chat engines together: win/electron/engineHost.cjs and the    *)
(* handlers of win/electron/main.cjs that start and stop llama.cpp         *)
(* (LlamaProcess) and colibri (ColibriProcess) through it, confirm a       *)
(* freshly updated llama.cpp build and go back to the old one when its     *)
(* first load crashes.                                                     *)
(***************************************************************************)
EXTENDS LlamaProcess

CONSTANT
  Attempt    \* the colibri starts of a behaviour, numbered 1, 2, ... (a bound)

ASSUME EnginesAssumption == Attempt \subseteq Nat \ {0}

VARIABLES
  starts, gateway, child,
  host,      \* engineHost's `active'
  handler,   \* handler[c]: where the gguf:start handler of c is
  asked,     \* asked[c]: the options of that handler
  shown,     \* shown[s]: the colibri:start handler of s has its result
  build      \* the engine build: "fresh" is one no model was loaded on yet

C == INSTANCE ColibriProcess

cvars == <<starts, gateway, child>>
hvars == <<host, handler, asked, shown, build>>
enginesVars == <<vars, cvars, hvars>>

NotAsked == [model |-> "none", ctx |-> 0, exact |-> FALSE]
Kind == {"none", "llamacpp", "colibri"}

EnginesTypeOK ==
  /\ TypeOK /\ C!CTypeOK
  /\ host \in Kind
  /\ handler \in [Call -> {"none", "host", "restored", "answered"}]
  /\ asked \in [Call -> Ask \cup {NotAsked}]
  /\ shown \in [Attempt -> BOOLEAN]
  /\ build \in {"fresh", "confirmed", "restored"}

EnginesInit ==
  /\ Init /\ C!CInit
  /\ host = "none"
  /\ handler = [c \in Call |-> "none"]
  /\ asked = [c \in Call |-> NotAsked]
  /\ shown = [s \in Attempt |-> FALSE]
  /\ build \in {"fresh", "confirmed"}

-----------------------------------------------------------------------------
Succeeded(c) == calls[c].result \in {"loaded", "reused", "adopted"}

(* Every earlier start has come back, for the runs without Overlap. *)
Quiet ==
  /\ \A c \in Call : handler[c] \in {"none", "answered"}
  /\ \A s \in Attempt : starts[s] = "idle" \/ shown[s]

(* A start that came back resumes its handler in the same turn of the      *)
(* event loop: no other event gets between the two.                        *)
Resuming ==
  \/ \E c \in Call : handler[c] \in {"host", "restored"} /\ calls[c].at = "done"
  \/ \E s \in Attempt : starts[s] \in C!Failures \cup {"loaded"} /\ ~shown[s]

(* Faulty variants of definitions below, see ParallelCalls.                *)

(* llama.cpp starts beside a running colibri. *)
GgufStartBeside(c) ==
  /\ ~Resuming
  /\ handler[c] = "none"
  /\ Overlap \/ Quiet
  /\ host' = "llamacpp"
  /\ \E a \in Ask :
        /\ MayCall(c, a.model, a.ctx, a.exact) /\ StartFor(c, a)
        /\ asked' = [asked EXCEPT ![c] = a]
  /\ handler' = [handler EXCEPT ![c] = "host"]
  /\ UNCHANGED <<cvars, shown, build>>

(* A build is confirmed by a start whatever came of it. *)
ConfirmAlways(c) ==
  /\ build' = IF build = "fresh" THEN "confirmed" ELSE build
  /\ handler' = [handler EXCEPT ![c] = "answered"]
  /\ asked' = [asked EXCEPT ![c] = NotAsked]
  /\ UNCHANGED vars

(* gguf:start: engineHost stops colibri and llama.cpp starts. *)
GgufStart(c) ==
  /\ ~Resuming
  /\ handler[c] = "none"
  /\ Overlap \/ Quiet
  /\ C!stopSync
  /\ host' = "llamacpp"
  /\ \E a \in Ask :
        /\ MayCall(c, a.model, a.ctx, a.exact) /\ StartFor(c, a)
        /\ asked' = [asked EXCEPT ![c] = a]
  /\ handler' = [handler EXCEPT ![c] = "host"]
  /\ UNCHANGED <<starts, shown, build>>

(* engineHost.start's end: after a failure nothing is left active. *)
HostAfter(kind, success) ==
  host' = IF ~success /\ host = kind THEN "none" ELSE host

(* A model that loaded on the engine confirms its build. *)
Answer(c) ==
  /\ build' = IF Succeeded(c) /\ build = "fresh" THEN "confirmed" ELSE build
  /\ handler' = [handler EXCEPT ![c] = "answered"]
  /\ asked' = [asked EXCEPT ![c] = NotAsked]
  /\ UNCHANGED vars

(* The first load of a fresh build crashed: the old build is brought back  *)
(* and the model is started again on it, past the host.                    *)
FirstLoadCrashed(c) ==
  handler[c] = "host" /\ build = "fresh" /\ calls[c].result = "stopped-loading"

RollBack(c) ==
  /\ FirstLoadCrashed(c)
  /\ build' = "restored"
  /\ handler' = [handler EXCEPT ![c] = "restored"]
  /\ StartFor(c, asked[c])
  /\ UNCHANGED asked

(* The handler's end; rolling back may fail on a locked folder. *)
GgufStarted(c) ==
  /\ handler[c] \in {"host", "restored"} /\ calls[c].at = "done"
  /\ IF handler[c] = "host" THEN HostAfter("llamacpp", Succeeded(c)) ELSE UNCHANGED host
  /\ Answer(c) \/ RollBack(c)
  /\ UNCHANGED <<cvars, shown>>

(* colibri:start: engineHost stops llama.cpp and colibri starts. *)
ColibriStart(s) ==
  /\ ~Resuming
  /\ Overlap \/ Quiet
  /\ \A r \in Attempt : r < s => starts[r] # "idle"
  /\ stopServerSync
  /\ host' = "colibri"
  /\ C!start(s)
  /\ UNCHANGED <<calls, activeContext, starting, last, refused, foreign, handler, asked, shown, build>>

ColibriStarted(s) ==
  /\ starts[s] \in C!Failures \cup {"loaded"} /\ ~shown[s]
  /\ shown' = [shown EXCEPT ![s] = TRUE]
  /\ HostAfter("colibri", starts[s] = "loaded")
  /\ UNCHANGED <<vars, cvars, handler, asked, build>>

(* gguf:stop goes past the host; colibri:stop stops both engines. *)
GgufStop ==
  /\ ~Resuming
  /\ Stop
  /\ UNCHANGED <<cvars, hvars>>

ColibriStop ==
  /\ ~Resuming
  /\ stopServerSync /\ C!stopSync
  /\ host' = "none"
  /\ UNCHANGED <<calls, activeContext, starting, last, refused, foreign, starts, handler, asked, shown, build>>

-----------------------------------------------------------------------------
LlamaStep ==
  /\ ~Resuming
  /\ \/ \E c \in Call : Step(c)
     \/ \E p \in Proc : ExitEvent(p) \/ ServerStep(p)
     \/ ForeignStep
  /\ UNCHANGED <<cvars, hvars>>

ColibriStep ==
  /\ ~Resuming
  /\ \E s \in Attempt : C!StartStep(s) \/ C!GatewayExit(s) \/ C!GatewayStep(s)
  /\ UNCHANGED <<vars, hvars>>

EnginesNext ==
  \/ \E c \in Call : GgufStart(c) \/ GgufStarted(c)
  \/ \E s \in Attempt : ColibriStart(s) \/ ColibriStarted(s)
  \/ GgufStop \/ ColibriStop \/ LlamaStep \/ ColibriStep

EnginesSpec == EnginesInit /\ [][EnginesNext]_enginesVars

-----------------------------------------------------------------------------
(* "Only one local engine runs at a time": of all llama-servers and        *)
(* gateways at most one is alive.                                          *)
OneEngine ==
  Cardinality({p \in Proc : Alive(p)}) + Cardinality({s \in Attempt : C!Running(s)}) <= 1

(* "A model loaded on the new engine: it stays, and the old one goes": a   *)
(* build is confirmed, and its predecessor deleted, only after a server of *)
(* that build answered for a model.                                        *)
ConfirmedByLoad ==
  [][build = "fresh" /\ build' = "confirmed" => last # NoOptions]_enginesVars
=============================================================================
