--------------------------- MODULE ColibriProcess ---------------------------
(***************************************************************************)
(* The engine for models too large for memory:                             *)
(* win/electron/colibriProcess.cjs, which owns one gateway process.  Every *)
(* start gets a port of its own, so a gateway only ever answers the start  *)
(* that spawned it.                                                        *)
(***************************************************************************)
EXTENDS Integers, FiniteSets

CONSTANTS
  Attempt,  \* the starts of a behaviour, which also name their gateways (a bound)
  Overlap   \* whether a start may be made while another one is in flight

NoGateway == 0

VARIABLES
  starts,   \* starts[s]: where the start s is
  gateway,  \* gateway[s]: the process the start s spawned
  child     \* `child'

cvars == <<starts, gateway, child>>

Failures == {"engine-missing", "stopped-loading", "another-model", "load-timeout"}

Waiting(s) == starts[s] \in {"port", "poll", "asking", "draining"}
Running(s) == gateway[s] \in {"loading", "listening", "healthy"}

CTypeOK ==
  /\ starts \in [Attempt -> {"idle", "port", "poll", "asking", "draining", "loaded"} \cup Failures]
  /\ gateway \in [Attempt ->
       {"none", "loading", "listening", "healthy", "unstartable", "dead", "exited",
        "killed", "reaped"}]
  /\ child \in Attempt \cup {NoGateway}

CInit ==
  /\ starts = [s \in Attempt |-> "idle"]
  /\ gateway = [s \in Attempt |-> "none"]
  /\ child = NoGateway

-----------------------------------------------------------------------------
(* Faulty variants of definitions below, see ParallelCalls.                *)

(* Any exit is taken for the exit of the running gateway. *)
GatewayExitOfAny(s) ==
  /\ gateway[s] \in {"dead", "killed"}
  /\ gateway' = [gateway EXCEPT ![s] = IF @ = "killed" THEN "reaped" ELSE "exited"]
  /\ child' = NoGateway
  /\ UNCHANGED starts

(* A failure of no known kind. *)
DrainedUnclassified(s) ==
  /\ starts[s] = "draining"
  /\ starts' = [starts EXCEPT ![s] = "failed"]
  /\ UNCHANGED <<gateway, child>>

-----------------------------------------------------------------------------
(* stopSync: kill what `child' points to, if anything. *)
Killed(s) == [gateway EXCEPT ![s] = IF @ = "unstartable" THEN @ ELSE "killed"]

stopSync ==
  IF child = NoGateway
    THEN UNCHANGED <<gateway, child>>
    ELSE gateway' = Killed(child) /\ child' = NoGateway

Become(s, at) == starts' = [starts EXCEPT ![s] = at]

(* The head of start: stop the running gateway, then ask for a port. *)
start(s) ==
  /\ starts[s] = "idle"
  /\ stopSync
  /\ Become(s, "port") \/ Become(s, "engine-missing")

(* The port is known: spawn, whatever `child' holds by now; or spawn threw. *)
SpawnGateway(s) ==
  /\ starts[s] = "port"
  /\ \/ /\ Become(s, "poll")
        /\ gateway' = [gateway EXCEPT ![s] = "loading"]
        /\ child' = s
     \/ Become(s, "engine-missing") /\ UNCHANGED <<gateway, child>>

(* One turn of the waiting loop, up to its next await.  That its gateway   *)
(* exited is looked at before whether it was replaced.                     *)
Exited(s) == gateway[s] \in {"exited", "reaped"}

PollGateway(s) ==
  /\ starts[s] = "poll"
  /\ \/ gateway[s] = "unstartable" /\ Become(s, "engine-missing") /\ UNCHANGED <<gateway, child>>
     \/ Exited(s) /\ Become(s, "draining") /\ UNCHANGED <<gateway, child>>
     \/ /\ gateway[s] # "unstartable" /\ ~Exited(s) /\ child # s
        /\ Become(s, "another-model")
        /\ UNCHANGED <<gateway, child>>
     \/ /\ child = s /\ gateway[s] \in {"listening", "healthy", "dead"}
        /\ Become(s, "asking")
        /\ UNCHANGED <<gateway, child>>
     \/ /\ child = s /\ gateway[s] \in {"loading", "dead"}
        /\ Become(s, "load-timeout")
        /\ stopSync

(* /health answered, or not, and then it may have been silent too long. *)
HealthAnswered(s) ==
  /\ starts[s] = "asking"
  /\ IF gateway[s] = "healthy"
       THEN Become(s, "loaded") /\ UNCHANGED <<gateway, child>>
       ELSE \/ Become(s, "poll") /\ UNCHANGED <<gateway, child>>
            \/ Become(s, "load-timeout") /\ stopSync

(* The last lines of a gateway that ended have landed (what they say about *)
(* why it ended is not modelled). *)
Drained(s) ==
  /\ starts[s] = "draining"
  /\ Become(s, "stopped-loading")
  /\ UNCHANGED <<gateway, child>>

(* node reports that the gateway is gone. *)
GatewayExit(s) ==
  /\ gateway[s] \in {"dead", "killed"}
  /\ gateway' = [gateway EXCEPT ![s] = IF @ = "killed" THEN "reaped" ELSE "exited"]
  /\ child' = IF child = s THEN NoGateway ELSE child
  /\ UNCHANGED starts

(* The gateway itself (external). *)
GatewayStep(s) ==
  /\ \/ gateway[s] = "loading" /\ gateway' = [gateway EXCEPT ![s] = "unstartable"]
     \/ gateway[s] = "loading" /\ gateway' = [gateway EXCEPT ![s] = "listening"]
     \/ gateway[s] = "listening" /\ gateway' = [gateway EXCEPT ![s] = "healthy"]
     \/ Running(s) /\ gateway' = [gateway EXCEPT ![s] = "dead"]
  /\ UNCHANGED <<starts, child>>

(* One step of a start that is under way. *)
StartStep(s) ==
  SpawnGateway(s) \/ PollGateway(s) \/ HealthAnswered(s) \/ Drained(s)

(* colibri:stop, quitting, llama.cpp taking over. *)
Stop == child # NoGateway /\ stopSync /\ UNCHANGED starts

MayStart == Overlap \/ \A s \in Attempt : ~Waiting(s)

CNext ==
  \/ \E s \in Attempt :
        (MayStart /\ start(s)) \/ StartStep(s) \/ GatewayExit(s) \/ GatewayStep(s)
  \/ Stop

CSpec == CInit /\ [][CNext]_cvars

-----------------------------------------------------------------------------
(* Of all gateways at most one is alive, and it is the one stopSync kills. *)
OneGateway == \A s \in Attempt : Running(s) => child = s

(* status never names a gateway that was stopped or whose exit was seen.   *)
ChildKnown == child # NoGateway => gateway[child] \notin {"killed", "reaped", "exited"}

(* A start that reports success still owns the engine: telemetry, health   *)
(* and the next stop are about its gateway.                                *)
LoadedIsOwned ==
  [][\A s \in Attempt : starts[s] # "loaded" /\ starts'[s] = "loaded" => child = s]_cvars
=============================================================================
