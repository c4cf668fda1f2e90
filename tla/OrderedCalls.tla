---------------------------- MODULE OrderedCalls ----------------------------
(***************************************************************************)
(* What runCalls (win/src/agent/parallelCalls.ts) promises the agent loop, *)
(* without its batches and workers: calls start and settle in any order    *)
(* that never lets a call overlap an earlier one it conflicts with, never  *)
(* leaves a gap before a started call, never exceeds the width, and starts *)
(* nothing once the turn is stopped.                                       *)
(***************************************************************************)
EXTENDS Integers, FiniteSets

CONSTANTS N, Width

Call == 1..N

VARIABLES safe, st, aborted, outcome
vars == <<safe, st, aborted, outcome>>

Settled == {"done", "failed"}

Init ==
  /\ safe \in [Call -> BOOLEAN]
  /\ st = [c \in Call |-> "waiting"]
  /\ aborted \in BOOLEAN
  /\ outcome = "none"

(* What one call may become in a step. *)
MayBecome ==
  {<<"waiting", "running">>, <<"running", "done">>, <<"running", "failed">>}

(* A call may start beside what is still running. *)
MayStart(d) ==
  /\ ~aborted
  /\ \A c \in Call : c < d =>
        /\ st'[c] # "waiting"
        /\ ~(safe[c] /\ safe[d]) => st'[c] \in Settled

(* Some running calls settle and some waiting ones start. *)
Advance ==
  /\ outcome = "none"
  /\ st' \in [Call -> {"waiting", "running"} \cup Settled]
  /\ \A c \in Call :
        /\ st'[c] = st[c] \/ <<st[c], st'[c]>> \in MayBecome
        /\ st[c] = "waiting" /\ st'[c] = "running" => MayStart(c)
  /\ Cardinality({c \in Call : st'[c] = "running"}) <= Width
  /\ UNCHANGED <<safe, aborted, outcome>>

(* The results go out: every call has one, or the turn was stopped. *)
Return ==
  /\ outcome = "none"
  /\ \A c \in Call : st[c] = "done" \/ (aborted /\ st[c] = "waiting")
  /\ outcome' = "returned"
  /\ UNCHANGED <<safe, st, aborted>>

(* An error goes out, once nothing runs any more. *)
Throw ==
  /\ outcome = "none"
  /\ \E c \in Call : st[c] = "failed" \/ st'[c] = "failed"
  /\ \A c \in Call : st'[c] # "running"
  /\ \A c \in Call : st'[c] = st[c] \/ <<st[c], st'[c]>> \in MayBecome
  /\ st' \in [Call -> {"waiting", "running"} \cup Settled]
  /\ outcome' = "threw"
  /\ UNCHANGED <<safe, aborted>>

Abort ==
  /\ aborted' = TRUE
  /\ UNCHANGED <<safe, st, outcome>>

Next == Advance \/ Return \/ Throw \/ Abort
Spec == Init /\ [][Next]_vars
=============================================================================
