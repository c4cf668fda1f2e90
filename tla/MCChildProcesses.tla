-------------------------- MODULE MCChildProcesses --------------------------
(***************************************************************************)
(* An instance of ChildProcesses for TLC.                                  *)
(***************************************************************************)
EXTENDS ChildProcesses

\* A plain model, one with a companion projector, and a split one with a part missing.
ThreeModels == {"small", "vision", "split"}

MCFits == [m \in ChatModel |-> 1]
MCExtras == [m \in ChatModel |-> IF m = "vision" THEN {"projector"} ELSE {}]
=============================================================================
