--------------------------- MODULE MCLocalEngines ---------------------------
(***************************************************************************)
(* Instances of LocalEngines for TLC.                                      *)
(***************************************************************************)
EXTENDS LocalEngines

\* A plain model and one with a companion projector.
TwoModels == {"small", "vision"}
OneModel == {"vision"}

MCFits == [m \in Model |-> MaxWindow]
MCRoomy == [m \in Model |-> 1]
MCExtras == [m \in Model |-> IF m = "vision" THEN {"projector"} ELSE {}]
=============================================================================
