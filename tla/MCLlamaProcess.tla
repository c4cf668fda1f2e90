--------------------------- MODULE MCLlamaProcess ---------------------------
(***************************************************************************)
(* Instances of LlamaProcess for TLC.                                      *)
(***************************************************************************)
EXTENDS LlamaProcess

\* A plain model and one with a companion projector.
TwoModels == {"small", "vision"}

\* The same, and a split model one part of which is missing.
ThreeModels == {"small", "vision", "split"}

MCFits == [m \in Model |-> MaxWindow]
MCRoomy == [m \in Model |-> IF m = "small" THEN MaxWindow ELSE 1]
MCExtras == [m \in Model |-> IF m = "vision" THEN {"projector"} ELSE {}]
=============================================================================
