------------------------------ MODULE MCClient -------------------------------
(***************************************************************************)
(* Client for TLC: one or two epochs with their certificate windows.       *)
(***************************************************************************)
EXTENDS Client

\* Windows that cover the whole horizon.
AlwaysFrom == [e \in Epoch |-> 0]
AlwaysTo == [e \in Epoch |-> MaxNow + 1]

\* The second epoch takes over halfway.
RotationFrom == [e \in Epoch |-> IF e = "E1" THEN 0 ELSE 2]
=============================================================================
