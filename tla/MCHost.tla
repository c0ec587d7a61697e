------------------------------- MODULE MCHost -------------------------------
(***************************************************************************)
(* The client under a quiet license, and the bindings that carry calls to  *)
(* it: focus picks one of them and the others stand still.                 *)
(***************************************************************************)
EXTENDS MCClient, HostBinding

CONSTANT Focus

VARIABLE focus

HostRunInit == focus \in Focus /\ Init /\ HostInit

HostRunNext ==
  /\ UNCHANGED focus
  /\ \/ focus = "client" /\ Next /\ UNCHANGED hostVars
     \/ focus = "ffi" /\ FfiNext /\ UNCHANGED <<vars, ipcVars, mounts>>
     \/ focus = "ipc" /\ (AttachNext \/ LimiterNext) /\ UNCHANGED <<vars, ffiVars, mounts>>
     \/ focus = "view" /\ ViewNext /\ UNCHANGED <<vars, ffiVars, ipcVars>>

\* The client's own fairness, which says nothing where the client stands still.
HostRunSpec == HostRunInit /\ [][HostRunNext]_<<focus, vars, hostVars>> /\ Fairness
=============================================================================
