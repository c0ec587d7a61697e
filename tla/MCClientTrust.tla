---------------------------- MODULE MCClientTrust ----------------------------
(***************************************************************************)
(* Two questions to the desktop client in one run: focus picks one.  The   *)
(* second is asked of the Worker only.                                     *)
(***************************************************************************)
EXTENDS MCClient

VARIABLE focus

\* The third epoch ends before the horizon, the others do not.
ThirdShort == [e \in Epoch |-> IF e = "E3" THEN MaxNow - 1 ELSE MaxNow + 1]

\* A deactivation, a second activation and a restart around the import and the
\* revocation of an epoch; the clock stands at the horizon and the network holds
\* (the other focus loses requests).  The host gives no hint: with the clock still,
\* a hint asks for no validation that is not due anyway.
TrustFocus ==
    /\ focus = "trust"
    /\ lag' = 0 /\ online' /\ license'.status # "suspended" /\ "E3" \notin epochs'
    /\ \A p \in Task : job'[p].art.ok # "denied"
    /\ ~sched'.hint

\* The ends of a suspended or denied license and of its only epoch; a suspended
\* license stays so.
DeadlineFocus ==
    /\ focus = "deadline"
    /\ log' = <<>> /\ epochs' = epochs /\ seat'[2] = "none"
    /\ job'["host"].op # "deactivate"
    /\ license.status = "suspended" => license'.status # "active"

TrustInit ==
    \/ focus = "trust" /\ InitAt(MaxNow, {"E1"}, 0)
    \/ focus = "deadline" /\ peer = "worker" /\ InitAt(1, {"E3"}, LicenseEnd)

TrustNext == Next /\ UNCHANGED focus /\ (TrustFocus \/ DeadlineFocus)
=============================================================================
