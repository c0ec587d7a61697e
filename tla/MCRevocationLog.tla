--------------------------- MODULE MCRevocationLog ---------------------------
(***************************************************************************)
(* A license with one machine and, in some runs, an epoch; a handler and   *)
(* the cron.                                                               *)
(***************************************************************************)
EXTENDS RevocationLog, TLC

CONSTANTS l1, m1, e1, r1, r2

\* The request handlers run the same code.
HandlerSymmetry == Permutations(Client)

\* A machine and an epoch; a machine and its license.
MCMachineEpoch == (r1 :> m1) @@ (r2 :> e1)
MCMachineLicense == (r1 :> m1) @@ (r2 :> l1)
MCLicenseOf == (l1 :> l1) @@ (m1 :> l1)

=============================================================================
