------------------------------ MODULE MCLicense ------------------------------
(***************************************************************************)
(* Two questions to the License Durable Object in one run: focus picks one. *)
(***************************************************************************)
EXTENDS MCLicenseDO

CONSTANTS k1, k2

VARIABLE focus

\* Machine ids and keys are interchangeable: they are drawn in one order.
DrawnInOrder ==
    /\ m2 \in minted' => m1 \in minted'
    /\ m3 \in minted' => m2 \in minted'
    /\ (idem[k2] = NoEntry /\ idem'[k2] # NoEntry) => idem[k1] # NoEntry

\* Two devices compete for seats that an admin update cuts.
SeatsFocus ==
    /\ focus = "seats"
    /\ UNCHANGED <<nonces, revocationEpoch>>
    /\ \A o \in DOMAIN opIdem \ {a1} : opIdem'[o] = NoTime

\* One device, two machine ids: revocations, updates, an erase and requests.
RevocationFocus ==
    /\ focus = "revocation"
    /\ now' <= 1
    /\ m3 \notin minted' /\ idem'[k2] = NoEntry /\ idem'[k1].body # b3

LicenseInit == Init /\ focus \in {"seats", "revocation"}
LicenseNext == /\ Next /\ UNCHANGED focus
               /\ DrawnInOrder
               /\ SeatsFocus \/ RevocationFocus
==============================================================================
