----------------------------- MODULE CoreLicense -----------------------------
(***************************************************************************)
(* The in-memory license record of copylocker-server-core and the          *)
(* transitions over it: reserve_seat, commit_seat and reclaim_pending      *)
(* (activate.rs), validate and touch (validate.rs), heartbeat and          *)
(* reclaim_zombies (heartbeat.rs), deactivate (deactivate.rs) and revoke   *)
(* (revoke.rs).  Devices drift: their attributes change one at a time and  *)
(* their digest with them.                                                 *)
(***************************************************************************)
EXTENDS Rules

LOCAL INSTANCE SequencesExt

CONSTANTS CoreDevice,    \* devices
          CoreWeights,   \* weight of every attribute
          MaxDrift,      \* attribute changes of the devices together
          MaxRow,        \* activations drawn
          CoreTime,      \* last instant
          PENDING_TTL, HeartbeatSecs,
          CorePolicy,    \* the policy, a record of Rules
          CoreRegistry   \* the registered releases

HEARTBEAT_GRACE == 3

VARIABLES cnow,
          clic,   \* status, expiry and seat override (0: none) of the license
          seatRows,   \* its activations, in the order they were made
          hw,     \* what every device is now: its attributes
          drift,  \* attribute changes so far
          killed  \* the row the last step sent a kill order, the reason and the release it ran

coreVars == <<cnow, clic, seatRows, hw, drift, killed>>

HoldsSeat(st) == st \in {"active", "pending"}
OccupiedSeats == Quantify(DOMAIN seatRows, LAMBDA i : HoldsSeat(seatRows[i].st))
ActiveOnly == Quantify(DOMAIN seatRows, LAMBDA i : seatRows[i].st = "active")

Seats == IF clic.seats # 0 THEN clic.seats ELSE CorePolicy.seats
Usable == clic.status = "active" /\ (clic.exp = Never \/ cnow < clic.exp)

CoreInit ==
  /\ cnow = 0
  /\ clic \in [status : {"active"}, exp : {Never, 2}, seats : {0, 1}]
  /\ seatRows = <<>>
  /\ hw = [d \in CoreDevice |-> [k \in DOMAIN CoreWeights |-> <<d, 0>>]]
  /\ drift = 0 /\ killed = {}

CoreTick == cnow < CoreTime /\ cnow' = cnow + 1 /\ UNCHANGED <<clic, seatRows, hw, drift>> /\ killed' = {}

\* One attribute of a device changes: a replaced disk, another host name.
HardwareDrift(d, k) ==
  /\ drift < MaxDrift
  /\ hw' = [hw EXCEPT ![d][k] = <<d, @[2] + 1>>]
  /\ drift' = drift + 1
  /\ UNCHANGED <<cnow, clic, seatRows>> /\ killed' = {}

(***************************************************************************)
(* reserve_seat.  The release decides before a seat is spent; a device     *)
(* that matches an active row takes it over, another needs a free seat.    *)
(***************************************************************************)
Admits(release) ==
  LET d == Decide(CoreRegistry, CorePolicy.scope, release)
  IN d.d = "in_scope" \/ d = [d |-> "compromised", v |-> "warn"]

ActiveRows == SelectSeq([i \in DOMAIN seatRows |-> i], LAMBDA i : seatRows[i].st = "active")

\* The row a device is taken for: 0 if none.
Matched(d) ==
  LET idx == ActiveRows
      q == [stored |-> [i \in DOMAIN idx |-> [fp |-> seatRows[idx[i]].attrs, attrs |-> seatRows[idx[i]].attrs]],
            incoming |-> [fp |-> hw[d], attrs |-> hw[d]],
            tolerance |-> CorePolicy.tolerance, weights |-> CoreWeights]
      m == BestMatch(q)
  IN IF m.reuses THEN idx[m.at] ELSE 0

RefreshedRow(r, d) == [r EXCEPT !.attrs = hw[d], !.seen = cnow]

SeatLeftActive == ActiveOnly < Seats
SeatLeft == OccupiedSeats < Seats

ReserveSeat(d, release) ==
  /\ Usable /\ Admits(release)
  /\ IF Matched(d) # 0
     THEN seatRows' = [seatRows EXCEPT ![Matched(d)] = RefreshedRow(@, d)]
     ELSE /\ SeatLeft /\ Len(seatRows) < MaxRow
          /\ seatRows' = Append(seatRows, [st |-> "pending", attrs |-> hw[d], created |-> cnow, seen |-> cnow,
                                   transfers |-> 0])
  /\ UNCHANGED <<cnow, clic, hw, drift>> /\ killed' = {}

MayCommit(st) == st \in {"pending", "active"}

\* created_at only matters to a pending row.
CommitSeat(i) ==
  /\ MayCommit(seatRows[i].st) /\ seatRows[i].st # "active"
  /\ seatRows' = [seatRows EXCEPT ![i].st = "active", ![i].created = 0]
  /\ UNCHANGED <<cnow, clic, hw, drift>> /\ killed' = {}

Released(lapsed) == [i \in DOMAIN seatRows |-> IF i \in lapsed THEN [seatRows[i] EXCEPT !.st = "released"] ELSE seatRows[i]]

ReclaimPending ==
  /\ seatRows' = Released({i \in DOMAIN seatRows : seatRows[i].st = "pending" /\ cnow - seatRows[i].created >= PENDING_TTL})
  /\ seatRows' # seatRows
  /\ UNCHANGED <<cnow, clic, hw, drift>> /\ killed' = {}

(***************************************************************************)
(* validate and touch.  Only a dead activation, a revoked license or a     *)
(* withdrawn release is answered with a kill order.                        *)
(***************************************************************************)
KillReason(i, release) ==
  LET d == Decide(CoreRegistry, CorePolicy.scope, release)
  IN CASE clic.status = "revoked" -> "revoked_license"
       [] clic.status # "revoked" /\ seatRows[i].st = "revoked" -> "revoked_activation"
       [] clic.status # "revoked" /\ seatRows[i].st = "released" -> "seat_reclaimed"
       [] OTHER -> IF Usable /\ d = [d |-> "compromised", v |-> "revoke"] THEN "fraud" ELSE "none"

ValidateSeat(i, release) ==
  LET reason == KillReason(i, release)
      d == Decide(CoreRegistry, CorePolicy.scope, release).d
  IN /\ \/ reason # "none" /\ killed' = {<<i, reason, release>>} /\ UNCHANGED seatRows
        \/ /\ reason = "none" /\ Usable /\ d # "not_registered"
           /\ seatRows' = [seatRows EXCEPT ![i].seen = cnow]
           /\ killed' = {}
     /\ UNCHANGED <<cnow, clic, hw, drift>>

CoreHeartbeat(i) ==
  /\ Usable /\ seatRows[i].st = "active"
  /\ seatRows' = [seatRows EXCEPT ![i].seen = cnow]
  /\ UNCHANGED <<cnow, clic, hw, drift>> /\ killed' = {}

Cutoff == cnow - HeartbeatSecs * HEARTBEAT_GRACE

ReclaimZombies ==
  /\ HeartbeatSecs > 0
  /\ seatRows' = Released({i \in DOMAIN seatRows : seatRows[i].st = "active" /\ seatRows[i].seen < Cutoff})
  /\ seatRows' # seatRows
  /\ UNCHANGED <<cnow, clic, hw, drift>> /\ killed' = {}

DeactivateSeat(i) ==
  /\ HoldsSeat(seatRows[i].st)
  /\ seatRows' = [seatRows EXCEPT ![i].st = "released", ![i].transfers = @ + 1]
  /\ UNCHANGED <<cnow, clic, hw, drift>> /\ killed' = {}

RevokeSeat(i) ==
  /\ seatRows[i].st # "revoked"
  /\ seatRows' = [seatRows EXCEPT ![i].st = "revoked"]
  /\ UNCHANGED <<cnow, clic, hw, drift>> /\ killed' = {}

RevokeLicense ==
  /\ clic.status # "revoked"
  /\ clic' = [clic EXCEPT !.status = "revoked"]
  /\ UNCHANGED <<cnow, seatRows, hw, drift>> /\ killed' = {}

\* The operator's status change, written by the storage port.
Administer(st) ==
  /\ clic.status # "revoked" /\ clic.status # st
  /\ clic' = [clic EXCEPT !.status = st]
  /\ UNCHANGED <<cnow, seatRows, hw, drift>> /\ killed' = {}

CoreReleases == {r.id : r \in Range(CoreRegistry)} \cup {"unknown"}

CoreSteps(D) ==
  \/ \E d \in D, r \in CoreReleases : ReserveSeat(d, r)
  \/ \E i \in DOMAIN seatRows : \/ CommitSeat(i) \/ CoreHeartbeat(i) \/ DeactivateSeat(i) \/ RevokeSeat(i)
                            \/ \E r \in CoreReleases : ValidateSeat(i, r)

CoreClock ==
  \/ CoreTick \/ ReclaimPending \/ ReclaimZombies \/ RevokeLicense
  \/ \E st \in {"active", "suspended"} : Administer(st)

DriftStep == \E d \in CoreDevice, k \in DOMAIN CoreWeights : HardwareDrift(d, k)

CoreNext == CoreSteps(CoreDevice) \/ CoreClock \/ DriftStep

CoreSpec == CoreInit /\ [][CoreNext]_coreVars

(***************************************************************************)
(* Properties.                                                             *)
(***************************************************************************)
\* activate.rs "would let two concurrent requests both pass the seat check":
\* reservations, committed or not, never hold more seats than the policy has.
SeatsNotOversold == OccupiedSeats <= Seats

\* validate.rs "a kill order is only produced for conditions that genuinely
\* warrant destroying the client's credential": a suspended or expired license
\* is refused, never wiped; what was wiped was dead, or ran a release that was
\* withdrawn, and not another release of the product.
KillWarranted ==
  \A k \in killed :
    \/ k[2] = "revoked_license" /\ clic.status = "revoked"
    \/ k[2] \in {"revoked_activation", "seat_reclaimed"} /\ ~HoldsSeat(seatRows[k[1]].st)
    \/ /\ k[2] = "fraud" /\ Usable /\ HoldsSeat(seatRows[k[1]].st)
       /\ \E r \in Range(CoreRegistry) : r.id = k[3] /\ r.status = "compromised" /\ r.action = "revoke"

\* The in-memory record oversells no seat through reservations, late commits,
\* reclaims and sweeps, and orders a kill only for a condition that is final
\* (reserve_seat, commit_seat, validate).
RecordSound == SeatsNotOversold /\ KillWarranted
=============================================================================
